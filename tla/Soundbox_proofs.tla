--------------------------- MODULE Soundbox_proofs ---------------------------
(***************************************************************************)
(* Proofs about the soundbox: its QRIS menu and MQTT thread (Soundbox) for *)
(* any number of requests, lost connections and restarts; what it says of  *)
(* an amount (Voice, AmountWords) for every amount; its card payments      *)
(* (CardPayment) for any number of sales and applications.                 *)
(***************************************************************************)
EXTENDS Soundbox, AmountWords, CardPayment, FiniteSetTheorems, SequenceTheorems,
        WellFoundedInduction, TLAPS

----------------------------------------------------------------------------
(* Presses and messages *)

LEMMA PressFacts ==
  /\ Presses \in Nat /\ Press \subseteq Nat
  /\ \A p : p \in Press <=> p \in Nat /\ 1 <= p /\ p <= Presses
  /\ Torn \notin Press /\ None \notin Press /\ None # Torn /\ 0 \notin Press
  BY SoundboxAssumption DEF Press, Torn, None

LEMMA PressFinite == IsFiniteSet(Press)
  BY SoundboxAssumption, FS_Interval DEF Press

\* The message in delivery.
LEMMA HeadFacts ==
  ASSUME down \in Seq(Messages), down # <<>>
  PROVE  /\ 1 \in DOMAIN down /\ Head(down) = down[1]
         /\ down[1] \in Messages
         /\ down[1].kind \in {"QR", "Mp3", "Text"} /\ down[1].press \in Press
<1>1. Len(down) \in Nat /\ Len(down) # 0 /\ DOMAIN down = 1..Len(down)
  BY EmptySeq
<1>2. 1 \in DOMAIN down
  BY <1>1
<1>3. down[1] \in Messages
  BY <1>2, ElementOfSeq
<1>4. Head(down) = down[1]
  BY HeadTailProperties
<1>5. QED BY <1>2, <1>3, <1>4 DEF Messages

\* Messages keep their place until the one in delivery is acknowledged.
LEMMA TailFacts ==
  ASSUME down \in Seq(Messages), down # <<>>
  PROVE  /\ Tail(down) \in Seq(Messages)
         /\ \A k \in DOMAIN Tail(down) : /\ k \in Nat \ {0}
                                         /\ k + 1 \in DOMAIN down
                                         /\ Tail(down)[k] = down[k + 1]
         /\ \A k \in DOMAIN down : k # 1 => /\ k - 1 \in DOMAIN Tail(down)
                                            /\ Tail(down)[k - 1] = down[k]
<1>1. /\ Tail(down) \in Seq(Messages)
      /\ Len(Tail(down)) = Len(down) - 1
      /\ \A i \in 1..Len(Tail(down)) : Tail(down)[i] = down[i + 1]
  BY HeadTailProperties
<1>2. Len(down) \in Nat /\ DOMAIN down = 1..Len(down)
  BY EmptySeq
<1>3. DOMAIN Tail(down) = 1..Len(Tail(down))
  BY <1>1
<1>4. \A k \in DOMAIN Tail(down) : /\ k \in Nat \ {0}
                                   /\ k + 1 \in DOMAIN down
                                   /\ Tail(down)[k] = down[k + 1]
  BY <1>1, <1>2, <1>3
<1>5. \A k \in DOMAIN down : k # 1 => /\ k - 1 \in DOMAIN Tail(down)
                                      /\ Tail(down)[k - 1] = down[k]
  <2> SUFFICES ASSUME NEW k \in DOMAIN down, k # 1
               PROVE  k - 1 \in DOMAIN Tail(down) /\ Tail(down)[k - 1] = down[k]
    OBVIOUS
  <2>1. k \in Nat /\ k - 1 \in 1..(Len(down) - 1) /\ (k - 1) + 1 = k
    BY <1>2
  <2>2. Tail(down)[k - 1] = down[(k - 1) + 1]
    BY <1>1, <2>1
  <2>3. QED BY <1>1, <1>3, <2>1, <2>2
<1>6. QED BY <1>1, <1>4, <1>5

LEMMA DeliverFacts ==
  ASSUME down \in Seq(Messages), NEW kind \in {"QR", "Mp3", "Text"}, NEW p \in Press,
         Deliver(kind, p)
  PROVE  /\ down' \in Seq(Messages) /\ down' # <<>>
         /\ \A k \in DOMAIN down : k \in DOMAIN down' /\ down'[k] = down[k]
         /\ \A k \in DOMAIN down' : \/ k \in DOMAIN down
                                    \/ down'[k] = [kind |-> kind, press |-> p]
         /\ \E k \in DOMAIN down' : /\ down'[k] = [kind |-> kind, press |-> p]
                                    /\ down # <<>> => k # 1
         /\ \A k, l \in DOMAIN down' : k \notin DOMAIN down /\ l \notin DOMAIN down => k = l
         /\ \A k \in DOMAIN down' : k \notin DOMAIN down /\ down # <<>> => k # 1
<1> DEFINE m == [kind |-> kind, press |-> p]
<1>1. m \in Messages
  BY DEF Messages
<1>2. down' = Append(down, m)
  BY DEF Deliver
<1> HIDE DEF m
<1>3. /\ Append(down, m) \in Seq(Messages)
      /\ Append(down, m) # <<>>
      /\ Len(Append(down, m)) = Len(down) + 1
      /\ \A i \in 1..Len(down) : Append(down, m)[i] = down[i]
      /\ Append(down, m)[Len(down) + 1] = m
  BY <1>1, AppendProperties
<1>4. /\ Len(down) \in Nat /\ DOMAIN down = 1..Len(down)
      /\ down # <<>> => Len(down) # 0
  BY EmptySeq
<1>5. DOMAIN down' = 1..(Len(down) + 1)
  BY <1>2, <1>3
<1>6. Len(down) + 1 \in DOMAIN down' /\ down'[Len(down) + 1] = m
      /\ (down # <<>> => Len(down) + 1 # 1)
  BY <1>2, <1>3, <1>4, <1>5
<1>7. \A k \in DOMAIN down' : k \in DOMAIN down \/ k = Len(down) + 1
  BY <1>4, <1>5
<1>8. \A k \in DOMAIN down : k \in DOMAIN down' /\ down'[k] = down[k]
  BY <1>2, <1>3, <1>4, <1>5
<1>9. QED
  <2>1. \A k \in DOMAIN down' : k \in DOMAIN down \/ down'[k] = m
    BY <1>6, <1>7
  <2>2. \A k, l \in DOMAIN down' : k \notin DOMAIN down /\ l \notin DOMAIN down => k = l
    BY <1>7
  <2>3. \A k \in DOMAIN down' : k \notin DOMAIN down /\ down # <<>> => k # 1
    BY <1>6, <1>7
  <2>4. \E k \in DOMAIN down' : down'[k] = m /\ (down # <<>> => k # 1)
    BY <1>6
  <2>5. QED BY <1>2, <1>3, <1>8, <2>1, <2>2, <2>3, <2>4 DEF m

----------------------------------------------------------------------------
(* Type correctness *)

LEMMA InitType == Init => TypeOK
<1> SUFFICES ASSUME Init PROVE TypeOK
  OBVIOUS
<1> USE PressFacts
<1>1. down \in Seq(Messages)
  BY EmptySeq DEF Init
<1>2. asked \in [Press -> Nat] /\ sent \in [Press -> Nat]
  BY DEF Init
<1>3. shown \in [Press -> Press \union {Torn, None}]
  BY DEF Init
<1>4. ending \in [Press -> Endings]
  BY DEF Init, Endings
<1>5. drops \in 0..MaxDrops /\ cur \in 0..Presses
  BY SoundboxAssumption DEF Init
<1>6. QED BY <1>1, <1>2, <1>3, <1>4, <1>5 DEF Init, TypeOK

LEMMA EndType ==
  ASSUME TypeOK, cur \in Press, NEW how \in Endings, End(how)
  PROVE  /\ ending' \in [Press -> Endings] /\ menu' = "idle"
         /\ ending'[cur] = how
         /\ \A q \in Press : q # cur => ending'[q] = ending[q]
  BY DEF TypeOK, End, Goto

\* What ends a request, or goes on with it, touches nothing else.
LEMMA EndedType ==
  ASSUME TypeOK, ending' \in [Press -> Endings],
         menu' \in {"idle", "clearPaid", "setAmount", "raise", "wait", "draw", "look", "count"},
         UNCHANGED <<globals, cur, mqtt, handler, env, shown, sent, raised, heard, drops>>
  PROVE  TypeOK'
<1>1. /\ pending' = pending /\ amount' = amount /\ ready' = ready /\ reply' = reply
      /\ paid' = paid /\ cur' = cur /\ mqtt' = mqtt /\ handler' = handler
      /\ down' = down /\ asked' = asked /\ money' = money /\ announced' = announced
      /\ shown' = shown /\ sent' = sent /\ raised' = raised /\ heard' = heard
      /\ drops' = drops
  BY DEF globals, env
<1>2. /\ pending' \in BOOLEAN /\ ready' \in BOOLEAN /\ paid' \in BOOLEAN
      /\ amount' \in Press \union {0} /\ reply' \in Press \union {Torn}
      /\ cur' \in 0..Presses /\ mqtt' \in {"offline", "yield", "take", "puback"}
      /\ handler' \in {"none", "copy", "flag", "play", "ack"}
  BY <1>1 DEF TypeOK
<1>3. /\ down' \in Seq(Messages) /\ asked' \in [Press -> Nat]
      /\ money' \subseteq Press /\ announced' \subseteq money' /\ heard' \subseteq announced'
      /\ shown' \in [Press -> Press \union {Torn, None}] /\ sent' \in [Press -> Nat]
      /\ raised' \in Nat /\ drops' \in 0..MaxDrops
  BY <1>1 DEF TypeOK
<1>4. QED BY <1>2, <1>3 DEF TypeOK

LEMMA MenuType ==
  ASSUME TypeOK, PressInv, MenuThread
  PROVE  TypeOK'
<1> USE PressFacts
<1>1. menu # "idle" => cur \in Press
  BY DEF PressInv
<1>2. CASE ClearReply
  <2>1. cur' \in 0..Presses
    BY <1>2 DEF ClearReply, TypeOK
  <2>2. QED BY <1>2, <2>1 DEF ClearReply, Goto, TypeOK, env, history
<1>3. CASE ClearPaid
  BY <1>3 DEF ClearPaid, Goto, TypeOK, env, history
<1>4. CASE SetAmount
  BY <1>1, <1>4 DEF SetAmount, Goto, TypeOK, env, history
<1>5. CASE RaisePending
  BY <1>5 DEF RaisePending, Goto, TypeOK, env, history
<1>6. CASE SeeReply
  BY <1>6 DEF SeeReply, Goto, TypeOK, globals, env, history
<1>7. CASE GiveUp
  <2>1. ending' \in [Press -> Endings] /\ menu' = "idle"
    BY <1>1, <1>7, EndType DEF GiveUp, Endings
  <2>2. QED BY <1>7, <2>1 DEF GiveUp, TypeOK, globals, env
<1>8. CASE DrawCode
  <2>1. shown' \in [Press -> Press \union {Torn, None}]
    BY <1>1, <1>8 DEF DrawCode, TypeOK
  <2>2. QED BY <1>8, <2>1 DEF DrawCode, Goto, TypeOK, globals, env
<1>9. CASE LookAtPaid
  <2>1. ending' \in [Press -> Endings] /\ menu' \in {"idle", "count"}
    <3>1. CASE End("paid")
      BY <3>1 DEF End, Goto, TypeOK, Endings
    <3>2. CASE Goto("count") /\ UNCHANGED ending
      BY <3>2 DEF Goto, TypeOK
    <3>3. QED BY <1>9, <3>1, <3>2 DEF LookAtPaid
  <2>2. UNCHANGED <<globals, cur, mqtt, handler, env, shown, sent, raised, heard, drops>>
    BY <1>9 DEF LookAtPaid
  <2>3. QED BY <2>1, <2>2, EndedType
<1>10. CASE Count
  <2>1. ending' \in [Press -> Endings] /\ menu' \in {"idle", "look"}
    BY <1>1, <1>10, EndType DEF Count, Goto, Endings, TypeOK
  <2>2. UNCHANGED <<globals, cur, mqtt, handler, env, shown, sent, raised, heard, drops>>
    BY <1>10 DEF Count
  <2>3. QED BY <2>1, <2>2, EndedType
<1>11. QED
  BY <1>2, <1>3, <1>4, <1>5, <1>6, <1>7, <1>8, <1>9, <1>10 DEF MenuThread

LEMMA MqttType ==
  ASSUME TypeOK, MessageInv, PressInv, MqttThread
  PROVE  TypeOK'
<1>1. handler # "none" => down # <<>>
  BY DEF MessageInv
<1>2. down # <<>> => /\ down[1].kind \in {"QR", "Mp3", "Text"} /\ down[1].press \in Press
                     /\ Head(down) = down[1] /\ 1 \in DOMAIN down
                     /\ Tail(down) \in Seq(Messages)
  BY HeadFacts, TailFacts DEF TypeOK
<1>3. CASE Connect
  BY <1>3 DEF Connect, TypeOK, globals, env, history
<1>4. CASE Arrive
  <2>1. paid' \in BOOLEAN /\ raised' \in Nat /\ reply' \in Press \union {Torn}
        /\ handler' \in {"copy", "play"}
    <3>1. CASE Head(down).kind = "QR"
      BY <1>4, <3>1 DEF Arrive, TypeOK
    <3>2. CASE Head(down).kind # "QR"
      <4>1. raised' \in Nat /\ handler' = "play" /\ reply' = reply
        BY <1>4, <3>2 DEF Arrive, TypeOK
      <4>2. paid' \in BOOLEAN
        BY <1>4, <3>2 DEF Arrive, TypeOK
      <4>3. QED BY <4>1, <4>2 DEF TypeOK
    <3>3. QED BY <3>1, <3>2
  <2>2. /\ UNCHANGED <<pending, amount, ready, menu, cur, mqtt>>
        /\ UNCHANGED <<down, asked, money, announced>>
        /\ UNCHANGED <<shown, ending, sent, heard, drops>>
    BY <1>4 DEF Arrive, env
  <2>3. QED BY <2>1, <2>2 DEF TypeOK
<1>5. CASE CopyReply
  BY <1>1, <1>2, <1>5 DEF CopyReply, TypeOK, env, history
<1>6. CASE FlagReply
  BY <1>6 DEF FlagReply, TypeOK, env, history
<1>7. CASE Play
  <2>1. heard' \subseteq announced
    <3>1. down[1].kind = "Mp3" => down[1].press \in announced
      BY <1>1, <1>2, <1>7 DEF Play, MessageInv
    <3>2. heard' \subseteq heard \union {p \in announced : p = down[1].press}
      BY <1>1, <1>2, <1>7, <3>1 DEF Play
    <3>3. QED BY <3>2 DEF TypeOK
  <2>2. QED BY <1>7, <2>1 DEF Play, TypeOK, globals, env
<1>8. CASE Acknowledge
  BY <1>1, <1>2, <1>8 DEF Acknowledge, TypeOK, globals, history
<1>9. CASE TakeRequest
  BY <1>9 DEF TakeRequest, TypeOK, env, history
<1>10. CASE PublishRequest
  <2>1. asked' \in [Press -> Nat] /\ sent' \in [Press -> Nat]
    BY <1>10 DEF PublishRequest, TypeOK, PressInv
  <2>2. QED BY <1>10, <2>1 DEF PublishRequest, TypeOK, globals
<1>11. CASE RequestAcknowledged
  BY <1>11 DEF RequestAcknowledged, TypeOK, globals, env, history
<1>12. QED
  BY <1>3, <1>4, <1>5, <1>6, <1>7, <1>8, <1>9, <1>10, <1>11 DEF MqttThread

LEMMA StepType ==
  ASSUME TypeOK, MessageInv, PressInv, [Next]_vars
  PROVE  TypeOK'
<1>1. CASE MenuThread
  BY <1>1, MenuType
<1>2. CASE MqttThread
  BY <1>2, MqttType
<1>3. CASE LoseConnection
  <2>1. drops' \in 0..MaxDrops
    BY <1>3, SoundboxAssumption DEF LoseConnection, TypeOK
  <2>2. QED BY <1>3, <2>1 DEF LoseConnection, TypeOK, globals, env
<1>4. CASE Restart
  <2>1. drops' \in 0..MaxDrops
    BY <1>4, SoundboxAssumption DEF Restart, TypeOK
  <2>2. ending' \in [Press -> Endings]
    BY <1>4 DEF Restart, TypeOK, Endings
  <2>3. QED BY <1>4, <2>1, <2>2 DEF Restart, TypeOK, env
<1>5. ASSUME NEW p \in Press, Answer(p) PROVE TypeOK'
  <2>1. asked' \in [Press -> Nat]
    BY <1>5 DEF Answer, TypeOK
  <2>2. down' \in Seq(Messages)
    <3>1. PICK kind \in {"QR", "Text"} : Deliver(kind, p)
      BY <1>5 DEF Answer
    <3>2. down \in Seq(Messages) /\ kind \in {"QR", "Mp3", "Text"}
      BY DEF TypeOK
    <3>3. QED BY <3>1, <3>2, DeliverFacts
  <2>3. /\ UNCHANGED <<pending, amount, ready, reply, paid, menu, cur, mqtt, handler>>
        /\ UNCHANGED <<money, announced, shown, ending, sent, raised, heard, drops>>
    BY <1>5 DEF Answer, globals, threads, history
  <2>4. /\ pending' \in BOOLEAN /\ ready' \in BOOLEAN /\ paid' \in BOOLEAN
        /\ amount' \in Press \union {0} /\ reply' \in Press \union {Torn}
        /\ menu' \in {"idle", "clearPaid", "setAmount", "raise", "wait", "draw", "look", "count"}
        /\ cur' \in 0..Presses /\ mqtt' \in {"offline", "yield", "take", "puback"}
        /\ handler' \in {"none", "copy", "flag", "play", "ack"}
    BY <2>3 DEF TypeOK
  <2>5. /\ money' \subseteq Press /\ announced' \subseteq money' /\ heard' \subseteq announced'
        /\ shown' \in [Press -> Press \union {Torn, None}]
        /\ ending' \in [Press -> Endings] /\ sent' \in [Press -> Nat]
        /\ raised' \in Nat /\ drops' \in 0..MaxDrops
    BY <2>3 DEF TypeOK
  <2>6. QED BY <2>1, <2>2, <2>4, <2>5 DEF TypeOK
<1>6. ASSUME NEW p \in Press, Pay(p) PROVE TypeOK'
  <2>1. money' \subseteq Press /\ announced' \subseteq money'
    BY <1>6 DEF Pay, TypeOK
  <2>2. /\ UNCHANGED <<pending, amount, ready, reply, paid, menu, cur, mqtt, handler>>
        /\ UNCHANGED <<down, asked, announced, shown, ending, sent, raised, heard, drops>>
    BY <1>6 DEF Pay, globals, threads, history
  <2>3. QED BY <2>1, <2>2 DEF TypeOK
<1>7. ASSUME NEW p \in Press, Announce(p) PROVE TypeOK'
  <2>1. down' \in Seq(Messages)
    BY <1>7, DeliverFacts DEF Announce, TypeOK
  <2>2. QED BY <1>7, <2>1 DEF Announce, TypeOK, globals, threads, history
<1>8. CASE UNCHANGED vars
  BY <1>8 DEF vars, globals, threads, env, history, TypeOK
<1>9. QED BY <1>1, <1>2, <1>3, <1>4, <1>5, <1>6, <1>7, <1>8 DEF Next

----------------------------------------------------------------------------
(* The message in delivery *)

LEMMA QuietMessages ==
  ASSUME MessageInv, UNCHANGED <<handler, down, announced>>
  PROVE  MessageInv'
  BY DEF MessageInv

LEMMA MenuQuiet ==
  ASSUME MenuThread
  PROVE  UNCHANGED <<mqtt, handler, down, asked, money, announced, sent, raised, heard, drops>>
  BY DEF MenuThread, ClearReply, ClearPaid, SetAmount, RaisePending, SeeReply, GiveUp,
         DrawCode, LookAtPaid, Count, env, history

LEMMA StepMessages ==
  ASSUME TypeOK, MessageInv, [Next]_vars
  PROVE  MessageInv'
<1>0. down \in Seq(Messages)
  BY DEF TypeOK
<1>1. down # <<>> => /\ down[1].kind \in {"QR", "Mp3", "Text"} /\ Head(down) = down[1]
                     /\ 1 \in DOMAIN down
  BY <1>0, HeadFacts
<1>2. CASE MenuThread
  BY <1>2, MenuQuiet, QuietMessages
<1>3. CASE Connect \/ TakeRequest \/ PublishRequest \/ RequestAcknowledged
  <2>1. UNCHANGED <<handler, down, announced>>
    BY <1>3 DEF Connect, TakeRequest, PublishRequest, RequestAcknowledged, env
  <2>2. QED BY <2>1, QuietMessages
<1>4. CASE Arrive
  BY <1>1, <1>4 DEF Arrive, MessageInv, env
<1>5. CASE CopyReply
  BY <1>5 DEF CopyReply, MessageInv, env
<1>6. CASE FlagReply
  BY <1>6 DEF FlagReply, MessageInv, env
<1>7. CASE Play
  BY <1>7 DEF Play, MessageInv, env
<1>8. CASE Acknowledge
  <2>1. down # <<>> /\ down' = Tail(down) /\ handler' = "none" /\ announced' = announced
    BY <1>8 DEF Acknowledge, MessageInv
  <2>2. \A k \in DOMAIN Tail(down) : k + 1 \in DOMAIN down /\ Tail(down)[k] = down[k + 1]
    BY <1>0, <2>1, TailFacts
  <2>3. QED BY <2>1, <2>2 DEF MessageInv
<1>9. CASE LoseConnection \/ Restart
  BY <1>9 DEF LoseConnection, Restart, MessageInv, env
<1>10. ASSUME NEW p \in Press, Answer(p) \/ Announce(p) PROVE MessageInv'
  <2>1. PICK kind \in {"QR", "Mp3", "Text"} : Deliver(kind, p)
    BY <1>10 DEF Answer, Announce
  <2>2. /\ down' # <<>>
        /\ \A k \in DOMAIN down : k \in DOMAIN down' /\ down'[k] = down[k]
        /\ \A k \in DOMAIN down' : k \in DOMAIN down \/ down'[k] = [kind |-> kind, press |-> p]
    BY <1>0, <2>1, DeliverFacts
  <2>3. /\ handler' = handler /\ announced \subseteq announced'
        /\ Announce(p) => p \in announced'
    BY <1>10 DEF Answer, Announce, threads
  <2>4. CASE kind = "Mp3" /\ ~Announce(p)
    <3>1. PICK other \in {"QR", "Text"} : Deliver(other, p)
      BY <1>10, <2>4 DEF Answer
    <3>2. /\ \A k \in DOMAIN down' : k \in DOMAIN down \/ down'[k] = [kind |-> other, press |-> p]
      BY <1>0, <3>1, DeliverFacts
    <3>3. QED BY <1>1, <2>2, <2>3, <3>2 DEF MessageInv
  <2>5. CASE kind # "Mp3" \/ Announce(p)
    <3>1. \A k \in DOMAIN down' : down'[k].kind = "Mp3" => down'[k].press \in announced'
      BY <2>2, <2>3, <2>5 DEF MessageInv
    <3>2. QED BY <1>1, <2>2, <2>3, <3>1 DEF MessageInv
  <2>6. QED BY <2>4, <2>5
<1>11. ASSUME NEW p \in Press, Pay(p) PROVE MessageInv'
  BY <1>11 DEF Pay, MessageInv, threads
<1>12. CASE UNCHANGED vars
  BY <1>12, QuietMessages DEF vars, threads, env
<1>13. QED
  BY <1>2, <1>3, <1>4, <1>5, <1>6, <1>7, <1>8, <1>9, <1>10, <1>11, <1>12 DEF Next, MqttThread

\* The safety half of AnnouncementIsHeard: an announcement stays in the queue
\* until its handler has played it.
LEMMA StepKept ==
  ASSUME TypeOK, MessageInv, AnnouncementIsKept, [Next]_vars
  PROVE  AnnouncementIsKept'
<1>0. down \in Seq(Messages)
  BY DEF TypeOK
<1>1. down # <<>> => /\ down[1].kind \in {"QR", "Mp3", "Text"} /\ Head(down) = down[1]
                     /\ 1 \in DOMAIN down
  BY <1>0, HeadFacts
<1>2. CASE UNCHANGED <<handler, down, announced, heard>>
  BY <1>2 DEF AnnouncementIsKept
<1>3. CASE Arrive
  BY <1>3 DEF Arrive, AnnouncementIsKept, env
<1>4. CASE CopyReply
  BY <1>4 DEF CopyReply, AnnouncementIsKept, env, history
<1>5. CASE FlagReply
  BY <1>5 DEF FlagReply, AnnouncementIsKept, MessageInv, env, history
<1>6. CASE Play
  <2>1. Head(down) = down[1]
    BY <1>1, <1>6 DEF Play, MessageInv
  <2>2. /\ announced' = announced /\ down' = down
        /\ down[1].kind = "Mp3" => heard' = heard \union {down[1].press}
        /\ down[1].kind # "Mp3" => heard' = heard
    BY <1>6, <2>1 DEF Play, env
  <2>3. QED BY <2>2 DEF AnnouncementIsKept
<1>7. CASE Acknowledge
  <2>1. down # <<>> /\ down' = Tail(down) /\ handler = "ack" /\ handler' = "none"
        /\ announced' = announced /\ heard' = heard
    BY <1>7 DEF Acknowledge, MessageInv, history
  <2>2. \A k \in DOMAIN down : k # 1 => /\ k - 1 \in DOMAIN Tail(down)
                                        /\ Tail(down)[k - 1] = down[k]
    BY <1>0, <2>1, TailFacts
  <2>3. QED BY <2>1, <2>2 DEF AnnouncementIsKept
<1>8. CASE LoseConnection \/ Restart
  BY <1>8 DEF LoseConnection, Restart, AnnouncementIsKept, env
<1>9. ASSUME NEW p \in Press, Answer(p) PROVE AnnouncementIsKept'
  <2>1. PICK kind \in {"QR", "Text"} : Deliver(kind, p)
    BY <1>9 DEF Answer
  <2>2. \A k \in DOMAIN down : k \in DOMAIN down' /\ down'[k] = down[k]
    BY <1>0, <2>1, DeliverFacts
  <2>3. UNCHANGED <<handler, announced, heard>>
    BY <1>9 DEF Answer, threads, history
  <2>4. QED BY <2>2, <2>3 DEF AnnouncementIsKept
<1>10. ASSUME NEW p \in Press, Announce(p) PROVE AnnouncementIsKept'
  <2>1. UNCHANGED <<handler, heard>> /\ announced' = announced \union {p} /\ Deliver("Mp3", p)
    BY <1>10 DEF Announce, threads, history
  <2>2. /\ \A k \in DOMAIN down : k \in DOMAIN down' /\ down'[k] = down[k]
        /\ \E k \in DOMAIN down' : /\ down'[k] = [kind |-> "Mp3", press |-> p]
                                   /\ down # <<>> => k # 1
    BY <1>0, <2>1, DeliverFacts
  <2>3. \E k \in DOMAIN down' : /\ down'[k].kind = "Mp3" /\ down'[k].press = p
                                /\ ~(k = 1 /\ handler' = "ack")
    BY <2>1, <2>2 DEF MessageInv
  <2>4. QED BY <2>1, <2>2, <2>3 DEF AnnouncementIsKept
<1>11. CASE MenuThread
  BY <1>2, <1>11, MenuQuiet
<1>12. CASE Connect \/ TakeRequest \/ PublishRequest \/ RequestAcknowledged
  BY <1>2, <1>12 DEF Connect, TakeRequest, PublishRequest, RequestAcknowledged, env, history
<1>13. ASSUME NEW p \in Press, Pay(p) PROVE AnnouncementIsKept'
  BY <1>2, <1>13 DEF Pay, threads, history
<1>14. CASE UNCHANGED vars
  BY <1>2, <1>14 DEF vars, threads, env, history
<1>15. QED
  BY <1>3, <1>4, <1>5, <1>6, <1>7, <1>8, <1>9, <1>10, <1>11, <1>12, <1>13, <1>14
  DEF Next, MqttThread

----------------------------------------------------------------------------
(* The presses *)

\* An ending is written for the last press only, and so is the code drawn.
LEMMA HistoryFrame ==
  ASSUME TypeOK, PressInv, [Next]_vars
  PROVE  /\ \A q \in Press : q # cur => ending'[q] = ending[q] /\ shown'[q] = shown[q]
         /\ cur' = cur \/ (cur' = cur + 1 /\ UNCHANGED <<ending, shown>> /\ menu = "idle")
         /\ drops' # drops => drops' = drops + 1
<1>0. menu # "idle" => cur \in Press
  BY DEF PressInv
<1>1. CASE ClearReply
  BY <1>1 DEF ClearReply, history
<1>2. CASE GiveUp \/ LookAtPaid \/ Count
  <2>1. UNCHANGED <<cur, shown, drops>> /\ menu # "idle"
    BY <1>2 DEF GiveUp, LookAtPaid, Count
  <2>2. ending' = ending \/ \E how \in Endings : ending' = [ending EXCEPT ![cur] = how]
    BY <1>2 DEF GiveUp, LookAtPaid, Count, End, Endings
  <2>3. QED BY <2>1, <2>2 DEF TypeOK
<1>3. CASE DrawCode
  BY <1>0, <1>3 DEF DrawCode, TypeOK
<1>4. CASE Restart
  <2>1. UNCHANGED <<cur, shown>> /\ drops' = drops + 1
    BY <1>4 DEF Restart
  <2>2. \A q \in Press : q # cur => ending'[q] = ending[q]
    BY <1>4 DEF Restart
  <2>3. QED BY <2>1, <2>2
<1>5. CASE ClearPaid \/ SetAmount \/ RaisePending \/ SeeReply
  BY <1>5 DEF ClearPaid, SetAmount, RaisePending, SeeReply, history
<1>6. CASE MqttThread
  BY <1>6 DEF MqttThread, Connect, Arrive, CopyReply, FlagReply, Play, Acknowledge,
              TakeRequest, PublishRequest, RequestAcknowledged, history
<1>7. CASE LoseConnection
  BY <1>7 DEF LoseConnection
<1>8. CASE (\E p \in Press : Answer(p) \/ Pay(p) \/ Announce(p)) \/ UNCHANGED vars
  BY <1>8 DEF Answer, Pay, Announce, vars, threads, history
<1>9. QED
  BY <1>1, <1>2, <1>3, <1>4, <1>5, <1>6, <1>7, <1>8 DEF Next, MenuThread

\* What the steps of the environment and of the handler leave alone.
LEMMA EnvFrame ==
  ASSUME \E p \in Press : Answer(p) \/ Pay(p) \/ Announce(p)
  PROVE  /\ UNCHANGED <<pending, amount, ready, reply, paid>>
         /\ UNCHANGED <<menu, cur, mqtt, handler>>
         /\ UNCHANGED <<shown, ending, sent, raised, heard, drops>>
  BY DEF Answer, Pay, Announce, globals, threads, history

Handle == Arrive \/ CopyReply \/ FlagReply \/ Play \/ Acknowledge

LEMMA HandleFrame ==
  ASSUME Handle
  PROVE  /\ UNCHANGED <<pending, amount, menu, cur, mqtt>>
         /\ UNCHANGED <<asked, money, announced>>
         /\ UNCHANGED <<shown, ending, sent, drops>>
  BY DEF Handle, Arrive, CopyReply, FlagReply, Play, Acknowledge, globals, env, history

LEMMA QuietPress ==
  ASSUME PressInv, UNCHANGED <<pending, amount, menu, cur, mqtt, shown, ending, sent>>
  PROVE  PressInv'
  BY DEF PressInv

LEMMA NumberFacts ==
  ASSUME TypeOK
  PROVE  /\ cur \in Nat /\ cur <= Presses /\ amount \in Nat
         /\ \A p \in Press : p \in Nat /\ p <= Presses
         /\ \A p \in Nat : p >= 1 /\ p <= Presses => p \in Press
<1>1. Presses \in Nat /\ cur \in 0..Presses /\ amount \in Press \union {0}
  BY SoundboxAssumption DEF TypeOK
<1>2. /\ \A p \in Press : p \in Nat /\ p <= Presses
      /\ \A p \in Nat : p >= 1 /\ p <= Presses => p \in Press
  BY <1>1 DEF Press
<1>3. cur \in Nat /\ cur <= Presses
  BY <1>1
<1>4. amount \in Nat
  BY <1>1, <1>2
<1>5. QED BY <1>2, <1>3, <1>4

LEMMA StepPress ==
  ASSUME TypeOK, PressInv, [Next]_vars
  PROVE  PressInv'
<1>0. /\ cur \in Nat /\ cur <= Presses /\ amount \in Nat
      /\ \A p \in Press : p \in Nat /\ p <= Presses
      /\ \A p \in Nat : p >= 1 /\ p <= Presses => p \in Press
  BY NumberFacts
<1>1. menu # "idle" => cur \in Press
  BY DEF PressInv
<1>2. CASE ClearReply
  <2>1. /\ menu' = "clearPaid" /\ cur' = cur + 1 /\ cur < Presses
        /\ UNCHANGED <<pending, amount, mqtt, shown, ending, sent>>
    BY <1>2 DEF ClearReply, Goto, history
  <2>2. cur' \in Press /\ cur' > cur
    <3>1. Presses \in Nat
      BY SoundboxAssumption
    <3>2. QED BY <1>0, <2>1, <3>1
  <2>3. amount <= cur /\ amount' = amount
    BY <2>1 DEF PressInv
  <2>4. amount' < cur' /\ amount' <= cur'
    BY <1>0, <2>1, <2>3
  <2>5. sent'[cur'] = 0 /\ shown'[cur'] = None
    BY <2>1, <2>2 DEF PressInv
  <2>6. \A p \in Press : p > cur' => p > cur
    BY <1>0, <2>1
  <2>7. QED BY <2>1, <2>2, <2>4, <2>5, <2>6 DEF PressInv
<1>3. CASE ClearPaid
  BY <1>3 DEF ClearPaid, Goto, PressInv, history
<1>4. CASE SetAmount
  BY <1>0, <1>1, <1>4 DEF SetAmount, Goto, PressInv, history
<1>5. CASE RaisePending
  BY <1>1, <1>5 DEF RaisePending, Goto, PressInv, history
<1>6. CASE SeeReply
  BY <1>6 DEF SeeReply, Goto, PressInv, globals, history
<1>7. CASE GiveUp \/ LookAtPaid \/ Count
  <2>1. /\ UNCHANGED <<pending, amount, cur, mqtt, shown, sent>>
        /\ menu' \in {"idle", "look", "count"} /\ menu # "idle"
        /\ menu' # "idle" => menu \in {"look", "count"}
    BY <1>7 DEF GiveUp, LookAtPaid, Count, End, Goto, globals
  <2>2. \A q \in Press : q # cur => ending'[q] = ending[q]
    BY HistoryFrame
  <2>3. \A p \in Press : p > cur => ending'[p] = "open"
    BY <1>0, <2>2 DEF PressInv
  <2>4. QED BY <1>1, <2>1, <2>3 DEF PressInv
<1>8. CASE DrawCode
  <2>1. /\ UNCHANGED <<pending, amount, cur, mqtt, ending, sent>>
        /\ menu = "draw" /\ menu' = "look"
    BY <1>8 DEF DrawCode, Goto, globals
  <2>2. \A p \in Press : p > cur => shown'[p] = None
    BY <1>0, <1>8, HistoryFrame DEF PressInv
  <2>3. QED BY <1>1, <2>1, <2>2 DEF PressInv
<1>9. CASE Connect
  BY <1>9, QuietPress DEF Connect, PressInv, globals, history
<1>10. CASE Handle
  BY <1>10, HandleFrame, QuietPress
<1>11. CASE TakeRequest
  BY <1>11 DEF TakeRequest, PressInv, history
<1>12. CASE PublishRequest
  <2>1. amount \in Press /\ amount <= cur
    BY <1>12 DEF PublishRequest, PressInv
  <2>2. \A p \in Press : p # amount => sent'[p] = sent[p]
    BY <1>12 DEF PublishRequest, TypeOK
  <2>3. /\ UNCHANGED <<pending, amount, menu, cur, shown, ending>> /\ mqtt' = "puback"
    BY <1>12 DEF PublishRequest, globals
  <2>4. \A p \in Press : p > cur => sent'[p] = 0
    BY <1>0, <2>1, <2>2 DEF PressInv
  <2>5. menu \in {"clearPaid", "setAmount"} => sent'[cur] = 0
    BY <1>0, <1>1, <2>1, <2>2 DEF PressInv
  <2>6. QED BY <2>3, <2>4, <2>5 DEF PressInv
<1>13. CASE RequestAcknowledged \/ LoseConnection
  BY <1>13 DEF RequestAcknowledged, LoseConnection, PressInv, globals, history
<1>14. CASE Restart
  <2>1. /\ UNCHANGED <<cur, shown, sent>> /\ menu' = "idle" /\ amount' = 0
        /\ pending' = FALSE /\ mqtt' = "offline"
    BY <1>14 DEF Restart
  <2>2. \A p \in Press : p > cur => ending'[p] = "open"
    BY <1>0, <1>14, HistoryFrame DEF PressInv
  <2>3. QED BY <1>0, <2>1, <2>2 DEF PressInv
<1>15. CASE \E p \in Press : Answer(p) \/ Pay(p) \/ Announce(p)
  BY <1>15, EnvFrame, QuietPress
<1>16. CASE UNCHANGED vars
  BY <1>16, QuietPress DEF vars, globals, threads, history
<1>17. QED
  BY <1>2, <1>3, <1>4, <1>5, <1>6, <1>7, <1>8, <1>9, <1>10, <1>11, <1>12, <1>13, <1>14,
     <1>15, <1>16 DEF Next, MenuThread, MqttThread, Handle

----------------------------------------------------------------------------
(* The success screen *)

LEMMA PaidFinite ==
  IsFiniteSet(Paid) /\ Cardinality(Paid) \in Nat
  BY PressFinite, FS_Subset, FS_CardinalityType DEF Paid

LEMMA PaidAtMost ==
  ASSUME NEW S \in SUBSET Press, S \subseteq Paid
  PROVE  Cardinality(S) <= Cardinality(Paid) /\ Cardinality(S) \in Nat
  BY PaidFinite, FS_Subset, FS_CardinalityType

LEMMA PaidOneMore ==
  ASSUME NEW S \in SUBSET Press, S \subseteq Paid \union {cur}
  PROVE  Cardinality(S) <= Cardinality(Paid) + 1 /\ Cardinality(S) \in Nat
<1>1. /\ IsFiniteSet(Paid \union {cur})
      /\ Cardinality(Paid \union {cur}) \in {Cardinality(Paid), Cardinality(Paid) + 1}
  BY PaidFinite, FS_AddElement
<1>2. IsFiniteSet(S) /\ Cardinality(S) <= Cardinality(Paid \union {cur})
  BY <1>1, FS_Subset
<1>3. Cardinality(S) \in Nat /\ Cardinality(Paid) \in Nat
  BY <1>2, PaidFinite, FS_CardinalityType
<1>4. QED BY <1>1, <1>2, <1>3

\* The flag counts for the invariant only once the request has cleared it.
Fresh == paid /\ menu \notin {"idle", "clearPaid"}

LEMMA QuietPaid ==
  ASSUME TypeOK, PaidInv, Paid' \subseteq Paid, raised' = raised, Fresh' => Fresh
  PROVE  PaidInv'
<1>1. Cardinality(Paid') <= Cardinality(Paid)
      /\ Cardinality(Paid') \in Nat /\ Cardinality(Paid) \in Nat
  BY PaidAtMost, PaidFinite DEF Paid
<1>2. Count1(Fresh') <= Count1(Fresh) /\ Count1(Fresh) \in 0..1 /\ Count1(Fresh') \in 0..1
  BY DEF Count1
<1>3. Cardinality(Paid) + Count1(Fresh) <= raised /\ raised \in Nat
  BY DEF PaidInv, Fresh, TypeOK
<1>4. Cardinality(Paid') + Count1(Fresh') <= raised'
  BY <1>1, <1>2, <1>3
<1>5. QED BY <1>4 DEF PaidInv, Fresh

LEMMA StepPaid ==
  ASSUME TypeOK, PressInv, PaidInv, [Next]_vars
  PROVE  PaidInv'
<1>1. Cardinality(Paid) + Count1(Fresh) <= raised /\ raised \in Nat
  BY DEF PaidInv, Fresh, TypeOK
<1>2. CASE ending' = ending /\ raised' = raised /\ (Fresh' => Fresh)
  BY <1>2, QuietPaid DEF Paid
<1>3. CASE ClearReply \/ ClearPaid \/ SetAmount \/ RaisePending \/ SeeReply \/ DrawCode
  BY <1>2, <1>3 DEF ClearReply, ClearPaid, SetAmount, RaisePending, SeeReply, DrawCode,
                    Goto, Fresh, globals, history
<1>4. CASE GiveUp \/ Count
  <2>1. UNCHANGED <<paid, raised>> /\ menu \notin {"idle", "clearPaid"}
    BY <1>4 DEF GiveUp, Count, globals
  <2>2. ending' = ending \/ \E how \in Endings \ {"paid"} : End(how)
    BY <1>4 DEF GiveUp, Count, Endings
  <2>3. Paid' \subseteq Paid
    BY <2>2 DEF Paid, End, TypeOK
  <2>4. Fresh' => Fresh
    BY <2>1 DEF Fresh
  <2>5. QED BY <2>1, <2>3, <2>4, QuietPaid
<1>5. CASE LookAtPaid
  <2>1. UNCHANGED <<paid, raised>> /\ menu = "look"
    BY <1>5 DEF LookAtPaid, globals
  <2>2. CASE ~paid
    <3>1. ending' = ending /\ ~Fresh'
      BY <1>5, <2>1, <2>2 DEF LookAtPaid, Fresh
    <3>2. QED BY <1>2, <2>1, <3>1
  <2>3. CASE paid
    <3>1. End("paid") /\ Fresh /\ ~Fresh'
      BY <1>5, <2>1, <2>3 DEF LookAtPaid, Fresh, End, Goto
    <3>2. Paid' \subseteq Paid \union {cur} /\ Paid' \in SUBSET Press
      BY <3>1 DEF End, Paid, TypeOK
    <3>3. Cardinality(Paid') <= Cardinality(Paid) + 1 /\ Cardinality(Paid') \in Nat
      BY <3>2, PaidOneMore
    <3>4. Cardinality(Paid) \in Nat /\ Cardinality(Paid) + 1 <= raised
      BY <1>1, <3>1, PaidFinite DEF Count1
    <3>5. Cardinality(Paid') + Count1(Fresh') <= raised'
      BY <1>1, <2>1, <3>1, <3>3, <3>4 DEF Count1
    <3>6. QED BY <3>5 DEF PaidInv, Fresh
  <2>4. QED BY <2>2, <2>3
<1>6. CASE Arrive
  <2>1. ending' = ending /\ menu' = menu
    BY <1>6 DEF Arrive
  <2>2. CASE paid' = paid /\ raised' = raised
    BY <1>2, <2>1, <2>2 DEF Fresh
  <2>3. CASE raised' = raised + 1
    <3>1. Paid' = Paid
      BY <2>1 DEF Paid
    <3>2. Count1(Fresh) \in 0..1 /\ Count1(Fresh') \in 0..1
      BY DEF Count1
    <3>3. Cardinality(Paid) \in Nat
      BY PaidFinite
    <3>4. Cardinality(Paid') + Count1(Fresh') <= raised'
      BY <1>1, <2>3, <3>1, <3>2, <3>3
    <3>5. QED BY <3>4 DEF PaidInv, Fresh
  <2>4. QED BY <1>6, <2>2, <2>3 DEF Arrive
<1>7. CASE CopyReply \/ FlagReply \/ Play \/ Acknowledge
  BY <1>2, <1>7 DEF CopyReply, FlagReply, Play, Acknowledge, Fresh, globals, history
<1>8. CASE Connect \/ TakeRequest \/ PublishRequest \/ RequestAcknowledged \/ LoseConnection
  BY <1>2, <1>8 DEF Connect, TakeRequest, PublishRequest, RequestAcknowledged,
                    LoseConnection, Fresh, globals, history
<1>9. CASE Restart
  <2>1. Paid' \subseteq Paid
    BY <1>9 DEF Restart, Paid
  <2>2. raised' = raised /\ ~Fresh'
    BY <1>9 DEF Restart, Fresh
  <2>3. QED BY <2>1, <2>2, QuietPaid
<1>10. CASE \E p \in Press : Answer(p) \/ Pay(p) \/ Announce(p)
  BY <1>2, <1>10, EnvFrame DEF Fresh
<1>11. CASE UNCHANGED vars
  BY <1>2, <1>11 DEF Fresh, vars, globals, threads, history
<1>12. QED
  BY <1>3, <1>4, <1>5, <1>6, <1>7, <1>8, <1>9, <1>10, <1>11 DEF Next, MenuThread, MqttThread

\* OneScreenPerAnnouncement: no more success screens than .mp3 messages.
LEMMA PaidMeansOneScreen ==
  ASSUME TypeOK, PaidInv
  PROVE  OneScreenPerAnnouncement
<1>1. Cardinality(Paid) + Count1(Fresh) <= raised /\ raised \in Nat
  BY DEF PaidInv, Fresh, TypeOK
<1>2. Cardinality(Paid) \in Nat /\ Count1(Fresh) \in 0..1
  BY PaidFinite DEF Count1
<1>3. Cardinality(Paid) <= raised
  BY <1>1, <1>2
<1>4. QED BY <1>3 DEF OneScreenPerAnnouncement, Paid

----------------------------------------------------------------------------
(* How often an amount is published *)

LEMMA Earlier ==
  ASSUME TypeOK, PressInv, [Next]_vars
  PROVE  /\ \A q \in 1..(cur - 1) : /\ q \in Press /\ q # cur
                                    /\ ending'[q] = ending[q] /\ shown'[q] = shown[q]
                                    /\ Orderly(q)' <=> Orderly(q)
         /\ 1..(amount - 1) \subseteq 1..(cur - 1)
<1>1. /\ cur \in Nat /\ cur <= Presses /\ amount \in Nat /\ amount <= cur
      /\ \A p \in Nat : p >= 1 /\ p <= Presses => p \in Press
  BY NumberFacts DEF PressInv
<1>2. \A q \in 1..(cur - 1) : q \in Press /\ q # cur
  BY <1>1, SoundboxAssumption
<1>3. \A q \in Press : q # cur => ending'[q] = ending[q] /\ shown'[q] = shown[q]
  BY HistoryFrame
<1>4. 1..(amount - 1) \subseteq 1..(cur - 1)
  BY <1>1
<1>5. QED BY <1>2, <1>3, <1>4 DEF Orderly

LEMMA QuietAmount ==
  ASSUME TypeOK, PressInv, AmountInv, [Next]_vars,
         UNCHANGED <<amount, sent, pending>>,
         mqtt' = "take" => mqtt = "take", menu' = "raise" => menu = "raise"
  PROVE  AmountInv'
<1>1. CASE amount \notin Press
  BY <1>1 DEF AmountInv
<1>2. CASE amount \in Press
  <2>1. sent[amount] \in Nat
    BY <1>2 DEF TypeOK
  <2>2. /\ Count1(mqtt' = "take") <= Count1(mqtt = "take")
        /\ Count1(menu' = "raise") <= Count1(menu = "raise")
        /\ Count1(mqtt' = "take") \in 0..1 /\ Count1(mqtt = "take") \in 0..1
        /\ Count1(menu' = "raise") \in 0..1 /\ Count1(menu = "raise") \in 0..1
        /\ Count1(pending) \in 0..1 /\ Count1(pending') = Count1(pending)
    BY DEF Count1
  <2>3. sent'[amount'] + Count1(pending') + Count1(mqtt' = "take") + Count1(menu' = "raise") <= 3
    <3>1. sent[amount] + Count1(pending) + Count1(mqtt = "take") + Count1(menu = "raise") <= 3
      BY <1>2 DEF AmountInv
    <3>2. sent[amount] + Count1(pending) + Count1(mqtt' = "take") + Count1(menu' = "raise") <= 3
      BY <2>1, <2>2, <3>1
    <3>3. QED BY <2>2, <3>2
  <2>4. ASSUME \A q \in 1..(amount' - 1) : Orderly(q)'
        PROVE  sent'[amount'] + Count1(pending') + Count1(mqtt' = "take") <= 1
    <3>1. \A q \in 1..(amount - 1) : Orderly(q)
      BY <2>4, Earlier
    <3>2. sent[amount] + Count1(pending) + Count1(mqtt = "take") <= 1
      BY <1>2, <3>1 DEF AmountInv
    <3>3. sent[amount] + Count1(pending) + Count1(mqtt' = "take") <= 1
      BY <2>1, <2>2, <3>2
    <3>4. QED BY <2>2, <3>3
  <2>5. \A p \in Press : sent'[p] <= 3
    BY DEF AmountInv
  <2>6. QED BY <2>3, <2>4, <2>5 DEF AmountInv
<1>3. QED BY <1>1, <1>2

LEMMA StepAmount ==
  ASSUME TypeOK, PressInv, AmountInv, OnceInv, [Next]_vars
  PROVE  AmountInv'
<1>0. menu # "idle" => cur \in Press
  BY DEF PressInv
<1>1. CASE SetAmount
  <2>1. /\ cur \in Press /\ amount' = cur /\ sent[cur] = 0 /\ menu = "setAmount"
        /\ UNCHANGED <<sent, pending, mqtt, cur>> /\ menu' = "raise"
    BY <1>0, <1>1 DEF SetAmount, Goto, PressInv, history
  <2>2. 0 + Count1(pending') + Count1(mqtt' = "take") + Count1(menu' = "raise") <= 3
    BY DEF Count1
  <2>3. ASSUME \A q \in 1..(cur - 1) : Orderly(q)'
        PROVE  0 + Count1(pending') + Count1(mqtt' = "take") <= 1
    <3>1. \A q \in 1..(cur - 1) : Orderly(q)
      BY <2>3, Earlier
    <3>2. ~pending' /\ mqtt' # "take"
      BY <2>1, <3>1 DEF OnceInv, Clean
    <3>3. QED BY <3>2 DEF Count1
  <2>4. \A p \in Press : sent'[p] <= 3
    BY <2>1 DEF AmountInv
  <2>5. sent'[amount'] = 0 /\ amount' = cur
    BY <2>1
  <2>6. QED BY <2>2, <2>3, <2>4, <2>5 DEF AmountInv
<1>2. CASE RaisePending
  <2>1. /\ cur \in Press /\ amount = cur /\ menu = "raise" /\ menu' = "wait" /\ pending'
        /\ UNCHANGED <<sent, amount, mqtt, cur>>
    BY <1>0, <1>2 DEF RaisePending, Goto, PressInv, history
  <2>2. /\ Count1(pending') = 1 /\ Count1(menu = "raise") = 1 /\ Count1(menu' = "raise") = 0
        /\ Count1(pending) \in 0..1 /\ Count1(mqtt = "take") \in 0..1 /\ sent[amount] \in Nat
    BY <2>1 DEF Count1, TypeOK
  <2>3. sent[amount] + Count1(pending) + Count1(mqtt = "take") + Count1(menu = "raise") <= 3
    BY <2>1 DEF AmountInv
  <2>4. sent[amount] + Count1(pending') + Count1(mqtt = "take") + Count1(menu' = "raise") <= 3
    BY <2>2, <2>3
  <2>5. ASSUME \A q \in 1..(cur - 1) : Orderly(q)'
        PROVE  sent[amount] + Count1(pending') + Count1(mqtt = "take") <= 1
    <3>1. \A q \in 1..(cur - 1) : Orderly(q)
      BY <2>5, Earlier
    <3>2. mqtt # "take" /\ sent[amount] = 0
      BY <2>1, <3>1 DEF OnceInv, Clean
    <3>3. QED BY <2>2, <3>2 DEF Count1
  <2>6. \A p \in Press : sent'[p] <= 3
    BY <2>1 DEF AmountInv
  <2>7. QED BY <2>1, <2>4, <2>5, <2>6 DEF AmountInv
<1>3. CASE TakeRequest
  <2>1. /\ pending /\ ~pending' /\ mqtt = "yield" /\ mqtt' = "take"
        /\ UNCHANGED <<sent, amount, menu>>
    BY <1>3 DEF TakeRequest, history
  <2>2. /\ Count1(pending') = 0 /\ Count1(pending) = 1
        /\ Count1(mqtt = "take") = 0 /\ Count1(mqtt' = "take") = 1
        /\ Count1(menu' = "raise") = Count1(menu = "raise")
        /\ Count1(menu = "raise") \in 0..1
    BY <2>1 DEF Count1
  <2>3. amount \in Press /\ sent[amount] \in Nat
    BY <2>1 DEF PressInv, TypeOK
  <2>4. sent[amount] + 1 + 0 + Count1(menu = "raise") <= 3
    BY <2>2, <2>3 DEF AmountInv
  <2>5. sent[amount] + 0 + 1 + Count1(menu' = "raise") <= 3
    BY <2>2, <2>3, <2>4
  <2>6. ASSUME \A q \in 1..(amount - 1) : Orderly(q)'
        PROVE  sent[amount] + 0 + 1 <= 1
    <3>1. \A q \in 1..(amount - 1) : Orderly(q)
      BY <2>6, Earlier
    <3>2. sent[amount] + 1 + 0 <= 1
      BY <2>2, <2>3, <3>1 DEF AmountInv
    <3>3. QED BY <2>3, <3>2
  <2>7. \A p \in Press : sent'[p] <= 3
    BY <2>1 DEF AmountInv
  <2>8. QED BY <2>1, <2>2, <2>5, <2>6, <2>7 DEF AmountInv
<1>4. CASE PublishRequest
  <2>1. /\ mqtt = "take" /\ mqtt' = "puback" /\ amount \in Press
        /\ UNCHANGED <<pending, amount, menu>>
    BY <1>4 DEF PublishRequest, PressInv, globals
  <2>2. /\ sent'[amount] = sent[amount] + 1 /\ sent[amount] \in Nat
        /\ \A p \in Press : p # amount => sent'[p] = sent[p]
    BY <1>4, <2>1 DEF PublishRequest, TypeOK
  <2>3. /\ Count1(mqtt = "take") = 1 /\ Count1(mqtt' = "take") = 0
        /\ Count1(menu' = "raise") = Count1(menu = "raise")
        /\ Count1(menu = "raise") \in 0..1
        /\ Count1(pending') = Count1(pending) /\ Count1(pending) \in 0..1
    BY <2>1 DEF Count1
  <2>4. sent[amount] + Count1(pending) + 1 + Count1(menu = "raise") <= 3
    BY <2>1, <2>3 DEF AmountInv
  <2>5. sent'[amount] + Count1(pending) + 0 + Count1(menu = "raise") <= 3
    BY <2>2, <2>3, <2>4
  <2>6. ASSUME \A q \in 1..(amount - 1) : Orderly(q)'
        PROVE  sent'[amount] + Count1(pending) + 0 <= 1
    <3>1. \A q \in 1..(amount - 1) : Orderly(q)
      BY <2>6, Earlier
    <3>2. sent[amount] + Count1(pending) + 1 <= 1
      BY <2>1, <2>3, <3>1 DEF AmountInv
    <3>3. QED BY <2>2, <2>3, <3>2
  <2>7. sent'[amount] <= 3
    BY <2>2, <2>3, <2>5
  <2>8. \A p \in Press : sent'[p] <= 3
    BY <2>2, <2>7 DEF AmountInv
  <2>9. QED BY <2>1, <2>3, <2>5, <2>6, <2>8 DEF AmountInv
<1>5. CASE Restart
  <2>1. amount' = 0 /\ sent' = sent
    BY <1>5 DEF Restart
  <2>2. amount' \notin Press
    BY <2>1, PressFacts
  <2>3. QED BY <2>1, <2>2 DEF AmountInv
<1>6. CASE ClearReply \/ ClearPaid \/ SeeReply \/ GiveUp \/ DrawCode \/ LookAtPaid \/ Count
  <2>1. UNCHANGED <<amount, sent, pending, mqtt>>
    BY <1>6 DEF ClearReply, ClearPaid, SeeReply, GiveUp, DrawCode, LookAtPaid, Count,
                globals, history
  <2>2. menu' # "raise"
    BY <1>6 DEF ClearReply, ClearPaid, SeeReply, GiveUp, DrawCode, LookAtPaid, Count, End, Goto
  <2>3. QED BY <2>1, <2>2, QuietAmount
<1>7. CASE Handle
  BY <1>7, HandleFrame, QuietAmount
<1>8. CASE Connect \/ RequestAcknowledged \/ LoseConnection
  <2>1. UNCHANGED <<amount, sent, pending, menu>> /\ mqtt' # "take"
    BY <1>8 DEF Connect, RequestAcknowledged, LoseConnection, globals, history
  <2>2. QED BY <2>1, QuietAmount
<1>9. CASE \E p \in Press : Answer(p) \/ Pay(p) \/ Announce(p)
  BY <1>9, EnvFrame, QuietAmount
<1>10. CASE UNCHANGED vars
  <2>1. UNCHANGED <<amount, sent, pending, menu, mqtt>>
    BY <1>10 DEF vars, globals, threads, history
  <2>2. QED BY <2>1, QuietAmount
<1>11. QED
  BY <1>1, <1>2, <1>3, <1>4, <1>5, <1>6, <1>7, <1>8, <1>9, <1>10
  DEF Next, MenuThread, MqttThread, Handle

\* Only PublishRequest publishes.
LEMMA SentFrame ==
  ASSUME TypeOK, PressInv, [Next]_vars
  PROVE  \/ sent' = sent
         \/ /\ PublishRequest /\ amount \in Press
            /\ sent'[amount] = sent[amount] + 1
            /\ \A p \in Press : p # amount => sent'[p] = sent[p]
<1>1. CASE PublishRequest
  BY <1>1 DEF PublishRequest, TypeOK, PressInv
<1>2. CASE MenuThread
  BY <1>2, MenuQuiet
<1>3. CASE Handle
  BY <1>3, HandleFrame
<1>4. CASE Connect \/ TakeRequest \/ RequestAcknowledged \/ LoseConnection \/ Restart
  BY <1>4 DEF Connect, TakeRequest, RequestAcknowledged, LoseConnection, Restart, history
<1>5. CASE \E p \in Press : Answer(p) \/ Pay(p) \/ Announce(p)
  BY <1>5, EnvFrame
<1>6. CASE UNCHANGED vars
  BY <1>6 DEF vars, history
<1>7. QED
  BY <1>1, <1>2, <1>3, <1>4, <1>5, <1>6 DEF Next, MqttThread, Handle

LEMMA SentGrows ==
  ASSUME TypeOK, PressInv, [Next]_vars, NEW p \in Press, sent[p] > 0
  PROVE  sent'[p] > 0
<1>1. sent[p] \in Nat
  BY DEF TypeOK
<1>2. sent'[p] = sent[p] \/ sent'[p] = sent[p] + 1
  BY SentFrame
<1>3. QED BY <1>1, <1>2

LEMMA StepRepeats ==
  ASSUME TypeOK, PressInv, AmountInv, AmountInv', RepeatsExplained, [Next]_vars
  PROVE  RepeatsExplained'
<1> SUFFICES ASSUME NEW p \in Press, sent'[p] > 1
             PROVE  \E q \in 1..(p - 1) : ~Orderly(q)'
  BY DEF RepeatsExplained, AmountInv, Orderly
<1>1. p \in Nat /\ cur \in Nat /\ sent[p] \in Nat
  BY NumberFacts DEF TypeOK
<1>2. CASE sent'[p] = sent[p]
  <2>1. PICK q \in 1..(p - 1) : ~Orderly(q)
    BY <1>2 DEF RepeatsExplained, Orderly
  <2>2. p <= cur
    BY <1>1, <1>2 DEF PressInv
  <2>3. q \in 1..(cur - 1)
    BY <1>1, <2>2
  <2>4. QED BY <2>1, <2>3, Earlier
<1>3. CASE sent'[p] # sent[p]
  <2>1. p = amount /\ PublishRequest /\ sent'[p] = sent[p] + 1
    BY <1>3, SentFrame
  <2>2. /\ Count1(mqtt = "take") = 1 /\ Count1(pending) \in 0..1
    BY <2>1 DEF PublishRequest, Count1
  <2>3. ~(sent[p] + Count1(pending) + Count1(mqtt = "take") <= 1)
    BY <1>1, <2>1, <2>2
  <2>4. PICK q \in 1..(p - 1) : ~Orderly(q)
    BY <2>1, <2>3 DEF AmountInv
  <2>5. QED BY <2>1, <2>4, Earlier
<1>4. QED BY <1>2, <1>3

----------------------------------------------------------------------------
(* Codes *)

LEMMA CodesFrom ==
  ASSUME TypeOK, CodeInv, PressInv, [Next]_vars,
         \A p \in Press : reply' = p => sent[p] > 0,
         \A p \in Press : asked'[p] > 0 => asked[p] > 0 \/ sent'[p] > 0,
         \A k \in DOMAIN down' : down'[k].kind = "QR" =>
            down'[k].press \in Press /\ sent[down'[k].press] > 0
  PROVE  CodeInv'
  BY SentGrows DEF CodeInv

LEMMA StepCodes ==
  ASSUME TypeOK, MessageInv, PressInv, CodeInv, [Next]_vars
  PROVE  CodeInv'
<1>0. down \in Seq(Messages) /\ \A k \in DOMAIN down : down[k].press \in Press
  <2>1. down \in Seq(Messages)
    BY DEF TypeOK
  <2>2. \A k \in DOMAIN down : down[k] \in Messages
    BY <2>1, ElementOfSeq, EmptySeq
  <2>3. QED BY <2>1, <2>2 DEF Messages
<1>queued. \A k \in DOMAIN down : down[k].kind = "QR" =>
            down[k].press \in Press /\ sent[down[k].press] > 0
  BY <1>0 DEF CodeInv
<1>1. CASE UNCHANGED <<asked, down>> /\ reply' \in {reply, Torn}
  BY <1>1, <1>queued, CodesFrom, PressFacts DEF CodeInv
<1>2. CASE MenuThread
  <2>1. reply' = reply
    BY <1>2 DEF MenuThread, ClearReply, ClearPaid, SetAmount, RaisePending, SeeReply, GiveUp,
                DrawCode, LookAtPaid, Count, globals
  <2>2. QED BY <1>1, <1>2, <2>1, MenuQuiet
<1>3. CASE Arrive \/ FlagReply \/ Play
  BY <1>1, <1>3 DEF Arrive, FlagReply, Play, globals, env
<1>4. CASE CopyReply
  <2>1. down # <<>> /\ down[1].kind = "QR" /\ UNCHANGED <<asked, down>>
        /\ reply' = Head(down).press
    BY <1>4 DEF CopyReply, MessageInv, env
  <2>2. 1 \in DOMAIN down /\ Head(down) = down[1]
    BY <1>0, <2>1, HeadFacts
  <2>3. sent[reply'] > 0
    BY <1>queued, <2>1, <2>2
  <2>4. QED BY <1>queued, <2>1, <2>3, CodesFrom
<1>5. CASE Acknowledge
  <2>1. down # <<>> /\ down' = Tail(down) /\ UNCHANGED <<asked, reply>>
    BY <1>5 DEF Acknowledge, MessageInv, globals
  <2>2. \A k \in DOMAIN Tail(down) : k + 1 \in DOMAIN down /\ Tail(down)[k] = down[k + 1]
    BY <1>0, <2>1, TailFacts
  <2>3. \A k \in DOMAIN down' : down'[k].kind = "QR" =>
            down'[k].press \in Press /\ sent[down'[k].press] > 0
    BY <1>queued, <2>1, <2>2
  <2>4. QED BY <2>1, <2>3, CodesFrom DEF CodeInv
<1>6. CASE PublishRequest
  <2>1. UNCHANGED <<reply, down>> /\ amount \in Press
        /\ \A p \in Press : p # amount => asked'[p] = asked[p]
    BY <1>6 DEF PublishRequest, TypeOK, PressInv, globals
  <2>2. sent'[amount] > 0
    BY <1>6, <2>1 DEF PublishRequest, TypeOK
  <2>3. \A p \in Press : asked'[p] > 0 => asked[p] > 0 \/ sent'[p] > 0
    BY <2>1, <2>2
  <2>4. QED BY <1>queued, <2>1, <2>3, CodesFrom DEF CodeInv
<1>7. CASE Connect \/ TakeRequest \/ RequestAcknowledged \/ LoseConnection \/ Restart
  BY <1>1, <1>7 DEF Connect, TakeRequest, RequestAcknowledged, LoseConnection, Restart,
                    globals, env
<1>8. ASSUME NEW p \in Press, Answer(p) PROVE CodeInv'
  <2>1. PICK kind \in {"QR", "Text"} : Deliver(kind, p)
    BY <1>8 DEF Answer
  <2>2. /\ asked[p] > 0 /\ reply' = reply
        /\ asked' = [asked EXCEPT ![p] = @ - 1] /\ asked \in [Press -> Nat]
    BY <1>8 DEF Answer, globals, TypeOK
  <2>3. \A q \in Press : asked'[q] > 0 => asked[q] > 0
    BY <2>2
  <2>4. sent[p] > 0
    BY <2>2 DEF CodeInv
  <2>5. /\ \A k \in DOMAIN down : k \in DOMAIN down' /\ down'[k] = down[k]
        /\ \A k \in DOMAIN down' : k \in DOMAIN down \/ down'[k] = [kind |-> kind, press |-> p]
    BY <1>0, <2>1, DeliverFacts
  <2>6. \A k \in DOMAIN down' : down'[k].kind = "QR" =>
            down'[k].press \in Press /\ sent[down'[k].press] > 0
    BY <1>queued, <2>4, <2>5
  <2>7. QED BY <2>2, <2>3, <2>6, CodesFrom DEF CodeInv
<1>9. ASSUME NEW p \in Press, Announce(p) PROVE CodeInv'
  <2>1. Deliver("Mp3", p) /\ UNCHANGED <<asked, reply>>
    BY <1>9 DEF Announce, globals
  <2>2. /\ \A k \in DOMAIN down : k \in DOMAIN down' /\ down'[k] = down[k]
        /\ \A k \in DOMAIN down' : k \in DOMAIN down \/ down'[k] = [kind |-> "Mp3", press |-> p]
    BY <1>0, <2>1, DeliverFacts
  <2>3. \A k \in DOMAIN down' : down'[k].kind = "QR" =>
            down'[k].press \in Press /\ sent[down'[k].press] > 0
    BY <1>queued, <2>2
  <2>4. QED BY <2>1, <2>3, CodesFrom DEF CodeInv
<1>10. ASSUME NEW p \in Press, Pay(p) PROVE CodeInv'
  BY <1>1, <1>10 DEF Pay, globals
<1>11. CASE UNCHANGED vars
  BY <1>1, <1>11 DEF vars, globals, env
<1>12. QED
  BY <1>2, <1>3, <1>4, <1>5, <1>6, <1>7, <1>8, <1>9, <1>10, <1>11 DEF Next, MqttThread

----------------------------------------------------------------------------
(* What an orderly request leaves behind *)

LEMMA QuietClean ==
  ASSUME Clean, UNCHANGED <<menu, cur, shown, ending, sent>>,
         pending' => pending, mqtt' = "take" => mqtt = "take"
  PROVE  Clean'
  BY DEF Clean, Orderly

LEMMA StepOnce ==
  ASSUME TypeOK, PressInv, AmountInv, CodeInv, OnceInv, [Next]_vars
  PROVE  OnceInv'
<1> SUFFICES ASSUME \A q \in 1..(cur' - 1) : Orderly(q)' PROVE Clean'
  BY DEF OnceInv
<1>0. /\ cur \in Nat /\ cur <= Presses
      /\ \A p \in Nat : p >= 1 /\ p <= Presses => p \in Press
      /\ \A p \in Press : p \in Nat /\ p >= 1
  BY NumberFacts, PressFacts
<1>1. menu # "idle" => cur \in Press
  BY DEF PressInv
<1>2. CASE cur' # cur
  <2>1. ClearReply /\ cur' = cur + 1 /\ cur \in Nat
    BY <1>0, <1>2 DEF Next, vars, threads, MenuThread, MqttThread, ClearReply, ClearPaid, SetAmount,
       RaisePending, SeeReply, GiveUp, DrawCode, LookAtPaid, Count, Connect, Arrive, CopyReply,
       FlagReply, Play, Acknowledge, TakeRequest, PublishRequest, RequestAcknowledged,
       LoseConnection, Restart, Answer, Pay, Announce
  <2>2. /\ menu = "idle" /\ menu' = "clearPaid" /\ cur < Presses
        /\ UNCHANGED <<pending, mqtt, sent, shown, ending>>
    BY <2>1 DEF ClearReply, Goto, history
  <2>3. \A q \in 1..(cur - 1) : Orderly(q)
    BY <1>0, <2>1, Earlier
  <2>4. cur \in Press => Orderly(cur)
    <3>1. SUFFICES ASSUME cur \in Press PROVE Orderly(cur)
      OBVIOUS
    <3>2. cur \in 1..(cur' - 1)
      BY <1>0, <2>1, <3>1
    <3>3. ending'[cur] # "timeout" /\ shown'[cur] \in {cur, None}
      <4>1. \A q \in 1..(cur' - 1) : ending'[q] # "timeout" /\ shown'[q] \in {q, None}
        BY DEF Orderly
      <4>2. QED BY <3>2, <4>1
    <3>4. QED BY <2>2, <3>3 DEF Orderly
  <2>5. ~pending /\ mqtt # "take"
    BY <2>2, <2>3, <2>4 DEF OnceInv, Clean
  <2>6. cur' \in Press /\ cur' > cur
    <3>1. Presses \in Nat
      BY SoundboxAssumption
    <3>2. QED BY <1>0, <2>1, <2>2, <3>1
  <2>7. sent'[cur'] = 0
    BY <2>2, <2>6 DEF PressInv
  <2>8. QED BY <2>2, <2>5, <2>7 DEF Clean
<1>3. CASE cur' = cur
  <2>1. \A q \in 1..(cur - 1) : Orderly(q)
    BY <1>3, Earlier
  <2>2. Clean
    BY <2>1 DEF OnceInv
  <2>3. CASE ClearReply
    BY <1>0, <1>3, <2>3 DEF ClearReply
  <2>4. CASE ClearPaid \/ SetAmount
    BY <2>2, <2>4 DEF ClearPaid, SetAmount, Goto, Clean, history
  <2>5. CASE RaisePending
    BY <2>2, <2>5 DEF RaisePending, Goto, Clean, history
  <2>6. CASE SeeReply
    BY <2>6 DEF SeeReply, Goto, Clean
  <2>7. CASE GiveUp
    <3>1. menu' = "idle" /\ cur \in Press /\ ending'[cur] = "timeout"
      BY <1>1, <2>7 DEF GiveUp, End, Goto, TypeOK
    <3>2. QED BY <1>3, <3>1 DEF Clean, Orderly
  <2>8. CASE DrawCode
    <3>1. menu' = "look" /\ cur \in Press /\ shown'[cur] = reply /\ sent' = sent
      BY <1>1, <2>8 DEF DrawCode, Goto, TypeOK
    <3>2. reply # None /\ (reply = cur => sent[cur] > 0)
      BY <3>1, PressFacts DEF CodeInv, TypeOK
    <3>3. QED BY <1>3, <3>1, <3>2 DEF Clean
  <2>9. CASE LookAtPaid \/ Count
    <3>1. /\ UNCHANGED <<pending, amount, mqtt, shown, sent, cur>> /\ menu \in {"look", "count"}
          /\ \/ menu' \in {"look", "count"}
             \/ menu' = "idle"
      BY <2>9 DEF LookAtPaid, Count, End, Goto, globals
    <3>2. CASE menu' \in {"look", "count"}
      BY <2>2, <3>1, <3>2 DEF Clean
    <3>3. CASE menu' = "idle"
      <4>1. SUFFICES ASSUME Orderly(cur)' PROVE ~pending /\ mqtt # "take"
        BY <1>1, <1>3, <3>1, <3>3 DEF Clean
      <4>2. shown[cur] = cur /\ cur \in Press
        BY <1>1, <2>2, <3>1, <4>1 DEF Clean, Orderly
      <4>3. sent[cur] > 0 /\ amount = cur /\ sent[cur] \in Nat
        BY <2>2, <3>1, <4>2 DEF Clean, PressInv, TypeOK
      <4>4. sent[cur] + Count1(pending) + Count1(mqtt = "take") <= 1
        BY <2>1, <4>2, <4>3 DEF AmountInv
      <4>5. Count1(pending) \in 0..1 /\ Count1(mqtt = "take") \in 0..1
        BY DEF Count1
      <4>6. Count1(pending) = 0 /\ Count1(mqtt = "take") = 0
        BY <4>3, <4>4, <4>5
      <4>7. QED BY <4>6 DEF Count1
    <3>4. QED BY <3>1, <3>2, <3>3
  <2>10. CASE Handle
    BY <2>2, <2>10, HandleFrame, QuietClean
  <2>11. CASE Connect \/ RequestAcknowledged \/ LoseConnection
    <3>1. UNCHANGED <<menu, cur, shown, ending, sent, pending>> /\ mqtt' # "take"
      BY <2>11 DEF Connect, RequestAcknowledged, LoseConnection, globals, history
    <3>2. QED BY <2>2, <3>1, QuietClean
  <2>12. CASE TakeRequest
    BY <2>2, <2>12 DEF TakeRequest, Clean, Orderly, history
  <2>13. CASE PublishRequest
    <3>1. /\ mqtt = "take" /\ mqtt' = "puback" /\ amount \in Press /\ cur \in Nat
          /\ UNCHANGED <<menu, cur, shown, ending, pending>>
      BY <1>0, <2>13 DEF PublishRequest, PressInv, globals
    <3>2. menu \notin {"clearPaid", "setAmount", "raise"}
      BY <2>2, <3>1 DEF Clean
    <3>3. cur \in Press /\ sent[cur] > 0 => sent'[cur] > 0
      BY SentGrows
    <3>4. menu = "idle" /\ (cur \in Press => Orderly(cur)) => FALSE
      BY <2>2, <3>1 DEF Clean
    <3>5. QED BY <1>1, <2>2, <3>1, <3>2, <3>3, <3>4 DEF Clean, Orderly
  <2>14. CASE Restart
    BY <2>14 DEF Restart, Clean
  <2>15. CASE \E p \in Press : Answer(p) \/ Pay(p) \/ Announce(p)
    BY <2>2, <2>15, EnvFrame, QuietClean
  <2>16. CASE UNCHANGED vars
    <3>1. UNCHANGED <<menu, cur, shown, ending, sent, pending, mqtt>>
      BY <2>16 DEF vars, globals, threads, history
    <3>2. QED BY <2>2, <3>1, QuietClean
  <2>17. QED
    BY <2>3, <2>4, <2>5, <2>6, <2>7, <2>8, <2>9, <2>10, <2>11, <2>12, <2>13, <2>14, <2>15,
       <2>16 DEF Next, MenuThread, MqttThread, Handle
<1>4. QED BY <1>2, <1>3

----------------------------------------------------------------------------
(* Threads that stay in step *)

\* A step that leaves the queue alone and moves no handler past "ack".
LEMMA SameQueue ==
  ASSUME down' = down, (handler = "ack") <=> (handler' = "ack")
  PROVE  /\ \A k \in DOMAIN down' : Unhandled(k)' <=> Unhandled(k)
         /\ NotQueued' <=> NotQueued
  BY DEF NotQueued, Unhandled

LEMMA SameAsked ==
  ASSUME asked' = asked
  PROVE  NotAsked' <=> NotAsked
  BY DEF NotAsked

\* A code in delivery whose handler has not finished is queued.
LEMMA InDelivery ==
  ASSUME TypeOK, MessageInv, handler \in {"copy", "flag"}
  PROVE  down # <<>> /\ 1 \in DOMAIN down /\ Head(down) = down[1] /\ Unhandled(1) /\ ~NotQueued
<1>1. down # <<>> /\ down[1].kind = "QR"
  BY DEF MessageInv
<1>2. 1 \in DOMAIN down /\ Head(down) = down[1]
  BY <1>1, HeadFacts DEF TypeOK
<1>3. QED BY <1>1, <1>2 DEF Unhandled, NotQueued

LEMMA OneRequestFrame ==
  ASSUME OneRequest, UNCHANGED <<pending, amount, mqtt, asked, down, cur>>,
         (handler = "ack") <=> (handler' = "ack"),
         ready' => ready, ready' \/ handler' = "flag" => reply' = cur
  PROVE  OneRequest'
<1>1. \A k \in DOMAIN down' : Unhandled(k)' <=> Unhandled(k)
  BY SameQueue
<1>2. (NotQueued' <=> NotQueued) /\ (NotAsked' <=> NotAsked)
  BY SameQueue, SameAsked
<1>3. \A k, l \in DOMAIN down' : Unhandled(k)' /\ Unhandled(l)' => k = l /\ down'[k].press = cur'
  BY <1>1 DEF OneRequest
<1>4. \A p \in Press : asked'[p] <= Count1(p = cur')
  BY DEF OneRequest
<1>5. QED BY <1>2, <1>3, <1>4 DEF OneRequest

LEMMA NothingFrame ==
  ASSUME Nothing, UNCHANGED <<pending, asked, down>>, mqtt' = "take" => mqtt = "take",
         (handler = "ack") <=> (handler' = "ack")
  PROVE  Nothing'
  BY SameQueue, SameAsked DEF Nothing

\* The parts of InStep that follow the menu thread.
LEMMA QuietInStep ==
  ASSUME InStep, UNCHANGED <<pending, amount, mqtt, asked, down, cur, menu, ending, ready>>,
         (handler = "ack") <=> (handler' = "ack"),
         ready' \/ handler' = "flag" => reply' = cur
  PROVE  InStep'
<1>1. OneRequest'
  BY OneRequestFrame DEF InStep
<1>2. Nothing => Nothing'
  BY NothingFrame
<1>3. QED BY <1>1, <1>2 DEF InStep

LEMMA MenuInStep ==
  ASSUME TypeOK, MessageInv, PressInv, InStep, MenuThread, cur' = cur
  PROVE  InStep'
<1>1. menu # "idle" => cur \in Press
  BY DEF PressInv
<1>2. OneRequest /\ UNCHANGED <<mqtt, handler, down, asked>>
  BY MenuQuiet DEF InStep
<1>3. ready \/ handler = "flag" => reply = cur
  BY <1>2 DEF OneRequest
<1>4. CASE ClearReply
  <2>1. cur \in Nat /\ cur' = cur + 1
    BY <1>4, NumberFacts DEF ClearReply
  <2>2. QED BY <2>1
<1>5. CASE ClearPaid
  <2>1. /\ UNCHANGED <<pending, amount, ready, reply>> /\ menu = "clearPaid" /\ menu' = "setAmount"
    BY <1>5 DEF ClearPaid, Goto
  <2>2. OneRequest'
    BY <1>2, <1>3, <2>1, OneRequestFrame
  <2>3. Nothing'
    BY <1>2, <2>1, NothingFrame DEF InStep
  <2>4. QED BY <2>1, <2>2, <2>3 DEF InStep
<1>6. CASE SetAmount
  <2>1. /\ UNCHANGED <<pending, ready, reply>> /\ menu = "setAmount" /\ menu' = "raise"
    BY <1>6 DEF SetAmount, Goto
  <2>2. Nothing /\ ~ready
    BY <2>1 DEF InStep
  <2>3. Nothing'
    BY <1>2, <2>1, <2>2, NothingFrame
  <2>4. OneRequest'
    <3>1. \A k \in DOMAIN down' : Unhandled(k)' <=> Unhandled(k)
      BY <1>2, SameQueue
    <3>2. \A p \in Press : asked'[p] <= Count1(p = cur')
      BY <1>2 DEF OneRequest
    <3>3. \A k, l \in DOMAIN down' : Unhandled(k)' /\ Unhandled(l)' => k = l /\ down'[k].press = cur'
      BY <1>2, <3>1 DEF OneRequest
    <3>4. QED BY <1>2, <1>3, <2>1, <2>2, <2>3, <3>2, <3>3 DEF OneRequest, Nothing
  <2>5. QED BY <2>1, <2>2, <2>3, <2>4 DEF InStep
<1>7. CASE RaisePending
  <2>1. /\ UNCHANGED <<amount, ready, reply>> /\ menu = "raise" /\ menu' = "wait" /\ amount = cur
    BY <1>7 DEF RaisePending, Goto, PressInv
  <2>2. Nothing /\ ~ready
    BY <2>1 DEF InStep
  <2>3. NotAsked' /\ NotQueued' /\ mqtt' # "take"
    BY <1>2, <2>2, SameQueue, SameAsked DEF Nothing
  <2>4. OneRequest'
    <3>1. \A k \in DOMAIN down' : Unhandled(k)' <=> Unhandled(k)
      BY <1>2, SameQueue
    <3>2. \A p \in Press : asked'[p] <= Count1(p = cur')
      BY <1>2 DEF OneRequest
    <3>3. \A k, l \in DOMAIN down' : Unhandled(k)' /\ Unhandled(l)' => k = l /\ down'[k].press = cur'
      BY <1>2, <3>1 DEF OneRequest
    <3>4. QED BY <1>2, <1>3, <2>1, <2>2, <2>3, <3>2, <3>3 DEF OneRequest
  <2>5. QED BY <2>1, <2>4 DEF InStep
<1>8. CASE SeeReply
  <2>1. /\ UNCHANGED <<pending, amount, ready, reply>> /\ menu' = "draw" /\ ready
    BY <1>8 DEF SeeReply, Goto, globals
  <2>2. OneRequest'
    BY <1>2, <1>3, <2>1, OneRequestFrame
  <2>3. Nothing
    BY <1>2, <2>1 DEF OneRequest, Nothing
  <2>4. Nothing'
    BY <1>2, <2>1, <2>3, NothingFrame
  <2>5. QED BY <2>1, <2>2, <2>4 DEF InStep
<1>9. CASE GiveUp
  <2>1. /\ UNCHANGED <<pending, amount, ready, reply>> /\ menu' = "idle"
        /\ cur \in Press /\ ending'[cur] = "timeout"
    BY <1>1, <1>9 DEF GiveUp, End, Goto, globals, TypeOK
  <2>2. OneRequest'
    BY <1>2, <1>3, <2>1, OneRequestFrame
  <2>3. QED BY <2>1, <2>2 DEF InStep
<1>10. CASE DrawCode \/ LookAtPaid \/ Count
  <2>1. /\ UNCHANGED <<pending, amount, ready, reply>>
        /\ menu \in {"draw", "look", "count"} /\ menu' \in {"look", "count", "idle"}
    BY <1>10 DEF DrawCode, LookAtPaid, Count, End, Goto, globals
  <2>2. OneRequest'
    BY <1>2, <1>3, <2>1, OneRequestFrame
  <2>3. Nothing' /\ ready'
    BY <1>2, <2>1, NothingFrame DEF InStep
  <2>4. QED BY <2>1, <2>2, <2>3 DEF InStep
<1>11. QED
  BY <1>4, <1>5, <1>6, <1>7, <1>8, <1>9, <1>10 DEF MenuThread

\* The next request starts when the last one has left nothing behind.
LEMMA StartInStep ==
  ASSUME TypeOK, MessageInv, PressInv, InStep, ClearReply,
         \A q \in 1..(cur' - 1) : ending'[q] # "timeout"
  PROVE  InStep'
<1>1. /\ cur \in Nat /\ cur <= Presses /\ (cur \in Press => cur >= 1)
  BY NumberFacts, PressFacts
<1>2. /\ menu = "idle" /\ menu' = "clearPaid" /\ cur' = cur + 1 /\ ready' = FALSE
      /\ UNCHANGED <<pending, amount, reply, mqtt, handler, down, asked, ending>>
  BY DEF ClearReply, Goto, env, history
<1>3. cur \in Press => cur \in 1..(cur' - 1)
  BY <1>1, <1>2
<1>4. Nothing
  BY <1>2, <1>3 DEF InStep
<1>5. Nothing'
  BY <1>2, <1>4, NothingFrame
<1>6. handler # "flag"
  BY <1>4, InDelivery DEF Nothing
<1>7. \A p \in Press : asked'[p] <= Count1(p = cur')
  BY <1>5 DEF Nothing, NotAsked, Count1
<1>8. \A k \in DOMAIN down' : ~Unhandled(k)'
  BY <1>5 DEF Nothing, NotQueued
<1>9. OneRequest'
  BY <1>2, <1>5, <1>6, <1>7, <1>8 DEF OneRequest, Nothing
<1>10. QED BY <1>2, <1>5, <1>9 DEF InStep

LEMMA HandlerInStep ==
  ASSUME TypeOK, MessageInv, InStep, Handle
  PROVE  InStep'
<1>0. down \in Seq(Messages)
  BY DEF TypeOK
<1>1. UNCHANGED <<pending, amount, menu, cur, mqtt, asked, ending>>
  BY HandleFrame
<1>2. ready \/ handler = "flag" => reply = cur
  BY DEF InStep, OneRequest
<1>3. \A k, l \in DOMAIN down : Unhandled(k) /\ Unhandled(l) => k = l /\ down[k].press = cur
  BY DEF InStep, OneRequest
<1>4. CASE Arrive
  <2>1. /\ down' = down /\ ready' = ready /\ down # <<>> /\ handler = "none"
        /\ handler' \in {"copy", "play"}
        /\ reply' = reply \/ Head(down).kind = "QR"
    BY <1>4 DEF Arrive, env
  <2>2. 1 \in DOMAIN down /\ Head(down) = down[1]
    BY <1>0, <2>1, HeadFacts
  <2>3. Head(down).kind = "QR" => ~NotQueued
    BY <2>1, <2>2 DEF NotQueued, Unhandled
  <2>4. Head(down).kind = "QR" => ~ready
    BY <2>3 DEF InStep, OneRequest
  <2>5. QED BY <1>1, <1>2, <2>1, <2>4, QuietInStep
<1>5. CASE CopyReply
  <2>1. /\ handler = "copy" /\ handler' = "flag" /\ UNCHANGED <<down, ready>>
        /\ reply' = Head(down).press
    BY <1>5 DEF CopyReply, env
  <2>2. 1 \in DOMAIN down /\ Head(down) = down[1] /\ Unhandled(1)
    BY <2>1, InDelivery
  <2>3. reply' = cur
    BY <1>3, <2>1, <2>2
  <2>4. QED BY <1>1, <2>1, <2>3, QuietInStep
<1>6. CASE FlagReply
  <2>1. /\ handler = "flag" /\ handler' = "ack" /\ UNCHANGED <<down, reply>> /\ ready' = TRUE
    BY <1>6 DEF FlagReply, env
  <2>2. 1 \in DOMAIN down /\ Unhandled(1) /\ ~NotQueued
    BY <2>1, InDelivery
  <2>3. ~pending /\ mqtt # "take" /\ NotAsked /\ reply = cur
    BY <1>2, <2>1, <2>2 DEF InStep, OneRequest
  <2>4. menu \notin {"clearPaid", "setAmount", "raise", "draw", "look", "count"}
        /\ ~(menu = "idle" /\ (cur \in Press => ending[cur] # "timeout"))
    BY <2>2 DEF InStep, Nothing
  <2>5. \A k \in DOMAIN down : k # 1 => ~Unhandled(k)
    BY <1>3, <2>2
  <2>6. NotQueued'
    <3>1. \A k \in DOMAIN down : k # 1 => down[k].kind # "QR"
      BY <2>5 DEF Unhandled
    <3>2. QED BY <2>1, <3>1 DEF NotQueued, Unhandled
  <2>7. NotAsked'
    BY <1>1, <2>3, SameAsked
  <2>8. \A p \in Press : asked'[p] <= Count1(p = cur')
    BY <1>1 DEF InStep, OneRequest
  <2>9. \A k \in DOMAIN down' : ~Unhandled(k)'
    BY <2>6 DEF NotQueued
  <2>10. OneRequest'
    BY <1>1, <2>1, <2>3, <2>6, <2>7, <2>8, <2>9 DEF OneRequest
  <2>11. QED BY <1>1, <2>4, <2>10 DEF InStep
<1>7. CASE Play
  <2>1. /\ handler = "play" /\ handler' = "ack" /\ UNCHANGED <<down, reply, ready>>
    BY <1>7 DEF Play, globals, env
  <2>2. down[1].kind # "QR"
    BY <2>1 DEF MessageInv
  <2>3. \A k \in DOMAIN down' : Unhandled(k)' <=> Unhandled(k)
    BY <2>1, <2>2 DEF Unhandled
  <2>4. (NotQueued' <=> NotQueued) /\ (NotAsked' <=> NotAsked)
    BY <1>1, <2>1, <2>3, SameAsked DEF NotQueued
  <2>5. \A k, l \in DOMAIN down' : Unhandled(k)' /\ Unhandled(l)' => k = l /\ down'[k].press = cur'
    BY <1>1, <1>3, <2>1, <2>3
  <2>6. \A p \in Press : asked'[p] <= Count1(p = cur')
    BY <1>1 DEF InStep, OneRequest
  <2>7. OneRequest'
    BY <1>1, <1>2, <2>1, <2>4, <2>5, <2>6 DEF InStep, OneRequest
  <2>8. Nothing' <=> Nothing
    BY <1>1, <2>4 DEF Nothing
  <2>9. QED BY <1>1, <2>1, <2>7, <2>8 DEF InStep
<1>8. CASE Acknowledge
  <2>1. /\ handler = "ack" /\ handler' = "none" /\ UNCHANGED <<reply, ready>>
        /\ down # <<>> /\ down' = Tail(down)
    BY <1>8 DEF Acknowledge, MessageInv, globals
  <2>2. /\ \A k \in DOMAIN Tail(down) : /\ k \in Nat \ {0} /\ k + 1 \in DOMAIN down
                                        /\ Tail(down)[k] = down[k + 1]
        /\ \A k \in DOMAIN down : k # 1 => /\ k - 1 \in DOMAIN Tail(down)
                                           /\ Tail(down)[k - 1] = down[k]
    BY <1>0, <2>1, TailFacts
  <2>3. \A k \in DOMAIN down' : Unhandled(k)' <=> Unhandled(k + 1)
    <3>1. \A k \in DOMAIN down' : k + 1 # 1
      BY <2>1, <2>2
    <3>2. QED BY <2>1, <2>2, <3>1 DEF Unhandled
  <2>4. NotQueued => NotQueued'
    BY <2>1, <2>2, <2>3 DEF NotQueued
  <2>5. NotQueued' => NotQueued
    <3>1. \A k \in DOMAIN down : Unhandled(k) => k # 1
      BY <2>1 DEF Unhandled
    <3>2. \A k \in DOMAIN down : k # 1 => (Unhandled(k - 1)' <=> Unhandled(k))
      <4>1. SUFFICES ASSUME NEW k \in DOMAIN down, k # 1
                     PROVE  Unhandled(k - 1)' <=> Unhandled(k)
        OBVIOUS
      <4>2. Tail(down)[k - 1] = down[k]
        BY <2>2, <4>1
      <4>3. QED BY <2>1, <4>1, <4>2 DEF Unhandled
    <3>3. QED BY <2>1, <2>2, <3>1, <3>2 DEF NotQueued
  <2>6. NotAsked' <=> NotAsked
    BY <1>1, SameAsked
  <2>7. \A k, l \in DOMAIN down' : Unhandled(k)' /\ Unhandled(l)' => k = l /\ down'[k].press = cur'
    <3>1. SUFFICES ASSUME NEW k \in DOMAIN down', NEW l \in DOMAIN down',
                          Unhandled(k)', Unhandled(l)'
                   PROVE  k = l /\ down'[k].press = cur'
      OBVIOUS
    <3>2. /\ k + 1 \in DOMAIN down /\ l + 1 \in DOMAIN down /\ k \in Nat /\ l \in Nat
          /\ Unhandled(k + 1) /\ Unhandled(l + 1) /\ down'[k] = down[k + 1]
      BY <2>1, <2>2, <2>3, <3>1
    <3>3. k + 1 = l + 1 /\ down[k + 1].press = cur
      BY <1>3, <3>2
    <3>4. QED BY <1>1, <3>2, <3>3
  <2>8. \A p \in Press : asked'[p] <= Count1(p = cur')
    BY <1>1 DEF InStep, OneRequest
  <2>9. OneRequest'
    BY <1>1, <1>2, <2>1, <2>4, <2>5, <2>6, <2>7, <2>8 DEF InStep, OneRequest
  <2>10. Nothing' <=> Nothing
    BY <1>1, <2>4, <2>5, <2>6 DEF Nothing
  <2>11. QED BY <1>1, <2>1, <2>9, <2>10 DEF InStep
<1>9. QED BY <1>4, <1>5, <1>6, <1>7, <1>8 DEF Handle

LEMMA LoopInStep ==
  ASSUME TypeOK, PressInv, InStep,
         Connect \/ TakeRequest \/ PublishRequest \/ RequestAcknowledged
  PROVE  InStep'
<1>1. /\ UNCHANGED <<amount, ready, reply, menu, cur, handler, down, ending>>
  BY DEF Connect, TakeRequest, PublishRequest, RequestAcknowledged, globals, env, history
<1>2. \A k \in DOMAIN down' : Unhandled(k)' <=> Unhandled(k)
  BY <1>1, SameQueue
<1>3. NotQueued' <=> NotQueued
  BY <1>1, SameQueue
<1>4. \A k, l \in DOMAIN down' : Unhandled(k)' /\ Unhandled(l)' => k = l /\ down'[k].press = cur'
  BY <1>1, <1>2 DEF InStep, OneRequest
<1>5. OneRequest
  BY DEF InStep
<1>6. CASE Connect \/ RequestAcknowledged
  <2>1. UNCHANGED <<pending, asked>> /\ mqtt # "take" /\ mqtt' # "take"
    BY <1>6 DEF Connect, RequestAcknowledged, globals, env
  <2>2. NotAsked' <=> NotAsked
    BY <2>1, SameAsked
  <2>3. \A p \in Press : asked'[p] <= Count1(p = cur')
    BY <1>1, <1>5, <2>1 DEF OneRequest
  <2>4. OneRequest'
    BY <1>1, <1>3, <1>4, <1>5, <2>1, <2>2, <2>3 DEF OneRequest
  <2>5. Nothing' <=> Nothing
    BY <1>3, <2>1, <2>2 DEF Nothing
  <2>6. QED BY <1>1, <2>4, <2>5 DEF InStep
<1>7. CASE TakeRequest
  <2>1. asked' = asked /\ pending /\ ~pending' /\ mqtt' = "take"
    BY <1>7 DEF TakeRequest, env
  <2>2. amount = cur /\ NotAsked /\ NotQueued /\ ~ready
    BY <1>5, <2>1 DEF OneRequest
  <2>3. NotAsked'
    BY <2>1, <2>2, SameAsked
  <2>4. \A p \in Press : asked'[p] <= Count1(p = cur')
    BY <1>1, <1>5, <2>1 DEF OneRequest
  <2>5. OneRequest'
    BY <1>1, <1>3, <1>4, <1>5, <2>1, <2>2, <2>3, <2>4 DEF OneRequest
  <2>6. ~Nothing
    BY <2>1 DEF Nothing
  <2>7. QED BY <1>1, <2>5, <2>6 DEF InStep
<1>8. CASE PublishRequest
  <2>1. /\ pending' = pending /\ mqtt = "take" /\ mqtt' = "puback"
        /\ amount \in Press /\ asked \in [Press -> Nat]
        /\ asked' = [asked EXCEPT ![amount] = @ + 1]
    BY <1>8 DEF PublishRequest, PressInv, TypeOK, globals
  <2>2. ~pending /\ amount = cur /\ NotAsked /\ NotQueued /\ ~ready
    BY <1>5, <2>1 DEF OneRequest
  <2>3. \A p \in Press : asked'[p] <= Count1(p = cur')
    <3>1. SUFFICES ASSUME NEW p \in Press PROVE asked'[p] <= Count1(p = cur)
      BY <1>1
    <3>2. CASE p = cur
      BY <2>1, <2>2, <3>2 DEF NotAsked, Count1
    <3>3. CASE p # cur
      BY <2>1, <2>2, <3>3 DEF NotAsked, Count1
    <3>4. QED BY <3>2, <3>3
  <2>4. OneRequest'
    BY <1>1, <1>3, <1>4, <1>5, <2>1, <2>2, <2>3 DEF OneRequest
  <2>5. ~Nothing
    BY <2>1 DEF Nothing
  <2>6. QED BY <1>1, <2>4, <2>5 DEF InStep
<1>9. QED BY <1>6, <1>7, <1>8

LEMMA EnvInStep ==
  ASSUME TypeOK, MessageInv, InStep, NEW p \in Press,
         Answer(p) \/ Pay(p) \/ Announce(p)
  PROVE  InStep'
<1>0. down \in Seq(Messages)
  BY DEF TypeOK
<1>1. UNCHANGED <<pending, amount, ready, reply, menu, cur, mqtt, handler, ending>>
  BY EnvFrame
<1>2. OneRequest
  BY DEF InStep
<1>3. CASE Pay(p)
  <2>1. UNCHANGED <<down, asked>>
    BY <1>3 DEF Pay
  <2>2. QED BY <1>1, <1>2, <2>1, QuietInStep DEF OneRequest
<1>4. CASE Announce(p)
  <2>1. asked' = asked /\ Deliver("Mp3", p)
    BY <1>4 DEF Announce
  <2>2. /\ \A k \in DOMAIN down : k \in DOMAIN down' /\ down'[k] = down[k]
        /\ \A k \in DOMAIN down' : k \in DOMAIN down \/ down'[k] = [kind |-> "Mp3", press |-> p]
    BY <1>0, <2>1, DeliverFacts
  <2>3. \A k \in DOMAIN down' : Unhandled(k)' => k \in DOMAIN down /\ Unhandled(k)
    BY <1>1, <2>2 DEF Unhandled
  <2>4. \A k \in DOMAIN down : Unhandled(k) => k \in DOMAIN down' /\ Unhandled(k)'
    BY <1>1, <2>2 DEF Unhandled
  <2>5. (NotQueued' <=> NotQueued) /\ (NotAsked' <=> NotAsked)
    BY <2>1, <2>3, <2>4, SameAsked DEF NotQueued
  <2>6. \A k, l \in DOMAIN down' : Unhandled(k)' /\ Unhandled(l)' => k = l /\ down'[k].press = cur'
    BY <1>1, <1>2, <2>2, <2>3 DEF OneRequest
  <2>7. \A q \in Press : asked'[q] <= Count1(q = cur')
    BY <1>1, <1>2, <2>1 DEF OneRequest
  <2>8. OneRequest'
    BY <1>1, <1>2, <2>5, <2>6, <2>7 DEF OneRequest
  <2>9. Nothing' <=> Nothing
    BY <1>1, <2>5 DEF Nothing
  <2>10. QED BY <1>1, <2>8, <2>9 DEF InStep
<1>5. CASE Answer(p)
  <2>1. PICK kind \in {"QR", "Text"} : Deliver(kind, p)
    BY <1>5 DEF Answer
  <2>2. /\ asked[p] > 0 /\ asked \in [Press -> Nat]
        /\ asked' = [asked EXCEPT ![p] = @ - 1]
    BY <1>5 DEF Answer, TypeOK
  <2>3. p = cur /\ asked[p] = 1
    <3>1. asked[p] <= Count1(p = cur) /\ asked[p] \in Nat
      BY <1>2, <2>2 DEF OneRequest
    <3>2. QED BY <2>2, <3>1 DEF Count1
  <2>4. ~NotAsked
    BY <2>2 DEF NotAsked
  <2>5. ~pending /\ mqtt # "take" /\ NotQueued /\ ~ready
    BY <1>2, <2>4 DEF OneRequest
  <2>6. ~Nothing
    BY <2>4 DEF Nothing
  <2>7. /\ \A k \in DOMAIN down' : k \in DOMAIN down \/ down'[k] = [kind |-> kind, press |-> p]
        /\ \A k \in DOMAIN down : k \in DOMAIN down' /\ down'[k] = down[k]
        /\ \A k, l \in DOMAIN down' : k \notin DOMAIN down /\ l \notin DOMAIN down => k = l
    BY <1>0, <2>1, DeliverFacts
  <2>8. \A k \in DOMAIN down' : Unhandled(k)' => k \notin DOMAIN down
    BY <1>1, <2>5, <2>7 DEF NotQueued, Unhandled
  <2>9. \A k, l \in DOMAIN down' : Unhandled(k)' /\ Unhandled(l)' => k = l /\ down'[k].press = cur'
    BY <1>1, <2>3, <2>7, <2>8
  <2>10. \A q \in Press : asked'[q] = 0
    <3>1. \A q \in Press : q # cur => asked[q] = 0
      <4>1. \A q \in Press : asked[q] <= Count1(q = cur) /\ asked[q] \in Nat
        BY <1>2, <2>2 DEF OneRequest
      <4>2. QED BY <4>1 DEF Count1
    <3>2. QED BY <2>2, <2>3, <3>1
  <2>11. NotAsked' /\ \A q \in Press : asked'[q] <= Count1(q = cur')
    BY <2>10 DEF NotAsked, Count1
  <2>12. OneRequest'
    BY <1>1, <1>2, <2>5, <2>9, <2>11 DEF OneRequest
  <2>13. QED BY <1>1, <2>6, <2>12 DEF InStep
<1>6. QED BY <1>3, <1>4, <1>5

LEMMA StepInStep ==
  ASSUME TypeOK, MessageInv, PressInv, InStepInv, [Next]_vars
  PROVE  InStepInv'
<1> SUFFICES ASSUME drops' = 0, \A q \in 1..(cur' - 1) : ending'[q] # "timeout"
             PROVE  InStep'
  BY DEF InStepInv
<1>1. drops \in Nat /\ cur \in Nat
  BY NumberFacts, SoundboxAssumption DEF TypeOK
<1>2. drops = 0
  BY <1>1, HistoryFrame
<1>3. \A q \in 1..(cur - 1) : ending[q] # "timeout"
  <2>1. \A q \in 1..(cur - 1) : ending'[q] = ending[q]
    BY Earlier
  <2>2. 1..(cur - 1) \subseteq 1..(cur' - 1)
    BY <1>1, HistoryFrame
  <2>3. QED BY <2>1, <2>2
<1>4. InStep
  BY <1>2, <1>3 DEF InStepInv
<1>5. CASE MenuThread
  <2>1. CASE ClearReply
    BY <1>4, <2>1, StartInStep
  <2>2. CASE ~ClearReply
    <3>1. cur' = cur
      BY <1>5, <2>2 DEF MenuThread, ClearPaid, SetAmount, RaisePending, SeeReply, GiveUp,
                        DrawCode, LookAtPaid, Count
    <3>2. QED BY <1>4, <1>5, <3>1, MenuInStep
  <2>3. QED BY <2>1, <2>2
<1>6. CASE Handle
  BY <1>4, <1>6, HandlerInStep
<1>7. CASE Connect \/ TakeRequest \/ PublishRequest \/ RequestAcknowledged
  BY <1>4, <1>7, LoopInStep
<1>8. CASE LoseConnection \/ Restart
  BY <1>1, <1>8 DEF LoseConnection, Restart
<1>9. ASSUME NEW p \in Press, Answer(p) \/ Pay(p) \/ Announce(p) PROVE InStep'
  BY <1>4, <1>9, EnvInStep
<1>10. CASE UNCHANGED vars
  <2>1. UNCHANGED <<pending, amount, mqtt, asked, down, cur, menu, ending, ready, handler, reply>>
    BY <1>10 DEF vars, globals, threads, env, history
  <2>2. QED BY <1>4, <2>1, QuietInStep DEF InStep, OneRequest
<1>11. QED
  BY <1>5, <1>6, <1>7, <1>8, <1>9, <1>10 DEF Next, MqttThread, Handle

\* Only DrawCode puts a code on the screen, and in step it draws its own.
LEMMA StepStrange ==
  ASSUME TypeOK, MessageInv, PressInv, InStepInv, StrangeCodeExplained, [Next]_vars
  PROVE  StrangeCodeExplained'
<1> SUFFICES ASSUME NEW p \in Press, shown'[p] \notin {p, None}, ~(drops' > 0)
             PROVE  \E q \in 1..(p - 1) : ending'[q] = "timeout"
  BY DEF StrangeCodeExplained
<1>1. drops \in Nat /\ cur \in Nat /\ p \in Nat
  BY NumberFacts, SoundboxAssumption DEF TypeOK
<1>2. drops = 0
  BY <1>1, HistoryFrame
<1>3. CASE shown'[p] = shown[p]
  <2>1. PICK q \in 1..(p - 1) : ending[q] = "timeout"
    BY <1>2, <1>3 DEF StrangeCodeExplained
  <2>2. p <= cur
    BY <1>1, <1>3 DEF PressInv
  <2>3. q \in 1..(cur - 1)
    BY <1>1, <2>2
  <2>4. QED BY <2>1, <2>3, Earlier
<1>4. CASE shown'[p] # shown[p]
  <2>1. DrawCode
    BY <1>4 DEF Next, vars, MenuThread, MqttThread, ClearReply, ClearPaid, SetAmount,
       RaisePending, SeeReply, GiveUp, LookAtPaid, Count, Connect, Arrive, CopyReply,
       FlagReply, Play, Acknowledge, TakeRequest, PublishRequest, RequestAcknowledged,
       LoseConnection, Restart, Answer, Pay, Announce, history
  <2>2. p = cur /\ shown'[p] = reply /\ menu = "draw"
    BY <1>4, <2>1 DEF DrawCode, TypeOK
  <2>3. ~InStep
    BY <2>2 DEF InStep, OneRequest
  <2>4. \E q \in 1..(cur - 1) : ending[q] = "timeout"
    BY <1>2, <2>3 DEF InStepInv
  <2>5. QED BY <2>2, <2>4, Earlier
<1>5. QED BY <1>3, <1>4

----------------------------------------------------------------------------
(* The theorems *)

LEMMA InitIInv == Init => IInv
<1> SUFFICES ASSUME Init PROVE IInv
  OBVIOUS
<1>1. TypeOK
  BY InitType
<1>2. down = <<>> /\ DOMAIN down = {} /\ cur = 0 /\ amount = 0 /\ menu = "idle"
      /\ pending = FALSE /\ mqtt = "offline" /\ handler = "none" /\ ready = FALSE
      /\ paid = FALSE /\ raised = 0 /\ reply = Torn /\ announced = {}
  BY DEF Init
<1>3. \A p \in Press : /\ sent[p] = 0 /\ asked[p] = 0 /\ shown[p] = None
                       /\ ending[p] = "open"
  BY DEF Init
<1>4. cur \notin Press /\ amount \notin Press /\ reply \notin Press
  BY <1>2, PressFacts
<1>5. MessageInv
  BY <1>2 DEF MessageInv
<1>6. PressInv
  BY <1>2, <1>3, <1>4 DEF PressInv
<1>7. PaidInv
  <2>1. Paid = {}
    BY <1>3 DEF Paid
  <2>2. Cardinality(Paid) = 0
    BY <2>1, FS_EmptySet
  <2>3. QED BY <1>2, <2>2 DEF PaidInv, Count1
<1>8. AmountInv
  BY <1>3, <1>4 DEF AmountInv
<1>9. CodeInv
  BY <1>2, <1>3, <1>4 DEF CodeInv
<1>10. OnceInv
  BY <1>2 DEF OnceInv, Clean
<1>11. InStepInv
  <2>1. Nothing
    BY <1>2, <1>3 DEF Nothing, NotAsked, NotQueued
  <2>2. \A p \in Press : asked[p] <= Count1(p = cur)
    BY <1>3 DEF Count1
  <2>3. OneRequest
    BY <1>2, <2>1, <2>2 DEF OneRequest, Nothing
  <2>4. QED BY <1>2, <2>1, <2>3 DEF InStepInv, InStep
<1>12. StrangeCodeExplained /\ RepeatsExplained /\ AnnouncementIsKept
  BY <1>2, <1>3 DEF StrangeCodeExplained, RepeatsExplained, AnnouncementIsKept
<1>13. QED
  BY <1>1, <1>5, <1>6, <1>7, <1>8, <1>9, <1>10, <1>11, <1>12 DEF IInv

LEMMA StepIInv ==
  ASSUME IInv, [Next]_vars
  PROVE  IInv'
<1>1. TypeOK /\ MessageInv /\ PressInv /\ PaidInv /\ AmountInv /\ CodeInv /\ OnceInv
      /\ InStepInv /\ StrangeCodeExplained /\ RepeatsExplained /\ AnnouncementIsKept
  BY DEF IInv
<1>2. TypeOK' /\ MessageInv' /\ PressInv'
  BY <1>1, StepType, StepMessages, StepPress
<1>3. PaidInv' /\ AmountInv' /\ CodeInv'
  BY <1>1, StepPaid, StepAmount, StepCodes
<1>4. OnceInv' /\ InStepInv' /\ StrangeCodeExplained' /\ AnnouncementIsKept'
  BY <1>1, StepOnce, StepInStep, StepStrange, StepKept
<1>5. RepeatsExplained'
  BY <1>1, <1>3, StepRepeats
<1>6. QED BY <1>2, <1>3, <1>4, <1>5 DEF IInv

\* The invariant of the two threads, the broker and the service, for any number
\* of requests, lost connections and restarts.
THEOREM IInvIsInvariant == Spec => []IInv
  BY InitIInv, StepIInv, PTL DEF Spec

\* Both threads, the five globals and the queue keep to their types; what was
\* heard was announced and what was announced was paid.
THEOREM TypeCorrect == Spec => []TypeOK
<1>1. IInv => TypeOK
  BY DEF IInv
<1>2. QED BY <1>1, IInvIsInvariant, PTL

\* qrisWaitPayment: one .mp3 turns at most one QR into the success screen,
\* whatever the order in which the threads set, clear and read G_qrisPaid.
THEOREM OneScreen == Spec => []OneScreenPerAnnouncement
<1>1. IInv => OneScreenPerAnnouncement
  BY PaidMeansOneScreen DEF IInv
<1>2. QED BY <1>1, IInvIsInvariant, PTL

\* QrisDinamis: the code on the screen is the one made for the amount on the
\* screen, unless an earlier wait was given up or the connection or the power
\* was lost.
THEOREM OwnCodes == Spec => []StrangeCodeExplained
<1>1. IInv => StrangeCodeExplained
  BY DEF IInv
<1>2. QED BY <1>1, IInvIsInvariant, PTL

\* mQTTMainThread: a request is published once unless an earlier one was given
\* up or its wait was ended by a strange code, and never more than three times.
THEOREM Repeats == Spec => []RepeatsExplained
<1>1. IInv => RepeatsExplained
  BY DEF IInv
<1>2. QED BY <1>1, IInvIsInvariant, PTL

\* mqtt.c:190-193, the persistent session: an announcement is in the broker's
\* queue for the soundbox until its handler has played it.
THEOREM AnnouncementsAreKept == Spec => []AnnouncementIsKept
<1>1. IInv => AnnouncementIsKept
  BY DEF IInv
<1>2. QED BY <1>1, IInvIsInvariant, PTL

----------------------------------------------------------------------------
(* Amounts: induction, and folds over a text *)

\* Induction over the numbers, for a set: every nonempty set of them has a least one.
Less == {p \in Nat \X Nat : p[1] < p[2]}

\* The order of the numbers is well founded: the library proves it.
LEMMA LessWF == IsWellFoundedOn(Less, Nat)
  BY NatLessThanWellFounded DEF OpToRel, Less

LEMMA Least ==
  ASSUME NEW T \in SUBSET Nat, T # {}
  PROVE  \E m \in T : \A k \in T : m <= k
<1>1. \E x \in T : \A y \in T : ~ (<<y, x>> \in Less)
  BY LessWF, WFMin
<1>2. PICK x \in T : \A y \in T : ~ (<<y, x>> \in Less)
  BY <1>1
<1>3. ASSUME NEW y \in T, y < x PROVE FALSE
  <2>1. <<y, x>> \in Less
    BY <1>3 DEF Less
  <2>2. QED BY <1>2, <2>1
<1>4. QED BY <1>2, <1>3

\* A set that has zero and the successor of each of its members has every number.
LEMMA SetInduction ==
  ASSUME NEW T, 0 \in T, \A n \in Nat : n \in T => n + 1 \in T
  PROVE  Nat \subseteq T
<1> SUFFICES ASSUME Nat \ T # {} PROVE FALSE
  OBVIOUS
<1>1. PICK m \in Nat \ T : \A k \in Nat \ T : m <= k
  BY Least
<1>2. m # 0 /\ m - 1 \in Nat /\ m - 1 \in T
  BY <1>1
<1>3. QED BY <1>1, <1>2

\* run is a fold's first n steps.
Runs(move, start, s, run, n) ==
  /\ run = [k \in 0..n |-> run[k]]
  /\ run[0] = start
  /\ \A k \in 1..n : run[k] = move[<<run[k - 1], s[k]>>]

\* There is a run of a fold over any part of a text.
LEMMA FoldExists ==
  ASSUME NEW move, NEW start, NEW s, NEW m \in Nat
  PROVE  \E f : Runs(move, start, s, f, m)
<1> DEFINE T == {n \in Nat : \E g : Runs(move, start, s, g, n)}
<1>1. 0 \in T
  <2> DEFINE g == [k \in 0..0 |-> start]
  <2>1. g = [k \in 0..0 |-> g[k]] /\ g[0] = start
    OBVIOUS
  <2>2. \A k \in 1..0 : FALSE
    OBVIOUS
  <2> HIDE DEF g
  <2>3. Runs(move, start, s, g, 0)
    BY <2>1, <2>2 DEF Runs
  <2>4. QED BY <2>3
<1>2. ASSUME NEW n \in Nat, n \in T PROVE n + 1 \in T
  <2>1. PICK g : Runs(move, start, s, g, n)
    BY <1>2
  <2> DEFINE h == [k \in 0..(n + 1) |-> IF k = n + 1 THEN move[<<g[n], s[n + 1]>>] ELSE g[k]]
  <2>2. h = [k \in 0..(n + 1) |-> h[k]]
    OBVIOUS
  <2>3. h[n + 1] = move[<<g[n], s[n + 1]>>] /\ \A k \in 0..n : h[k] = g[k]
    OBVIOUS
  <2> HIDE DEF h
  <2>4. ASSUME NEW k \in 1..(n + 1)
        PROVE  h[k] = move[<<h[k - 1], s[k]>>]
    <3>1. CASE k = n + 1
      <4>1. k - 1 = n /\ h[n] = g[n]
        BY <2>3, <3>1
      <4>2. QED BY <2>3, <3>1, <4>1
    <3>2. CASE k \in 1..n
      <4>1. h[k] = g[k] /\ h[k - 1] = g[k - 1]
        BY <2>3, <3>2
      <4>2. g[k] = move[<<g[k - 1], s[k]>>]
        BY <2>1, <3>2 DEF Runs
      <4>3. QED BY <4>1, <4>2
    <3>3. QED BY <3>1, <3>2
  <2>5. h[0] = start
    BY <2>1, <2>3 DEF Runs
  <2>6. Runs(move, start, s, h, n + 1)
    BY <2>2, <2>4, <2>5 DEF Runs
  <2>7. QED BY <2>6
<1> HIDE DEF T
<1>3. m \in T
  BY <1>1, <1>2, SetInduction
<1>4. QED BY <1>3 DEF T

\* Fold is the last move of such a function.
LEMMA FoldRun ==
  ASSUME NEW S, NEW move, NEW start, NEW s \in Seq(S)
  PROVE  \E f : /\ Fold(move, start, s) = f[Len(s)]
                /\ f[0] = start
                /\ \A k \in 1..Len(s) : f[k] = move[<<f[k - 1], s[k]>>]
<1> DEFINE Steps(g) == [k \in 0..Len(s) |-> IF k = 0 THEN start ELSE move[<<g[k - 1], s[k]>>]]
           f == CHOOSE g : g = Steps(g)
<1>0. Len(s) \in Nat
  BY LenProperties
<1>1. f = Steps(f)
  <2>1. PICK g : Runs(move, start, s, g, Len(s))
    BY <1>0, FoldExists
  <2>2. ASSUME NEW k \in 0..Len(s)
        PROVE  g[k] = IF k = 0 THEN start ELSE move[<<g[k - 1], s[k]>>]
    <3>1. g[0] = start /\ \A i \in 1..Len(s) : g[i] = move[<<g[i - 1], s[i]>>]
      BY <2>1 DEF Runs
    <3>2. k = 0 \/ k \in 1..Len(s)
      BY <1>0
    <3>3. QED BY <3>1, <3>2
  <2>3. g = [k \in 0..Len(s) |-> g[k]]
    BY <2>1 DEF Runs
  <2>4. g = Steps(g)
    BY <2>2, <2>3
  <2>5. QED BY <2>4
<1>2. Fold(move, start, s) = f[Len(s)]
  BY DEF Fold
<1> HIDE DEF f
<1>3. Len(s) \in Nat
  BY LenProperties
<1>4. f[0] = start /\ \A k \in 1..Len(s) : f[k] = move[<<f[k - 1], s[k]>>]
  BY <1>1, <1>3
<1>5. QED BY <1>2, <1>4
\* What a fold makes of the empty text, and of a word more.
LEMMA FoldEmpty ==
  ASSUME NEW move, NEW start
  PROVE  Fold(move, start, <<>>) = start
<1>1. ASSUME NEW s \in Seq({start}), Len(s) = 0 PROVE Fold(move, start, s) = start
  <2>1. PICK f : Fold(move, start, s) = f[Len(s)] /\ f[0] = start
    BY FoldRun
  <2>2. QED BY <1>1, <2>1
<1>2. QED BY <1>1, EmptySeq

\* Two runs over texts that begin alike are alike as far as they do.
LEMMA FoldAppend ==
  ASSUME NEW S, NEW move, NEW start, NEW s \in Seq(S), NEW w \in S
  PROVE  Fold(move, start, Append(s, w)) = move[<<Fold(move, start, s), w>>]
<1> DEFINE t == Append(s, w)
           n == Len(s)
<1>1. n \in Nat
  BY LenProperties
<1>2. t \in Seq(S) /\ Len(t) = n + 1 /\ t[n + 1] = w /\ \A k \in 1..n : t[k] = s[k]
  <2>1. Append(s, w) \in Seq(S) /\ Len(Append(s, w)) = Len(s) + 1
    BY AppendProperties
  <2>2. Append(s, w)[Len(s) + 1] = w
    BY AppendProperties
  <2>3. \A k \in 1..Len(s) : Append(s, w)[k] = s[k]
    BY AppendProperties
  <2>4. QED BY <2>1, <2>2, <2>3
<1>3. PICK f : /\ Fold(move, start, s) = f[n]
               /\ f[0] = start /\ \A k \in 1..n : f[k] = move[<<f[k - 1], s[k]>>]
  BY FoldRun
<1> HIDE DEF t, n
<1>4. PICK g : /\ Fold(move, start, t) = g[Len(t)]
               /\ g[0] = start /\ \A k \in 1..Len(t) : g[k] = move[<<g[k - 1], t[k]>>]
  <2>1. t \in Seq(S)
    BY <1>2
  <2>2. ASSUME NEW r \in Seq(S)
        PROVE  \E h : /\ Fold(move, start, r) = h[Len(r)]
                      /\ h[0] = start
                      /\ \A k \in 1..Len(r) : h[k] = move[<<h[k - 1], r[k]>>]
    BY FoldRun
  <2>3. QED BY <2>1, <2>2, Zenon
<1> DEFINE T == {k \in Nat : k <= n => f[k] = g[k]}
<1>5. 0 \in T
  BY <1>3, <1>4
<1>6. ASSUME NEW k \in Nat, k \in T PROVE k + 1 \in T
  <2> SUFFICES ASSUME k + 1 <= n PROVE f[k + 1] = g[k + 1]
    OBVIOUS
  <2>1. k + 1 \in 1..n /\ k + 1 \in 1..Len(t) /\ (k + 1) - 1 = k /\ k <= n
    BY <1>1, <1>2
  <2>2. f[k] = g[k]
    BY <1>6, <2>1
  <2>3. f[k + 1] = move[<<f[(k + 1) - 1], s[k + 1]>>]
    BY <1>3, <2>1
  <2>4. g[k + 1] = move[<<g[(k + 1) - 1], t[k + 1]>>]
    BY <1>4, <2>1
  <2>5. t[k + 1] = s[k + 1]
    BY <1>2, <2>1
  <2>6. QED BY <2>1, <2>2, <2>3, <2>4, <2>5
<1> HIDE DEF T
<1>7. Nat \subseteq T
  BY <1>5, <1>6, SetInduction
<1>8. f[n] = g[n]
  BY <1>1, <1>7 DEF T
<1>9. g[n + 1] = move[<<g[n], t[n + 1]>>]
  <2>1. n + 1 \in 1..Len(t) /\ (n + 1) - 1 = n
    BY <1>1, <1>2
  <2>2. QED BY <1>4, <2>1
<1>10. Fold(move, start, t) = move[<<Fold(move, start, s), w>>]
  BY <1>2, <1>3, <1>4, <1>8, <1>9
<1>11. QED BY <1>10 DEF t

\* Every text is one of a word less, and its last word.
LEMMA TextInduction ==
  ASSUME NEW S, NEW T, <<>> \in T,
         \A s \in Seq(S), w \in S : s \in T => Append(s, w) \in T
  PROVE  Seq(S) \subseteq T
<1> DEFINE N == {n \in Nat : \A s \in Seq(S) : Len(s) = n => s \in T}
<1>1. 0 \in N
  <2> SUFFICES ASSUME NEW s \in Seq(S), Len(s) = 0 PROVE s \in T
    OBVIOUS
  <2>1. s = <<>>
    BY EmptySeq
  <2>2. QED BY <2>1
<1>2. ASSUME NEW n \in Nat, n \in N PROVE n + 1 \in N
  <2> SUFFICES ASSUME NEW s \in Seq(S), Len(s) = n + 1 PROVE s \in T
    OBVIOUS
  <2>1. s # <<>>
    <3>1. Len(<<>>) = 0
      BY EmptySeq
    <3>2. QED BY <3>1
  <2>2. PICK t \in Seq(S), w \in S : s = Append(t, w)
    BY <2>1, SequenceEmptyOrAppend
  <2>3. Len(Append(t, w)) = Len(t) + 1 /\ Len(t) \in Nat
    BY AppendProperties, LenProperties
  <2>4. t \in T
    <3>1. Len(t) = n
      BY <2>2, <2>3
    <3>2. QED BY <1>2, <3>1
  <2>5. QED BY <2>2, <2>4
<1> HIDE DEF N
<1>3. Nat \subseteq N
  BY <1>1, <1>2, SetInduction
<1>4. ASSUME NEW s \in Seq(S) PROVE s \in T
  <2>1. Len(s) \in N
    BY <1>3, LenProperties
  <2>2. QED BY <2>1 DEF N
<1>5. QED BY <1>4

LEMMA SingleWord ==
  ASSUME NEW S, NEW w \in S
  PROVE  <<w>> \in Seq(S)
  OBVIOUS

\* A word put behind the second of two texts is put behind both.
LEMMA AppendOfConcat ==
  ASSUME NEW S, NEW s \in Seq(S), NEW u \in Seq(S), NEW w \in S
  PROVE  s \o Append(u, w) = Append(s \o u, w)
<1>1. Append(u, w) = u \o <<w>>
  BY AppendIsConcat
<1>1a. s \o u \in Seq(S)
  BY ConcatProperties
<1>1b. <<w>> \in Seq(S)
  BY SingleWord
<1>2. Append(s \o u, w) = (s \o u) \o <<w>>
  BY <1>1a, AppendIsConcat
<1>3. s \o (u \o <<w>>) = (s \o u) \o <<w>>
  BY <1>1b, ConcatAssociative
<1>4. QED BY <1>1, <1>2, <1>3

\* A text is read as one that goes on where another ended.
LEMMA FoldConcat ==
  ASSUME NEW S, NEW move, NEW start, NEW s \in Seq(S), NEW t \in Seq(S)
  PROVE  Fold(move, start, s \o t) = Fold(move, Fold(move, start, s), t)
<1> DEFINE T == {u \in Seq(S) : Fold(move, start, s \o u) = Fold(move, Fold(move, start, s), u)}
<1>1. <<>> \in T
  <2>1. <<>> \in Seq(S) /\ s \o <<>> = s
    BY EmptySeq, ConcatEmptySeq
  <2>2. QED BY <2>1, FoldEmpty
<1>2. ASSUME NEW u \in Seq(S), NEW w \in S, u \in T PROVE Append(u, w) \in T
  <2>1. Append(u, w) \in Seq(S) /\ s \o u \in Seq(S)
    BY AppendProperties, ConcatProperties
  <2>2. s \o Append(u, w) = Append(s \o u, w)
    BY AppendOfConcat
  <2>3. Fold(move, start, Append(s \o u, w)) = move[<<Fold(move, start, s \o u), w>>]
    <3>1. ASSUME NEW v \in Seq(S)
          PROVE  Fold(move, start, Append(v, w)) = move[<<Fold(move, start, v), w>>]
      BY FoldAppend
    <3>2. QED BY <2>1, <3>1
  <2>4. Fold(move, Fold(move, start, s), Append(u, w))
          = move[<<Fold(move, Fold(move, start, s), u), w>>]
    BY FoldAppend
  <2>5. QED BY <1>2, <2>1, <2>2, <2>3, <2>4
<1> HIDE DEF T
<1>3. t \in T
  BY <1>1, <1>2, TextInduction
<1>4. QED BY <1>3 DEF T

----------------------------------------------------------------------------
(* Amounts: numberClips, as a function of the number's size *)

\* The three levels, as numbers.
LEMMA Sizes ==
  /\ Thousand \in Nat /\ Million \in Nat /\ Billion \in Nat
  /\ 999 < Thousand /\ Thousand < Million /\ Million < Billion
  BY SMT DEF Thousand, Million, Billion

\* The move of numberClips, with the levels written out.
Level(f, n, v, mult, solo) ==
  withScale(n \div v, [value |-> v, mult |-> mult, solo |-> solo], f[n \div v])
  \o (IF n % v > 0 THEN f[n % v] ELSE <<>>)

Spelling(f, n) ==
  IF n < 100 THEN belowHundred(n)
  ELSE IF n < Thousand THEN hundreds(n)
  ELSE IF n < Million THEN Level(f, n, Thousand, "ribu", "seribu")
  ELSE IF n < Billion THEN Level(f, n, Million, "juta", "")
  ELSE Level(f, n, Billion, "miliar", "")

\* The table of levels.
LEMMA ScalesFacts ==
  /\ DOMAIN scales = {1, 2, 3}
  /\ scales[1] = [value |-> Billion, mult |-> "miliar", solo |-> ""]
  /\ scales[2] = [value |-> Million, mult |-> "juta", solo |-> ""]
  /\ scales[3] = [value |-> Thousand, mult |-> "ribu", solo |-> "seribu"]
<1>1. DOMAIN scales = 1..3
  BY SMT DEF scales
<1>2. DOMAIN scales = {1, 2, 3}
  BY <1>1, SMT
<1>3. scales[1] = [value |-> Billion, mult |-> "miliar", solo |-> ""]
  BY SMT DEF scales
<1>4. scales[2] = [value |-> Million, mult |-> "juta", solo |-> ""]
  BY SMT DEF scales
<1>5. scales[3] = [value |-> Thousand, mult |-> "ribu", solo |-> "seribu"]
  BY SMT DEF scales
<1>6. QED BY <1>2, <1>3, <1>4, <1>5, Zenon

LEMMA ScaleValues ==
  scales[1].value = Billion /\ scales[2].value = Million /\ scales[3].value = Thousand
<1>1. ASSUME NEW s, NEW v, NEW m, NEW o, s = [value |-> v, mult |-> m, solo |-> o]
      PROVE  s.value = v
  BY <1>1
<1>2. scales[1].value = Billion
  <2>1. scales[1] = [value |-> Billion, mult |-> "miliar", solo |-> ""]
    BY ScalesFacts, Zenon
  <2>2. QED BY <1>1, <2>1, Zenon
<1>3. scales[2].value = Million
  <2>1. scales[2] = [value |-> Million, mult |-> "juta", solo |-> ""]
    BY ScalesFacts, Zenon
  <2>2. QED BY <1>1, <2>1, Zenon
<1>4. scales[3].value = Thousand
  <2>1. scales[3] = [value |-> Thousand, mult |-> "ribu", solo |-> "seribu"]
    BY ScalesFacts, Zenon
  <2>2. QED BY <1>1, <2>1, Zenon
<1>5. QED BY <1>2, <1>3, <1>4, Zenon

Top(n) == CHOOSE i \in Reached(n) : \A j \in Reached(n) : i <= j

\* The level a number is spelled with is the largest it reaches.
LEMMA TopFacts ==
  ASSUME NEW n \in Nat
  PROVE  /\ n < Thousand => Reached(n) = {}
         /\ n >= Thousand /\ n < Million => Reached(n) # {} /\ Top(n) = 3
         /\ n >= Million /\ n < Billion => Reached(n) # {} /\ Top(n) = 2
         /\ n >= Billion => Reached(n) # {} /\ Top(n) = 1
<1>1. \A i : i \in Reached(n) <=> i \in {1, 2, 3} /\ n >= scales[i].value
  BY ScalesFacts, Zenon DEF Reached
<1>2. /\ 1 \in Reached(n) <=> n >= Billion
      /\ 2 \in Reached(n) <=> n >= Million
      /\ 3 \in Reached(n) <=> n >= Thousand
      /\ Reached(n) \subseteq {1, 2, 3}
  BY <1>1, ScaleValues, Zenon
<1>3. CASE n < Thousand
  BY <1>2, <1>3, Sizes, SMT
<1>4. CASE n >= Thousand /\ n < Million
  <2>1. Reached(n) = {3}
    BY <1>2, <1>4, Sizes, SMT
  <2>2. Top(n) = 3
    BY <2>1 DEF Top
  <2>3. QED BY <1>4, <2>1, <2>2, Sizes, SMT
<1>5. CASE n >= Million /\ n < Billion
  <2>1. Reached(n) = {2, 3}
    BY <1>2, <1>5, Sizes, SMT
  <2>2. Top(n) = 2
    BY <2>1 DEF Top
  <2>3. QED BY <1>5, <2>1, <2>2, Sizes, SMT
<1>6. CASE n >= Billion
  <2>1. Reached(n) = {1, 2, 3}
    BY <1>2, <1>6, Sizes, SMT
  <2>2. Top(n) = 1
    BY <2>1 DEF Top
  <2>3. QED BY <1>6, <2>1, <2>2, Sizes, SMT
<1>7. QED BY <1>3, <1>4, <1>5, <1>6, Sizes, SMT

\* What the code does with a number, with any spelling of the smaller ones.
Code(f, n) ==
  LET s == scales[Top(n)]
  IN  IF n < 100 THEN belowHundred(n)
      ELSE IF Reached(n) = {} THEN hundreds(n)
      ELSE withScale(n \div s.value, s, f[n \div s.value])
           \o (IF n % s.value > 0 THEN f[n % s.value] ELSE <<>>)

\* What the code chooses from its table is the case of the number's size.
LEMMA CodeIsSpelling ==
  ASSUME NEW f, NEW n \in Nat
  PROVE  Code(f, n) = Spelling(f, n)
<1>1. CASE n < Thousand
  BY <1>1, TopFacts, Sizes, SMT DEF Code, Spelling
<1>2. ASSUME NEW s, s = scales[Top(n)], Reached(n) # {}, ~ (n < 100)
      PROVE  Code(f, n) = withScale(n \div s.value, s, f[n \div s.value])
                          \o (IF n % s.value > 0 THEN f[n % s.value] ELSE <<>>)
  BY <1>2, Zenon DEF Code
<1>3. ASSUME NEW v, NEW mult, NEW solo, Reached(n) # {}, ~ (n < 100),
             scales[Top(n)] = [value |-> v, mult |-> mult, solo |-> solo]
      PROVE  Code(f, n) = Level(f, n, v, mult, solo)
  <2>1. scales[Top(n)].value = v
    BY <1>3
  <2>2. QED BY <1>2, <1>3, <2>1, Zenon DEF Level
<1>4. CASE n >= Thousand /\ n < Million
  <2>1. Top(n) = 3 /\ Reached(n) # {} /\ ~ (n < 100) /\ ~ (n < Thousand) /\ n < Million
    BY <1>4, TopFacts, Sizes, SMT
  <2>2. Code(f, n) = Level(f, n, Thousand, "ribu", "seribu")
    BY <1>3, <2>1, ScalesFacts, Zenon
  <2>3. QED BY <2>1, <2>2, Zenon DEF Spelling
<1>5. CASE n >= Million /\ n < Billion
  <2>1. /\ Top(n) = 2 /\ Reached(n) # {} /\ ~ (n < 100)
        /\ ~ (n < Thousand) /\ ~ (n < Million) /\ n < Billion
    BY <1>5, TopFacts, Sizes, SMT
  <2>2. Code(f, n) = Level(f, n, Million, "juta", "")
    BY <1>3, <2>1, ScalesFacts, Zenon
  <2>3. QED BY <2>1, <2>2, Zenon DEF Spelling
<1>6. CASE n >= Billion
  <2>1. /\ Top(n) = 1 /\ Reached(n) # {} /\ ~ (n < 100)
        /\ ~ (n < Thousand) /\ ~ (n < Million) /\ ~ (n < Billion)
    BY <1>6, TopFacts, Sizes, SMT
  <2>2. Code(f, n) = Level(f, n, Billion, "miliar", "")
    BY <1>3, <2>1, ScalesFacts, Zenon
  <2>3. QED BY <2>1, <2>2, Zenon DEF Spelling
<1>7. QED BY <1>1, <1>4, <1>5, <1>6, Sizes, SMT

\* A number is what its level divides it into, and both parts are smaller.
LEMMA Division ==
  ASSUME NEW n \in Nat, NEW v \in {Thousand, Million, Billion}, n >= v
  PROVE  /\ n \div v \in Nat /\ n \div v > 0 /\ n \div v < n
         /\ n % v \in Nat /\ n % v < v /\ n % v < n
         /\ v * (n \div v) + (n % v) = n
<1>1. CASE v = Thousand
  BY <1>1, SMT DEF Thousand
<1>2. CASE v = Million
  BY <1>2, SMT DEF Million
<1>3. CASE v = Billion
  BY <1>3, SMT DEF Billion
<1>4. QED BY <1>1, <1>2, <1>3, Zenon

\* It asks only for smaller ones.
LEMMA SpellingIsLocal ==
  ASSUME NEW f, NEW g, NEW n \in Nat,
         \A k \in Nat : k < n => f[k] = g[k]
  PROVE  Spelling(f, n) = Spelling(g, n)
<1>1. ASSUME NEW v \in {Thousand, Million, Billion}, n >= v, NEW mult, NEW solo
      PROVE  Level(f, n, v, mult, solo) = Level(g, n, v, mult, solo)
  <2>1. n \div v \in Nat /\ n \div v < n /\ n % v \in Nat /\ n % v < n
    BY <1>1, Division
  <2>2. f[n \div v] = g[n \div v] /\ f[n % v] = g[n % v]
    BY <2>1
  <2>3. QED BY <2>2 DEF Level
<1>2. /\ n < Thousand \/ n >= Thousand
      /\ n < Million \/ n >= Million
      /\ n < Billion \/ n >= Billion
  BY Sizes, SMT
<1>3. n < Thousand \/ \A mult, solo : Level(f, n, Thousand, mult, solo) = Level(g, n, Thousand, mult, solo)
  BY <1>1, <1>2, Zenon
<1>4. n < Million \/ \A mult, solo : Level(f, n, Million, mult, solo) = Level(g, n, Million, mult, solo)
  BY <1>1, <1>2, Zenon
<1>5. n < Billion \/ \A mult, solo : Level(f, n, Billion, mult, solo) = Level(g, n, Billion, mult, solo)
  BY <1>1, <1>2, Zenon
<1>6. QED BY <1>3, <1>4, <1>5, Zenon DEF Spelling

Spells(f, n) == f = [k \in 0..n |-> f[k]] /\ \A k \in 0..n : f[k] = Spelling(f, k)

\* So every number up to any bound has a spelling.
LEMMA SpellingExists ==
  ASSUME NEW m \in Nat
  PROVE  \E f : Spells(f, m)
<1> DEFINE T == {n \in Nat : \E g : Spells(g, n)}
<1>1. 0 \in T
  <2> DEFINE g == [k \in 0..0 |-> belowHundred(0)]
  <2>1. g = [k \in 0..0 |-> g[k]] /\ g[0] = belowHundred(0)
    OBVIOUS
  <2> HIDE DEF g
  <2>2. Spelling(g, 0) = belowHundred(0)
    BY DEF Spelling
  <2>3. Spells(g, 0)
    BY <2>1, <2>2 DEF Spells
  <2>4. QED BY <2>3
<1>2. ASSUME NEW n \in Nat, n \in T PROVE n + 1 \in T
  <2>1. PICK g : Spells(g, n)
    BY <1>2
  <2> DEFINE h == [k \in 0..(n + 1) |-> IF k = n + 1 THEN Spelling(g, n + 1) ELSE g[k]]
  <2>2. h = [k \in 0..(n + 1) |-> h[k]]
    OBVIOUS
  <2>3. h[n + 1] = Spelling(g, n + 1) /\ \A k \in 0..n : h[k] = g[k]
    OBVIOUS
  <2> HIDE DEF h
  <2>4. ASSUME NEW k \in 0..(n + 1) PROVE h[k] = Spelling(h, k)
    <3>1. \A i \in Nat : i < k => g[i] = h[i]
      BY <2>3
    <3>2. Spelling(g, k) = Spelling(h, k)
      BY <3>1, SpellingIsLocal
    <3>3. CASE k = n + 1
      BY <2>3, <3>2, <3>3
    <3>4. CASE k \in 0..n
      <4>1. g[k] = Spelling(g, k)
        BY <2>1, <3>4 DEF Spells
      <4>2. QED BY <2>3, <3>2, <3>4, <4>1
    <3>5. QED BY <3>3, <3>4
  <2>5. Spells(h, n + 1)
    BY <2>2, <2>4 DEF Spells
  <2>6. QED BY <2>5
<1> HIDE DEF T
<1>3. m \in T
  BY <1>1, <1>2, SetInduction
<1>4. QED BY <1>3 DEF T

----------------------------------------------------------------------------
(* Amounts: what is heard of the clips of the vocabulary *)

\* numberClips calls itself as voice.go does.
LEMMA NumberClipsStep ==
  ASSUME NEW n \in 0..MaxRupiah
  PROVE  numberClips[n] = Spelling(numberClips, n)
<1>0. MaxRupiah \in Nat
  BY MaxRupiahAssumption
<1> DEFINE Step(f) == [k \in 0..MaxRupiah |-> Code(f, k)]
<1>1. numberClips = CHOOSE f : f = Step(f)
  BY DEF numberClips, Code, Top
<1>2. ASSUME NEW f, NEW k \in 0..MaxRupiah PROVE Code(f, k) = Spelling(f, k)
  <2>1. k \in Nat
    BY <1>0
  <2>2. QED BY <2>1, CodeIsSpelling
<1>3. \E f : f = Step(f)
  <2>1. PICK f : Spells(f, MaxRupiah)
    BY <1>0, SpellingExists
  <2>2. f = [k \in 0..MaxRupiah |-> f[k]]
    BY <2>1 DEF Spells
  <2>3. ASSUME NEW k \in 0..MaxRupiah PROVE f[k] = Code(f, k)
    <3>1. f[k] = Spelling(f, k)
      BY <2>1 DEF Spells
    <3>2. QED BY <3>1, <1>2
  <2>4. f = Step(f)
    BY <2>2, <2>3
  <2>5. QED BY <2>4
<1>4. numberClips = Step(numberClips)
  BY <1>1, <1>3
<1>5. numberClips[n] = Code(numberClips, n)
  BY <1>4
<1>6. QED BY <1>2, <1>5

Others == {"sepuluh", "sebelas", "seratus", "seribu", "belas", "puluh", "ratus", "ribu",
           "juta", "miliar"}

LEMMA DigitDomain == DOMAIN digitClips = 1..9
  BY SMT DEF digitClips

\* The clips of the digits.
LEMMA DigitValues ==
  /\ digitClips[1] = "satu" /\ digitClips[2] = "dua" /\ digitClips[3] = "tiga"
  /\ digitClips[4] = "empat" /\ digitClips[5] = "lima" /\ digitClips[6] = "enam"
  /\ digitClips[7] = "tujuh" /\ digitClips[8] = "delapan" /\ digitClips[9] = "sembilan"
  BY SMT DEF digitClips

LEMMA DigitsDiffer ==
  ASSUME NEW d \in 1..9, NEW e \in 1..9, digitClips[d] = digitClips[e]
  PROVE  d = e
  BY DigitValues, SMT

LEMMA DigitsAlone ==
  ASSUME NEW d \in 1..9
  PROVE  /\ digitClips[d] \notin Others
         /\ digitClips[d] \in Clips
<1>1. digitClips[d] \notin Others
  BY DigitValues, SMT DEF Others
<1>2. digitClips[d] \in Clips
  BY DigitDomain DEF Clips, ToSet
<1>3. QED BY <1>1, <1>2

\* The clips of the vocabulary are those of the digits and the others.
LEMMA OthersFacts ==
  /\ Clips = {digitClips[d] : d \in 1..9} \cup Others
  /\ Others \subseteq Clips
<1>1. Clips = {digitClips[d] : d \in 1..9} \cup Others
  BY DigitDomain DEF Clips, ToSet, Others
<1>2. QED BY <1>1

----------------------------------------------------------------------------
\* What is heard of each clip.
LEMMA ReadingFacts ==
  ASSUME NEW x \in Nat, NEW y \in Nat
  PROVE  Reading(x, y) \in Readings /\ Reading(x, y).heard = x /\ Reading(x, y).total = y
  BY DEF Reading, Readings

LEMMA HearOthers ==
  ASSUME NEW x \in Nat, NEW y \in Nat
  PROVE  /\ Hear[<<Reading(x, y), "belas">>] = Reading(x + 10, y)
         /\ Hear[<<Reading(x, y), "puluh">>] = Reading(x + 9 * (x % 10), y)
         /\ Hear[<<Reading(x, y), "ratus">>] = Reading(100 * x, y)
         /\ Hear[<<Reading(x, y), "ribu">>] = Reading(0, y + Thousand * x)
         /\ Hear[<<Reading(x, y), "juta">>] = Reading(0, y + Million * x)
         /\ Hear[<<Reading(x, y), "miliar">>] = Reading(0, y + Billion * x)
         /\ Hear[<<Reading(x, y), "seribu">>] = Reading(0, y + Thousand)
         /\ Hear[<<Reading(x, y), "sepuluh">>] = Reading(x + 10, y)
         /\ Hear[<<Reading(x, y), "sebelas">>] = Reading(x + 11, y)
         /\ Hear[<<Reading(x, y), "seratus">>] = Reading(x + 100, y)
<1> DEFINE h == Reading(x, y)
<1>1. h \in Readings /\ h.heard = x /\ h.total = y
  BY ReadingFacts
<1> HIDE DEF h
<1>2. ASSUME NEW c \in Others PROVE <<h, c>> \in Readings \X Clips
  BY <1>1, OthersFacts
<1>3. Hear[<<h, "belas">>] = Reading(x + 10, y)
  BY <1>1, <1>2, Zenon DEF Hear, Others
<1>4. Hear[<<h, "puluh">>] = Reading(x + 9 * (x % 10), y)
  BY <1>1, <1>2, Zenon DEF Hear, Others
<1>5. Hear[<<h, "ratus">>] = Reading(100 * x, y)
  BY <1>1, <1>2, Zenon DEF Hear, Others
<1>6. Hear[<<h, "ribu">>] = Reading(0, y + Thousand * x)
  BY <1>1, <1>2, Zenon DEF Hear, Others
<1>7. Hear[<<h, "juta">>] = Reading(0, y + Million * x)
  BY <1>1, <1>2, Zenon DEF Hear, Others
<1>8. Hear[<<h, "miliar">>] = Reading(0, y + Billion * x)
  BY <1>1, <1>2, Zenon DEF Hear, Others
<1>9. Hear[<<h, "seribu">>] = Reading(0, y + Thousand)
  BY <1>1, <1>2, Zenon DEF Hear, Others
<1>10. /\ Value("sepuluh") = 10 /\ Value("sebelas") = 11 /\ Value("seratus") = 100
  BY Zenon DEF Value
<1>11. Hear[<<h, "sepuluh">>] = Reading(x + 10, y)
  BY <1>1, <1>2, <1>10, Zenon DEF Hear, Others
<1>12. Hear[<<h, "sebelas">>] = Reading(x + 11, y)
  BY <1>1, <1>2, <1>10, Zenon DEF Hear, Others
<1>13. Hear[<<h, "seratus">>] = Reading(x + 100, y)
  BY <1>1, <1>2, <1>10, Zenon DEF Hear, Others
<1>14. QED
  BY <1>3, <1>4, <1>5, <1>6, <1>7, <1>8, <1>9, <1>11, <1>12, <1>13, Zenon DEF h

LEMMA HearDigit ==
  ASSUME NEW x \in Nat, NEW y \in Nat, NEW d \in 1..9
  PROVE  Hear[<<Reading(x, y), digitClips[d]>>] = Reading(x + d, y)
<1> DEFINE h == Reading(x, y)
           c == digitClips[d]
<1>1. h \in Readings /\ h.heard = x /\ h.total = y
  BY ReadingFacts
<1>2. c \notin Others /\ c \in Clips
  BY DigitsAlone
<1>3. Value(c) = d
  <2>1. Value(c) = CHOOSE e \in 1..9 : digitClips[e] = c
    BY <1>2, Zenon DEF Value, Others
  <2>2. \A e \in 1..9 : digitClips[e] = c <=> e = d
    BY DigitsDiffer
  <2>3. QED BY <2>1, <2>2
<1> HIDE DEF h, c
<1>4. <<h, c>> \in Readings \X Clips
  BY <1>1, <1>2
<1>5. Hear[<<h, c>>] = Reading(h.heard + Value(c), h.total)
  BY <1>2, <1>4, Zenon DEF Hear, Others
<1>6. QED BY <1>1, <1>3, <1>5, Zenon DEF h, c

\* Hearing one more clip, or two.
LEMMA HeardOne ==
  ASSUME NEW S, NEW move, NEW start, NEW w \in S
  PROVE  Fold(move, start, <<w>>) = move[<<start, w>>]
<1>1. <<w>> = Append(<<>>, w) /\ <<>> \in Seq(S)
  OBVIOUS
<1>2. ASSUME NEW s \in Seq(S)
      PROVE  Fold(move, start, Append(s, w)) = move[<<Fold(move, start, s), w>>]
  BY FoldAppend
<1>3. Fold(move, start, Append(<<>>, w)) = move[<<Fold(move, start, <<>>), w>>]
  BY <1>1, <1>2, Zenon
<1>4. QED BY <1>1, <1>3, FoldEmpty, Zenon

\* Two clips.
LEMMA HeardTwo ==
  ASSUME NEW S, NEW move, NEW start, NEW w \in S, NEW v \in S
  PROVE  Fold(move, start, <<w, v>>) = move[<<move[<<start, w>>], v>>]
<1>1. <<w, v>> = Append(<<w>>, v) /\ <<w>> \in Seq(S)
  OBVIOUS
<1>2. ASSUME NEW s \in Seq(S)
      PROVE  Fold(move, start, Append(s, v)) = move[<<Fold(move, start, s), v>>]
  BY FoldAppend
<1>3. Fold(move, start, Append(<<w>>, v)) = move[<<Fold(move, start, <<w>>), v>>]
  BY <1>1, <1>2, Zenon
<1>4. Fold(move, start, <<w>>) = move[<<start, w>>]
  BY HeardOne, Zenon
<1>5. QED BY <1>1, <1>3, <1>4, Zenon

----------------------------------------------------------------------------
(* Amounts: spellings that use Indonesian's special words *)

\* The clips a number may begin with, and those only its larger levels use.
Openers == {digitClips[d] : d \in 1..9} \cup {"sepuluh", "sebelas", "seratus", "seribu"}
Small == Clips \ {"seribu", "ribu", "juta", "miliar"}

Proper(s) == s \in Seq(Clips) /\ s # <<>> /\ s[1] \in Openers /\ ~Regular(s)

\* The clips a spelling may begin with.
LEMMA OpenersFacts ==
  /\ Openers \subseteq Clips
  /\ \A w \in Openers : w \notin {"belas", "puluh", "ratus", "ribu", "juta", "miliar"}
  /\ "satu" \in Openers
<1>1. Openers \subseteq Clips
  BY OthersFacts, Zenon DEF Openers, Others
<1>2. ASSUME NEW w \in Openers
      PROVE  w \notin {"belas", "puluh", "ratus", "ribu", "juta", "miliar"}
  <2>1. CASE w \in {digitClips[d] : d \in 1..9}
    BY <2>1, DigitsAlone, Zenon DEF Others
  <2>2. CASE w \in {"sepuluh", "sebelas", "seratus", "seribu"}
    BY <2>2, Zenon
  <2>3. QED BY <2>1, <2>2, Zenon DEF Openers
<1>3. "satu" \in Openers
  <2>1. 1 \in 1..9
    OBVIOUS
  <2>2. QED BY <2>1, DigitValues, Zenon DEF Openers
<1>4. QED BY <1>1, <1>2, <1>3, Zenon

\* What Regular asks of a clip behind another.
After(before, first, clip) ==
  \/ clip \in {"belas", "puluh", "ratus"}
  \/ clip = "ribu" /\ (first \/ before \in {"juta", "miliar"})

\* A spelling uses the special words if no "satu" stands before a word it may not stand before.
LEMMA NotRegular ==
  ASSUME NEW s \in Seq(Clips)
  PROVE  ~Regular(s) <=>
           \A i \in 1..(Len(s) - 1) : s[i] = "satu" => ~After(s[i - 1], i = 1, s[i + 1])
  BY Zenon DEF Regular, After

\* What a proper spelling is, part by part.
LEMMA ProperFacts ==
  ASSUME NEW s, Proper(s)
  PROVE  /\ s \in Seq(Clips) /\ Len(s) \in Nat /\ Len(s) > 0 /\ s[1] \in Openers
         /\ \A i \in 1..(Len(s) - 1) : s[i] = "satu" => ~After(s[i - 1], i = 1, s[i + 1])
<1>1. s \in Seq(Clips) /\ s # <<>> /\ s[1] \in Openers /\ ~Regular(s)
  BY DEF Proper
<1>2. Len(s) \in Nat /\ Len(s) > 0
  BY <1>1, LenProperties, EmptySeq
<1>3. QED BY <1>1, <1>2, NotRegular, Zenon

\* One spelling after another: no opening clip is one that "satu" must not stand before.
LEMMA ProperConcat ==
  ASSUME NEW s, NEW t, Proper(s), Proper(t)
  PROVE  Proper(s \o t)
<1> DEFINE u == s \o t
           m == Len(s)
<1>1. /\ s \in Seq(Clips) /\ m \in Nat /\ m > 0 /\ s[1] \in Openers
      /\ \A i \in 1..(m - 1) : s[i] = "satu" => ~After(s[i - 1], i = 1, s[i + 1])
  BY ProperFacts
<1>2. /\ t \in Seq(Clips) /\ Len(t) \in Nat /\ Len(t) > 0 /\ t[1] \in Openers
      /\ \A i \in 1..(Len(t) - 1) : t[i] = "satu" => ~After(t[i - 1], i = 1, t[i + 1])
  BY ProperFacts
<1>3. /\ u \in Seq(Clips) /\ Len(u) = m + Len(t)
      /\ \A i \in 1..m : u[i] = s[i]
      /\ \A i \in 1..Len(t) : u[m + i] = t[i]
  <2>1. u \in Seq(Clips) /\ Len(u) = m + Len(t)
    BY <1>1, <1>2, ConcatProperties
  <2>2. \A i \in 1..m : u[i] = s[i]
    BY <1>1, <1>2, ConcatProperties
  <2>3. ASSUME NEW i \in 1..Len(t) PROVE u[m + i] = t[i]
    BY <1>1, <1>2
  <2>4. QED BY <2>1, <2>2, <2>3
<1> HIDE DEF u, m
<1>4. ASSUME NEW i \in 1..(Len(u) - 1), u[i] = "satu"
      PROVE  ~After(u[i - 1], i = 1, u[i + 1])
  <2>1. CASE i < m
    <3>1. i \in 1..m /\ i + 1 \in 1..m /\ i \in 1..(m - 1) /\ (i = 1 \/ i - 1 \in 1..m)
      BY <1>1, <1>2, <1>3, <2>1
    <3>2. ~After(s[i - 1], i = 1, s[i + 1])
      BY <1>1, <1>3, <1>4, <3>1
    <3>3. u[i + 1] = s[i + 1] /\ (i = 1 \/ u[i - 1] = s[i - 1])
      BY <1>3, <3>1
    <3>4. QED BY <3>2, <3>3, Zenon DEF After
  <2>2. CASE i = m
    <3>1. u[i + 1] = t[1]
      BY <1>1, <1>2, <1>3, <2>2
    <3>2. QED BY <1>2, <3>1, OpenersFacts, Zenon DEF After
  <2>3. CASE i > m
    <3>1. PICK k \in 1..(Len(t) - 1) : i = m + k
      <4>1. i - m \in 1..(Len(t) - 1) /\ i = m + (i - m)
        BY <1>1, <1>2, <1>3, <2>3
      <4>2. QED BY <4>1
    <3>2. u[i] = t[k] /\ u[i + 1] = t[k + 1] /\ (k = 1 \/ u[i - 1] = t[k - 1]) /\ i # 1
      <4>1. k \in 1..Len(t) /\ k + 1 \in 1..Len(t) /\ i + 1 = m + (k + 1)
        BY <1>1, <1>2, <3>1
      <4>2. k = 1 \/ (k - 1 \in 1..Len(t) /\ i - 1 = m + (k - 1))
        BY <1>1, <1>2, <3>1
      <4>3. i # 1
        BY <1>1, <3>1
      <4>4. QED BY <1>3, <3>1, <4>1, <4>2, <4>3
    <3>3. ~After(t[k - 1], k = 1, t[k + 1])
      BY <1>2, <1>4, <3>2
    <3>4. QED BY <3>2, <3>3, Zenon DEF After
  <2>4. QED BY <1>1, <1>2, <1>3, <2>1, <2>2, <2>3
<1>5. u # <<>> /\ u[1] \in Openers
  <2>1. Len(u) > 0 /\ 1 \in 1..m
    BY <1>1, <1>2, <1>3
  <2>2. u[1] = s[1]
    BY <1>3, <2>1
  <2>3. QED BY <1>1, <2>1, <2>2, EmptySeq
<1>6. ~Regular(u)
  BY <1>3, <1>4, NotRegular, Zenon
<1>7. QED BY <1>3, <1>5, <1>6, Zenon DEF Proper, u

\* A level's clip behind the spelling of how often it fits.
LEMMA ProperAppend ==
  ASSUME NEW s, Proper(s), NEW w \in Clips,
         s[Len(s)] = "satu" => ~After(s[Len(s) - 1], Len(s) = 1, w)
  PROVE  Proper(Append(s, w))
<1> DEFINE u == Append(s, w)
           m == Len(s)
<1>1. /\ s \in Seq(Clips) /\ m \in Nat /\ m > 0 /\ s[1] \in Openers
      /\ \A i \in 1..(m - 1) : s[i] = "satu" => ~After(s[i - 1], i = 1, s[i + 1])
  BY ProperFacts
<1>2. /\ u \in Seq(Clips) /\ Len(u) = m + 1 /\ u[m + 1] = w
      /\ \A i \in 1..m : u[i] = s[i]
  <2>1. u \in Seq(Clips) /\ Len(u) = m + 1
    BY <1>1, AppendProperties
  <2>2. u[m + 1] = w
    BY <1>1, AppendProperties
  <2>3. \A i \in 1..m : u[i] = s[i]
    BY <1>1, AppendProperties
  <2>4. QED BY <2>1, <2>2, <2>3
<1>3. s[m] = "satu" => ~After(s[m - 1], m = 1, w)
  OBVIOUS
<1> HIDE DEF u, m
<1>4. ASSUME NEW i \in 1..(Len(u) - 1), u[i] = "satu"
      PROVE  ~After(u[i - 1], i = 1, u[i + 1])
  <2>1. CASE i < m
    <3>1. i \in 1..m /\ i + 1 \in 1..m /\ i \in 1..(m - 1) /\ (i = 1 \/ i - 1 \in 1..m)
      BY <1>1, <1>2, <2>1
    <3>2. ~After(s[i - 1], i = 1, s[i + 1])
      BY <1>1, <1>2, <1>4, <3>1
    <3>3. u[i + 1] = s[i + 1] /\ (i = 1 \/ u[i - 1] = s[i - 1])
      BY <1>2, <3>1
    <3>4. QED BY <3>2, <3>3, Zenon DEF After
  <2>2. CASE i = m
    <3>1. u[i] = s[i] /\ u[i + 1] = w /\ (i = 1 \/ u[i - 1] = s[i - 1])
      <4>1. i \in 1..m /\ (i = 1 \/ i - 1 \in 1..m)
        BY <1>1, <2>2
      <4>2. QED BY <1>2, <2>2, <4>1
    <3>2. QED BY <1>3, <1>4, <2>2, <3>1, Zenon DEF After
  <2>3. QED BY <1>1, <1>2, <2>1, <2>2
<1>5. u # <<>> /\ u[1] \in Openers
  <2>1. Len(u) > 0 /\ 1 \in 1..m
    BY <1>1, <1>2
  <2>2. u[1] = s[1]
    BY <1>2, <2>1
  <2>3. QED BY <1>1, <2>1, <2>2, EmptySeq
<1>6. ~Regular(u)
  BY <1>2, <1>4, NotRegular, Zenon
<1>7. QED BY <1>2, <1>5, <1>6, Zenon DEF Proper, u

\* Spellings of one clip, and of two.
LEMMA ProperOne ==
  ASSUME NEW w \in Openers
  PROVE  Proper(<<w>>)
<1>1. w \in Clips
  BY OpenersFacts, Zenon
<1>2. <<w>> \in Seq(Clips) /\ <<w>> # <<>> /\ Len(<<w>>) = 1 /\ <<w>>[1] = w
  BY <1>1
<1>3. 1..(1 - 1) = {}
  OBVIOUS
<1>4. ~Regular(<<w>>)
  BY <1>2, <1>3, Zenon DEF Regular
<1>5. QED BY <1>2, <1>4, Zenon DEF Proper

LEMMA ProperTwo ==
  ASSUME NEW d \in 2..9, NEW w \in {"belas", "puluh", "ratus"}
  PROVE  Proper(<<digitClips[d], w>>)
<1>1. d \in 1..9 /\ d # 1
  OBVIOUS
<1>2. digitClips[d] \in Openers
  BY <1>1, Zenon DEF Openers
<1>3. digitClips[d] # "satu"
  BY <1>1, DigitsDiffer, DigitValues
<1>4. w \in Clips
  BY OthersFacts, Zenon DEF Others
<1>5. <<digitClips[d], w>> = Append(<<digitClips[d]>>, w)
  OBVIOUS
<1>6. Len(<<digitClips[d]>>) = 1 /\ <<digitClips[d]>>[1] = digitClips[d]
  OBVIOUS
<1>7. Proper(Append(<<digitClips[d]>>, w))
  BY <1>2, <1>3, <1>4, <1>6, ProperOne, ProperAppend
<1>8. QED BY <1>5, <1>7

----------------------------------------------------------------------------
(* Amounts: numbers below a thousand *)

\* A spelling that is read as n more than what was heard before it, when that is a
\* number of tens.
Adds(s, n) ==
  \A x, y \in Nat : x % 10 = 0 => Fold(Hear, Reading(x, y), s) = Reading(x + n, y)

\* The clips of a number below a thousand.
LEMMA SmallFacts ==
  /\ Small \subseteq Clips
  /\ \A d \in 1..9 : digitClips[d] \in Small
  /\ {"sepuluh", "sebelas", "seratus", "belas", "puluh", "ratus"} \subseteq Small
<1>1. Small \subseteq Clips
  BY DEF Small
<1>2. ASSUME NEW d \in 1..9 PROVE digitClips[d] \in Small
  BY DigitsAlone, Zenon DEF Small, Others
<1>3. {"sepuluh", "sebelas", "seratus", "belas", "puluh", "ratus"} \subseteq Small
  BY OthersFacts, Zenon DEF Small, Others
<1>4. QED BY <1>1, <1>2, <1>3, Zenon

LEMMA SmallOne ==
  ASSUME NEW w \in Small
  PROVE  <<w>> \in Seq(Small) /\ <<w>> \in Seq(Clips)
<1>1. w \in Clips
  BY SmallFacts, Zenon
<1>2. QED BY <1>1

LEMMA SmallTwo ==
  ASSUME NEW w \in Small, NEW v \in Small
  PROVE  <<w, v>> \in Seq(Small) /\ <<w, v>> \in Seq(Clips)
<1>1. w \in Clips /\ v \in Clips
  BY SmallFacts, Zenon
<1>2. QED BY <1>1

\* What is heard of one clip, and of two.
LEMMA HeardDigit ==
  ASSUME NEW x \in Nat, NEW y \in Nat, NEW d \in 1..9
  PROVE  Fold(Hear, Reading(x, y), <<digitClips[d]>>) = Reading(x + d, y)
<1>1. digitClips[d] \in Clips
  BY DigitsAlone
<1>2. Fold(Hear, Reading(x, y), <<digitClips[d]>>) = Hear[<<Reading(x, y), digitClips[d]>>]
  BY <1>1, HeardOne, ZenonT(40)
<1>3. QED BY <1>2, HearDigit, Zenon

\* What is heard of a special clip, and of a digit with its ten or hundred.
LEMMA HeardOther ==
  ASSUME NEW x \in Nat, NEW y \in Nat
  PROVE  /\ Fold(Hear, Reading(x, y), <<"sepuluh">>) = Reading(x + 10, y)
         /\ Fold(Hear, Reading(x, y), <<"sebelas">>) = Reading(x + 11, y)
         /\ Fold(Hear, Reading(x, y), <<"seratus">>) = Reading(x + 100, y)
         /\ Fold(Hear, Reading(x, y), <<"seribu">>) = Reading(0, y + Thousand)
<1>1. ASSUME NEW w \in Others
      PROVE  Fold(Hear, Reading(x, y), <<w>>) = Hear[<<Reading(x, y), w>>]
  BY HeardOne, ZenonT(40)
<1>2. /\ "sepuluh" \in Others /\ "sebelas" \in Others /\ "seratus" \in Others
      /\ "seribu" \in Others
  BY Zenon DEF Others
<1>3. /\ Hear[<<Reading(x, y), "sepuluh">>] = Reading(x + 10, y)
      /\ Hear[<<Reading(x, y), "sebelas">>] = Reading(x + 11, y)
      /\ Hear[<<Reading(x, y), "seratus">>] = Reading(x + 100, y)
      /\ Hear[<<Reading(x, y), "seribu">>] = Reading(0, y + Thousand)
  BY HearOthers, ZenonT(40)
<1>4. QED BY <1>1, <1>2, <1>3, Zenon

LEMMA HeardPair ==
  ASSUME NEW x \in Nat, NEW y \in Nat, NEW d \in 1..9
  PROVE  /\ Fold(Hear, Reading(x, y), <<digitClips[d], "belas">>) = Reading((x + d) + 10, y)
         /\ Fold(Hear, Reading(x, y), <<digitClips[d], "puluh">>)
              = Reading((x + d) + 9 * ((x + d) % 10), y)
         /\ Fold(Hear, Reading(x, y), <<digitClips[d], "ratus">>) = Reading(100 * (x + d), y)
<1>1. ASSUME NEW w \in Others
      PROVE  Fold(Hear, Reading(x, y), <<digitClips[d], w>>) = Hear[<<Reading(x + d, y), w>>]
  <2>1. digitClips[d] \in Clips /\ w \in Clips
    BY DigitsAlone, OthersFacts, Zenon
  <2>2. Fold(Hear, Reading(x, y), <<digitClips[d], w>>)
          = Hear[<<Hear[<<Reading(x, y), digitClips[d]>>], w>>]
    <3>1. ASSUME NEW v \in Clips, NEW u \in Clips, NEW h
          PROVE  Fold(Hear, h, <<v, u>>) = Hear[<<Hear[<<h, v>>], u>>]
      BY HeardTwo
    <3>2. QED BY <2>1, <3>1, Zenon
  <2>3. QED BY <2>2, HearDigit, Zenon
<1>2. "belas" \in Others /\ "puluh" \in Others /\ "ratus" \in Others
  BY Zenon DEF Others
<1>3. x + d \in Nat
  OBVIOUS
<1>4. ASSUME NEW z \in Nat
      PROVE  /\ Hear[<<Reading(z, y), "belas">>] = Reading(z + 10, y)
             /\ Hear[<<Reading(z, y), "puluh">>] = Reading(z + 9 * (z % 10), y)
             /\ Hear[<<Reading(z, y), "ratus">>] = Reading(100 * z, y)
  BY HearOthers, ZenonT(40)
<1>5. QED BY <1>1, <1>2, <1>3, <1>4, Zenon

\* Two parts of a number, read one behind the other.
LEMMA AddsConcat ==
  ASSUME NEW s \in Seq(Clips), NEW t \in Seq(Clips), NEW x, NEW y, NEW z,
         Fold(Hear, x, s) = y, Fold(Hear, y, t) = z
  PROVE  Fold(Hear, x, s \o t) = z
<1>1. Fold(Hear, x, s \o t) = Fold(Hear, Fold(Hear, x, s), t)
  BY FoldConcat
<1>2. QED BY <1>1, Zenon

\* belowHundred: its clips are proper, and heard as the number.
LEMMA BelowHundredSpoken ==
  ASSUME NEW n \in 1..99
  PROVE  /\ belowHundred(n) \in Seq(Small)
         /\ Proper(belowHundred(n))
         /\ Adds(belowHundred(n), n)
<1>1. CASE n < 10
  <2>1. n \in 1..9 /\ belowHundred(n) = <<digitClips[n]>>
    <3>1. n < 10 /\ n # 10 /\ n # 11 /\ n \notin 12..19
      BY <1>1
    <3>1a. belowHundred(n) = <<digitClips[n]>>
      BY <3>1, Zenon DEF belowHundred
    <3>2. QED BY <1>1, <3>1a
  <2>2. digitClips[n] \in Small /\ digitClips[n] \in Openers
    BY <2>1, SmallFacts, Zenon DEF Openers
  <2>3. QED BY <2>1, <2>2, SmallOne, ProperOne, HeardDigit, Zenon DEF Adds
<1>2. CASE n = 10
  <2>1. belowHundred(n) = <<"sepuluh">>
    BY <1>2, SMT DEF belowHundred
  <2>2. "sepuluh" \in Small /\ "sepuluh" \in Openers
    BY SmallFacts, Zenon DEF Openers
  <2>3. QED BY <1>2, <2>1, <2>2, SmallOne, ProperOne, HeardOther, ZenonT(40) DEF Adds
<1>3. CASE n = 11
  <2>1. belowHundred(n) = <<"sebelas">>
    BY <1>3, SMT DEF belowHundred
  <2>2. "sebelas" \in Small /\ "sebelas" \in Openers
    BY SmallFacts, Zenon DEF Openers
  <2>3. QED BY <1>3, <2>1, <2>2, SmallOne, ProperOne, HeardOther, ZenonT(40) DEF Adds
<1>4. CASE n \in 12..19
  <2> DEFINE d == n - 10
  <2>1. d \in 1..9 /\ d \in 2..9 /\ \A x \in Nat : (x + d) + 10 = x + n
    BY <1>4
  <2>2. belowHundred(n) = <<digitClips[d], "belas">>
    BY <1>4, SMT DEF belowHundred
  <2> HIDE DEF d
  <2>3. digitClips[d] \in Small /\ "belas" \in Small
    BY <2>1, SmallFacts, Zenon
  <2>4. ASSUME NEW x \in Nat, NEW y \in Nat
        PROVE  Fold(Hear, Reading(x, y), <<digitClips[d], "belas">>) = Reading(x + n, y)
    <3>1. Fold(Hear, Reading(x, y), <<digitClips[d], "belas">>) = Reading((x + d) + 10, y)
      BY <2>1, HeardPair, Zenon
    <3>2. QED BY <2>1, <3>1, Zenon
  <2>5. <<digitClips[d], "belas">> \in Seq(Small) /\ Proper(<<digitClips[d], "belas">>)
    BY <2>1, <2>3, SmallTwo, ProperTwo, Zenon
  <2>6. QED BY <2>2, <2>4, <2>5, Zenon DEF Adds
<1>5. CASE n \in 20..99
  <2> DEFINE t == n \div 10
             d == n % 10
             front == <<digitClips[t], "puluh">>
             back == IF n % 10 > 0 THEN <<digitClips[n % 10]>> ELSE <<>>
  <2>1. /\ t \in 1..9 /\ t \in 2..9 /\ d \in 0..9 /\ n = 10 * t + d
        /\ n % 10 > 0 <=> d \in 1..9
    BY <1>5
  <2>2. belowHundred(n) = front \o back
    <3>1. ~ (n < 10) /\ n # 10 /\ n # 11 /\ n \notin 12..19
      BY <1>5
    <3>2. QED BY <3>1, Zenon DEF belowHundred
  <2>3. front \in Seq(Small) /\ front \in Seq(Clips) /\ Proper(front)
    <3>1. digitClips[t] \in Small /\ "puluh" \in Small
      BY <2>1, SmallFacts, Zenon
    <3>2. QED BY <2>1, <3>1, SmallTwo, ProperTwo, Zenon
  <2>4. ASSUME NEW x \in Nat, NEW y \in Nat, x % 10 = 0
        PROVE  Fold(Hear, Reading(x, y), front) = Reading(x + 10 * t, y)
    <3>1. (x + t) + 9 * ((x + t) % 10) = x + 10 * t
      <4>1. (x + t) % 10 = t
        BY <2>1, <2>4, Z3
      <4>2. QED BY <2>1, <4>1
    <3>2. Fold(Hear, Reading(x, y), front) = Reading((x + t) + 9 * ((x + t) % 10), y)
      BY <2>1, HeardPair, Zenon
    <3>3. QED BY <3>1, <3>2, Zenon
  <2>5. CASE d \in 1..9
    <3>1. back = <<digitClips[d]>>
      BY <2>1, <2>5
    <3>2. digitClips[d] \in Small /\ digitClips[d] \in Openers
      BY <2>5, SmallFacts, Zenon DEF Openers
    <3>3. back \in Seq(Small) /\ back \in Seq(Clips) /\ Proper(back)
      BY <3>1, <3>2, SmallOne, ProperOne, Zenon
    <3>4. ASSUME NEW x \in Nat, NEW y \in Nat, x % 10 = 0
          PROVE  Fold(Hear, Reading(x, y), front \o back) = Reading(x + n, y)
      <4>1. x + 10 * t \in Nat /\ (x + 10 * t) + d = x + n
        BY <2>1
      <4>2. Fold(Hear, Reading(x + 10 * t, y), back) = Reading(x + n, y)
        <5>1. Fold(Hear, Reading(x + 10 * t, y), back) = Reading((x + 10 * t) + d, y)
          BY <2>5, <3>1, <4>1, HeardDigit, Zenon
        <5>2. QED BY <4>1, <5>1, Zenon
      <4>3. Fold(Hear, Reading(x, y), front) = Reading(x + 10 * t, y)
        BY <2>4, <3>4, Zenon
      <4> HIDE DEF front, back
      <4>4. QED BY <2>3, <3>3, <4>2, <4>3, AddsConcat
    <3> HIDE DEF front, back
    <3>5. front \o back \in Seq(Small)
      BY <2>3, <3>3, ConcatProperties
    <3>6. Proper(front \o back)
      BY <2>3, <3>3, ProperConcat
    <3>7. QED BY <2>2, <3>4, <3>5, <3>6, Zenon DEF Adds
  <2>6. CASE d = 0
    <3>1. back = <<>> /\ n = 10 * t
      BY <2>1, <2>6
    <3> HIDE DEF front, back
    <3>2. front \o back = front
      BY <2>3, <3>1, ConcatEmptySeq
    <3>3. QED BY <2>2, <2>3, <2>4, <3>1, <3>2, Zenon DEF Adds
  <2>7. QED BY <2>1, <2>5, <2>6
<1>6. QED BY <1>1, <1>2, <1>3, <1>4, <1>5

\* A spelling of a number below a thousand, as every level uses it.
Short(s, n) ==
  /\ s \in Seq(Small) /\ Proper(s)
  /\ \A y \in Nat : Fold(Hear, Reading(0, y), s) = Reading(n, y)

\* hundreds: its clips are proper, and heard as the number.
LEMMA HundredsSpoken ==
  ASSUME NEW n \in 100..999
  PROVE  Short(hundreds(n), n)
<1> DEFINE h == n \div 100
           r == n % 100
           front == IF n \div 100 = 1 THEN <<"seratus">> ELSE <<digitClips[n \div 100], "ratus">>
           back == IF n % 100 > 0 THEN belowHundred(n % 100) ELSE <<>>
<1>1. /\ h \in 1..9 /\ (h = 1 \/ h \in 2..9) /\ r \in 0..99 /\ n = 100 * h + r
      /\ n % 100 > 0 <=> r \in 1..99
      /\ 100 * h \in Nat /\ (100 * h) % 10 = 0
      /\ 0 + 100 = 100 * 1 /\ 100 * (0 + h) = 100 * h
  OBVIOUS
<1>2. hundreds(n) = front \o back
  BY DEF hundreds
<1>3. /\ front \in Seq(Small) /\ front \in Seq(Clips) /\ Proper(front)
      /\ \A y \in Nat : Fold(Hear, Reading(0, y), front) = Reading(100 * h, y)
  <2>1. CASE h = 1
    <3>1. front = <<"seratus">>
      BY <2>1, Zenon
    <3>2. "seratus" \in Small /\ "seratus" \in Openers
      BY SmallFacts, Zenon DEF Openers
    <3>3. ASSUME NEW y \in Nat
          PROVE  Fold(Hear, Reading(0, y), <<"seratus">>) = Reading(0 + 100, y)
      BY HeardOther
    <3>4. 0 + 100 = 100 * h
      BY <2>1
    <3>5. QED BY <3>1, <3>2, <3>3, <3>4, SmallOne, ProperOne, ZenonT(40)
  <2>2. CASE h # 1
    <3>1. front = <<digitClips[h], "ratus">>
      BY <2>2, Zenon
    <3>2. digitClips[h] \in Small /\ "ratus" \in Small
      BY <1>1, SmallFacts, Zenon
    <3>3. ASSUME NEW y \in Nat
          PROVE  Fold(Hear, Reading(0, y), <<digitClips[h], "ratus">>) = Reading(100 * (0 + h), y)
      <4>1. 0 \in Nat /\ h \in 1..9
        BY <1>1
      <4>2. QED BY <4>1, HeardPair, ZenonT(40)
    <3>4. Proper(front)
      BY <1>1, <2>2, <3>1, ProperTwo, Zenon
    <3>5. QED BY <1>1, <3>1, <3>2, <3>3, <3>4, SmallTwo, ZenonT(40)
  <2>3. QED BY <2>1, <2>2
<1>4. CASE r \in 1..99
  <2>1. back = belowHundred(r)
    BY <1>1, <1>4, Zenon
  <2>2. back \in Seq(Small) /\ Proper(back) /\ Adds(back, r) /\ back \in Seq(Clips)
    <3>1. /\ belowHundred(r) \in Seq(Small) /\ Proper(belowHundred(r))
          /\ Adds(belowHundred(r), r)
      BY <1>4, BelowHundredSpoken
    <3>2. QED BY <2>1, <3>1, Zenon DEF Proper
  <2> HIDE DEF front, back
  <2>3. ASSUME NEW y \in Nat PROVE Fold(Hear, Reading(0, y), front \o back) = Reading(n, y)
    <3>1. Fold(Hear, Reading(100 * h, y), back) = Reading(n, y)
      <4>1. Fold(Hear, Reading(100 * h, y), back) = Reading(100 * h + r, y)
        BY <1>1, <2>2, ZenonT(60) DEF Adds
      <4>2. QED BY <1>1, <4>1, ZenonT(60)
    <3>2. Fold(Hear, Reading(0, y), front) = Reading(100 * h, y)
      BY <1>3
    <3>3. QED BY <1>3, <2>2, <3>1, <3>2, AddsConcat
  <2>4. front \o back \in Seq(Small)
    BY <1>3, <2>2, ConcatProperties
  <2>5. Proper(front \o back)
    BY <1>3, <2>2, ProperConcat
  <2>6. QED BY <1>2, <2>3, <2>4, <2>5, ZenonT(40) DEF Short
<1>5. CASE r = 0
  <2>1. back = <<>> /\ n = 100 * h
    BY <1>1, <1>5
  <2> HIDE DEF front, back
  <2>2. front \o back = front
    BY <1>3, <2>1, ConcatEmptySeq
  <2>3. QED BY <1>2, <1>3, <2>1, <2>2, Zenon DEF Short
<1>6. QED BY <1>1, <1>4, <1>5

----------------------------------------------------------------------------
(* Amounts: the levels of a number *)

\* How often a level fits into a number.
Parts == 1..999

\* How often a level fits is a number from 1 to 999.
LEMMA PartFacts ==
  ASSUME NEW n \in Parts
  PROVE  n \in Nat
  BY DEF Parts

\* How often a level fits, and its clip.
Mults == {"ribu", "juta", "miliar"}

IsLevel(v, w, solo) ==
  \/ v = Thousand /\ w = "ribu" /\ solo = "seribu"
  \/ v = Million /\ w = "juta" /\ solo = ""
  \/ v = Billion /\ w = "miliar" /\ solo = ""

\* The clips that name a level.
LEMMA MultsFacts ==
  ASSUME NEW w \in Mults
  PROVE  w \in Clips /\ w \notin {"belas", "puluh", "ratus"}
  BY OthersFacts, Zenon DEF Mults, Others

\* A spelled number and its level are heard as their product.
LEMMA MultFacts ==
  ASSUME NEW s, NEW n, Short(s, n), NEW w \in Mults
  PROVE  /\ Append(s, w) \in Seq(Clips)
         /\ \A y \in Nat : Fold(Hear, Reading(0, y), Append(s, w)) = Hear[<<Reading(n, y), w>>]
<1>1. s \in Seq(Clips)
  BY DEF Short, Proper
<1>2. w \in Clips
  BY MultsFacts
<1>3. ASSUME NEW y \in Nat
      PROVE  Fold(Hear, Reading(0, y), Append(s, w)) = Hear[<<Reading(n, y), w>>]
  <2>1. Fold(Hear, Reading(0, y), Append(s, w)) = Hear[<<Fold(Hear, Reading(0, y), s), w>>]
    BY <1>1, <1>2, FoldAppend
  <2>2. Fold(Hear, Reading(0, y), s) = Reading(n, y)
    BY Zenon DEF Short
  <2>3. QED BY <2>1, <2>2, Zenon
<1>4. QED BY <1>1, <1>2, <1>3, AppendProperties

\* "ribu" stands behind "satu" only where another word of the level is before it.
LEMMA ProperMult ==
  ASSUME NEW s, NEW n \in Parts, Short(s, n), NEW w \in Mults,
         w = "ribu" => n # 1
  PROVE  Proper(Append(s, w))
<1> DEFINE m == Len(s)
<1>1. /\ s \in Seq(Small) /\ s \in Seq(Clips) /\ Proper(s) /\ m \in Nat /\ m > 0
  BY ProperFacts DEF Short
<1>1a. w = "ribu" => n # 1
  OBVIOUS
<1> HIDE DEF m
<1>2. w \in Clips
  BY MultsFacts
<1>3. w \notin {"belas", "puluh", "ratus"}
  BY MultsFacts, Zenon
<1>4. ASSUME w = "ribu", s[m] = "satu" PROVE m # 1 /\ s[m - 1] \notin {"juta", "miliar"}
  <2>1. m # 1
    <3>0. n \in Nat
      BY PartFacts, Zenon
    <3> SUFFICES ASSUME m = 1 PROVE FALSE
      OBVIOUS
    <3>1. s = <<"satu">>
      BY <1>1, <1>4 DEF m
    <3>2. s = <<digitClips[1]>> /\ 1 \in 1..9
      BY <3>1, DigitValues
    <3>3. Fold(Hear, Reading(0, 0), s) = Reading(0 + 1, 0)
      BY <3>2, HeardDigit, Zenon
    <3>4. Fold(Hear, Reading(0, 0), s) = Reading(n, 0)
      BY DEF Short
    <3>5. n = 0 + 1
      <4>1. Reading(n, 0).heard = n /\ Reading(0 + 1, 0).heard = 0 + 1
        BY <3>0, ReadingFacts
      <4>2. QED BY <3>3, <3>4, <4>1, Zenon
    <3>6. QED BY <1>1a, <1>4, <3>5
  <2>2. m - 1 \in 1..m
    BY <1>1, <2>1
  <2>3. s[m - 1] \in Small
    BY <1>1, <2>2, ElementOfSeq DEF m
  <2>4. QED BY <2>1, <2>3, Zenon DEF Small
<1>5. s[m] = "satu" => ~After(s[m - 1], m = 1, w)
  BY <1>3, <1>4, Zenon DEF After
<1>6. QED BY <1>1, <1>2, <1>5, ProperAppend, Zenon DEF m

\* A level's words are read as the level as often as it fits.
LEMMA LevelFront ==
  ASSUME NEW s, NEW n \in Parts, Short(s, n),
         NEW v, NEW w, NEW solo,
         IsLevel(v, w, solo),
         NEW front, front = withScale(n, [value |-> v, mult |-> w, solo |-> solo], s)
  PROVE  /\ Proper(front)
         /\ \A y \in Nat : Fold(Hear, Reading(0, y), front) = Reading(0, y + v * n)
<1>1. front = IF n = 1 /\ solo # "" THEN <<solo>> ELSE Append(s, w)
  <2>1. ASSUME NEW l, l = [value |-> v, mult |-> w, solo |-> solo]
        PROVE  l.mult = w /\ l.solo = solo
    BY <2>1
  <2>2. withScale(n, [value |-> v, mult |-> w, solo |-> solo], s)
          = IF n = 1 /\ solo # "" THEN <<solo>> ELSE Append(s, w)
    BY <2>1, Zenon DEF withScale
  <2>3. QED BY <2>2, Zenon
<1>2. CASE n = 1 /\ solo # ""
  <2>1. v = Thousand /\ solo = "seribu" /\ front = <<"seribu">>
    BY <1>1, <1>2, Zenon DEF IsLevel
  <2>2. "seribu" \in Openers
    BY Zenon DEF Openers
  <2>3. ASSUME NEW y \in Nat PROVE Fold(Hear, Reading(0, y), front) = Reading(0, y + v * n)
    <3>1. Fold(Hear, Reading(0, y), <<"seribu">>) = Reading(0, y + Thousand)
      BY HeardOther
    <3>2. v * n = Thousand
      BY <1>2, <2>1, Sizes
    <3>3. QED BY <2>1, <3>1, <3>2, Zenon
  <2>4. QED BY <2>1, <2>2, <2>3, ProperOne, Zenon
<1>3. CASE ~ (n = 1 /\ solo # "")
  <2>1. front = Append(s, w) /\ w \in Mults /\ (w = "ribu" => n # 1)
    <3>1. w = "ribu" => solo # ""
      BY Zenon DEF IsLevel
    <3>2. QED BY <1>1, <1>3, <3>1, Zenon DEF Mults, IsLevel
  <2>2. ASSUME NEW y \in Nat PROVE Fold(Hear, Reading(0, y), front) = Reading(0, y + v * n)
    <3>1. Fold(Hear, Reading(0, y), front) = Hear[<<Reading(n, y), w>>]
      BY <2>1, MultFacts, Zenon
    <3>2. n \in Nat
      BY PartFacts, Zenon
    <3>3. /\ Hear[<<Reading(n, y), "ribu">>] = Reading(0, y + Thousand * n)
          /\ Hear[<<Reading(n, y), "juta">>] = Reading(0, y + Million * n)
          /\ Hear[<<Reading(n, y), "miliar">>] = Reading(0, y + Billion * n)
      BY <3>2, HearOthers, ZenonT(40)
    <3>4. QED BY <3>1, <3>3, Zenon DEF IsLevel
  <2>3. Proper(Append(s, w))
    <3>1. ASSUME NEW u \in Mults, u = "ribu" => n # 1
          PROVE  Proper(Append(s, u))
      BY <3>1, ProperMult, Zenon
    <3>2. QED BY <2>1, <3>1, Zenon
  <2>4. QED BY <2>1, <2>2, <2>3, Zenon
<1>4. QED BY <1>2, <1>3, Zenon

\* A spelling that is read as n.  Below a thousand nothing of it is counted as a
\* level yet.
Spoken(s, n) ==
  /\ Proper(s)
  /\ \A y \in Nat : \E r \in 0..n :
       /\ Fold(Hear, Reading(0, y), s) = Reading(r, y + (n - r))
       /\ n < Thousand => r = n

\* A number below a thousand is spoken by its short spelling.
LEMMA ShortSpoken ==
  ASSUME NEW n \in Nat, NEW s, Short(s, n)
  PROVE  Spoken(s, n)
<1>1. Proper(s)
  BY DEF Short
<1>2. ASSUME NEW y \in Nat
      PROVE  Fold(Hear, Reading(0, y), s) = Reading(n, y + (n - n))
  <2>1. y + (n - n) = y
    OBVIOUS
  <2>2. QED BY <2>1, Zenon DEF Short
<1>3. n \in 0..n
  OBVIOUS
<1>4. QED BY <1>1, <1>2, <1>3, Zenon DEF Spoken

\* withScale: the front of a level is heard as how often the level fits.
LEMMA LevelFrontOf ==
  ASSUME NEW v, NEW w, NEW solo, IsLevel(v, w, solo),
         NEW n \in Parts, NEW s, Short(s, n)
  PROVE  LET front == withScale(n, [value |-> v, mult |-> w, solo |-> solo], s)
         IN  /\ Proper(front)
             /\ \A y \in Nat : Fold(Hear, Reading(0, y), front) = Reading(0, y + v * n)
<1>1. PICK front : front = withScale(n, [value |-> v, mult |-> w, solo |-> solo], s)
  OBVIOUS
<1>2. /\ Proper(front)
      /\ \A y \in Nat : Fold(Hear, Reading(0, y), front) = Reading(0, y + v * n)
  BY <1>1, LevelFront
<1>3. QED BY <1>1, <1>2, Zenon

\* A level, and what is left of the number below it.
LEMMA LevelSpoken ==
  ASSUME NEW n \in Nat, NEW v \in Nat, NEW q \in Nat, NEW m \in Nat, n = v * q + m,
         n >= Thousand,
         NEW front, Proper(front),
         \A y \in Nat : Fold(Hear, Reading(0, y), front) = Reading(0, y + v * q),
         NEW rest, m > 0 => Spoken(rest, m)
  PROVE  Spoken(front \o (IF m > 0 THEN rest ELSE <<>>), n)
<1> DEFINE k == v * q
           back == IF m > 0 THEN rest ELSE <<>>
<1>1. k \in Nat /\ n = k + m
  OBVIOUS
<1>2. \A y \in Nat : Fold(Hear, Reading(0, y), front) = Reading(0, y + k)
  OBVIOUS
<1>3. front \in Seq(Clips)
  BY DEF Proper
<1>4. CASE m > 0
  <2>1. back = rest /\ Spoken(rest, m)
    BY <1>4
  <2>2. rest \in Seq(Clips) /\ Proper(rest)
    BY <2>1 DEF Spoken, Proper
  <2> HIDE DEF k, back
  <2>3. ASSUME NEW y \in Nat
        PROVE  \E r \in 0..n : /\ Fold(Hear, Reading(0, y), front \o rest)
                                     = Reading(r, y + (n - r))
                               /\ n < Thousand => r = n
    <3>1. y + k \in Nat
      BY <1>1
    <3>2. PICK r \in 0..m : Fold(Hear, Reading(0, y + k), rest) = Reading(r, (y + k) + (m - r))
      BY <2>1, <3>1 DEF Spoken
    <3>3. r \in 0..n /\ (y + k) + (m - r) = y + (n - r)
      BY <1>1, <3>2
    <3>4. Fold(Hear, Reading(0, y + k), rest) = Reading(r, y + (n - r))
      BY <3>2, <3>3, Zenon
    <3>5. Fold(Hear, Reading(0, y), front) = Reading(0, y + k)
      BY <1>2
    <3>6. Fold(Hear, Reading(0, y), front \o rest) = Reading(r, y + (n - r))
      BY <1>3, <2>2, <3>4, <3>5, AddsConcat
    <3>7. ~ (n < Thousand)
      BY Sizes
    <3>8. QED BY <3>3, <3>6, <3>7, Zenon
  <2>4. Proper(front \o rest)
    BY <2>2, ProperConcat
  <2>5. Spoken(front \o rest, n)
    BY <2>3, <2>4, Zenon DEF Spoken
  <2>6. QED BY <2>1, <2>5, Zenon DEF back
<1>5. CASE m = 0
  <2>1. back = <<>> /\ n = k
    BY <1>5
  <2> HIDE DEF k, back
  <2>2. front \o back = front
    BY <1>3, <2>1, ConcatEmptySeq
  <2>3. ASSUME NEW y \in Nat
        PROVE  \E r \in 0..n : /\ Fold(Hear, Reading(0, y), front) = Reading(r, y + (n - r))
                               /\ n < Thousand => r = n
    <3>1. Fold(Hear, Reading(0, y), front) = Reading(0, y + k)
      BY <1>2
    <3>2. y + k = y + (n - 0) /\ 0 \in 0..n
      BY <2>1, <1>1
    <3>3. ~ (n < Thousand)
      BY Sizes
    <3>4. QED BY <3>1, <3>2, <3>3, Zenon
  <2>4. Spoken(front, n)
    BY <2>3, Zenon DEF Spoken
  <2>5. QED BY <2>2, <2>4, Zenon DEF back
<1>6. QED BY <1>4, <1>5

----------------------------------------------------------------------------
(* Amounts: every number in reach of the clips is spoken *)

\* The largest number of clips is below a thousand of the largest level.
LEMMA Limit ==
  /\ MaxRupiah \in Nat
  /\ \A n \in 0..MaxRupiah : n \in Nat /\ n \div Billion < Thousand
<1>1. MaxRupiah \in Nat
  BY MaxRupiahAssumption, SMT
<1>2. ASSUME NEW n \in 0..MaxRupiah PROVE n \in Nat /\ n \div Billion < Thousand
  BY MaxRupiahAssumption, SMT DEF Billion, Thousand
<1>3. QED BY <1>1, <1>2, Zenon

\* What a number is spelled with depends on its size only.
LEMMA SpellingCases ==
  ASSUME NEW f, NEW n
  PROVE  /\ n < 100 => Spelling(f, n) = belowHundred(n)
         /\ ~ (n < 100) /\ n < Thousand => Spelling(f, n) = hundreds(n)
         /\ ~ (n < 100) /\ ~ (n < Thousand) /\ n < Million
              => Spelling(f, n) = Level(f, n, Thousand, "ribu", "seribu")
         /\ ~ (n < 100) /\ ~ (n < Thousand) /\ ~ (n < Million) /\ n < Billion
              => Spelling(f, n) = Level(f, n, Million, "juta", "")
         /\ ~ (n < 100) /\ ~ (n < Thousand) /\ ~ (n < Million) /\ ~ (n < Billion)
              => Spelling(f, n) = Level(f, n, Billion, "miliar", "")
  BY Zenon DEF Spelling

\* Numbers below a thousand are spoken.
LEMMA ShortNumber ==
  ASSUME NEW n \in 0..MaxRupiah, n > 0, n < Thousand
  PROVE  Short(numberClips[n], n)
<1>0. n \in 1..999
  BY Limit, SMT DEF Thousand
<1>1. numberClips[n] = Spelling(numberClips, n)
  BY NumberClipsStep
<1>2. CASE n < 100
  <2>1. numberClips[n] = belowHundred(n)
    BY <1>1, <1>2, SpellingCases, Zenon
  <2>2. n \in 1..99
    BY <1>0, <1>2
  <2>3. /\ belowHundred(n) \in Seq(Small) /\ Proper(belowHundred(n))
        /\ Adds(belowHundred(n), n)
    BY <2>2, BelowHundredSpoken
  <2>4. ASSUME NEW y \in Nat PROVE Fold(Hear, Reading(0, y), belowHundred(n)) = Reading(n, y)
    <3>1. 0 \in Nat /\ 0 % 10 = 0 /\ 0 + n = n
      BY <2>2
    <3>2. Fold(Hear, Reading(0, y), belowHundred(n)) = Reading(0 + n, y)
      BY <2>3, <3>1, Zenon DEF Adds
    <3>3. QED BY <3>1, <3>2, Zenon
  <2>5. QED BY <2>1, <2>3, <2>4, Zenon DEF Short
<1>3. CASE ~ (n < 100)
  <2>1. n \in 100..999
    BY <1>0, <1>3
  <2>2. numberClips[n] = hundreds(n)
    BY <1>1, <1>3, SpellingCases, Zenon
  <2>3. Short(hundreds(n), n)
    BY <2>1, HundredsSpoken, ZenonT(40)
  <2>4. QED BY <2>2, <2>3, Zenon
<1>4. QED BY <1>2, <1>3

\* The parts a level divides a number into are in reach of the clips.
LEMMA LevelNumbers ==
  ASSUME NEW n \in 0..MaxRupiah, NEW v \in {Thousand, Million, Billion},
         n >= v, n \div v < Thousand
  PROVE  /\ n \in Nat /\ v \in Nat /\ n >= Thousand
         /\ n \div v \in Nat /\ n \div v > 0 /\ n \div v \in Parts
         /\ n \div v \in 0..MaxRupiah
         /\ n % v \in Nat /\ n = v * (n \div v) + (n % v)
<1>1. n \in Nat /\ MaxRupiah \in Nat
  BY Limit, Zenon
<1>2. /\ n \div v \in Nat /\ n \div v > 0 /\ n \div v < n
      /\ n % v \in Nat /\ n = v * (n \div v) + (n % v)
  BY <1>1, Division
<1>3. v \in Nat /\ n >= Thousand
  BY <1>1, Sizes
<1>4. n \div v \in Parts /\ n \div v \in 0..MaxRupiah
  <2>1. ASSUME NEW q \in Nat, q > 0, q < n, q < Thousand
        PROVE  q \in Parts /\ q \in 0..MaxRupiah
    BY <1>1, <2>1, SMT DEF Parts, Thousand
  <2>2. QED BY <1>2, <2>1, Zenon
<1>5. QED BY <1>1, <1>2, <1>3, <1>4, Zenon

\* One level of numberClips.
LEMMA LevelRead ==
  ASSUME NEW v \in Nat, NEW w, NEW solo, IsLevel(v, w, solo),
         NEW q \in Nat, q \in Parts, NEW s, Short(s, q),
         NEW n \in Nat, n >= Thousand, NEW m \in Nat, n = v * q + m,
         NEW rest, m > 0 => Spoken(rest, m)
  PROVE  Spoken(withScale(q, [value |-> v, mult |-> w, solo |-> solo], s)
                \o (IF m > 0 THEN rest ELSE <<>>), n)
<1> DEFINE front == withScale(q, [value |-> v, mult |-> w, solo |-> solo], s)
<1>1. /\ Proper(front)
      /\ \A y \in Nat : Fold(Hear, Reading(0, y), front) = Reading(0, y + v * q)
  BY LevelFrontOf
<1> HIDE DEF front
<1>2. Spoken(front \o (IF m > 0 THEN rest ELSE <<>>), n)
  BY <1>1, LevelSpoken
<1>3. QED BY <1>2 DEF front

\* A number of at least a level is spoken, if what is left over is.
LEMMA LevelOfNumber ==
  ASSUME NEW n \in 0..MaxRupiah, NEW v \in {Thousand, Million, Billion}, NEW w, NEW solo,
         IsLevel(v, w, solo),
         n >= v, n \div v < Thousand,
         n % v > 0 => Spoken(numberClips[n % v], n % v),
         numberClips[n] = Level(numberClips, n, v, w, solo)
  PROVE  Spoken(numberClips[n], n)
<1>1. /\ n \in Nat /\ v \in Nat /\ n >= Thousand
      /\ n \div v \in Nat /\ n \div v > 0 /\ n \div v \in Parts /\ n \div v \in 0..MaxRupiah
      /\ n % v \in Nat /\ n = v * (n \div v) + (n % v)
  BY LevelNumbers, Zenon
<1>2. Short(numberClips[n \div v], n \div v)
  BY <1>1, ShortNumber, Zenon
<1>3. Spoken(withScale(n \div v, [value |-> v, mult |-> w, solo |-> solo],
                       numberClips[n \div v])
             \o (IF n % v > 0 THEN numberClips[n % v] ELSE <<>>), n)
  <2>1. ASSUME NEW q \in Nat, q \in Parts, NEW m \in Nat, n = v * q + m, Short(numberClips[q], q),
               m > 0 => Spoken(numberClips[m], m)
        PROVE  Spoken(withScale(q, [value |-> v, mult |-> w, solo |-> solo], numberClips[q])
                      \o (IF m > 0 THEN numberClips[m] ELSE <<>>), n)
    BY <1>1, <2>1, LevelRead
  <2>2. QED BY <1>1, <1>2, <2>1, Zenon
<1>4. QED BY <1>3, Zenon DEF Level

\* From the smallest level to the largest: every number in reach of the clips is spoken.
LEMMA NumberSpoken ==
  ASSUME NEW n \in 0..MaxRupiah, n > 0
  PROVE  Spoken(numberClips[n], n)
<1>1. n \in Nat
  BY Limit, Zenon
<1>2. ASSUME NEW k \in 0..MaxRupiah, k > 0, k < Thousand
      PROVE  Spoken(numberClips[k], k)
  <2>1. k \in Nat /\ k < Thousand
    BY <1>2, Limit, Zenon
  <2>2. Short(numberClips[k], k)
    BY <1>2, <2>1, ShortNumber, Zenon
  <2>3. QED BY <2>1, <2>2, ShortSpoken, Zenon
<1>3. ASSUME NEW k \in 0..MaxRupiah, k > 0, k < Million
      PROVE  Spoken(numberClips[k], k)
  <2>1. CASE k < Thousand
    BY <1>2, <1>3, <2>1, Zenon
  <2>2. CASE ~ (k < Thousand)
    <3>1. k \in Nat
      BY Limit, Zenon
    <3>2. k >= Thousand /\ k \div Thousand < Thousand /\ ~ (k < 100) /\ k < Million
      BY <1>3, <2>2, <3>1, SMT DEF Thousand, Million
    <3>3. k % Thousand \in 0..MaxRupiah /\ k % Thousand < Thousand
      BY <3>1, Limit, SMT DEF Thousand
    <3>4. k % Thousand > 0 => Spoken(numberClips[k % Thousand], k % Thousand)
      BY <1>2, <3>3, Zenon
    <3>5. numberClips[k] = Level(numberClips, k, Thousand, "ribu", "seribu")
      BY <2>2, <3>2, NumberClipsStep, SpellingCases, Zenon
    <3>6. QED BY <3>2, <3>4, <3>5, LevelOfNumber, Zenon DEF IsLevel
  <2>3. QED BY <2>1, <2>2, Zenon
<1>4. ASSUME NEW k \in 0..MaxRupiah, k > 0, k < Billion
      PROVE  Spoken(numberClips[k], k)
  <2>1. CASE k < Million
    BY <1>3, <1>4, <2>1, Zenon
  <2>2. CASE ~ (k < Million)
    <3>1. k \in Nat
      BY Limit, Zenon
    <3>2. /\ k >= Million /\ k \div Million < Thousand /\ ~ (k < 100)
          /\ ~ (k < Thousand) /\ k < Billion
      BY <1>4, <2>2, <3>1, SMT DEF Thousand, Million, Billion
    <3>3. k % Million \in 0..MaxRupiah /\ k % Million < Million
      BY <3>1, Limit, SMT DEF Million
    <3>4. k % Million > 0 => Spoken(numberClips[k % Million], k % Million)
      BY <1>3, <3>3, Zenon
    <3>5. numberClips[k] = Level(numberClips, k, Million, "juta", "")
      BY <2>2, <3>2, NumberClipsStep, SpellingCases, Zenon
    <3>6. QED BY <3>2, <3>4, <3>5, LevelOfNumber, Zenon DEF IsLevel
  <2>3. QED BY <2>1, <2>2, Zenon
<1>5. CASE n < Billion
  BY <1>4, <1>5, Zenon
<1>6. CASE ~ (n < Billion)
  <2>1. /\ n >= Billion /\ ~ (n < 100) /\ ~ (n < Thousand) /\ ~ (n < Million)
    BY <1>1, <1>6, SMT DEF Thousand, Million, Billion
  <2>2. n \div Billion < Thousand
    BY Limit, Zenon
  <2>3. n % Billion \in 0..MaxRupiah /\ n % Billion < Billion
    BY <1>1, Limit, SMT DEF Billion
  <2>4. n % Billion > 0 => Spoken(numberClips[n % Billion], n % Billion)
    BY <1>4, <2>3, Zenon
  <2>5. numberClips[n] = Level(numberClips, n, Billion, "miliar", "")
    BY <1>6, <2>1, NumberClipsStep, SpellingCases, Zenon
  <2>6. QED BY <2>1, <2>2, <2>4, <2>5, LevelOfNumber, Zenon DEF IsLevel
<1>7. QED BY <1>5, <1>6, Zenon

\* Every amount up to Compose's limit is announced in clips that read back as it, in
\* the words Indonesian has for it.
THEOREM ClipsOfEveryAmount ==
  ASSUME NEW n \in 1..MaxRupiah
  PROVE  /\ numberClips[n] \in Seq(Clips)
         /\ ~Regular(numberClips[n])
         /\ Heard(numberClips[n]) = n
<1>1. n \in 0..MaxRupiah /\ n > 0
  BY Limit
<1>2. Spoken(numberClips[n], n)
  BY <1>1, NumberSpoken
<1>3. PICK r \in 0..n : Fold(Hear, Reading(0, 0), numberClips[n]) = Reading(r, 0 + (n - r))
  BY <1>2 DEF Spoken
<1>4. r \in Nat /\ n - r \in Nat /\ 0 + (n - r) = n - r /\ (n - r) + r = n
  BY <1>1, <1>3
<1>5. Fold(Hear, Reading(0, 0), numberClips[n]) = Reading(r, n - r)
  BY <1>3, <1>4, Zenon
<1>6. Heard(numberClips[n]) = (n - r) + r
  <2>1. Reading(r, n - r).heard = r /\ Reading(r, n - r).total = n - r
    BY <1>4, ReadingFacts
  <2>2. Heard(numberClips[n]) = Reading(r, n - r).total + Reading(r, n - r).heard
    BY <1>5, Zenon DEF Heard
  <2>3. QED BY <2>1, <2>2, Zenon
<1>7. QED BY <1>2, <1>4, <1>6, Zenon DEF Spoken, Proper

----------------------------------------------------------------------------
(* Amounts: the words of the firmware *)

\* The firmware's words.
LEMMA UnitsValues ==
  /\ units[1] = "One" /\ units[2] = "Two" /\ units[3] = "Three" /\ units[4] = "Four"
  /\ units[5] = "Five" /\ units[6] = "Six" /\ units[7] = "Seven" /\ units[8] = "Eight"
  /\ units[9] = "Nine"
  BY SMT DEF units

\* The English tables of the firmware, entry by entry.
LEMMA TeenValues ==
  /\ teen[1] = "Ten" /\ teen[2] = "Eleven" /\ teen[3] = "Twelve" /\ teen[4] = "Thirteen"
  /\ teen[5] = "Fourteen" /\ teen[6] = "Fifteen" /\ teen[7] = "Sixteen"
  /\ teen[8] = "Seventeen" /\ teen[9] = "Eighteen" /\ teen[10] = "Nineteen"
  BY SMT DEF teen

LEMMA TensValues ==
  /\ tens[2] = "Twenty" /\ tens[3] = "Thirty" /\ tens[4] = "Forty"
  /\ tens[5] = "Fifty" /\ tens[6] = "Sixty" /\ tens[7] = "Seventy" /\ tens[8] = "Eighty"
  /\ tens[9] = "Ninety"
  BY SMT DEF tens

LEMMA NoTens == tens[1] = ""
  BY SMT DEF tens

LEMMA SuffixValues ==
  suffixes[1] = "" /\ suffixes[2] = "Thousand" /\ suffixes[3] = "Million"
  BY SMT DEF suffixes

LEMMA WordDomains ==
  /\ DOMAIN units = 1..9 /\ DOMAIN teen = 1..10 /\ DOMAIN tens = 1..9
  /\ DOMAIN suffixes = 1..4
<1>1. DOMAIN units = 1..9
  BY SMT DEF units
<1>2. DOMAIN teen = 1..10
  BY SMT DEF teen
<1>3. DOMAIN tens = 1..9
  BY SMT DEF tens
<1>4. DOMAIN suffixes = 1..4
  BY SMT DEF suffixes
<1>5. QED BY <1>1, <1>2, <1>3, <1>4, Zenon

Plain == {"", "Hundred", "Thousand", "Million", "And", "Dollars", "Cents", "AndDollars",
          "AndCents", "Received", "ReceivedAgain"}

\* The tables as sets.
LEMMA WordSets ==
  /\ \A w : w \in ToSet(units) <=> \E d \in 1..9 : w = units[d]
  /\ \A w : w \in ToSet(teen) <=> \E d \in 1..10 : w = teen[d]
  /\ \A w : w \in ToSet(tens) <=> \E d \in 1..9 : w = tens[d]
<1>1. \A w : w \in ToSet(units) <=> \E d \in 1..9 : w = units[d]
  BY WordDomains, Zenon DEF ToSet
<1>2. \A w : w \in ToSet(teen) <=> \E d \in 1..10 : w = teen[d]
  BY WordDomains, Zenon DEF ToSet
<1>3. \A w : w \in ToSet(tens) <=> \E d \in 1..9 : w = tens[d]
  BY WordDomains, Zenon DEF ToSet
<1>4. QED BY <1>1, <1>2, <1>3, Zenon

\* No word stands for two numbers, or for a number and something else.
LEMMA UnitsApart ==
  /\ \A d \in 1..9 : units[d] \notin Plain
  /\ \A d, e \in 1..9 : units[d] = units[e] => d = e
<1>1. ASSUME NEW d \in 1..9 PROVE units[d] \notin Plain
  <2>1. d = 1 \/ d = 2 \/ d = 3 \/ d = 4 \/ d = 5 \/ d = 6 \/ d = 7 \/ d = 8 \/ d = 9
    OBVIOUS
  <2>2. QED BY <2>1, UnitsValues, Zenon DEF Plain
<1>2. ASSUME NEW d \in 1..9, NEW e \in 1..9, units[d] = units[e] PROVE d = e
  BY <1>2, UnitsValues, SMT
<1>3. QED BY <1>1, <1>2, Zenon

LEMMA TeenApart ==
  /\ \A d \in 1..10 : teen[d] \notin Plain
  /\ \A d, e \in 1..10 : teen[d] = teen[e] => d = e
  /\ \A d \in 1..10 : \A e \in 1..9 : teen[d] # units[e]
<1>1. ASSUME NEW d \in 1..10 PROVE teen[d] \notin Plain
  <2>1. d = 1 \/ d = 2 \/ d = 3 \/ d = 4 \/ d = 5 \/ d = 6 \/ d = 7 \/ d = 8 \/ d = 9 \/ d = 10
    OBVIOUS
  <2>2. QED BY <2>1, TeenValues, Zenon DEF Plain
<1>2. ASSUME NEW d \in 1..10, NEW e \in 1..10, teen[d] = teen[e] PROVE d = e
  BY <1>2, TeenValues, SMT
<1>3. ASSUME NEW d \in 1..10, NEW e \in 1..9 PROVE teen[d] # units[e]
  BY TeenValues, UnitsValues, SMT
<1>4. QED BY <1>1, <1>2, <1>3, Zenon

LEMMA TensApart ==
  /\ \A d \in 2..9 : tens[d] \notin Plain
  /\ \A d, e \in 2..9 : tens[d] = tens[e] => d = e
  /\ \A d \in 1..9 : \A e \in 1..9 : tens[d] # units[e]
  /\ \A d \in 1..9 : \A e \in 1..10 : tens[d] # teen[e]
<1>1. ASSUME NEW d \in 2..9 PROVE tens[d] \notin Plain
  <2>1. d = 2 \/ d = 3 \/ d = 4 \/ d = 5 \/ d = 6 \/ d = 7 \/ d = 8 \/ d = 9
    OBVIOUS
  <2>2. QED BY <2>1, TensValues, Zenon DEF Plain
<1>2. ASSUME NEW d \in 2..9, NEW e \in 2..9, tens[d] = tens[e] PROVE d = e
  BY <1>2, TensValues, SMT
<1>3. ASSUME NEW d \in 1..9, NEW e \in 1..9 PROVE tens[d] # units[e]
  <2>1. CASE d \in 2..9
    BY <2>1, TensValues, UnitsValues, SMT
  <2>2. CASE d = 1
    BY <2>2, NoTens, UnitsApart, Zenon DEF Plain
  <2>3. QED BY <2>1, <2>2
<1>4. ASSUME NEW d \in 1..9, NEW e \in 1..10 PROVE tens[d] # teen[e]
  <2>1. CASE d \in 2..9
    BY <2>1, TensValues, TeenValues, SMT
  <2>2. CASE d = 1
    BY <2>2, NoTens, TeenApart, Zenon DEF Plain
  <2>3. QED BY <2>1, <2>2
<1>5. QED BY <1>1, <1>2, <1>3, <1>4, Zenon

\* The words of the tables are in the vocabulary.
LEMMA WordsAreWords ==
  /\ Plain \subseteq Words
  /\ \A d \in 1..9 : units[d] \in Words /\ tens[d] \in Words
  /\ \A d \in 1..10 : teen[d] \in Words
<1>1. ASSUME NEW d \in 1..9 PROVE units[d] \in Words /\ tens[d] \in Words
  BY WordSets, Zenon DEF Words
<1>2. ASSUME NEW d \in 1..10 PROVE teen[d] \in Words
  BY WordSets, Zenon DEF Words
<1>3. "Thousand" \in Words /\ "Million" \in Words
  <2>1. 2 \in 1..4 /\ 3 \in 1..4
    OBVIOUS
  <2>2. suffixes[2] \in ToSet(suffixes) /\ suffixes[3] \in ToSet(suffixes)
    BY <2>1, WordDomains, Zenon DEF ToSet
  <2>3. QED BY <2>2, SuffixValues, Zenon DEF Words
<1>4. Plain \subseteq Words
  BY <1>3, Zenon DEF Plain, Words
<1>5. QED BY <1>1, <1>2, <1>4, Zenon

\* The words a number is in.
LEMMA InWordsFacts ==
  /\ \A d \in 1..9 : units[d] \in InWords
  /\ \A d \in 1..10 : teen[d] \in InWords
  /\ \A d \in 2..9 : tens[d] \in InWords
  /\ \A w \in Plain : w \notin InWords
<1>1. "" \in Plain
  BY Zenon DEF Plain
<1>2. ASSUME NEW d \in 1..9 PROVE units[d] \in InWords
  BY <1>1, WordSets, UnitsApart, Zenon DEF InWords
<1>3. ASSUME NEW d \in 1..10 PROVE teen[d] \in InWords
  BY <1>1, WordSets, TeenApart, Zenon DEF InWords
<1>4. ASSUME NEW d \in 2..9 PROVE tens[d] \in InWords
  <2>1. d \in 1..9
    OBVIOUS
  <2>2. tens[d] \in ToSet(tens) /\ tens[d] # ""
    BY <1>1, <2>1, WordSets, TensApart, Zenon
  <2>3. QED BY <2>2, Zenon DEF InWords
<1>5. ASSUME NEW w \in Plain PROVE w \notin InWords
  <2> SUFFICES ASSUME w \in InWords PROVE FALSE
    OBVIOUS
  <2>1. w # ""
    BY Zenon DEF InWords
  <2>2. w \notin ToSet(units) /\ w \notin ToSet(teen)
    <3>1. \A d \in 1..9 : w # units[d]
      BY UnitsApart, Zenon
    <3>2. \A d \in 1..10 : w # teen[d]
      BY TeenApart, Zenon
    <3>3. QED BY <3>1, <3>2, WordSets, Zenon
  <2>3. PICK d \in 1..9 : w = tens[d]
    BY <2>2, WordSets, Zenon DEF InWords
  <2>4. d = 1 \/ d \in 2..9
    OBVIOUS
  <2>5. QED BY <2>1, <2>3, <2>4, TensApart, NoTens, Zenon
<1>6. QED BY <1>2, <1>3, <1>4, <1>5, Zenon

\* What number a word stands for.
LEMMA NumbersOfWords ==
  /\ \A d \in 1..9 : AsNumber(units[d]) = d
  /\ \A d \in 1..10 : AsNumber(teen[d]) = 9 + d
  /\ \A d \in 2..9 : AsNumber(tens[d]) = 10 * d
<1>1. ASSUME NEW d \in 1..9 PROVE AsNumber(units[d]) = d
  <2>1. AsNumber(units[d]) = CHOOSE e \in 1..9 : units[e] = units[d]
    BY WordSets, Zenon DEF AsNumber
  <2>2. \A e \in 1..9 : units[e] = units[d] <=> e = d
    BY UnitsApart, Zenon
  <2>3. QED BY <2>1, <2>2
<1>2. ASSUME NEW d \in 1..10 PROVE AsNumber(teen[d]) = 9 + d
  <2>1. teen[d] \notin ToSet(units) /\ teen[d] \in ToSet(teen)
    BY WordSets, TeenApart, ZenonT(40)
  <2>2. AsNumber(teen[d]) = 9 + CHOOSE e \in 1..10 : teen[e] = teen[d]
    BY <2>1, Zenon DEF AsNumber
  <2>3. \A e \in 1..10 : teen[e] = teen[d] <=> e = d
    BY TeenApart, Zenon
  <2>4. (CHOOSE e \in 1..10 : teen[e] = teen[d]) = d
    BY <2>3
  <2>5. QED BY <2>2, <2>4, Zenon
<1>3. ASSUME NEW d \in 2..9 PROVE AsNumber(tens[d]) = 10 * d
  <2>1. d \in 1..9
    OBVIOUS
  <2>2. tens[d] \notin ToSet(units) /\ tens[d] \notin ToSet(teen)
    BY <2>1, WordSets, TensApart, ZenonT(40)
  <2>3. AsNumber(tens[d]) = 10 * CHOOSE e \in 2..9 : tens[e] = tens[d]
    BY <2>2, Zenon DEF AsNumber
  <2>4. \A e \in 2..9 : tens[e] = tens[d] <=> e = d
    BY TensApart, Zenon
  <2>5. (CHOOSE e \in 2..9 : tens[e] = tens[d]) = d
    BY <2>4
  <2>6. QED BY <2>3, <2>5, Zenon
<1>4. QED BY <1>1, <1>2, <1>3, Zenon

\* What has been told so far, field by field.
LEMMA ToldFacts ==
  ASSUME NEW x \in Nat, NEW t \in Nat, NEW d \in Nat, NEW c \in Nat
  PROVE  /\ Told(x, t, d, c) \in Sums
         /\ Told(x, t, d, c).heard = x /\ Told(x, t, d, c).total = t
         /\ Told(x, t, d, c).dollars = d /\ Told(x, t, d, c).cents = c
         /\ Told(x, t, d, c).clear = TRUE
<1>1. Told(x, t, d, c) \in Sums
  BY Zenon DEF Told, Sums
<1>2. /\ Told(x, t, d, c).heard = x /\ Told(x, t, d, c).total = t
      /\ Told(x, t, d, c).dollars = d /\ Told(x, t, d, c).cents = c
  BY Zenon DEF Told
<1>3. Told(x, t, d, c).clear = TRUE
  BY Zenon DEF Told
<1>4. QED BY <1>1, <1>2, <1>3, Zenon

\* A number is added to what was heard.
LEMMA ListenNumber ==
  ASSUME NEW x \in Nat, NEW t \in Nat, NEW d \in Nat, NEW c \in Nat,
         NEW w \in InWords, w \in Words
  PROVE  Listen[<<Told(x, t, d, c), w>>] = Told(x + AsNumber(w), t, d, c)
<1> DEFINE h == Told(x, t, d, c)
<1>1. /\ h \in Sums /\ h.clear = TRUE
      /\ h.heard = x /\ h.total = t /\ h.dollars = d /\ h.cents = c
  <2>1. h \in Sums
    BY ToldFacts, Zenon
  <2>2. h.clear = TRUE
    BY ToldFacts, Zenon
  <2>3. h.heard = x
    BY Zenon DEF Told
  <2>4. h.total = t
    BY Zenon DEF Told
  <2>5. h.dollars = d
    BY Zenon DEF Told
  <2>6. h.cents = c
    BY Zenon DEF Told
  <2>7. QED BY <2>1, <2>2, <2>3, <2>4, <2>5, <2>6, Zenon
<1> HIDE DEF h
<1>2. <<h, w>> \in Sums \X Words
  BY <1>1
<1>3. Listen[<<h, w>>] = Told(h.heard + AsNumber(w), h.total, h.dollars, h.cents)
  <2>1. w \notin Plain
    BY InWordsFacts, Zenon
  <2>2. QED BY <1>1, <1>2, <2>1, Zenon DEF Listen, Plain
<1>4. QED BY <1>1, <1>3, Zenon DEF h

\* From understanding a, and then w, it comes to understand b.
Hears(a, w, b) == Listen[<<a, w>>] = b

\* The words that are no numbers.
LEMMA ListenPlain ==
  ASSUME NEW x \in Nat, NEW t \in Nat, NEW d \in Nat, NEW c \in Nat
  PROVE  /\ Hears(Told(x, t, d, c), "Hundred", Told(100 * x, t, d, c))
         /\ Hears(Told(x, t, d, c), "Thousand", Told(0, t + Thousand * x, d, c))
         /\ Hears(Told(x, t, d, c), "Million", Told(0, t + Million * x, d, c))
         /\ Hears(Told(x, t, d, c), "Dollars", Told(0, 0, t + x, c))
         /\ Hears(Told(x, t, d, c), "Cents", Told(0, t, d, x))
         /\ Hears(Told(x, t, d, c), "And", Told(x, t, d, c))
         /\ Hears(Told(x, t, d, c), "Received", Told(x, t, d, c))
<1> DEFINE h == Told(x, t, d, c)
<1>1. /\ h \in Sums /\ h.clear = TRUE
      /\ h.heard = x /\ h.total = t /\ h.dollars = d /\ h.cents = c
  <2>1. h \in Sums
    BY ToldFacts, Zenon
  <2>2. h.clear = TRUE
    BY ToldFacts, Zenon
  <2>3. h.heard = x
    BY Zenon DEF Told
  <2>4. h.total = t
    BY Zenon DEF Told
  <2>5. h.dollars = d
    BY Zenon DEF Told
  <2>6. h.cents = c
    BY Zenon DEF Told
  <2>7. QED BY <2>1, <2>2, <2>3, <2>4, <2>5, <2>6, Zenon
<1> HIDE DEF h
<1>2. ASSUME NEW w \in Plain PROVE <<h, w>> \in Sums \X Words /\ w \notin InWords
  <2>1. w \in Words /\ w \notin InWords
    BY WordsAreWords, InWordsFacts, Zenon
  <2>2. QED BY <1>1, <2>1
<1>3. Listen[<<h, "Hundred">>] = Told(100 * x, t, d, c)
  BY <1>1, <1>2, Zenon DEF Listen, Plain
<1>4. Listen[<<h, "Thousand">>] = Told(0, t + Thousand * x, d, c)
  BY <1>1, <1>2, Zenon DEF Listen, Plain
<1>5. Listen[<<h, "Million">>] = Told(0, t + Million * x, d, c)
  BY <1>1, <1>2, Zenon DEF Listen, Plain
<1>6. Listen[<<h, "Dollars">>] = Told(0, 0, t + x, c)
  BY <1>1, <1>2, Zenon DEF Listen, Plain
<1>7. Listen[<<h, "Cents">>] = Told(0, t, d, x)
  BY <1>1, <1>2, Zenon DEF Listen, Plain
<1>8. Listen[<<h, "And">>] = h
  BY <1>1, <1>2, Zenon DEF Listen, Plain
<1>9. Listen[<<h, "Received">>] = h
  BY <1>1, <1>2, Zenon DEF Listen, Plain
<1>10. QED BY <1>3, <1>4, <1>5, <1>6, <1>7, <1>8, <1>9, Zenon DEF h, Hears

----------------------------------------------------------------------------
(* Amounts: what a text of the firmware tells *)

\* replaceStr keeps the words of a text, and their order.
LEMMA KeepEmpty == replaceStr(<<>>) = <<>>
  BY FoldEmpty DEF replaceStr

\* A word is kept unless it is empty.
LEMMA KeepAppend ==
  ASSUME NEW s \in Seq(Words), NEW w \in Words, replaceStr(s) \in Seq(Words)
  PROVE  replaceStr(Append(s, w)) = IF w = "" THEN replaceStr(s) ELSE Append(replaceStr(s), w)
<1>1. replaceStr(Append(s, w)) = Keep[<<replaceStr(s), w>>]
  BY FoldAppend DEF replaceStr
<1>2. <<replaceStr(s), w>> \in Seq(Words) \X Words
  OBVIOUS
<1>3. ASSUME NEW r, <<r, w>> \in Seq(Words) \X Words
      PROVE  Keep[<<r, w>>] = IF w = "" THEN r ELSE Append(r, w)
  BY <1>3, Zenon DEF Keep
<1>4. QED BY <1>1, <1>2, <1>3, Zenon

\* By induction over the text.
LEMMA KeepType ==
  ASSUME NEW s \in Seq(Words)
  PROVE  replaceStr(s) \in Seq(Words)
<1> DEFINE T == {u \in Seq(Words) : replaceStr(u) \in Seq(Words)}
<1>1. <<>> \in T
  <2>1. <<>> \in Seq(Words)
    OBVIOUS
  <2>2. QED BY <2>1, KeepEmpty, Zenon
<1>2. ASSUME NEW u \in Seq(Words), NEW w \in Words, u \in T PROVE Append(u, w) \in T
  <2>1. replaceStr(u) \in Seq(Words) /\ Append(u, w) \in Seq(Words)
    BY <1>2, AppendProperties
  <2>2. Append(replaceStr(u), w) \in Seq(Words)
    BY <2>1, AppendProperties
  <2>3. replaceStr(Append(u, w)) \in Seq(Words)
    BY <2>1, <2>2, KeepAppend, Zenon
  <2>4. QED BY <2>1, <2>3
<1> HIDE DEF T
<1>3. s \in T
  BY <1>1, <1>2, TextInduction
<1>4. QED BY <1>3 DEF T

\* Two texts are kept as each of them is.
LEMMA KeepConcat ==
  ASSUME NEW s \in Seq(Words), NEW t \in Seq(Words)
  PROVE  replaceStr(s \o t) = replaceStr(s) \o replaceStr(t)
<1> DEFINE T == {u \in Seq(Words) : replaceStr(s \o u) = replaceStr(s) \o replaceStr(u)}
<1>0. replaceStr(s) \in Seq(Words)
  BY KeepType
<1>1. <<>> \in T
  <2>1. <<>> \in Seq(Words) /\ s \o <<>> = s
    BY EmptySeq, ConcatEmptySeq
  <2>2. replaceStr(s) \o <<>> = replaceStr(s)
    BY <1>0, ConcatEmptySeq
  <2>3. QED BY <2>1, <2>2, KeepEmpty
<1>2. ASSUME NEW u \in Seq(Words), NEW w \in Words, u \in T PROVE Append(u, w) \in T
  <2>1. /\ Append(u, w) \in Seq(Words) /\ s \o u \in Seq(Words)
        /\ s \o Append(u, w) = Append(s \o u, w)
    BY AppendProperties, ConcatProperties, AppendOfConcat
  <2>2. replaceStr(u) \in Seq(Words) /\ replaceStr(s \o u) \in Seq(Words)
    BY <2>1, KeepType
  <2>3. replaceStr(s \o u) = replaceStr(s) \o replaceStr(u)
    BY <1>2
  <2>4. CASE w = ""
    <3>1. replaceStr(Append(s \o u, w)) = replaceStr(s \o u) /\ replaceStr(Append(u, w)) = replaceStr(u)
      BY <2>1, <2>2, <2>4, KeepAppend, Zenon
    <3>2. QED BY <2>1, <2>3, <3>1, Zenon
  <2>5. CASE w # ""
    <3>1. /\ replaceStr(Append(s \o u, w)) = Append(replaceStr(s \o u), w)
          /\ replaceStr(Append(u, w)) = Append(replaceStr(u), w)
      BY <2>1, <2>2, <2>5, KeepAppend, Zenon
    <3>2. replaceStr(s) \o Append(replaceStr(u), w) = Append(replaceStr(s) \o replaceStr(u), w)
      BY <1>0, <2>2, AppendOfConcat
    <3>3. QED BY <2>1, <2>3, <3>1, <3>2, Zenon
  <2>6. QED BY <2>4, <2>5, Zenon
<1> HIDE DEF T
<1>3. t \in T
  BY <1>1, <1>2, TextInduction
<1>4. QED BY <1>3 DEF T

\* A text from which a listener that had understood a understands b.
Tells(s, a, b) == s \in Seq(Words) /\ Fold(Listen, a, replaceStr(s)) = b

\* Two texts tell what the second tells after the first.
LEMMA TellsConcat ==
  ASSUME NEW s, NEW t, NEW a, NEW b, NEW e, Tells(s, a, b), Tells(t, b, e)
  PROVE  Tells(s \o t, a, e)
<1>1. s \in Seq(Words) /\ t \in Seq(Words)
  BY DEF Tells
<1>2. replaceStr(s) \in Seq(Words) /\ replaceStr(t) \in Seq(Words)
  BY <1>1, KeepType
<1>3. Fold(Listen, a, replaceStr(s) \o replaceStr(t))
        = Fold(Listen, Fold(Listen, a, replaceStr(s)), replaceStr(t))
  BY <1>2, FoldConcat
<1>4. s \o t \in Seq(Words) /\ replaceStr(s \o t) = replaceStr(s) \o replaceStr(t)
  BY <1>1, ConcatProperties, KeepConcat
<1>5. QED BY <1>3, <1>4, Zenon DEF Tells

\* Texts of no word, one, and two.
LEMMA TellsNothing ==
  ASSUME NEW a
  PROVE  Tells(<<>>, a, a)
<1>1. <<>> \in Seq(Words)
  OBVIOUS
<1>2. QED BY <1>1, KeepEmpty, FoldEmpty, Zenon DEF Tells

LEMMA TellsWord ==
  ASSUME NEW w \in Words, NEW a
  PROVE  Tells(<<w>>, a, IF w = "" THEN a ELSE Listen[<<a, w>>])
<1>1. <<>> \in Seq(Words) /\ <<w>> \in Seq(Words) /\ <<w>> = Append(<<>>, w)
  OBVIOUS
<1>2. replaceStr(<<w>>) = IF w = "" THEN <<>> ELSE <<w>>
  BY <1>1, KeepEmpty, KeepAppend, Zenon
<1>3. Fold(Listen, a, <<w>>) = Listen[<<a, w>>] /\ Fold(Listen, a, <<>>) = a
  BY HeardOne, FoldEmpty
<1>4. QED BY <1>1, <1>2, <1>3, Zenon DEF Tells

LEMMA TellsTwo ==
  ASSUME NEW w \in Words, NEW v \in Words, NEW a, NEW b, NEW e, Tells(<<w>>, a, b), Tells(<<v>>, b, e)
  PROVE  Tells(<<w, v>>, a, e)
<1>1. <<w, v>> = Append(<<w>>, v) /\ <<w>> \in Seq(Words)
  OBVIOUS
<1>2. Append(<<w>>, v) = <<w>> \o <<v>>
  BY <1>1, AppendIsConcat
<1>3. QED BY <1>1, <1>2, TellsConcat, Zenon

\* Each number word tells its number, and each other word what it is for.
LEMMA TellsNumber ==
  ASSUME NEW x \in Nat, NEW t \in Nat, NEW d \in Nat, NEW c \in Nat
  PROVE  /\ \A n \in 1..9 : Tells(<<units[n]>>, Told(x, t, d, c), Told(x + n, t, d, c))
         /\ \A n \in 1..10 : Tells(<<teen[n]>>, Told(x, t, d, c), Told(x + (9 + n), t, d, c))
         /\ \A n \in 2..9 : Tells(<<tens[n]>>, Told(x, t, d, c), Told(x + 10 * n, t, d, c))
<1>1. ASSUME NEW w \in InWords, w \in Words
      PROVE  Tells(<<w>>, Told(x, t, d, c), Told(x + AsNumber(w), t, d, c))
  <2>1. w # ""
    BY Zenon DEF InWords
  <2>2. Tells(<<w>>, Told(x, t, d, c), Listen[<<Told(x, t, d, c), w>>])
    BY <1>1, <2>1, TellsWord, Zenon
  <2>3. Listen[<<Told(x, t, d, c), w>>] = Told(x + AsNumber(w), t, d, c)
    BY <1>1, ListenNumber
  <2>4. QED BY <2>2, <2>3, Zenon
<1>2. ASSUME NEW n \in 1..9
      PROVE  Tells(<<units[n]>>, Told(x, t, d, c), Told(x + n, t, d, c))
  <2>1. units[n] \in InWords /\ units[n] \in Words /\ AsNumber(units[n]) = n
    BY InWordsFacts, WordsAreWords, NumbersOfWords, Zenon
  <2>2. QED BY <1>1, <2>1, Zenon
<1>3. ASSUME NEW n \in 1..10
      PROVE  Tells(<<teen[n]>>, Told(x, t, d, c), Told(x + (9 + n), t, d, c))
  <2>1. teen[n] \in InWords /\ teen[n] \in Words /\ AsNumber(teen[n]) = 9 + n
    BY InWordsFacts, WordsAreWords, NumbersOfWords, Zenon
  <2>2. QED BY <1>1, <2>1, Zenon
<1>4. ASSUME NEW n \in 2..9
      PROVE  Tells(<<tens[n]>>, Told(x, t, d, c), Told(x + 10 * n, t, d, c))
  <2>0. n \in 1..9
    OBVIOUS
  <2>1. tens[n] \in InWords /\ tens[n] \in Words /\ AsNumber(tens[n]) = 10 * n
    BY <2>0, InWordsFacts, WordsAreWords, NumbersOfWords, Zenon
  <2>2. QED BY <1>1, <2>1, Zenon
<1>5. QED BY <1>2, <1>3, <1>4, Zenon

LEMMA TellsPlain ==
  ASSUME NEW x \in Nat, NEW t \in Nat, NEW d \in Nat, NEW c \in Nat
  PROVE  /\ Tells(<<"">>, Told(x, t, d, c), Told(x, t, d, c))
         /\ Tells(<<"And">>, Told(x, t, d, c), Told(x, t, d, c))
         /\ Tells(<<"Received">>, Told(x, t, d, c), Told(x, t, d, c))
         /\ Tells(<<"Hundred">>, Told(x, t, d, c), Told(100 * x, t, d, c))
         /\ Tells(<<"Thousand">>, Told(x, t, d, c), Told(0, t + Thousand * x, d, c))
         /\ Tells(<<"Million">>, Told(x, t, d, c), Told(0, t + Million * x, d, c))
         /\ Tells(<<"Dollars">>, Told(x, t, d, c), Told(0, 0, t + x, c))
         /\ Tells(<<"Cents">>, Told(x, t, d, c), Told(0, t, d, x))
<1>1. ASSUME NEW w \in Plain, w # "", NEW a, NEW b, Hears(a, w, b)
      PROVE  Tells(<<w>>, a, b)
  <2>1. w \in Words
    BY WordsAreWords, Zenon
  <2>2. QED BY <1>1, <2>1, TellsWord, Zenon DEF Hears
<1>2. Tells(<<"">>, Told(x, t, d, c), Told(x, t, d, c))
  <2>1. "" \in Words
    BY WordsAreWords, Zenon DEF Plain
  <2>2. QED BY <2>1, TellsWord, Zenon
<1>3. /\ "And" \in Plain /\ "And" # "" /\ "Received" \in Plain /\ "Received" # ""
      /\ "Hundred" \in Plain /\ "Hundred" # "" /\ "Thousand" \in Plain /\ "Thousand" # ""
      /\ "Million" \in Plain /\ "Million" # "" /\ "Dollars" \in Plain /\ "Dollars" # ""
      /\ "Cents" \in Plain /\ "Cents" # ""
  BY Zenon DEF Plain
<1>4. Tells(<<"And">>, Told(x, t, d, c), Told(x, t, d, c))
  BY <1>1, <1>3, ListenPlain, Zenon
<1>5. Tells(<<"Received">>, Told(x, t, d, c), Told(x, t, d, c))
  BY <1>1, <1>3, ListenPlain, Zenon
<1>6. Tells(<<"Hundred">>, Told(x, t, d, c), Told(100 * x, t, d, c))
  BY <1>1, <1>3, ListenPlain, Zenon
<1>7. Tells(<<"Thousand">>, Told(x, t, d, c), Told(0, t + Thousand * x, d, c))
  BY <1>1, <1>3, ListenPlain, Zenon
<1>8. Tells(<<"Million">>, Told(x, t, d, c), Told(0, t + Million * x, d, c))
  BY <1>1, <1>3, ListenPlain, Zenon
<1>9. Tells(<<"Dollars">>, Told(x, t, d, c), Told(0, 0, t + x, c))
  BY <1>1, <1>3, ListenPlain, Zenon
<1>10. Tells(<<"Cents">>, Told(x, t, d, c), Told(0, t, d, x))
  BY <1>1, <1>3, ListenPlain, Zenon
<1>11. QED BY <1>2, <1>4, <1>5, <1>6, <1>7, <1>8, <1>9, <1>10, Zenon

\* Three digits are told as their number.
LEMMA ThreeDigitsTold ==
  ASSUME NEW num \in Parts, NEW t \in Nat, NEW d \in Nat, NEW c \in Nat
  PROVE  Tells(convertThreeDigits(num), Told(0, t, d, c), Told(num, t, d, c))
<1> DEFINE hundred == num \div 100
           ten == (num \div 10) % 10
           one == num % 10
           H == IF hundred > 0 THEN <<units[hundred], "Hundred">> ELSE <<>>
           A == IF hundred > 0 /\ ten + one > 0 THEN <<"And">> ELSE <<>>
           E == CASE ten > 1 -> <<tens[ten], Unit(one)>>
                  [] ten = 1 -> <<teen[one + 1]>>
                  [] ten = 0 -> IF one > 0 THEN <<units[one]>> ELSE <<>>
           x == 100 * hundred
<1>1. convertThreeDigits(num) = (H \o A) \o E
  BY DEF convertThreeDigits
<1>2. /\ hundred \in 0..9 /\ ten \in 0..9 /\ one \in 0..9
      /\ num = (100 * hundred + 10 * ten) + one
  BY DEF Parts
<1> HIDE DEF hundred, ten, one
<1>3. /\ x \in Nat /\ 0 \in Nat
      /\ hundred > 0 => hundred \in 1..9 /\ 0 + hundred \in Nat /\ 100 * (0 + hundred) = x
      /\ ~ (hundred > 0) => x = 0
      /\ num = x + 10 * ten + one
  BY <1>2
<1> HIDE DEF x
<1>4. "Hundred" \in Words /\ "And" \in Words /\ "" \in Words
  BY WordsAreWords, Zenon DEF Plain
<1>5. Tells(H, Told(0, t, d, c), Told(x, t, d, c))
  <2>1. CASE hundred > 0
    <3>1. units[hundred] \in Words
      BY <1>3, <2>1, WordsAreWords, Zenon
    <3>2. Tells(<<units[hundred]>>, Told(0, t, d, c), Told(0 + hundred, t, d, c))
      BY <1>3, <2>1, TellsNumber, Zenon
    <3>3. Tells(<<"Hundred">>, Told(0 + hundred, t, d, c), Told(100 * (0 + hundred), t, d, c))
      BY <1>3, <2>1, TellsPlain, ZenonT(40)
    <3>4. Tells(<<units[hundred], "Hundred">>, Told(0, t, d, c), Told(100 * (0 + hundred), t, d, c))
      BY <1>4, <3>1, <3>2, <3>3, TellsTwo
    <3>5. QED BY <1>3, <2>1, <3>4, Zenon
  <2>2. CASE ~ (hundred > 0)
    BY <1>3, <2>2, TellsNothing, Zenon
  <2>3. QED BY <2>1, <2>2, Zenon
<1>6. Tells(A, Told(x, t, d, c), Told(x, t, d, c))
  <2>1. Tells(<<"And">>, Told(x, t, d, c), Told(x, t, d, c))
    BY <1>3, TellsPlain
  <2>2. Tells(<<>>, Told(x, t, d, c), Told(x, t, d, c))
    BY TellsNothing
  <2>3. QED BY <2>1, <2>2, Zenon
<1>7. Tells(E, Told(x, t, d, c), Told(num, t, d, c))
  <2>1. CASE ten > 1
    <3>1. E = <<tens[ten], Unit(one)>>
      <4>1. ~ (ten = 1) /\ ~ (ten = 0)
        BY <1>2, <2>1
      <4>2. QED BY <2>1, <4>1, Zenon
    <3>2. /\ ten \in 2..9 /\ ten \in 1..9 /\ x + 10 * ten \in Nat
          /\ one > 0 => one \in 1..9 /\ (x + 10 * ten) + one = num
          /\ ~ (one > 0) => one = 0 /\ x + 10 * ten = num
      BY <1>2, <1>3, <2>1
    <3>3. Tells(<<tens[ten]>>, Told(x, t, d, c), Told(x + 10 * ten, t, d, c))
      BY <1>3, <3>2, TellsNumber, Zenon
    <3>4. Tells(<<Unit(one)>>, Told(x + 10 * ten, t, d, c), Told(num, t, d, c))
      <4>1. CASE one > 0
        <5>1. Unit(one) = units[one]
          <6>1. one # 0
            BY <1>2, <4>1
          <6>2. QED BY <6>1, Zenon DEF Unit
        <5>2. Tells(<<units[one]>>, Told(x + 10 * ten, t, d, c), Told((x + 10 * ten) + one, t, d, c))
          BY <3>2, <4>1, TellsNumber, Zenon
        <5>3. QED BY <3>2, <4>1, <5>1, <5>2, Zenon
      <4>2. CASE ~ (one > 0)
        <5>1. Unit(one) = ""
          BY <3>2, <4>2, Zenon DEF Unit
        <5>2. Tells(<<"">>, Told(x + 10 * ten, t, d, c), Told(x + 10 * ten, t, d, c))
          BY <3>2, TellsPlain, Zenon
        <5>3. QED BY <3>2, <4>2, <5>1, <5>2, Zenon
      <4>3. QED BY <4>1, <4>2, Zenon
    <3>5. tens[ten] \in Words
      BY <3>2, WordsAreWords, Zenon
    <3>6. Unit(one) \in Words
      BY <1>4, <3>2, WordsAreWords, Zenon DEF Unit
    <3>7. QED BY <3>1, <3>3, <3>4, <3>5, <3>6, TellsTwo, Zenon
  <2>2. CASE ten = 1
    <3>1. E = <<teen[one + 1]>>
      <4>1. ~ (ten > 1) /\ ~ (ten = 0)
        BY <2>2
      <4>2. QED BY <2>2, <4>1, Zenon
    <3>2. one + 1 \in 1..10 /\ x + (9 + (one + 1)) = num
      BY <1>2, <1>3, <2>2
    <3>3. Tells(<<teen[one + 1]>>, Told(x, t, d, c), Told(x + (9 + (one + 1)), t, d, c))
      BY <1>3, <3>2, TellsNumber, Zenon
    <3>4. QED BY <3>1, <3>2, <3>3, Zenon
  <2>3. CASE ten = 0
    <3>1. E = IF one > 0 THEN <<units[one]>> ELSE <<>>
      <4>1. ~ (ten > 1) /\ ~ (ten = 1)
        BY <2>3
      <4>2. QED BY <2>3, <4>1, Zenon
    <3>2. /\ one > 0 => one \in 1..9 /\ x + one = num
          /\ ~ (one > 0) => x = num
      BY <1>2, <1>3, <2>3
    <3>3. CASE one > 0
      <4>1. Tells(<<units[one]>>, Told(x, t, d, c), Told(x + one, t, d, c))
        BY <1>3, <3>2, <3>3, TellsNumber, Zenon
      <4>2. QED BY <3>1, <3>2, <3>3, <4>1, Zenon
    <3>4. CASE ~ (one > 0)
      BY <3>1, <3>2, <3>4, TellsNothing, Zenon
    <3>5. QED BY <3>3, <3>4, Zenon
  <2>4. QED BY <1>2, <2>1, <2>2, <2>3
<1> HIDE DEF H, A, E
<1>8. Tells(H \o A, Told(0, t, d, c), Told(x, t, d, c))
  BY <1>5, <1>6, TellsConcat, Zenon
<1>9. Tells((H \o A) \o E, Told(0, t, d, c), Told(num, t, d, c))
  BY <1>7, <1>8, TellsConcat, Zenon
<1>10. QED BY <1>1, <1>9, Zenon DEF H, A, E

\* A text that ends in w, and tells what it tells before that.
TellsBefore(s, w, a, b) == \E u : Tells(u, a, b) /\ s = Append(u, w)

\* A text before one of them tells what both tell.
LEMMA BeforeConcat ==
  ASSUME NEW s, NEW t, NEW w \in Words, NEW a, NEW b, NEW e,
         Tells(s, a, b), TellsBefore(t, w, b, e)
  PROVE  TellsBefore(s \o t, w, a, e)
<1>1. PICK u : Tells(u, b, e) /\ t = Append(u, w)
  BY DEF TellsBefore
<1>2. Tells(s \o u, a, e)
  BY <1>1, TellsConcat, Zenon
<1>3. s \in Seq(Words) /\ u \in Seq(Words)
  BY <1>1 DEF Tells
<1>4. s \o t = Append(s \o u, w)
  BY <1>1, <1>3, AppendOfConcat
<1>5. QED BY <1>2, <1>4, Zenon DEF TellsBefore

\* The last word of a group says nothing.
LEMMA BeforeTells ==
  ASSUME NEW s, NEW w \in {"", "And"}, NEW a,
         NEW x \in Nat, NEW t \in Nat, NEW d \in Nat, NEW c \in Nat,
         TellsBefore(s, w, a, Told(x, t, d, c))
  PROVE  Tells(s, a, Told(x, t, d, c))
<1>1. PICK u : Tells(u, a, Told(x, t, d, c)) /\ s = Append(u, w)
  BY DEF TellsBefore
<1>2. Tells(<<w>>, Told(x, t, d, c), Told(x, t, d, c))
  BY TellsPlain, Zenon
<1>3. w \in Words
  BY WordsAreWords, Zenon DEF Plain
<1>4. u \in Seq(Words)
  BY <1>1 DEF Tells
<1>5. Append(u, w) = u \o <<w>>
  BY <1>3, <1>4, AppendIsConcat
<1>6. QED BY <1>1, <1>2, <1>5, TellsConcat, Zenon

\* The places of the four groups.
LEMMA PlacesValues ==
  places[1] = 1 /\ places[2] = Thousand /\ places[3] = Million /\ places[4] = Billion
  BY SMT DEF places

\* The last group of three digits, and one of thousands or millions.
LEMMA LastGroup ==
  ASSUME NEW n \in Nat, NEW t \in Nat, NEW d \in Nat, NEW c \in Nat
  PROVE  /\ n % Thousand = 0 => RESULT(n, 1) = <<>>
         /\ n % Thousand # 0
              => TellsBefore(RESULT(n, 1), "", Told(0, t, d, c), Told(n % Thousand, t, d, c))
<1> DEFINE g == (n \div places[1]) % Thousand
<1>1. g = n % Thousand /\ (g = 0 \/ g \in Parts)
  BY PlacesValues, SMT DEF Thousand, Parts
<1> HIDE DEF g
<1>2. suffixes[1] = ""
  BY SuffixValues
<1>3. RESULT(n, 1) = IF g = 0 THEN <<>> ELSE convertThreeDigits(g) \o <<"">>
  BY <1>2, Zenon DEF RESULT, g
<1>4. ASSUME g # 0
      PROVE  TellsBefore(RESULT(n, 1), "", Told(0, t, d, c), Told(g, t, d, c))
  <2>1. Tells(convertThreeDigits(g), Told(0, t, d, c), Told(g, t, d, c))
    BY <1>1, <1>4, ThreeDigitsTold, Zenon
  <2>2. convertThreeDigits(g) \in Seq(Words) /\ "" \in Words
    BY <2>1, WordsAreWords, Zenon DEF Tells, Plain
  <2>3. Append(convertThreeDigits(g), "") = convertThreeDigits(g) \o <<"">>
    BY <2>2, AppendIsConcat
  <2>4. QED BY <1>3, <1>4, <2>1, <2>3, Zenon DEF TellsBefore
<1>5. QED BY <1>1, <1>3, <1>4, Zenon

LEMMA LevelGroup ==
  ASSUME NEW n \in Nat, NEW t \in Nat, NEW d \in Nat, NEW c \in Nat, NEW i \in {2, 3}
  PROVE  LET g == (n \div places[i]) % Thousand
         IN  /\ g = 0 => RESULT(n, i) = <<>>
             /\ g # 0 => TellsBefore(RESULT(n, i), "And", Told(0, t, d, c),
                                     Told(0, t + places[i] * g, d, c))
<1> DEFINE g == (n \div places[i]) % Thousand
<1>1. g = 0 \/ g \in Parts
  <2>1. CASE i = 2
    BY <2>1, PlacesValues, SMT DEF Thousand, Parts
  <2>2. CASE i = 3
    BY <2>2, PlacesValues, SMT DEF Million, Thousand, Parts
  <2>3. QED BY <2>1, <2>2
<1> HIDE DEF g
<1>2. /\ suffixes[i] # "" /\ suffixes[i] \in Words /\ "And" \in Words
      /\ \A x \in Nat : Tells(<<suffixes[i]>>, Told(x, t, d, c), Told(0, t + places[i] * x, d, c))
  <2>1. CASE i = 2
    BY <2>1, SuffixValues, PlacesValues, TellsPlain, WordsAreWords, Zenon DEF Plain
  <2>2. CASE i = 3
    BY <2>2, SuffixValues, PlacesValues, TellsPlain, WordsAreWords, Zenon DEF Plain
  <2>3. QED BY <2>1, <2>2
<1>3. RESULT(n, i) = IF g = 0 THEN <<>> ELSE convertThreeDigits(g) \o <<suffixes[i], "And">>
  BY <1>2, Zenon DEF RESULT, g
<1>4. ASSUME g # 0
      PROVE  TellsBefore(RESULT(n, i), "And", Told(0, t, d, c),
                         Told(0, t + places[i] * g, d, c))
  <2>1. Tells(convertThreeDigits(g), Told(0, t, d, c), Told(g, t, d, c))
    BY <1>1, <1>4, ThreeDigitsTold, Zenon
  <2>2. g \in Nat
    BY <1>1, <1>4, PartFacts, Zenon
  <2>3. TellsBefore(<<suffixes[i], "And">>, "And", Told(g, t, d, c),
                    Told(0, t + places[i] * g, d, c))
    <3>1. <<suffixes[i], "And">> = Append(<<suffixes[i]>>, "And")
      OBVIOUS
    <3>2. Tells(<<suffixes[i]>>, Told(g, t, d, c), Told(0, t + places[i] * g, d, c))
      BY <1>2, <2>2, Zenon
    <3>3. QED BY <3>1, <3>2, Zenon DEF TellsBefore
  <2>4. TellsBefore(convertThreeDigits(g) \o <<suffixes[i], "And">>, "And", Told(0, t, d, c),
                    Told(0, t + places[i] * g, d, c))
    BY <1>2, <2>1, <2>3, BeforeConcat, Zenon
  <2>5. QED BY <1>3, <1>4, <2>4, Zenon
<1>5. QED BY <1>3, <1>4, Zenon DEF g

\* The three digits of each group of an amount make the amount.
LEMMA GroupsOf ==
  ASSUME NEW n \in Nat, 0 < n, n < Billion
  PROVE  LET m == (n \div places[3]) % Thousand
             k == (n \div places[2]) % Thousand
             u == n % Thousand
         IN  /\ m \in Nat /\ k \in Nat /\ u \in Nat
             /\ 0 + places[3] * m \in Nat /\ (0 + places[3] * m) + places[2] * k \in Nat
             /\ u + ((0 + places[3] * m) + places[2] * k) = n
             /\ m # 0 \/ k # 0 \/ u # 0
             /\ n < Thousand => (0 + places[3] * m) + places[2] * k = 0
<1> DEFINE q == n \div 1000
           r == n % 1000
           p == q \div 1000
           v == q % 1000
<1>1. q \in Nat /\ r \in Nat /\ r < 1000 /\ n = 1000 * q + r
  BY SMT
<1>2. p \in Nat /\ v \in Nat /\ v < 1000 /\ q = 1000 * p + v
  BY <1>1, SMT
<1> HIDE DEF p, v, r
<1>3. n \div 1000000 = p
  <2> DEFINE w == 1000 * v + r
  <2>1. w \in Nat /\ w < 1000000 /\ n = 1000000 * p + w
    BY <1>1, <1>2, SMT
  <2> HIDE DEF w
  <2>2. QED BY <1>2, <2>1, SMT
<1>4. p < 1000 /\ p % 1000 = p
  BY <1>2, <1>3, SMT DEF Billion
<1>5. /\ (n \div places[3]) % Thousand = p /\ (n \div places[2]) % Thousand = v
      /\ n % Thousand = r
  BY <1>3, <1>4, PlacesValues, SMT DEF Thousand, Million, p, v, q, r
<1>6. n = (1000000 * p + 1000 * v) + r
  BY <1>1, <1>2, SMT
<1> HIDE DEF q
<1>7. QED BY <1>1, <1>2, <1>5, <1>6, PlacesValues, SMT DEF Thousand, Million

\* Below a billion, the fourth group is empty.
LEMMA FourthGroup ==
  ASSUME NEW n \in Nat, 0 < n, n < Billion
  PROVE  RESULT(n, 4) = <<>>
<1>1. (n \div Billion) % Thousand = 0
  BY SMT DEF Thousand, Billion
<1>2. QED BY <1>1, PlacesValues, Zenon DEF RESULT

\* A group of thousands or millions is told as its sum, if it is there at all.
LEMMA LevelTold ==
  ASSUME NEW n \in Nat, NEW t \in Nat, NEW d \in Nat, NEW c \in Nat, NEW i \in {2, 3},
         NEW g, g = (n \div places[i]) % Thousand, t + places[i] * g \in Nat
  PROVE  Tells(RESULT(n, i), Told(0, t, d, c), Told(0, t + places[i] * g, d, c))
<1>1. CASE g = 0
  <2>1. RESULT(n, i) = <<>>
    BY <1>1, LevelGroup, Zenon
  <2>2. t + places[i] * g = t
    BY <1>1, PlacesValues, SMT DEF Thousand, Million
  <2>3. QED BY <2>1, <2>2, TellsNothing, Zenon
<1>2. CASE g # 0
  <2>1. TellsBefore(RESULT(n, i), "And", Told(0, t, d, c), Told(0, t + places[i] * g, d, c))
    BY <1>2, LevelGroup, Zenon
  <2>2. "And" \in {"", "And"} /\ 0 \in Nat
    OBVIOUS
  <2>3. QED BY <2>1, <2>2, BeforeTells, Zenon
<1>3. QED BY <1>1, <1>2

\* What an amount in words comes to before its last word is spoken.
LEMMA AmountRead ==
  ASSUME NEW n \in Nat, 0 < n, n < Billion, NEW d \in Nat, NEW c \in Nat
  PROVE  \E x \in Nat, t \in Nat :
           /\ x + t = n /\ (n < Thousand => t = 0)
           /\ TellsBefore(doAmt(n), IF n % Thousand = 0 THEN "And" ELSE "",
                          Told(0, 0, d, c), Told(x, t, d, c))
<1> DEFINE m == (n \div places[3]) % Thousand
           k == (n \div places[2]) % Thousand
           u == n % Thousand
           t2 == 0 + places[3] * m
           t1 == t2 + places[2] * k
<1>1. /\ n \in Nat /\ m \in Nat /\ k \in Nat /\ u \in Nat /\ t2 \in Nat /\ t1 \in Nat
      /\ u + t1 = n /\ (m # 0 \/ k # 0 \/ u # 0) /\ (n < Thousand => t1 = 0) /\ 0 \in Nat
  BY GroupsOf
<1>2. Tells(RESULT(n, 3), Told(0, 0, d, c), Told(0, t2, d, c))
  BY <1>1, LevelTold, Zenon
<1>3. Tells(RESULT(n, 2), Told(0, t2, d, c), Told(0, t1, d, c))
  BY <1>1, LevelTold, Zenon
<1>4. /\ m # 0 => TellsBefore(RESULT(n, 3), "And", Told(0, 0, d, c), Told(0, t2, d, c))
      /\ k # 0 => TellsBefore(RESULT(n, 2), "And", Told(0, t2, d, c), Told(0, t1, d, c))
      /\ k = 0 => RESULT(n, 2) = <<>>
  BY <1>1, LevelGroup, Zenon
<1>5. /\ u = 0 => RESULT(n, 1) = <<>>
      /\ u # 0 => TellsBefore(RESULT(n, 1), "", Told(0, t1, d, c), Told(u, t1, d, c))
  BY <1>1, LastGroup, Zenon
<1>6. u = 0 /\ k = 0 => t1 = t2
  BY <1>1, PlacesValues, SMT DEF Thousand
<1>7. doAmt(n) = ((<<>> \o RESULT(n, 3)) \o RESULT(n, 2)) \o RESULT(n, 1)
  BY FourthGroup, Zenon DEF doAmt
<1> HIDE DEF m, k, u, t2, t1
<1>8. RESULT(n, 3) \in Seq(Words) /\ RESULT(n, 2) \in Seq(Words)
  BY <1>2, <1>3, Zenon DEF Tells
<1>9. <<>> \o RESULT(n, 3) = RESULT(n, 3)
  BY <1>8, ConcatEmptySeq
<1>10. "And" \in Words /\ "" \in Words
  BY WordsAreWords, Zenon DEF Plain
<1>11. Tells(RESULT(n, 3) \o RESULT(n, 2), Told(0, 0, d, c), Told(0, t1, d, c))
  BY <1>2, <1>3, TellsConcat, Zenon
<1>12. CASE u # 0
  <2>1. TellsBefore(doAmt(n), "", Told(0, 0, d, c), Told(u, t1, d, c))
    BY <1>5, <1>7, <1>9, <1>10, <1>11, <1>12, BeforeConcat, Zenon
  <2>2. n % Thousand # 0
    BY <1>12, Zenon DEF u
  <2>3. QED BY <1>1, <2>1, <2>2, Zenon
<1>13. CASE u = 0 /\ k # 0
  <2>1. TellsBefore(RESULT(n, 3) \o RESULT(n, 2), "And", Told(0, 0, d, c), Told(0, t1, d, c))
    BY <1>2, <1>4, <1>10, <1>13, BeforeConcat, Zenon
  <2>2. doAmt(n) = RESULT(n, 3) \o RESULT(n, 2)
    <3>1. RESULT(n, 3) \o RESULT(n, 2) \in Seq(Words)
      BY <1>11, Zenon DEF Tells
    <3>2. (RESULT(n, 3) \o RESULT(n, 2)) \o <<>> = RESULT(n, 3) \o RESULT(n, 2)
      BY <3>1, ConcatEmptySeq
    <3>3. QED BY <1>5, <1>7, <1>9, <1>13, <3>2, Zenon
  <2>3. n % Thousand = 0
    BY <1>13, Zenon DEF u
  <2>4. 0 + t1 = n
    BY <1>1, <1>13
  <2>5. QED BY <1>1, <2>1, <2>2, <2>3, <2>4, Zenon
<1>14. CASE u = 0 /\ k = 0
  <2>1. TellsBefore(RESULT(n, 3), "And", Told(0, 0, d, c), Told(0, t1, d, c))
    BY <1>1, <1>4, <1>6, <1>14, Zenon
  <2>2. doAmt(n) = RESULT(n, 3)
    <3>1. RESULT(n, 3) \o <<>> = RESULT(n, 3)
      BY <1>8, ConcatEmptySeq
    <3>2. QED BY <1>4, <1>5, <1>7, <1>9, <1>14, <3>1, Zenon
  <2>3. n % Thousand = 0
    BY <1>14, Zenon DEF u
  <2>4. 0 + t1 = n
    BY <1>1, <1>14
  <2>5. QED BY <1>1, <2>1, <2>2, <2>3, <2>4, Zenon
<1>15. QED BY <1>12, <1>13, <1>14, Zenon

----------------------------------------------------------------------------
(* Amounts: the words and the files of a sale *)

\* Words from which a listener that had understood a understands b.
Says(s, a, b) == s \in Seq(Words) /\ Fold(Listen, a, s) = b

\* Words say what texts tell, word by word.
LEMMA SaysConcat ==
  ASSUME NEW s, NEW t, NEW a, NEW b, NEW e, Says(s, a, b), Says(t, b, e)
  PROVE  Says(s \o t, a, e)
<1>1. s \in Seq(Words) /\ t \in Seq(Words)
  BY DEF Says
<1>2. Fold(Listen, a, s \o t) = Fold(Listen, Fold(Listen, a, s), t)
  BY <1>1, FoldConcat
<1>3. s \o t \in Seq(Words)
  BY <1>1, ConcatProperties
<1>4. QED BY <1>2, <1>3, Zenon DEF Says

LEMMA SaysAppend ==
  ASSUME NEW s, NEW w \in Words, NEW a, NEW b, NEW e, Says(s, a, b), Hears(b, w, e)
  PROVE  Says(Append(s, w), a, e)
<1>1. s \in Seq(Words)
  BY DEF Says
<1>2. Fold(Listen, a, Append(s, w)) = Listen[<<Fold(Listen, a, s), w>>]
  BY <1>1, FoldAppend
<1>3. Append(s, w) \in Seq(Words)
  BY <1>1, AppendProperties
<1>4. QED BY <1>2, <1>3, Zenon DEF Says, Hears

LEMMA SaysWord ==
  ASSUME NEW w \in Words, NEW a, NEW e, Hears(a, w, e)
  PROVE  Says(<<w>>, a, e)
<1>1. Fold(Listen, a, <<w>>) = Listen[<<a, w>>]
  BY HeardOne
<1>2. <<w>> \in Seq(Words)
  BY SingleWord
<1>3. QED BY <1>1, <1>2, Zenon DEF Says, Hears

LEMMA SaysNothing ==
  ASSUME NEW a
  PROVE  Says(<<>>, a, a)
<1>1. <<>> \in Seq(Words)
  OBVIOUS
<1>2. QED BY <1>1, FoldEmpty, Zenon DEF Says

\* The front of a text and its last word.
LEMMA FrontLast ==
  ASSUME NEW S, NEW u \in Seq(S), NEW w \in S
  PROVE  Front(Append(u, w)) = u /\ Last(Append(u, w)) = w
<1> DEFINE s == Append(u, w)
<1>1. /\ s \in Seq(S) /\ Len(s) = Len(u) + 1 /\ s[Len(u) + 1] = w
      /\ \A i \in 1..Len(u) : s[i] = u[i]
  BY AppendProperties
<1>2. Len(u) \in Nat
  BY LenProperties
<1> HIDE DEF s
<1>3. Last(s) = w
  BY <1>1 DEF Last
<1>4. SubSeq(s, 1, Len(u)) = u
  <2>1. \A i \in 1..Len(u) : s[i] \in S
    BY <1>1, <1>2
  <2> DEFINE f == SubSeq(s, 1, Len(u))
  <2>2. /\ f \in Seq(S) /\ Len(f) = Len(u)
        /\ \A i \in 1..Len(u) : f[i] = s[i]
    <3>1. /\ f \in Seq(S) /\ Len(f) = IF 1 <= Len(u) THEN Len(u) - 1 + 1 ELSE 0
          /\ \A i \in 1..(Len(u) - 1 + 1) : f[i] = s[1 + i - 1]
      BY <1>2, <2>1, SubSeqProperties
    <3>2. QED BY <1>2, <3>1
  <2> HIDE DEF f
  <2>3. f = u
    BY <1>1, <1>2, <2>2, SeqEqual
  <2>4. QED BY <2>3 DEF f
<1>5. Len(s) - 1 = Len(u)
  BY <1>1, <1>2
<1>6. QED BY <1>3, <1>4, <1>5 DEF Front, s

\* The currency takes the place of the last space: the words before it stay.
LEMMA CurrencyAdded ==
  ASSUME NEW u \in Seq(Words), NEW w \in {"", "And"}, NEW tag \in {"Dollars", "Cents"}
  PROVE  replaceStr(WithCurrency(Append(u, w), tag))
           = Append(replaceStr(u), IF w = "" THEN tag ELSE joined[tag])
<1> DEFINE J == IF w = "" THEN tag ELSE joined[tag]
<1>1. w \in Words
  BY WordsAreWords, Zenon DEF Plain
<1>2. Front(Append(u, w)) = u /\ Last(Append(u, w)) = w
  BY <1>1, FrontLast
<1>3. J \in Words /\ J # ""
  <2>1. tag \in Words /\ tag # "" /\ joined[tag] \in Words /\ joined[tag] # ""
    <3>1. CASE tag = "Dollars"
      BY <3>1, Zenon DEF Words, joined
    <3>2. CASE tag = "Cents"
      BY <3>2, Zenon DEF Words, joined
    <3>3. QED BY <3>1, <3>2, Zenon
  <2>2. QED BY <2>1, Zenon
<1> HIDE DEF J
<1>4. WithCurrency(Append(u, w), tag) = Append(u, J)
  BY <1>2, Zenon DEF WithCurrency, J
<1>5. replaceStr(u) \in Seq(Words)
  BY KeepType
<1>6. replaceStr(Append(u, J)) = Append(replaceStr(u), J)
  BY <1>3, <1>5, KeepAppend, Zenon
<1>7. QED BY <1>4, <1>6, Zenon DEF J

\* An amount and its currency: the words before the currency say the amount.
LEMMA CurrencyRead ==
  ASSUME NEW n \in Nat, 0 < n, n < Billion, NEW d \in Nat, NEW c \in Nat,
         NEW tag \in {"Dollars", "Cents"}
  PROVE  \E x \in Nat, t \in Nat, s \in Seq(Words) :
           /\ x + t = n /\ (n < Thousand => t = 0)
           /\ Says(s, Told(0, 0, d, c), Told(x, t, d, c))
           /\ replaceStr(WithCurrency(doAmt(n), tag))
                = Append(s, IF n % Thousand = 0 THEN joined[tag] ELSE tag)
<1> DEFINE w == IF n % Thousand = 0 THEN "And" ELSE ""
<1>1. PICK x \in Nat, t \in Nat :
           /\ x + t = n /\ (n < Thousand => t = 0)
           /\ TellsBefore(doAmt(n), w, Told(0, 0, d, c), Told(x, t, d, c))
  BY AmountRead, Zenon
<1>2. PICK u : Tells(u, Told(0, 0, d, c), Told(x, t, d, c)) /\ doAmt(n) = Append(u, w)
  BY <1>1, Zenon DEF TellsBefore
<1>3. u \in Seq(Words)
  BY <1>2, Zenon DEF Tells
<1>4. replaceStr(u) \in Seq(Words)
  BY <1>3, KeepType
<1>5. Says(replaceStr(u), Told(0, 0, d, c), Told(x, t, d, c))
  BY <1>2, <1>4, Zenon DEF Tells, Says
<1>6. w \in {"", "And"}
  BY Zenon
<1>7. (w = "") = (n % Thousand # 0)
  BY Zenon
<1> HIDE DEF w
<1>8. replaceStr(WithCurrency(doAmt(n), tag))
        = Append(replaceStr(u), IF w = "" THEN tag ELSE joined[tag])
  BY <1>2, <1>3, <1>6, CurrencyAdded, Zenon
<1>9. (IF w = "" THEN tag ELSE joined[tag]) = IF n % Thousand = 0 THEN joined[tag] ELSE tag
  BY <1>7, Zenon
<1>10. QED BY <1>1, <1>4, <1>5, <1>8, <1>9, Zenon

\* The dollars and the cents of a sale.
LEMMA PartsOfSale ==
  ASSUME NEW amt \in Cents
  PROVE  /\ amt_(amt) \in Nat /\ amt_(amt) < Billion
         /\ amt_decimal(amt) \in Nat /\ amt_decimal(amt) < Thousand
         /\ amt_decimal(amt) < Billion
         /\ amt_decimal(amt) # 0 => 0 < amt_decimal(amt) /\ amt_decimal(amt) % Thousand # 0
         /\ 100 * amt_(amt) + amt_decimal(amt) = amt
         /\ amt_(amt) = amt \div 100
<1>1. amt \in Nat /\ amt <= INT_MAX
  BY WordsAssumption, SMT DEF WordsAssumption
<1>2. amt \div 100 \in Nat /\ amt \div 100 < Billion /\ amt % 100 \in Nat /\ amt % 100 < 100
      /\ 100 * (amt \div 100) + (amt % 100) = amt
  BY <1>1, SMT DEF INT_MAX, Billion
<1> DEFINE c == amt % 100
<1>3. c \in Nat /\ c < 100
  BY <1>2
<1> HIDE DEF c
<1>4. c < Thousand /\ c < Billion /\ (c # 0 => 0 < c /\ c % Thousand # 0)
  BY <1>3, SMT DEF Thousand, Billion
<1>5. QED BY <1>2, <1>3, <1>4, Zenon DEF amt_, amt_decimal, c

\* The words of the currency.
LEMMA CurrencyWords ==
  /\ "Dollars" \in Words /\ "Cents" \in Words /\ "And" \in Words /\ "Received" \in Words
  /\ "ReceivedAgain" \in Words /\ "AndDollars" \in Words /\ "AndCents" \in Words
  /\ joined["Dollars"] = "AndDollars" /\ joined["Cents"] = "AndCents"
<1>1. /\ "Dollars" \in Words /\ "Cents" \in Words /\ "And" \in Words /\ "Received" \in Words
      /\ "ReceivedAgain" \in Words /\ "AndDollars" \in Words /\ "AndCents" \in Words
  BY Zenon DEF Words
<1>2. joined["Dollars"] = "AndDollars"
  BY Zenon DEF joined
<1>3. joined["Cents"] = "AndCents"
  BY Zenon DEF joined
<1>4. QED BY <1>1, <1>2, <1>3, Zenon

\* The dollars of a sale: the words end in the currency, and the files say the amount.
LEMMA DollarsSaid ==
  ASSUME NEW amt \in Cents, amt_(amt) > 0
  PROVE  /\ dollarWords(amt) \in Seq(Words)
         /\ Says(dollarFiles(amt), Told(0, 0, 0, 0), Told(0, 0, amt_(amt), 0))
         /\ amt_(amt) % Thousand # 0 => dollarWords(amt) = dollarFiles(amt)
<1> DEFINE n == amt_(amt)
           J == IF n % Thousand = 0 THEN joined["Dollars"] ELSE "Dollars"
<1>1. n \in Nat /\ 0 < n /\ n < Billion /\ 0 \in Nat
  BY PartsOfSale
<1> HIDE DEF n
<1>2. PICK x \in Nat, t \in Nat, s \in Seq(Words) :
           /\ x + t = n /\ (n < Thousand => t = 0)
           /\ Says(s, Told(0, 0, 0, 0), Told(x, t, 0, 0))
           /\ replaceStr(WithCurrency(doAmt(n), "Dollars")) = Append(s, J)
  <2>1. "Dollars" \in {"Dollars", "Cents"}
    OBVIOUS
  <2>2. QED BY <1>1, <2>1, CurrencyRead, Zenon
<1>3. dollarWords(amt) = Append(s, J)
  BY <1>2, Zenon DEF dollarWords, dollarText, n
<1>4. J \in Words
  BY CurrencyWords, Zenon
<1>5. n % Thousand # 0 => J = "Dollars"
  BY Zenon
<1> HIDE DEF J
<1>6. dollarFiles(amt) = Append(s, "Dollars")
  <2>1. Front(Append(s, J)) = s
    BY <1>4, FrontLast
  <2>2. QED BY <1>3, <2>1, Zenon DEF dollarFiles
<1>7. Says(dollarFiles(amt), Told(0, 0, 0, 0), Told(0, 0, n, 0))
  <2>1. Hears(Told(x, t, 0, 0), "Dollars", Told(0, 0, t + x, 0))
    BY <1>1, ListenPlain, Zenon
  <2>2. t + x = n
    BY <1>2
  <2>3. QED BY <1>2, <1>6, <2>1, <2>2, CurrencyWords, SaysAppend, Zenon
<1>8. dollarWords(amt) \in Seq(Words)
  BY <1>3, <1>4, AppendProperties
<1>9. QED BY <1>3, <1>5, <1>6, <1>7, <1>8, Zenon DEF n

\* The cents of a sale, if it has any, are below a thousand: words and files are the same.
LEMMA CentsSaid ==
  ASSUME NEW amt \in Cents, amt_decimal(amt) # 0, NEW d \in Nat
  PROVE  /\ centWords(amt) \in Seq(Words)
         /\ centFiles(amt) = <<"And">> \o centWords(amt)
         /\ Says(centWords(amt), Told(0, 0, d, 0), Told(0, 0, d, amt_decimal(amt)))
<1> DEFINE n == amt_decimal(amt)
<1>1. n \in Nat /\ 0 < n /\ n < Billion /\ n < Thousand /\ n % Thousand # 0 /\ 0 \in Nat
  BY PartsOfSale
<1>2. n # 0
  OBVIOUS
<1> HIDE DEF n
<1>3. PICK x \in Nat, t \in Nat, s \in Seq(Words) :
           /\ x + t = n /\ t = 0
           /\ Says(s, Told(0, 0, d, 0), Told(x, t, d, 0))
           /\ replaceStr(WithCurrency(doAmt(n), "Cents")) = Append(s, "Cents")
  <2>1. "Cents" \in {"Dollars", "Cents"}
    OBVIOUS
  <2>2. PICK x \in Nat, t \in Nat, s \in Seq(Words) :
             /\ x + t = n /\ (n < Thousand => t = 0)
             /\ Says(s, Told(0, 0, d, 0), Told(x, t, d, 0))
             /\ replaceStr(WithCurrency(doAmt(n), "Cents"))
                  = Append(s, IF n % Thousand = 0 THEN joined["Cents"] ELSE "Cents")
    BY <1>1, <2>1, CurrencyRead, ZenonT(40)
  <2>3. QED BY <1>1, <2>2, Zenon
<1>4. centWords(amt) = Append(s, "Cents")
  BY <1>2, <1>3, Zenon DEF centWords, centText, n
<1>5. Front(Append(s, "Cents")) = s
  BY CurrencyWords, FrontLast
<1>6. centFiles(amt) = <<"And">> \o centWords(amt)
  BY <1>2, <1>4, <1>5, Zenon DEF centFiles, n
<1>7. Says(centWords(amt), Told(0, 0, d, 0), Told(0, 0, d, n))
  <2>1. Hears(Told(x, t, d, 0), "Cents", Told(0, t, d, x))
    BY <1>1, ListenPlain, Zenon
  <2>2. x = n /\ t = 0
    BY <1>3
  <2>3. QED BY <1>3, <1>4, <2>1, <2>2, CurrencyWords, SaysAppend, Zenon
<1>8. centWords(amt) \in Seq(Words)
  BY <1>7, Zenon DEF Says
<1>9. QED BY <1>6, <1>7, <1>8, Zenon DEF n

\* The files of a sale say its dollars and its cents.
LEMMA FilesSaid ==
  ASSUME NEW amt \in Cents, amt_(amt) > 0
  PROVE  Says(Files(amt), Told(0, 0, 0, 0), Told(0, 0, amt_(amt), amt_decimal(amt)))
<1> DEFINE n == amt_(amt)
           c == amt_decimal(amt)
<1>1. n \in Nat /\ c \in Nat /\ 0 \in Nat
  BY PartsOfSale, Zenon
<1>2. Says(dollarFiles(amt), Told(0, 0, 0, 0), Told(0, 0, n, 0))
  BY DollarsSaid
<1>3. Says(centFiles(amt), Told(0, 0, n, 0), Told(0, 0, n, c))
  <2>1. CASE c = 0
    BY <2>1, SaysNothing, Zenon DEF centFiles
  <2>2. CASE c # 0
    <3>1. Hears(Told(0, 0, n, 0), "And", Told(0, 0, n, 0))
      BY <1>1, ListenPlain, Zenon
    <3>2. Says(<<"And">>, Told(0, 0, n, 0), Told(0, 0, n, 0))
      BY <3>1, CurrencyWords, SaysWord, Zenon
    <3>3. /\ Says(centWords(amt), Told(0, 0, n, 0), Told(0, 0, n, c))
          /\ centFiles(amt) = <<"And">> \o centWords(amt)
      BY <1>1, <2>2, CentsSaid, Zenon
    <3>4. QED BY <3>2, <3>3, SaysConcat, Zenon
  <2>3. QED BY <2>1, <2>2, Zenon
<1>4. Says(<<"Received">>, Told(0, 0, n, c), Told(0, 0, n, c))
  <2>1. Hears(Told(0, 0, n, c), "Received", Told(0, 0, n, c))
    BY <1>1, ListenPlain, Zenon
  <2>2. QED BY <2>1, CurrencyWords, SaysWord, Zenon
<1> HIDE DEF n, c
<1>5. Says(dollarFiles(amt) \o centFiles(amt), Told(0, 0, 0, 0), Told(0, 0, n, c))
  BY <1>2, <1>3, SaysConcat, Zenon
<1>6. Says((dollarFiles(amt) \o centFiles(amt)) \o <<"Received">>, Told(0, 0, 0, 0), Told(0, 0, n, c))
  BY <1>4, <1>5, SaysConcat, Zenon
<1>7. QED BY <1>6, Zenon DEF Files, n, c

\* Words that say the dollars and the cents read back as the amount.
LEMMA SaysReads ==
  ASSUME NEW s, NEW amt \in Cents,
         Says(s, Told(0, 0, 0, 0), Told(0, 0, amt_(amt), amt_decimal(amt)))
  PROVE  Reads(s, amt)
<1> DEFINE h == Told(0, 0, amt_(amt), amt_decimal(amt))
<1>1. h.clear = TRUE /\ h.dollars = amt_(amt) /\ h.cents = amt_decimal(amt)
  <2>1. h.clear = TRUE
    BY Zenon DEF Told
  <2>2. h.dollars = amt_(amt)
    BY Zenon DEF Told
  <2>3. h.cents = amt_decimal(amt)
    BY Zenon DEF Told
  <2>4. QED BY <2>1, <2>2, <2>3, Zenon
<1> HIDE DEF h
<1>2. 100 * h.dollars + h.cents = amt
  <2>1. 100 * amt_(amt) + amt_decimal(amt) = amt
    BY PartsOfSale, Zenon
  <2>2. QED BY <1>1, <2>1, Zenon
<1>3. Fold(Listen, Told(0, 0, 0, 0), s) = h
  BY Zenon DEF Says, h
<1>4. QED BY <1>1, <1>2, <1>3, Zenon DEF Reads

\* What is collected of a sale when nothing was left of the one before.
LEMMA CollectedWords ==
  ASSUME NEW amt \in Cents, amt_(amt) > 0, buffer \in Seq(Words)
  PROVE  /\ Collected(amt) \in Seq(Words) /\ Collected(amt) # <<>>
         /\ buffer = <<>> /\ amt_(amt) % Thousand # 0 => Collected(amt) = Files(amt)
<1> DEFINE D == dollarWords(amt)
           A == IF amt_decimal(amt) = 0 THEN <<>> ELSE <<"And">>
           C == centWords(amt)
           R == <<"Received">>
           words == ((D \o A) \o C) \o R
<1>1. D \in Seq(Words)
  BY DollarsSaid, Zenon
<1>2. A \in Seq(Words) /\ <<>> \in Seq(Words) /\ R \in Seq(Words)
  BY CurrencyWords
<1>3. C \in Seq(Words)
  <2>1. CASE amt_decimal(amt) = 0
    BY <1>2, <2>1, Zenon DEF centWords
  <2>2. CASE amt_decimal(amt) # 0
    <3>1. 0 \in Nat
      OBVIOUS
    <3>2. QED BY <2>2, <3>1, CentsSaid, Zenon
  <2>3. QED BY <2>1, <2>2, Zenon
<1>4. centFiles(amt) = A \o C
  <2>1. CASE amt_decimal(amt) = 0
    <3>1. <<>> \o <<>> = <<>>
      BY <1>2, ConcatEmptySeq
    <3>2. QED BY <2>1, <3>1, Zenon DEF centFiles, centWords
  <2>2. CASE amt_decimal(amt) # 0
    <3>1. 0 \in Nat
      OBVIOUS
    <3>2. QED BY <2>2, <3>1, CentsSaid, Zenon
  <2>3. QED BY <2>1, <2>2, Zenon
<1>5. Collected(amt) = IF buffer = <<>> THEN words
                       ELSE (Front(buffer) \o <<"ReceivedAgain">>) \o Tail(words)
  BY Zenon DEF Collected
<1>6. amt_(amt) % Thousand # 0 => D = dollarFiles(amt)
  BY DollarsSaid, Zenon
<1>7. Files(amt) = (dollarFiles(amt) \o centFiles(amt)) \o R
  BY Zenon DEF Files
<1> HIDE DEF D, A, C
<1>8. D \o A \in Seq(Words) /\ (D \o A) \o C \in Seq(Words) /\ (D \o A) \o C = D \o (A \o C)
  <2>1. D \o A \in Seq(Words)
    BY <1>1, <1>2, ConcatProperties
  <2>2. (D \o A) \o C \in Seq(Words)
    BY <2>1, <1>3, ConcatProperties
  <2>3. (D \o A) \o C = D \o (A \o C)
    <3>1. ASSUME NEW p \in Seq(Words), NEW q \in Seq(Words), NEW r \in Seq(Words)
          PROVE  (p \o q) \o r = p \o (q \o r)
      BY ConcatAssociative
    <3>2. QED BY <1>1, <1>2, <1>3, <3>1, Zenon
  <2>4. QED BY <2>1, <2>2, <2>3, Zenon
<1>9. words \in Seq(Words) /\ words # <<>>
  <2> DEFINE s == (D \o A) \o C
  <2>1. s \in Seq(Words)
    BY <1>8
  <2> HIDE DEF s
  <2>2. s \o R = Append(s, "Received")
    BY <2>1, CurrencyWords, AppendIsConcat
  <2>3. Append(s, "Received") \in Seq(Words) /\ Append(s, "Received") # <<>>
    BY <2>1, CurrencyWords, AppendProperties
  <2>4. QED BY <2>2, <2>3, Zenon DEF s
<1>10. CASE buffer = <<>>
  BY <1>4, <1>5, <1>6, <1>7, <1>8, <1>9, <1>10, Zenon
<1>11. CASE buffer # <<>>
  <2> HIDE DEF words
  <2>1. Tail(words) \in Seq(Words)
    BY <1>9, HeadTailProperties
  <2>2. PICK u \in Seq(Words), w \in Words : buffer = Append(u, w)
    BY <1>11, SequenceEmptyOrAppend
  <2>3. Front(buffer) = u
    BY <2>2, FrontLast
  <2>4. u \o <<"ReceivedAgain">> = Append(u, "ReceivedAgain")
    BY <2>2, CurrencyWords, AppendIsConcat
  <2>5. Append(u, "ReceivedAgain") \in Seq(Words) /\ Append(u, "ReceivedAgain") # <<>>
    BY <2>2, CurrencyWords, AppendProperties
  <2> DEFINE s == Append(u, "ReceivedAgain")
             t == Tail(words)
  <2>6. Collected(amt) = s \o t
    BY <1>5, <1>11, <2>3, <2>4, Zenon
  <2>7. s \in Seq(Words) /\ s # <<>> /\ t \in Seq(Words)
    BY <2>1, <2>5
  <2> HIDE DEF s, t
  <2>8. s \o t \in Seq(Words) /\ s \o t # <<>>
    BY <2>7, ConcatProperties, ConcatEqualIffEmpty
  <2>9. QED BY <1>11, <2>6, <2>8, Zenon
<1>12. QED BY <1>10, <1>11, Zenon

\* Between the opening and the closing clip are those of the number.
LEMMA BetweenClips ==
  ASSUME NEW S, NEW a \in S, NEW s \in Seq(S), NEW b \in S
  PROVE  LET t == <<a>> \o s \o <<b>>
         IN  t # <<>> /\ SubSeq(t, 2, Len(t) - 1) = s
<1> DEFINE t == (<<a>> \o s) \o <<b>>
           n == Len(s)
<1>1. n \in Nat /\ <<a>> \in Seq(S) /\ <<b>> \in Seq(S)
  BY LenProperties
<1>2. /\ <<a>> \o s \in Seq(S) /\ Len(<<a>> \o s) = n + 1
      /\ \A i \in 1..n : (<<a>> \o s)[i + 1] = s[i]
  <2>1. /\ <<a>> \o s \in Seq(S) /\ Len(<<a>> \o s) = 1 + n
        /\ \A i \in 1..(1 + n) : (<<a>> \o s)[i] = IF i <= 1 THEN <<a>>[i] ELSE s[i - 1]
    <3>1. Len(<<a>>) = 1
      OBVIOUS
    <3>2. QED BY <1>1, <3>1, ConcatProperties
  <2>2. QED BY <1>1, <2>1
<1>3. /\ t \in Seq(S) /\ Len(t) = n + 2 /\ t # <<>>
      /\ \A i \in 1..n : t[i + 1] = s[i]
  <2> DEFINE u == <<a>> \o s
  <2>1. u \in Seq(S) /\ Len(u) = n + 1 /\ \A i \in 1..n : u[i + 1] = s[i]
    BY <1>2
  <2> HIDE DEF u
  <2>2. u \o <<b>> = Append(u, b)
    BY <2>1, AppendIsConcat
  <2>3. /\ Append(u, b) \in Seq(S) /\ Append(u, b) # <<>> /\ Len(Append(u, b)) = n + 2
        /\ \A i \in 1..(n + 1) : Append(u, b)[i] = u[i]
    BY <1>1, <2>1, AppendProperties
  <2>4. QED BY <1>1, <2>1, <2>2, <2>3 DEF u
<1> HIDE DEF t
<1> DEFINE f == SubSeq(t, 2, n + 1)
<1>4. f \in Seq(S) /\ Len(f) = n /\ \A i \in 1..n : f[i] = t[i + 1]
  <2>1. \A i \in 2..(n + 1) : t[i] \in S
    BY <1>1, <1>3
  <2>2. /\ f \in Seq(S) /\ Len(f) = IF 2 <= n + 1 THEN (n + 1) - 2 + 1 ELSE 0
        /\ \A i \in 1..((n + 1) - 2 + 1) : f[i] = t[2 + i - 1]
    BY <1>1, <2>1, SubSeqProperties
  <2> HIDE DEF f
  <2>3. QED BY <1>1, <2>2
<1> HIDE DEF f
<1>5. f = s
  BY <1>1, <1>3, <1>4, SeqEqual
<1>6. Len(t) - 1 = n + 1
  BY <1>1, <1>3
<1>7. QED BY <1>3, <1>5, <1>6 DEF t, f

\* The clips of an amount there are clips for name it.
LEMMA ComposeNames ==
  ASSUME NEW rupiah \in Rupiahs, ~Unspeakable(rupiah)
  PROVE  LET number == SubSeq(Compose(rupiah), 2, Len(Compose(rupiah)) - 1)
         IN  /\ Compose(rupiah) # <<>>
             /\ ToSet(number) \subseteq Clips /\ ~Regular(number) /\ Heard(number) = rupiah
<1> DEFINE s == numberClips[rupiah]
           S == Clips \cup {"awal-qris", "akhir-berhasil"}
<1>1. rupiah \in 1..MaxRupiah
  BY WordsAssumption, MaxRupiahAssumption DEF WordsAssumption, MaxRupiahAssumption, Unspeakable
<1>2. s \in Seq(Clips) /\ ~Regular(s) /\ Heard(s) = rupiah
  BY <1>1, ClipsOfEveryAmount
<1>3. Compose(rupiah) = (<<"awal-qris">> \o s) \o <<"akhir-berhasil">>
  BY Zenon DEF Compose
<1> HIDE DEF s
<1>4. ToSet(s) \subseteq Clips
  <2>1. ASSUME NEW i \in DOMAIN s PROVE s[i] \in Clips
    BY <1>2, <2>1
  <2>2. QED BY <2>1, Zenon DEF ToSet
<1>5. "awal-qris" \in S /\ "akhir-berhasil" \in S
  BY Zenon
<1>6. s \in Seq(S)
  <2>1. Clips \subseteq S
    BY Zenon
  <2> HIDE DEF S
  <2>2. QED BY <1>2, <2>1
<1> HIDE DEF S
<1>7. /\ Compose(rupiah) # <<>>
      /\ SubSeq(Compose(rupiah), 2, Len(Compose(rupiah)) - 1) = s
  <2> DEFINE t == (<<"awal-qris">> \o s) \o <<"akhir-berhasil">>
  <2>1. t # <<>> /\ SubSeq(t, 2, Len(t) - 1) = s
    BY <1>5, <1>6, BetweenClips
  <2>2. Compose(rupiah) = t
    BY <1>3, Zenon
  <2> HIDE DEF t
  <2>3. QED BY <2>1, <2>2, Zenon
<1>8. QED BY <1>2, <1>4, <1>7, Zenon

----------------------------------------------------------------------------
(* Amounts: what is said, in every state *)

\* What was left in the buffer is of sales that were silent.
WordsInv ==
    /\ WordsTypeOK
    /\ buffer = <<>> \/ missed
    /\ ClipsNameThePayment
    /\ WordsNameTheSale

\* What the record of a sale holds.
LEMMA SaleFields ==
  ASSUME NEW amt, NEW words, NEW files
  PROVE  /\ Sale(amt, words, files).by = "card" /\ Sale(amt, words, files).amount = amt
         /\ Sale(amt, words, files).words = words /\ Sale(amt, words, files).files = files
         /\ Sale(amt, words, files).late = missed
<1>1. Sale(amt, words, files).by = "card"
  BY Zenon DEF Sale
<1>2. Sale(amt, words, files).amount = amt
  BY Zenon DEF Sale
<1>3. Sale(amt, words, files).words = words
  BY Zenon DEF Sale
<1>4. Sale(amt, words, files).files = files
  BY Zenon DEF Sale
<1>5. Sale(amt, words, files).late = missed
  BY Zenon DEF Sale
<1>6. QED BY <1>1, <1>2, <1>3, <1>4, <1>5, Zenon

\* Before anything is said.
LEMMA WordsInitInv ==
  ASSUME WordsInit
  PROVE  WordsInv
<1>1. said.by = "none" /\ said.amount = 0
  <2>1. said.by = "none"
    BY Zenon DEF WordsInit, Silence
  <2>2. said.amount = 0
    BY Zenon DEF WordsInit, Silence
  <2>3. QED BY <2>1, <2>2, Zenon
<1>2. failures \in 0..MaxFailures /\ missed \in BOOLEAN
  <2>1. failures = 0 /\ missed = FALSE
    BY Zenon DEF WordsInit
  <2>2. 0 \in 0..MaxFailures
    BY WordsAssumption DEF WordsAssumption
  <2>3. QED BY <2>1, <2>2, Zenon
<1>3. buffer = <<>> /\ buffer \in Seq(Words)
  <2>1. buffer = <<>>
    BY Zenon DEF WordsInit
  <2>2. <<>> \in Seq(Words)
    OBVIOUS
  <2>3. QED BY <2>1, <2>2, Zenon
<1>4. "none" # "qris" /\ "none" # "card"
  OBVIOUS
<1>5. WordsTypeOK
  <2>1. said.by \in {"none", "qris", "card"} /\ said.amount \in (Rupiahs \cup Cents) \cup {0}
    BY <1>1, Zenon
  <2>2. QED BY <1>2, <1>3, <2>1, Zenon DEF WordsTypeOK
<1>6. ClipsNameThePayment /\ WordsNameTheSale
  BY <1>1, <1>4, Zenon DEF ClipsNameThePayment, WordsNameTheSale
<1>7. QED BY <1>3, <1>5, <1>6, Zenon DEF WordsInv

\* A payment is announced by its clips, or has none.
LEMMA AnnounceKeeps ==
  ASSUME WordsInv, NEW rupiah \in Rupiahs, AnnouncePayment(rupiah)
  PROVE  WordsInv'
<1> DEFINE w == IF Unspeakable(rupiah) THEN <<>> ELSE Compose(rupiah)
<1>1. said'.by = "qris" /\ said'.amount = rupiah /\ said'.words = w
  <2>1. said'.by = "qris"
    BY Zenon DEF AnnouncePayment, Silence
  <2>2. said'.amount = rupiah
    BY Zenon DEF AnnouncePayment, Silence
  <2>3. said'.words = w
    BY Zenon DEF AnnouncePayment, Silence
  <2>4. QED BY <2>1, <2>2, <2>3, Zenon
<1>2. buffer' = buffer /\ failures' = failures /\ missed' = missed
  BY Zenon DEF AnnouncePayment
<1>3. WordsTypeOK'
  <2>1. said'.by \in {"none", "qris", "card"} /\ said'.amount \in (Rupiahs \cup Cents) \cup {0}
    BY <1>1, Zenon
  <2>2. QED BY <1>2, <2>1, Zenon DEF WordsTypeOK, WordsInv
<1>4. ClipsNameThePayment'
  <2>1. CASE Unspeakable(rupiah)
    <3>1. said'.words = <<>>
      BY <1>1, <2>1, Zenon
    <3>2. QED BY <1>1, <2>1, <3>1, Zenon DEF ClipsNameThePayment
  <2>2. CASE ~Unspeakable(rupiah)
    <3>1. said'.words = Compose(rupiah)
      BY <1>1, <2>2, Zenon
    <3>2. QED BY <1>1, <2>2, <3>1, ComposeNames, Zenon DEF ClipsNameThePayment
  <2>3. QED BY <2>1, <2>2, Zenon
<1>5. WordsNameTheSale'
  BY <1>1, Zenon DEF WordsNameTheSale
<1>6. QED BY <1>2, <1>3, <1>4, <1>5, Zenon DEF WordsInv

\* A sale that is silent has one of the reasons there are.
LEMMA SilenceKeeps ==
  ASSUME WordsInv, NEW amt \in Cents, said' = Sale(amt, <<>>, <<>>),
         buffer' \in Seq(Words), buffer' = <<>> \/ missed', failures' \in 0..MaxFailures,
         missed' \in BOOLEAN, amt < 100 \/ missed' \/ Overflows(amt)
  PROVE  WordsInv'
<1>1. said'.by = "card" /\ said'.amount = amt /\ said'.words = <<>>
  <2>1. /\ Sale(amt, <<>>, <<>>).by = "card" /\ Sale(amt, <<>>, <<>>).amount = amt
        /\ Sale(amt, <<>>, <<>>).words = <<>>
    BY SaleFields
  <2>2. QED BY <2>1, Zenon
<1>2. WordsTypeOK'
  <2>1. said'.by \in {"none", "qris", "card"} /\ said'.amount \in (Rupiahs \cup Cents) \cup {0}
    BY <1>1, Zenon
  <2>2. QED BY <2>1, Zenon DEF WordsTypeOK
<1>3. ClipsNameThePayment'
  BY <1>1, Zenon DEF ClipsNameThePayment
<1>4. WordsNameTheSale'
  BY <1>1, Zenon DEF WordsNameTheSale
<1>5. QED BY <1>2, <1>3, <1>4, Zenon DEF WordsInv

\* A sale below a dollar, one without memory, one too long for replaceStr.
LEMMA SaySmallSaleKeeps ==
  ASSUME WordsInv, NEW amt \in Cents, SaySmallSale(amt)
  PROVE  WordsInv'
<1>1. /\ said' = Sale(amt, <<>>, <<>>) /\ amt_(amt) = 0
      /\ buffer' = buffer /\ failures' = failures /\ missed' = missed
  BY Zenon DEF SaySmallSale
<1>2. /\ buffer \in Seq(Words) /\ failures \in 0..MaxFailures /\ missed \in BOOLEAN
      /\ buffer = <<>> \/ missed
  BY Zenon DEF WordsInv, WordsTypeOK
<1>3. amt < 100
  <2>1. amt \in Nat
    BY WordsAssumption, SMT DEF WordsAssumption
  <2>2. amt \div 100 = 0
    BY <1>1, Zenon DEF amt_
  <2>3. QED BY <2>1, <2>2, SMT
<1>4. QED BY <1>1, <1>2, <1>3, SilenceKeeps, Zenon

LEMMA SayNothingKeeps ==
  ASSUME WordsInv, NEW amt \in Cents, SayNothing(amt)
  PROVE  WordsInv'
<1>1. /\ said' = Sale(amt, <<>>, <<>>) /\ amt_(amt) > 0
      /\ buffer' = Collected(amt) /\ missed' = TRUE
  BY Zenon DEF SayNothing
<1>2. failures' \in 0..MaxFailures
  <2>1. failures \in 0..MaxFailures
    BY Zenon DEF WordsInv, WordsTypeOK
  <2>2. failures < MaxFailures /\ failures' = failures + 1
    BY Zenon DEF SayNothing
  <2>3. QED BY <2>1, <2>2, WordsAssumption DEF WordsAssumption
<1>3. buffer' \in Seq(Words)
  <2>1. buffer \in Seq(Words)
    BY Zenon DEF WordsInv, WordsTypeOK
  <2>2. QED BY <1>1, <2>1, CollectedWords, Zenon
<1>4. QED BY <1>1, <1>2, <1>3, SilenceKeeps, Zenon

LEMMA SayOverflowsKeeps ==
  ASSUME WordsInv, NEW amt \in Cents, SayOverflows(amt)
  PROVE  WordsInv'
<1>1. /\ said' = Sale(amt, <<>>, <<>>) /\ Overflows(amt)
      /\ buffer' = <<>> /\ missed' = FALSE /\ failures' = failures
  BY Zenon DEF SayOverflows
<1>2. failures \in 0..MaxFailures
  BY Zenon DEF WordsInv, WordsTypeOK
<1>3. <<>> \in Seq(Words)
  OBVIOUS
<1>4. QED BY <1>1, <1>2, <1>3, SilenceKeeps, Zenon

\* A sale that is spoken: its files read back as its amount, and so do its words unless they
\* are behind those of a silent one or the dollars end in three zeros.
LEMMA SaySaleKeeps ==
  ASSUME WordsInv, NEW amt \in Cents, SaySale(amt)
  PROVE  WordsInv'
<1>1. /\ said' = Sale(amt, Collected(amt), Files(amt)) /\ amt_(amt) > 0
      /\ buffer' = <<>> /\ missed' = FALSE /\ failures' = failures
  BY Zenon DEF SaySale
<1>2. /\ buffer \in Seq(Words) /\ failures \in 0..MaxFailures /\ (buffer = <<>> \/ missed)
  BY Zenon DEF WordsInv, WordsTypeOK
<1>3. /\ said'.by = "card" /\ said'.amount = amt /\ said'.words = Collected(amt)
      /\ said'.files = Files(amt) /\ said'.late = missed
  <2> DEFINE r == Sale(amt, Collected(amt), Files(amt))
  <2>1. /\ r.by = "card" /\ r.amount = amt /\ r.words = Collected(amt)
        /\ r.files = Files(amt) /\ r.late = missed
    BY SaleFields
  <2>2. said' = r
    BY <1>1, Zenon
  <2> HIDE DEF r
  <2>3. QED BY <2>1, <2>2, Zenon
<1>4. /\ Collected(amt) # <<>>
      /\ (buffer = <<>> /\ amt_(amt) % Thousand # 0 => Collected(amt) = Files(amt))
  BY <1>1, <1>2, CollectedWords, Zenon
<1>5. Reads(Files(amt), amt)
  BY <1>1, FilesSaid, SaysReads, Zenon
<1>6. WordsTypeOK'
  <2>1. said'.by \in {"none", "qris", "card"} /\ said'.amount \in (Rupiahs \cup Cents) \cup {0}
    BY <1>3, Zenon
  <2>2. <<>> \in Seq(Words)
    OBVIOUS
  <2>3. QED BY <1>1, <1>2, <2>1, <2>2, Zenon DEF WordsTypeOK
<1>7. ClipsNameThePayment'
  BY <1>3, Zenon DEF ClipsNameThePayment
<1>8. WordsNameTheSale'
  <2>1. Reads(Collected(amt), amt) \/ (amt \div 100) % Thousand = 0 \/ missed
    <3>1. amt_(amt) = amt \div 100
      BY Zenon DEF amt_
    <3>2. QED BY <1>2, <1>4, <1>5, <3>1, Zenon
  <2>2. QED BY <1>3, <1>4, <1>5, <2>1, Zenon DEF WordsNameTheSale
<1>9. QED BY <1>1, <1>6, <1>7, <1>8, Zenon DEF WordsInv

\* Every step keeps the invariant.
LEMMA WordsNextInv ==
  ASSUME WordsInv, [WordsNext]_wordsVars
  PROVE  WordsInv'
<1>1. ASSUME NEW rupiah \in Rupiahs, AnnouncePayment(rupiah) PROVE WordsInv'
  BY <1>1, AnnounceKeeps
<1>2. ASSUME NEW amt \in Cents, SaySmallSale(amt) PROVE WordsInv'
  BY <1>2, SaySmallSaleKeeps
<1>3. ASSUME NEW amt \in Cents, SaySale(amt) PROVE WordsInv'
  BY <1>3, SaySaleKeeps
<1>4. ASSUME NEW amt \in Cents, SayNothing(amt) PROVE WordsInv'
  BY <1>4, SayNothingKeeps
<1>5. ASSUME NEW amt \in Cents, SayOverflows(amt) PROVE WordsInv'
  BY <1>5, SayOverflowsKeeps
<1>6. CASE UNCHANGED wordsVars
  BY <1>6, Zenon DEF wordsVars, WordsInv, WordsTypeOK, ClipsNameThePayment, WordsNameTheSale
<1>7. QED BY <1>1, <1>2, <1>3, <1>4, <1>5, <1>6, Zenon DEF WordsNext

LEMMA WordsInvAlways == WordsSpec => []WordsInv
<1>1. WordsInit => WordsInv
  BY WordsInitInv
<1>2. WordsInv /\ [WordsNext]_wordsVars => WordsInv'
  BY WordsNextInv
<1>3. QED BY <1>1, <1>2, PTL DEF WordsSpec

\* AmtToMp3.c: the words collected are words, and what is said is of a known amount.
THEOREM WordsTypeCorrect == WordsSpec => []WordsTypeOK
<1>1. WordsInv => WordsTypeOK
  BY DEF WordsInv
<1>2. QED BY <1>1, WordsInvAlways, PTL

\* voice.Compose: for every amount of a QRIS payment, the clips sent to the device read
\* back as that amount, in the words Indonesian has for it; only the amounts it returns an
\* error for have none.
THEOREM PaymentClipsRight == WordsSpec => []ClipsNameThePayment
<1>1. WordsInv => ClipsNameThePayment
  BY DEF WordsInv
<1>2. QED BY <1>1, WordsInvAlways, PTL

\* AmtToMp3.c: for every amount of a card sale the files, and the words but for the two
\* exceptions of the code, read back as the amount; no sale is silent without a reason.
THEOREM SaleWordsRight == WordsSpec => []WordsNameTheSale
<1>1. WordsInv => WordsNameTheSale
  BY DEF WordsInv
<1>2. QED BY <1>1, WordsInvAlways, PTL

----------------------------------------------------------------------------
(* Card payments: the inductive invariant *)

\* Nothing has gone wrong before an application is tried, and with the last one that
\* was tried no call has failed.
ProblemsInv ==
    /\ pc \in {"idle", "amount", "tap", "insert", "choose"} => problems = {}
    /\ pc \in {"kernel", "confirm", "paid"} => "call" \notin problems
    /\ "pin" \in problems => way = "tap"

\* What the reader was told of the amount.
LimitInv ==
    /\ pc = "tap" => allowed = {"paywave", "quics"} \ refused
    /\ "limit" \in problems => kernel \in {"paypass", "magstripe", "rupay"}

\* Which kernel, and how far it is.
KernelInv ==
    /\ step <= Len(Script[kernel])
    /\ pc \in {"kernel", "reselect", "confirm", "paid"} => (way = "insert" <=> kernel = "emv")
    /\ pc \in {"tap", "insert", "choose"} => (way = "tap" <=> pc = "tap")
    /\ pc = "choose" => apps > 0
    /\ "completion" \in problems => /\ pc \in {"confirm", "paid", "failed"}
                                    /\ kernel = "paywave" /\ online

\* The number of an inserted card.
NumberInv ==
    /\ kernel = "emv" /\ (pc \in {"confirm", "paid"} \/ (pc = "kernel" /\ step > 3)) => TrackRead
    /\ "number" \in problems => /\ pc = "paid"
                                /\ way = "tap" \/ tags = "pan"

\* The amount and the PIN in PosCom.
PosComInv ==
    /\ poscom.amount = auth
    /\ pc # "idle" /\ poscom.pin => typed
    /\ pc = "paid" => spoken = AsInt(poscom.amount)

CardInv == CardTypeOK /\ ProblemsInv /\ LimitInv /\ KernelInv /\ NumberInv /\ PosComInv

----------------------------------------------------------------------------
(* Card payments: the kernels' calls *)

\* The kernels' calls, in their order.
LEMMA ScriptFacts ==
  /\ DOMAIN Script = Contactless \cup {"magstripe", "emv"}
  /\ Len(Script.paypass) = 9 /\ Len(Script.magstripe) = 6 /\ Len(Script.paywave) = 9
  /\ Len(Script.quics) = 5 /\ Len(Script.rupay) = 8 /\ Len(Script.emv) = 8
  BY DEF Script, Contactless, PaypassCalls, MagstripeCalls, PaywaveCalls, QuicsCalls,
         RupayCalls, EmvCalls

LEMMA LengthFacts ==
  ASSUME NEW k \in DOMAIN Script
  PROVE  Len(Script[k]) \in 5..9 /\ 2 <= Len(Script[k])
<1>1. Len(Script[k]) \in 5..9
  BY ScriptFacts DEF Contactless
<1>2. ASSUME NEW n \in 5..9 PROVE 2 <= n
  OBVIOUS
<1>3. QED BY <1>1, <1>2

LEMMA CallFacts ==
  ASSUME NEW k \in DOMAIN Script, NEW i \in 1..Len(Script[k])
  PROVE  /\ Script[k][i] = "init" => i = 1
         /\ Script[k][i] = "host" => k = "paywave" /\ i = Len(Script[k])
         /\ Script[k][i] \in {"pin", "verify", "pan", "off"} => k # "emv"
         /\ Script[k][i] \in {"holder", "track"} => k = "emv"
         /\ k = "emv" /\ Script[k][i] = "read" => i = 2
         /\ k = "emv" /\ i = 3 => Script[k][i] = "track"
         /\ k = "emv" /\ Script[k][i] = "track" => i = 3
         /\ k = "emv" => Len(Script[k]) = 8
<1>1. k \in {"paypass", "paywave", "quics", "rupay", "magstripe", "emv"}
  BY ScriptFacts DEF Contactless
<1>2. CASE k = "paypass"
  <2>1. Script[k] = PaypassCalls /\ i \in 1..9
    BY <1>2, ScriptFacts DEF Script
  <2>2. QED BY <1>2, <2>1 DEF PaypassCalls
<1>3. CASE k = "paywave"
  <2>1. Script[k] = PaywaveCalls /\ i \in 1..9
    BY <1>3, ScriptFacts DEF Script
  <2>2. QED BY <1>3, <2>1 DEF PaywaveCalls
<1>4. CASE k = "quics"
  <2>1. Script[k] = QuicsCalls /\ i \in 1..5
    BY <1>4, ScriptFacts DEF Script
  <2>2. QED BY <1>4, <2>1 DEF QuicsCalls
<1>5. CASE k = "rupay"
  <2>1. Script[k] = RupayCalls /\ i \in 1..8
    BY <1>5, ScriptFacts DEF Script
  <2>2. QED BY <1>5, <2>1 DEF RupayCalls
<1>6. CASE k = "magstripe"
  <2>1. Script[k] = MagstripeCalls /\ i \in 1..6
    BY <1>6, ScriptFacts DEF Script
  <2>2. QED BY <1>6, <2>1 DEF MagstripeCalls
<1>7. CASE k = "emv"
  <2>1. Script[k] = EmvCalls /\ i \in 1..8
    BY <1>7, ScriptFacts DEF Script
  <2>2. QED BY <1>7, <2>1, ScriptFacts DEF EmvCalls
<1>8. QED BY <1>1, <1>2, <1>3, <1>4, <1>5, <1>6, <1>7

\* What the invariant says while a kernel runs.
LEMMA AtKernel ==
  ASSUME CardInv, pc = "kernel"
  PROVE  /\ kernel \in DOMAIN Script /\ step \in 1..Len(Script[kernel]) /\ step \in 1..9
         /\ Len(Script[kernel]) \in 5..9
         /\ Call = "init" => step = 1
         /\ Call = "host" => kernel = "paywave" /\ step = Len(Script[kernel])
         /\ Call \in {"pin", "verify", "pan", "off"} => kernel # "emv"
         /\ Call \in {"holder", "track"} => kernel = "emv"
         /\ kernel = "emv" => /\ Call = "read" => step = 2
                              /\ step = 3 <=> Call = "track"
                              /\ Len(Script[kernel]) = 8
<1>1. kernel \in DOMAIN Script /\ step \in 1..9 /\ step <= Len(Script[kernel])
  BY DEF CardInv, CardTypeOK, AppType, KernelInv
<1>2. Len(Script[kernel]) \in 5..9
  BY <1>1, LengthFacts
<1>3. step \in 1..Len(Script[kernel])
  BY <1>1, <1>2
<1>4. QED BY <1>1, <1>2, <1>3, CallFacts DEF Call

\* The next call, or the card's confirmation.
LEMMA AdvanceFacts ==
  ASSUME CardInv, pc = "kernel", Advance
  PROVE  /\ pc' \in {"kernel", "confirm"} /\ step' \in 1..Len(Script[kernel])
         /\ step' \in 1..9 /\ step' <= Len(Script[kernel])
         /\ pc' = "kernel" => step' = step + 1 /\ step # Len(Script[kernel])
         /\ pc' = "confirm" => step = Len(Script[kernel]) /\ step' = 1
         /\ Len(Script[kernel]) \in 5..9
<1> DEFINE n == Len(Script[kernel])
<1>1. step \in 1..n /\ n \in 5..9
  BY AtKernel
<1>2. IF step = n THEN pc' = "confirm" /\ step' = 1 ELSE pc' = "kernel" /\ step' = step + 1
  BY DEF Advance
<1> HIDE DEF n
<1>3. step' \in 1..n /\ step' \in 1..9 /\ step' <= n
  BY <1>1, <1>2
<1>4. /\ pc' \in {"kernel", "confirm"}
      /\ pc' = "kernel" => step' = step + 1 /\ step # n
      /\ pc' = "confirm" => step = n /\ step' = 1
  BY <1>2
<1>5. QED BY <1>1, <1>3, <1>4 DEF n

\* An application is tried from its first call.
LEMMA BeginFacts ==
  ASSUME NEW k \in DOMAIN Script, Begin(k)
  PROVE  /\ pc' = "kernel" /\ kernel' = k /\ step' = 1
         /\ kernel' \in DOMAIN Script /\ step' <= Len(Script[kernel'])
<1>1. pc' = "kernel" /\ kernel' = k /\ step' = 1
  BY DEF Begin
<1>2. 1 <= Len(Script[k])
  BY LengthFacts
<1>3. QED BY <1>1, <1>2

\* What a sale that ended leaves behind.
LEMMA ForgetFacts ==
  ASSUME Forget
  PROVE  /\ kernel' = "emv" /\ step' = 1 /\ apps' = 0 /\ spoken' = 0 /\ tags' = "none"
         /\ cvm' = FALSE /\ online' = FALSE /\ refused' = {} /\ typed' = FALSE /\ problems' = {}
         /\ kernel' \in DOMAIN Script /\ step' <= Len(Script[kernel'])
<1>1. "emv" \in DOMAIN Script
  BY ScriptFacts
<1>2. ASSUME NEW k \in DOMAIN Script PROVE 1 <= Len(Script[k])
  BY LengthFacts
<1>3. QED BY <1>1, <1>2 DEF Forget

----------------------------------------------------------------------------
(* Card payments: one lemma per action *)

\* Each action keeps the invariant.
LEMMA StartSaleKeeps == CardInv /\ StartSale => CardInv'
<1> SUFFICES ASSUME CardInv, StartSale PROVE CardInv'
  OBVIOUS
<1>0. sales' \in 0..MaxSales
  BY BoundsAssumption DEF StartSale, CardInv, CardTypeOK, SaleType
<1>1. SaleType'
  BY <1>0 DEF StartSale, Zero, card, CardInv, CardTypeOK, SaleType
<1>2. AmountType'
  BY <1>0 DEF StartSale, Zero, card, CardInv, CardTypeOK, AmountType, PosComs
<1>3. AppType'
  BY <1>0 DEF StartSale, Zero, card, CardInv, CardTypeOK, AppType
<1>4. ProblemsInv'
  BY <1>0 DEF StartSale, Zero, card, CardInv, CardTypeOK, SaleType, ProblemsInv
<1>5. LimitInv'
  BY <1>0 DEF StartSale, Zero, card, CardInv, ProblemsInv, LimitInv
<1>6. KernelInv'
  BY <1>0 DEF StartSale, Zero, card, CardInv, CardTypeOK, SaleType, ProblemsInv,
              KernelInv
<1>7. NumberInv'
  BY <1>0 DEF StartSale, Zero, card, CardInv, ProblemsInv, KernelInv, NumberInv,
              TrackRead
<1>8. PosComInv'
  BY <1>0 DEF StartSale, Zero, card, CardInv, CardTypeOK, AmountType, PosComs, PosComInv
<1>9. QED BY <1>1, <1>2, <1>3, <1>4, <1>5, <1>6, <1>7, <1>8 DEF CardInv, CardTypeOK

LEMMA EnterAmountKeeps == CardInv /\ EnterAmount => CardInv'
<1> SUFFICES ASSUME CardInv, EnterAmount PROVE CardInv'
  OBVIOUS
<1>1. SaleType'
  BY DEF EnterAmount, PrepareReader, Fail, card, CardInv, CardTypeOK, SaleType
<1>2. AmountType'
  BY DEF EnterAmount, PrepareReader, Fail, card, CardInv, CardTypeOK, AmountType,
         PosComs
<1>3. AppType'
  BY DEF EnterAmount, PrepareReader, Fail, card, CardInv, CardTypeOK, AppType
<1>4. ProblemsInv'
  BY DEF EnterAmount, PrepareReader, Fail, card, CardInv, CardTypeOK, SaleType,
         ProblemsInv
<1>5. LimitInv'
  BY DEF EnterAmount, PrepareReader, Fail, card, CardInv, ProblemsInv, LimitInv
<1>6. KernelInv'
  BY DEF EnterAmount, PrepareReader, Fail, card, CardInv, CardTypeOK, SaleType,
         ProblemsInv, KernelInv
<1>7. NumberInv'
  BY DEF EnterAmount, PrepareReader, Fail, card, CardInv, ProblemsInv, KernelInv,
         NumberInv, TrackRead
<1>8. PosComInv'
  BY DEF EnterAmount, PrepareReader, Fail, card, CardInv, CardTypeOK, AmountType,
         PosComs, PosComInv
<1>9. QED BY <1>1, <1>2, <1>3, <1>4, <1>5, <1>6, <1>7, <1>8 DEF CardInv, CardTypeOK

LEMMA CancelAmountKeeps == CardInv /\ CancelAmount => CardInv'
<1> SUFFICES ASSUME CardInv, CancelAmount PROVE CardInv'
  OBVIOUS
<1>1. SaleType'
  BY DEF CancelAmount, card, cardHistory, CardInv, CardTypeOK, SaleType
<1>2. AmountType'
  BY DEF CancelAmount, card, cardHistory, CardInv, CardTypeOK, AmountType, PosComs
<1>3. AppType'
  BY DEF CancelAmount, card, cardHistory, CardInv, CardTypeOK, AppType
<1>4. ProblemsInv'
  BY DEF CancelAmount, card, cardHistory, CardInv, CardTypeOK, SaleType, ProblemsInv
<1>5. LimitInv'
  BY DEF CancelAmount, card, cardHistory, CardInv, ProblemsInv, LimitInv
<1>6. KernelInv'
  BY DEF CancelAmount, card, cardHistory, CardInv, CardTypeOK, SaleType, ProblemsInv,
         KernelInv
<1>7. NumberInv'
  BY DEF CancelAmount, card, cardHistory, CardInv, ProblemsInv, KernelInv, NumberInv,
         TrackRead
<1>8. PosComInv'
  BY DEF CancelAmount, card, cardHistory, CardInv, CardTypeOK, AmountType, PosComs,
         PosComInv
<1>9. QED BY <1>1, <1>2, <1>3, <1>4, <1>5, <1>6, <1>7, <1>8 DEF CardInv, CardTypeOK

LEMMA TapCardKeeps == CardInv /\ TapCard => CardInv'
<1> SUFFICES ASSUME CardInv, TapCard PROVE CardInv'
  OBVIOUS
<1>0. /\ kernel' \in DOMAIN Script /\ step' \in 1..9 /\ step' <= Len(Script[kernel'])
      /\ apps' \in 0..MaxApps /\ pc' \in {"kernel", "failed"}
      /\ pc' = "kernel" => /\ kernel' \in Contactless
                           /\ kernel' \in {"paywave", "quics"} => kernel' \in allowed
                           /\ problems' = IF kernel' \in refused THEN {"limit"} ELSE {}
      /\ pc' = "failed" => problems' = problems /\ kernel' = kernel
  <2>1. CASE UNCHANGED <<kernel, step, apps, problems>> /\ Fail
    BY <2>1 DEF CardInv, CardTypeOK, AppType, KernelInv, Fail
  <2>2. ASSUME NEW i \in DOMAIN Order, Begin(Order[i]), NEW own, Found(Order[i], own), apps' \in 0..(MaxApps - 1),
               problems' = IF Order[i] \in refused THEN {"limit"} ELSE {}
        PROVE  /\ kernel' \in DOMAIN Script /\ step' \in 1..9 /\ step' <= Len(Script[kernel'])
               /\ apps' \in 0..MaxApps /\ pc' = "kernel"
               /\ kernel' \in Contactless
               /\ kernel' \in {"paywave", "quics"} => kernel' \in allowed
               /\ problems' = IF kernel' \in refused THEN {"limit"} ELSE {}
    <3>1. Order[i] \in Contactless
      BY DEF Order, Contactless
    <3>2. Order[i] \in DOMAIN Script
      BY <3>1, ScriptFacts
    <3>3. QED BY <2>2, <3>1, <3>2, BeginFacts, BoundsAssumption DEF Found
  <2>3. QED BY <2>1, <2>2 DEF TapCard
<1>01. "emv" \notin Contactless
  BY DEF Contactless
<1>1. SaleType'
  BY <1>0, <1>01 DEF TapCard, Found, Fail, CardInv, CardTypeOK, SaleType
<1>2. AmountType'
  BY <1>0, <1>01 DEF TapCard, Found, Fail, CardInv, CardTypeOK, AmountType, PosComs
<1>3. AppType'
  BY <1>0, <1>01 DEF TapCard, Found, Fail, CardInv, CardTypeOK, AppType
<1>4. ProblemsInv'
  BY <1>0, <1>01 DEF TapCard, Found, Fail, CardInv, CardTypeOK, SaleType, ProblemsInv
<1>5. LimitInv'
  <2>1. CASE pc' = "kernel"
    BY <1>0, <2>1 DEF TapCard, CardInv, LimitInv, Contactless
  <2>2. CASE pc' = "failed"
    BY <1>0, <2>2 DEF TapCard, CardInv, ProblemsInv, LimitInv
  <2>3. QED BY <1>0, <2>1, <2>2
<1>6. KernelInv'
  <2>1. kernel' # "emv" \/ pc' = "failed"
    BY <1>0, <1>01
  <2>2. "completion" \notin problems' /\ way = "tap" /\ way' = way
    BY <1>0 DEF TapCard, CardInv, ProblemsInv, KernelInv, CardTypeOK, SaleType
  <2>3. QED BY <1>0, <2>1, <2>2 DEF KernelInv
<1>7. NumberInv'
  <2>1. kernel' # "emv" \/ pc' = "failed"
    BY <1>0, <1>01
  <2>2. "number" \notin problems'
    BY <1>0 DEF TapCard, CardInv, ProblemsInv
  <2>3. QED BY <1>0, <2>1, <2>2 DEF NumberInv
<1>8. PosComInv'
  BY <1>0, <1>01 DEF TapCard, Found, Fail, CardInv, CardTypeOK, AmountType, PosComs, PosComInv
<1>9. QED BY <1>1, <1>2, <1>3, <1>4, <1>5, <1>6, <1>7, <1>8 DEF CardInv, CardTypeOK

LEMMA InsertCardKeeps == CardInv /\ InsertCard => CardInv'
<1> SUFFICES ASSUME CardInv, InsertCard PROVE CardInv'
  OBVIOUS
<1>1. SaleType'
  BY BoundsAssumption DEF InsertCard, cardHistory, Fail, CardInv, CardTypeOK, SaleType
<1>2. AmountType'
  BY BoundsAssumption DEF InsertCard, cardHistory, Fail, CardInv, CardTypeOK,
                          AmountType, PosComs
<1>3. AppType'
  BY BoundsAssumption DEF InsertCard, cardHistory, Fail, CardInv, CardTypeOK, AppType
<1>4. ProblemsInv'
  BY BoundsAssumption DEF InsertCard, cardHistory, Fail, CardInv, CardTypeOK, SaleType,
                          ProblemsInv
<1>5. LimitInv'
  BY BoundsAssumption DEF InsertCard, cardHistory, Fail, CardInv, ProblemsInv, LimitInv
<1>6. KernelInv'
  BY BoundsAssumption DEF InsertCard, cardHistory, Fail, CardInv, CardTypeOK, SaleType,
                          ProblemsInv, KernelInv
<1>7. NumberInv'
  BY BoundsAssumption DEF InsertCard, cardHistory, Fail, CardInv, ProblemsInv,
                          KernelInv, NumberInv, TrackRead
<1>8. PosComInv'
  BY BoundsAssumption DEF InsertCard, cardHistory, Fail, CardInv, CardTypeOK,
                          AmountType, PosComs, PosComInv
<1>9. QED BY <1>1, <1>2, <1>3, <1>4, <1>5, <1>6, <1>7, <1>8 DEF CardInv, CardTypeOK

LEMMA ChooseAppKeeps == CardInv /\ ChooseApp => CardInv'
<1> SUFFICES ASSUME CardInv, ChooseApp PROVE CardInv'
  OBVIOUS
<1>0. /\ kernel' \in DOMAIN Script /\ step' \in 1..9 /\ step' <= Len(Script[kernel'])
      /\ apps' \in 0..MaxApps /\ pc = "choose"
      /\ \/ pc' = "kernel" /\ kernel' = "emv" /\ step' = 1
         \/ pc' = "failed" /\ kernel' = kernel /\ step' = step
  <2>1. "emv" \in DOMAIN Script
    BY ScriptFacts
  <2>2. CASE Begin("emv") /\ apps' = apps - 1
    BY <2>1, <2>2, BeginFacts, BoundsAssumption DEF ChooseApp, CardInv, CardTypeOK, AppType, KernelInv
  <2>3. CASE Fail /\ UNCHANGED <<kernel, step, apps>>
    BY <2>3 DEF ChooseApp, CardInv, CardTypeOK, AppType, KernelInv, Fail
  <2>4. QED BY <2>2, <2>3 DEF ChooseApp
<1>1. SaleType'
  BY <1>0 DEF ChooseApp, cardHistory, Fail, CardInv, CardTypeOK, SaleType
<1>2. AmountType'
  BY <1>0 DEF ChooseApp, cardHistory, Fail, CardInv, CardTypeOK, AmountType, PosComs
<1>3. AppType'
  BY <1>0 DEF ChooseApp, cardHistory, Fail, CardInv, CardTypeOK, AppType
<1>4. ProblemsInv'
  BY <1>0 DEF ChooseApp, cardHistory, Fail, CardInv, CardTypeOK, SaleType, ProblemsInv
<1>5. LimitInv'
  BY <1>0 DEF ChooseApp, cardHistory, Fail, CardInv, ProblemsInv, LimitInv
<1>6. KernelInv'
  BY <1>0 DEF ChooseApp, cardHistory, Fail, CardInv, CardTypeOK, SaleType, ProblemsInv,
              KernelInv
<1>7. NumberInv'
  BY <1>0 DEF ChooseApp, cardHistory, Fail, CardInv, ProblemsInv, KernelInv, NumberInv,
              TrackRead
<1>8. PosComInv'
  BY <1>0 DEF ChooseApp, cardHistory, Fail, CardInv, CardTypeOK, AmountType, PosComs,
              PosComInv
<1>9. QED BY <1>1, <1>2, <1>3, <1>4, <1>5, <1>6, <1>7, <1>8 DEF CardInv, CardTypeOK

LEMMA PassKeeps == CardInv /\ Pass => CardInv'
<1> SUFFICES ASSUME CardInv, Pass PROVE CardInv'
  OBVIOUS
<1>0. /\ kernel \in DOMAIN Script /\ pc = "kernel" /\ kernel' = kernel
      /\ step \in 1..9 /\ step' \in 1..9 /\ step' <= Len(Script[kernel])
  <2>1. Advance /\ pc = "kernel" /\ kernel' = kernel
    BY DEF Pass, card
  <2>2. QED BY <2>1, AtKernel, AdvanceFacts
<1>1. SaleType'
  BY AtKernel, AdvanceFacts, <1>0 DEF Pass, cardHistory, CardInv, CardTypeOK, SaleType
<1>2. AmountType'
  BY AtKernel, AdvanceFacts, <1>0 DEF Pass, cardHistory, CardInv, CardTypeOK,
                                      AmountType, PosComs
<1>3. AppType'
  BY AtKernel, AdvanceFacts, <1>0 DEF Pass, cardHistory, CardInv, CardTypeOK, AppType
<1>4. ProblemsInv'
  BY AtKernel, AdvanceFacts, <1>0 DEF Pass, cardHistory, CardInv, CardTypeOK, SaleType,
                                      ProblemsInv
<1>5. LimitInv'
  BY AtKernel, AdvanceFacts, <1>0 DEF Pass, cardHistory, CardInv, ProblemsInv, LimitInv
<1>6. KernelInv'
  BY AtKernel, AdvanceFacts, <1>0 DEF Pass, cardHistory, CardInv, CardTypeOK, SaleType,
                                      ProblemsInv, KernelInv
<1>7. NumberInv'
  BY AtKernel, AdvanceFacts, <1>0 DEF Pass, cardHistory, CardInv, ProblemsInv,
                                      KernelInv, NumberInv, TrackRead
<1>8. PosComInv'
  BY AtKernel, AdvanceFacts, <1>0 DEF Pass, cardHistory, CardInv, CardTypeOK,
                                      AmountType, PosComs, PosComInv
<1>9. QED BY <1>1, <1>2, <1>3, <1>4, <1>5, <1>6, <1>7, <1>8 DEF CardInv, CardTypeOK

LEMMA CallFailsKeeps == CardInv /\ CallFails => CardInv'
<1> SUFFICES ASSUME CardInv, CallFails PROVE CardInv'
  OBVIOUS
<1>1. SaleType'
  BY AtKernel DEF CallFails, card, Fail, CardInv, CardTypeOK, SaleType
<1>2. AmountType'
  BY AtKernel DEF CallFails, card, Fail, CardInv, CardTypeOK, AmountType, PosComs
<1>3. AppType'
  BY AtKernel DEF CallFails, card, Fail, CardInv, CardTypeOK, AppType
<1>4. ProblemsInv'
  BY AtKernel DEF CallFails, card, Fail, CardInv, CardTypeOK, SaleType, ProblemsInv
<1>5. LimitInv'
  BY AtKernel DEF CallFails, card, Fail, CardInv, ProblemsInv, LimitInv
<1>6. KernelInv'
  BY AtKernel DEF CallFails, card, Fail, CardInv, CardTypeOK, SaleType, ProblemsInv,
                  KernelInv
<1>7. NumberInv'
  BY AtKernel DEF CallFails, card, Fail, CardInv, ProblemsInv, KernelInv, NumberInv,
                  TrackRead
<1>8. PosComInv'
  BY AtKernel DEF CallFails, card, Fail, CardInv, CardTypeOK, AmountType, PosComs,
                  PosComInv
<1>9. QED BY <1>1, <1>2, <1>3, <1>4, <1>5, <1>6, <1>7, <1>8 DEF CardInv, CardTypeOK

LEMMA ReselectKeeps == CardInv /\ Reselect => CardInv'
<1> SUFFICES ASSUME CardInv, Reselect PROVE CardInv'
  OBVIOUS
<1>0. /\ kernel' \in DOMAIN Script /\ step' \in 1..9 /\ step' <= Len(Script[kernel'])
      /\ apps' \in 0..MaxApps
      /\ \/ pc' = "kernel" /\ step' = 1 /\ problems' = problems \cap {"limit"}
            /\ kernel' = IF kernel = "magstripe" THEN "paypass" ELSE kernel
         \/ pc' = "failed" /\ kernel' = kernel /\ step' = step /\ problems' = problems
  <2>1. CASE apps = 0 /\ Fail /\ UNCHANGED <<kernel, step, apps, problems>>
    BY <2>1 DEF CardInv, CardTypeOK, AppType, KernelInv, Fail
  <2>2. CASE /\ apps > 0 /\ apps' = apps - 1
             /\ Begin(IF kernel = "magstripe" THEN "paypass" ELSE kernel)
             /\ problems' = problems \cap {"limit"}
    <3>1. (IF kernel = "magstripe" THEN "paypass" ELSE kernel) \in DOMAIN Script
      <4>1. kernel \in DOMAIN Script
        BY DEF CardInv, CardTypeOK, AppType
      <4>2. "paypass" \in DOMAIN Script
        BY ScriptFacts DEF Contactless
      <4>3. QED BY <4>1, <4>2
    <3>2. apps' \in 0..MaxApps
      BY <2>2, BoundsAssumption DEF CardInv, CardTypeOK, AppType
    <3>3. QED BY <2>2, <3>1, <3>2, BeginFacts
  <2>3. QED BY <2>1, <2>2 DEF Reselect
<1>1. SaleType'
  BY <1>0 DEF Reselect, Fail, CardInv, CardTypeOK, SaleType
<1>2. AmountType'
  BY <1>0 DEF Reselect, Fail, CardInv, CardTypeOK, AmountType, PosComs
<1>3. AppType'
  BY <1>0 DEF Reselect, Fail, CardInv, CardTypeOK, AppType
<1>4. ProblemsInv'
  BY <1>0 DEF Reselect, Fail, CardInv, CardTypeOK, SaleType, ProblemsInv
<1>5. LimitInv'
  BY <1>0 DEF Reselect, Fail, CardInv, ProblemsInv, LimitInv
<1>6. KernelInv'
  BY <1>0 DEF Reselect, Fail, CardInv, CardTypeOK, SaleType, ProblemsInv, KernelInv
<1>7. NumberInv'
  BY <1>0 DEF Reselect, Fail, CardInv, ProblemsInv, KernelInv, NumberInv, TrackRead
<1>8. PosComInv'
  BY <1>0 DEF Reselect, Fail, CardInv, CardTypeOK, AmountType, PosComs, PosComInv
<1>9. QED BY <1>1, <1>2, <1>3, <1>4, <1>5, <1>6, <1>7, <1>8 DEF CardInv, CardTypeOK

LEMMA InitAppKeeps == CardInv /\ InitApp => CardInv'
<1> SUFFICES ASSUME CardInv, InitApp PROVE CardInv'
  OBVIOUS
<1>0. /\ kernel \in DOMAIN Script /\ kernel' \in DOMAIN Script /\ pc' = "kernel" /\ step' = 2
      /\ pc = "kernel" /\ step' <= Len(Script[kernel'])
      /\ \/ kernel' = kernel
         \/ kernel = "paypass" /\ kernel' = "magstripe"
  <2>1. kernel \in DOMAIN Script /\ pc = "kernel" /\ step = 1
    BY AtKernel DEF InitApp
  <2>2. pc' = "kernel" /\ step' = 2
    <3>1. Advance /\ Len(Script[kernel]) # step
      BY <2>1, LengthFacts DEF InitApp
    <3>2. QED BY <2>1, <3>1 DEF Advance
  <2>3. kernel' = kernel \/ (kernel = "paypass" /\ kernel' = "magstripe")
    BY DEF InitApp
  <2>4. kernel' \in DOMAIN Script
    BY <2>1, <2>3, ScriptFacts
  <2>5. ASSUME NEW k \in DOMAIN Script PROVE 2 <= Len(Script[k]) /\ 1 \in 1..9 /\ 2 \in 1..9
    BY LengthFacts
  <2>6. QED BY <2>1, <2>2, <2>3, <2>4, <2>5
<1>1. SaleType'
  BY <1>0 DEF InitApp, cardHistory, CardInv, CardTypeOK, SaleType
<1>2. AmountType'
  BY <1>0 DEF InitApp, cardHistory, CardInv, CardTypeOK, AmountType, PosComs
<1>3. AppType'
  BY <1>0 DEF InitApp, cardHistory, CardInv, CardTypeOK, AppType
<1>4. ProblemsInv'
  BY <1>0 DEF InitApp, cardHistory, CardInv, CardTypeOK, SaleType, ProblemsInv
<1>5. LimitInv'
  BY <1>0 DEF InitApp, cardHistory, CardInv, ProblemsInv, LimitInv
<1>6. KernelInv'
  BY <1>0 DEF InitApp, cardHistory, CardInv, CardTypeOK, SaleType, ProblemsInv,
              KernelInv
<1>7. NumberInv'
  BY <1>0 DEF InitApp, cardHistory, CardInv, ProblemsInv, KernelInv, NumberInv,
              TrackRead
<1>8. PosComInv'
  BY <1>0 DEF InitApp, cardHistory, CardInv, CardTypeOK, AmountType, PosComs, PosComInv
<1>9. QED BY <1>1, <1>2, <1>3, <1>4, <1>5, <1>6, <1>7, <1>8 DEF CardInv, CardTypeOK

LEMMA InputAmtKeeps == CardInv /\ InputAmt => CardInv'
<1> SUFFICES ASSUME CardInv, InputAmt PROVE CardInv'
  OBVIOUS
<1>1. SaleType'
  BY AtKernel DEF InputAmt, card, cardHistory, CardInv, CardTypeOK, SaleType
<1>2. AmountType'
  BY AtKernel DEF InputAmt, card, cardHistory, CardInv, CardTypeOK, AmountType, PosComs
<1>3. AppType'
  BY AtKernel DEF InputAmt, card, cardHistory, CardInv, CardTypeOK, AppType
<1>4. ProblemsInv'
  BY AtKernel DEF InputAmt, card, cardHistory, CardInv, CardTypeOK, SaleType,
                  ProblemsInv
<1>5. LimitInv'
  BY AtKernel DEF InputAmt, card, cardHistory, CardInv, ProblemsInv, LimitInv
<1>6. KernelInv'
  BY AtKernel DEF InputAmt, card, cardHistory, CardInv, CardTypeOK, SaleType,
                  ProblemsInv, KernelInv
<1>7. NumberInv'
  BY AtKernel DEF InputAmt, card, cardHistory, CardInv, ProblemsInv, KernelInv,
                  NumberInv, TrackRead
<1>8. PosComInv'
  BY AtKernel DEF InputAmt, card, cardHistory, CardInv, CardTypeOK, AmountType, PosComs,
                  PosComInv
<1>9. QED BY <1>1, <1>2, <1>3, <1>4, <1>5, <1>6, <1>7, <1>8 DEF CardInv, CardTypeOK

LEMMA ReadAppKeeps == CardInv /\ ReadApp => CardInv'
<1> SUFFICES ASSUME CardInv, ReadApp PROVE CardInv'
  OBVIOUS
<1>0. /\ kernel \in DOMAIN Script /\ pc = "kernel" /\ kernel' = kernel
      /\ step \in 1..9 /\ step' \in 1..9 /\ step' <= Len(Script[kernel])
  <2>1. Advance /\ pc = "kernel" /\ kernel' = kernel
    BY DEF ReadApp, card
  <2>2. QED BY <2>1, AtKernel, AdvanceFacts
<1>1. SaleType'
  BY AtKernel, AdvanceFacts, <1>0 DEF ReadApp, cardHistory, CardInv, CardTypeOK,
                                      SaleType
<1>2. AmountType'
  BY AtKernel, AdvanceFacts, <1>0 DEF ReadApp, cardHistory, CardInv, CardTypeOK,
                                      AmountType, PosComs
<1>3. AppType'
  BY AtKernel, AdvanceFacts, <1>0 DEF ReadApp, cardHistory, CardInv, CardTypeOK, AppType
<1>4. ProblemsInv'
  BY AtKernel, AdvanceFacts, <1>0 DEF ReadApp, cardHistory, CardInv, CardTypeOK,
                                      SaleType, ProblemsInv
<1>5. LimitInv'
  BY AtKernel, AdvanceFacts, <1>0 DEF ReadApp, cardHistory, CardInv, ProblemsInv,
                                      LimitInv
<1>6. KernelInv'
  BY AtKernel, AdvanceFacts, <1>0 DEF ReadApp, cardHistory, CardInv, CardTypeOK,
                                      SaleType, ProblemsInv, KernelInv
<1>7. NumberInv'
  BY AtKernel, AdvanceFacts, <1>0 DEF ReadApp, cardHistory, CardInv, ProblemsInv,
                                      KernelInv, NumberInv, TrackRead, CardTypeOK,
                                      SaleType
<1>8. PosComInv'
  BY AtKernel, AdvanceFacts, <1>0 DEF ReadApp, cardHistory, CardInv, CardTypeOK,
                                      AmountType, PosComs, PosComInv
<1>9. QED BY <1>1, <1>2, <1>3, <1>4, <1>5, <1>6, <1>7, <1>8 DEF CardInv, CardTypeOK

LEMMA GetPanKeeps == CardInv /\ GetPan => CardInv'
<1> SUFFICES ASSUME CardInv, GetPan PROVE CardInv'
  OBVIOUS
<1>0. /\ kernel \in DOMAIN Script /\ pc = "kernel" /\ kernel' = kernel
      /\ step \in 1..9 /\ step' \in 1..9 /\ step' <= Len(Script[kernel])
  <2>1. Advance /\ pc = "kernel" /\ kernel' = kernel
    BY DEF GetPan, card
  <2>2. QED BY <2>1, AtKernel, AdvanceFacts
<1>1. SaleType'
  BY AtKernel, AdvanceFacts, <1>0 DEF GetPan, card, cardHistory, CardInv, CardTypeOK,
                                      SaleType
<1>2. AmountType'
  BY AtKernel, AdvanceFacts, <1>0 DEF GetPan, card, cardHistory, CardInv, CardTypeOK,
                                      AmountType, PosComs
<1>3. AppType'
  BY AtKernel, AdvanceFacts, <1>0 DEF GetPan, card, cardHistory, CardInv, CardTypeOK,
                                      AppType
<1>4. ProblemsInv'
  BY AtKernel, AdvanceFacts, <1>0 DEF GetPan, card, cardHistory, CardInv, CardTypeOK,
                                      SaleType, ProblemsInv
<1>5. LimitInv'
  BY AtKernel, AdvanceFacts, <1>0 DEF GetPan, card, cardHistory, CardInv, ProblemsInv,
                                      LimitInv
<1>6. KernelInv'
  BY AtKernel, AdvanceFacts, <1>0 DEF GetPan, card, cardHistory, CardInv, CardTypeOK,
                                      SaleType, ProblemsInv, KernelInv
<1>7. NumberInv'
  BY AtKernel, AdvanceFacts, <1>0 DEF GetPan, card, cardHistory, CardInv, ProblemsInv,
                                      KernelInv, NumberInv, TrackRead
<1>8. PosComInv'
  BY AtKernel, AdvanceFacts, <1>0 DEF GetPan, card, cardHistory, CardInv, CardTypeOK,
                                      AmountType, PosComs, PosComInv
<1>9. QED BY <1>1, <1>2, <1>3, <1>4, <1>5, <1>6, <1>7, <1>8 DEF CardInv, CardTypeOK

LEMMA ReaderOffKeeps == CardInv /\ ReaderOff => CardInv'
<1> SUFFICES ASSUME CardInv, ReaderOff PROVE CardInv'
  OBVIOUS
<1>0. /\ kernel \in DOMAIN Script /\ pc = "kernel" /\ kernel' = kernel
      /\ step \in 1..9 /\ step' \in 1..9 /\ step' <= Len(Script[kernel])
  <2>1. Advance /\ pc = "kernel" /\ kernel' = kernel
    BY DEF ReaderOff, card
  <2>2. QED BY <2>1, AtKernel, AdvanceFacts
<1>1. SaleType'
  BY AtKernel, AdvanceFacts, <1>0 DEF ReaderOff, cardHistory, CardInv, CardTypeOK,
                                      SaleType
<1>2. AmountType'
  BY AtKernel, AdvanceFacts, <1>0 DEF ReaderOff, cardHistory, CardInv, CardTypeOK,
                                      AmountType, PosComs
<1>3. AppType'
  BY AtKernel, AdvanceFacts, <1>0 DEF ReaderOff, cardHistory, CardInv, CardTypeOK,
                                      AppType
<1>4. ProblemsInv'
  BY AtKernel, AdvanceFacts, <1>0 DEF ReaderOff, cardHistory, CardInv, CardTypeOK,
                                      SaleType, ProblemsInv
<1>5. LimitInv'
  BY AtKernel, AdvanceFacts, <1>0 DEF ReaderOff, cardHistory, CardInv, ProblemsInv,
                                      LimitInv
<1>6. KernelInv'
  BY AtKernel, AdvanceFacts, <1>0 DEF ReaderOff, cardHistory, CardInv, CardTypeOK,
                                      SaleType, ProblemsInv, KernelInv
<1>7. NumberInv'
  BY AtKernel, AdvanceFacts, <1>0 DEF ReaderOff, cardHistory, CardInv, ProblemsInv,
                                      KernelInv, NumberInv, TrackRead
<1>8. PosComInv'
  BY AtKernel, AdvanceFacts, <1>0 DEF ReaderOff, cardHistory, CardInv, CardTypeOK,
                                      AmountType, PosComs, PosComInv
<1>9. QED BY <1>1, <1>2, <1>3, <1>4, <1>5, <1>6, <1>7, <1>8 DEF CardInv, CardTypeOK

LEMMA TrackDataKeeps == CardInv /\ TrackData => CardInv'
<1> SUFFICES ASSUME CardInv, TrackData PROVE CardInv'
  OBVIOUS
<1>1. SaleType'
  BY AtKernel, AdvanceFacts DEF TrackData, cardHistory, Fail, CardInv, CardTypeOK,
                                SaleType
<1>2. AmountType'
  BY AtKernel, AdvanceFacts DEF TrackData, cardHistory, Fail, CardInv, CardTypeOK,
                                AmountType, PosComs
<1>3. AppType'
  BY AtKernel, AdvanceFacts DEF TrackData, cardHistory, Fail, CardInv, CardTypeOK,
                                AppType
<1>4. ProblemsInv'
  BY AtKernel, AdvanceFacts DEF TrackData, cardHistory, Fail, CardInv, CardTypeOK,
                                SaleType, ProblemsInv
<1>5. LimitInv'
  BY AtKernel, AdvanceFacts DEF TrackData, cardHistory, Fail, CardInv, ProblemsInv,
                                LimitInv
<1>6. KernelInv'
  BY AtKernel, AdvanceFacts DEF TrackData, cardHistory, Fail, CardInv, CardTypeOK,
                                SaleType, ProblemsInv, KernelInv
<1>7. NumberInv'
  BY AtKernel, AdvanceFacts DEF TrackData, cardHistory, Fail, CardInv, ProblemsInv,
                                KernelInv, NumberInv, TrackRead
<1>8. PosComInv'
  BY AtKernel, AdvanceFacts DEF TrackData, cardHistory, Fail, CardInv, CardTypeOK,
                                AmountType, PosComs, PosComInv
<1>9. QED BY <1>1, <1>2, <1>3, <1>4, <1>5, <1>6, <1>7, <1>8 DEF CardInv, CardTypeOK

LEMMA VerifyKeeps == CardInv /\ Verify => CardInv'
<1> SUFFICES ASSUME CardInv, Verify PROVE CardInv'
  OBVIOUS
<1>0. /\ kernel \in DOMAIN Script /\ pc = "kernel" /\ kernel' = kernel
      /\ step \in 1..9 /\ step' \in 1..9 /\ step' <= Len(Script[kernel])
  <2>1. Advance /\ pc = "kernel" /\ kernel' = kernel
    BY DEF Verify, card
  <2>2. QED BY <2>1, AtKernel, AdvanceFacts
<1>1. SaleType'
  BY AtKernel, AdvanceFacts, <1>0 DEF Verify, cardHistory, CardInv, CardTypeOK, SaleType
<1>2. AmountType'
  BY AtKernel, AdvanceFacts, <1>0 DEF Verify, cardHistory, CardInv, CardTypeOK,
                                      AmountType, PosComs
<1>3. AppType'
  BY AtKernel, AdvanceFacts, <1>0 DEF Verify, cardHistory, CardInv, CardTypeOK, AppType
<1>4. ProblemsInv'
  BY AtKernel, AdvanceFacts, <1>0 DEF Verify, cardHistory, CardInv, CardTypeOK,
                                      SaleType, ProblemsInv
<1>5. LimitInv'
  BY AtKernel, AdvanceFacts, <1>0 DEF Verify, cardHistory, CardInv, ProblemsInv,
                                      LimitInv
<1>6. KernelInv'
  BY AtKernel, AdvanceFacts, <1>0 DEF Verify, cardHistory, CardInv, CardTypeOK,
                                      SaleType, ProblemsInv, KernelInv
<1>7. NumberInv'
  BY AtKernel, AdvanceFacts, <1>0 DEF Verify, cardHistory, CardInv, ProblemsInv,
                                      KernelInv, NumberInv, TrackRead
<1>8. PosComInv'
  BY AtKernel, AdvanceFacts, <1>0 DEF Verify, cardHistory, CardInv, CardTypeOK,
                                      AmountType, PosComs, PosComInv
<1>9. QED BY <1>1, <1>2, <1>3, <1>4, <1>5, <1>6, <1>7, <1>8 DEF CardInv, CardTypeOK

LEMMA EnterPINKeeps == CardInv /\ EnterPIN => CardInv'
<1> SUFFICES ASSUME CardInv, EnterPIN PROVE CardInv'
  OBVIOUS
<1>0. /\ kernel \in DOMAIN Script /\ pc = "kernel" /\ kernel' = kernel
      /\ step \in 1..9 /\ step' \in 1..9 /\ step' <= Len(Script[kernel])
  <2>1. Advance /\ pc = "kernel" /\ kernel' = kernel
    BY DEF EnterPIN, card
  <2>2. QED BY <2>1, AtKernel, AdvanceFacts
<1>1. SaleType'
  BY AtKernel, AdvanceFacts, <1>0 DEF EnterPIN, CardInv, CardTypeOK, SaleType
<1>2. AmountType'
  BY AtKernel, AdvanceFacts, <1>0 DEF EnterPIN, CardInv, CardTypeOK, AmountType, PosComs
<1>3. AppType'
  BY AtKernel, AdvanceFacts, <1>0 DEF EnterPIN, CardInv, CardTypeOK, AppType
<1>4. ProblemsInv'
  BY AtKernel, AdvanceFacts, <1>0 DEF EnterPIN, CardInv, CardTypeOK, SaleType,
                                      ProblemsInv, KernelInv
<1>5. LimitInv'
  BY AtKernel, AdvanceFacts, <1>0 DEF EnterPIN, CardInv, ProblemsInv, LimitInv
<1>6. KernelInv'
  BY AtKernel, AdvanceFacts, <1>0 DEF EnterPIN, CardInv, CardTypeOK, SaleType,
                                      ProblemsInv, KernelInv
<1>7. NumberInv'
  BY AtKernel, AdvanceFacts, <1>0 DEF EnterPIN, CardInv, ProblemsInv, KernelInv,
                                      NumberInv, TrackRead
<1>8. PosComInv'
  BY AtKernel, AdvanceFacts, <1>0 DEF EnterPIN, CardInv, CardTypeOK, AmountType,
                                      PosComs, PosComInv
<1>9. QED BY <1>1, <1>2, <1>3, <1>4, <1>5, <1>6, <1>7, <1>8 DEF CardInv, CardTypeOK

LEMMA HolderKeeps == CardInv /\ Holder => CardInv'
<1> SUFFICES ASSUME CardInv, Holder PROVE CardInv'
  OBVIOUS
<1>0. /\ kernel \in DOMAIN Script /\ pc = "kernel" /\ kernel' = kernel
      /\ step \in 1..9 /\ step' \in 1..9 /\ step' <= Len(Script[kernel])
  <2>1. Advance /\ pc = "kernel" /\ kernel' = kernel
    BY DEF Holder, card
  <2>2. QED BY <2>1, AtKernel, AdvanceFacts
<1>1. SaleType'
  BY AtKernel, AdvanceFacts, <1>0 DEF Holder, card, CardInv, CardTypeOK, SaleType
<1>2. AmountType'
  BY AtKernel, AdvanceFacts, <1>0 DEF Holder, card, CardInv, CardTypeOK, AmountType,
                                      PosComs
<1>3. AppType'
  BY AtKernel, AdvanceFacts, <1>0 DEF Holder, card, CardInv, CardTypeOK, AppType
<1>4. ProblemsInv'
  BY AtKernel, AdvanceFacts, <1>0 DEF Holder, card, CardInv, CardTypeOK, SaleType,
                                      ProblemsInv, AmountType, PosComs, PosComInv
<1>5. LimitInv'
  BY AtKernel, AdvanceFacts, <1>0 DEF Holder, card, CardInv, ProblemsInv, LimitInv
<1>6. KernelInv'
  BY AtKernel, AdvanceFacts, <1>0 DEF Holder, card, CardInv, CardTypeOK, SaleType,
                                      ProblemsInv, KernelInv
<1>7. NumberInv'
  <2>1. step # 3 /\ tags' = tags /\ kernel = "emv" /\ step <= 8
    <3>1. Call = "holder" /\ pc = "kernel" /\ tags' = tags
      BY DEF Holder
    <3>2. kernel = "emv" /\ step \in 1..Len(Script[kernel])
      BY <3>1, AtKernel
    <3>3. step # 3 /\ Len(Script[kernel]) = 8
      BY <3>1, <3>2, AtKernel
    <3>4. QED BY <3>1, <3>2, <3>3
  <2>2. "number" \notin problems'
    <3>1. "number" \notin problems
      BY <1>0 DEF CardInv, NumberInv
    <3>2. problems' = problems \/ problems' = problems \cup {"pin"}
      BY DEF Holder
    <3>3. QED BY <3>1, <3>2
  <2>3. pc' = "confirm" => step = 8
    BY AtKernel, AdvanceFacts, <2>1 DEF Holder
  <2>4. pc' = "kernel" => step' = step + 1
    BY AdvanceFacts, <1>0 DEF Holder
  <2>5. step' > 3 /\ pc' = "kernel" => step > 3
    BY <1>0, <2>1, <2>4
  <2>6. pc' \in {"kernel", "confirm"}
    BY AdvanceFacts, <1>0 DEF Holder
  <2>7. TrackRead' = TrackRead
    BY <2>1 DEF TrackRead
  <2>8. pc' = "confirm" \/ (pc' = "kernel" /\ step' > 3) => TrackRead
    BY <1>0, <2>1, <2>3, <2>5 DEF CardInv, NumberInv
  <2>9. QED BY <1>0, <2>2, <2>6, <2>7, <2>8 DEF NumberInv
<1>8. PosComInv'
  <2>1. pc' \in {"kernel", "confirm"} /\ pc = "kernel"
    BY AdvanceFacts, <1>0 DEF Holder
  <2>2. /\ poscom \in PosComs /\ poscom.amount = auth /\ auth' = auth
        /\ poscom.pin => typed
    BY <1>0 DEF Holder, CardInv, CardTypeOK, AmountType, PosComInv
  <2>3. CASE UNCHANGED <<poscom, typed, problems>>
    BY <2>1, <2>2, <2>3 DEF PosComInv
  <2>4. ASSUME NEW t \in BOOLEAN, NEW offline \in BOOLEAN,
               poscom' = [poscom EXCEPT !.amount = auth, !.pan = "card",
                                        !.pin = @ \/ (t /\ ~offline)],
               typed' = (typed \/ t)
        PROVE  PosComInv'
    <3>1. poscom'.amount = auth /\ (poscom'.pin => typed')
      BY <2>2, <2>4 DEF PosComs
    <3>2. QED BY <2>1, <2>2, <3>1 DEF PosComInv
  <2>5. QED BY <2>3, <2>4 DEF Holder
<1>9. QED BY <1>1, <1>2, <1>3, <1>4, <1>5, <1>6, <1>7, <1>8 DEF CardInv, CardTypeOK

LEMMA HostKeeps == CardInv /\ Host => CardInv'
<1> SUFFICES ASSUME CardInv, Host PROVE CardInv'
  OBVIOUS
<1>1. SaleType'
  BY AtKernel, AdvanceFacts DEF Host, Complete, Fail, CardInv, CardTypeOK, SaleType
<1>2. AmountType'
  BY AtKernel, AdvanceFacts DEF Host, Complete, Fail, CardInv, CardTypeOK, AmountType,
                                PosComs
<1>3. AppType'
  BY AtKernel, AdvanceFacts DEF Host, Complete, Fail, CardInv, CardTypeOK, AppType
<1>4. ProblemsInv'
  BY AtKernel, AdvanceFacts DEF Host, Complete, Fail, CardInv, CardTypeOK, SaleType,
                                ProblemsInv, KernelInv
<1>5. LimitInv'
  BY AtKernel, AdvanceFacts DEF Host, Complete, Fail, CardInv, ProblemsInv, LimitInv
<1>6. KernelInv'
  BY AtKernel, AdvanceFacts DEF Host, Complete, Fail, CardInv, CardTypeOK, SaleType,
                                ProblemsInv, KernelInv
<1>7. NumberInv'
  BY AtKernel, AdvanceFacts DEF Host, Complete, Fail, CardInv, ProblemsInv, KernelInv,
                                NumberInv, TrackRead
<1>8. PosComInv'
  BY AtKernel, AdvanceFacts DEF Host, Complete, Fail, CardInv, CardTypeOK, AmountType,
                                PosComs, PosComInv
<1>9. QED BY <1>1, <1>2, <1>3, <1>4, <1>5, <1>6, <1>7, <1>8 DEF CardInv, CardTypeOK

LEMMA ConfirmCardKeeps == CardInv /\ ConfirmCard => CardInv'
<1> SUFFICES ASSUME CardInv, ConfirmCard PROVE CardInv'
  OBVIOUS
<1>1. SaleType'
  BY DEF ConfirmCard, Shown, AsInt, card, CardInv, CardTypeOK, SaleType
<1>2. AmountType'
  BY DEF ConfirmCard, Shown, AsInt, card, CardInv, CardTypeOK, AmountType, PosComs
<1>3. AppType'
  BY DEF ConfirmCard, Shown, AsInt, card, CardInv, CardTypeOK, AppType
<1>4. ProblemsInv'
  BY DEF ConfirmCard, Shown, AsInt, card, CardInv, CardTypeOK, SaleType, ProblemsInv
<1>5. LimitInv'
  BY DEF ConfirmCard, Shown, AsInt, card, CardInv, ProblemsInv, LimitInv
<1>6. KernelInv'
  BY DEF ConfirmCard, Shown, AsInt, card, CardInv, CardTypeOK, SaleType, ProblemsInv,
         KernelInv
<1>7. NumberInv'
  BY DEF ConfirmCard, Shown, AsInt, card, CardInv, ProblemsInv, KernelInv, NumberInv,
         TrackRead, CardTypeOK, SaleType
<1>8. PosComInv'
  BY DEF ConfirmCard, Shown, AsInt, card, CardInv, CardTypeOK, AmountType, PosComs,
         PosComInv
<1>9. QED BY <1>1, <1>2, <1>3, <1>4, <1>5, <1>6, <1>7, <1>8 DEF CardInv, CardTypeOK

LEMMA RejectCardKeeps == CardInv /\ RejectCard => CardInv'
<1> SUFFICES ASSUME CardInv, RejectCard PROVE CardInv'
  OBVIOUS
<1>1. SaleType'
  BY DEF RejectCard, card, cardHistory, Fail, CardInv, CardTypeOK, SaleType
<1>2. AmountType'
  BY DEF RejectCard, card, cardHistory, Fail, CardInv, CardTypeOK, AmountType, PosComs
<1>3. AppType'
  BY DEF RejectCard, card, cardHistory, Fail, CardInv, CardTypeOK, AppType
<1>4. ProblemsInv'
  BY DEF RejectCard, card, cardHistory, Fail, CardInv, CardTypeOK, SaleType, ProblemsInv
<1>5. LimitInv'
  BY DEF RejectCard, card, cardHistory, Fail, CardInv, ProblemsInv, LimitInv
<1>6. KernelInv'
  BY DEF RejectCard, card, cardHistory, Fail, CardInv, CardTypeOK, SaleType,
         ProblemsInv, KernelInv
<1>7. NumberInv'
  BY DEF RejectCard, card, cardHistory, Fail, CardInv, ProblemsInv, KernelInv,
         NumberInv, TrackRead
<1>8. PosComInv'
  BY DEF RejectCard, card, cardHistory, Fail, CardInv, CardTypeOK, AmountType, PosComs,
         PosComInv
<1>9. QED BY <1>1, <1>2, <1>3, <1>4, <1>5, <1>6, <1>7, <1>8 DEF CardInv, CardTypeOK

LEMMA SayPaidKeeps == CardInv /\ SayPaid => CardInv'
<1> SUFFICES ASSUME CardInv, SayPaid PROVE CardInv'
  OBVIOUS
<1>0. pc' = "idle" /\ Forget /\ apps' \in 0..MaxApps /\ 1 \in 1..9 /\ 0 \in Int
  BY BoundsAssumption DEF SayPaid, Forget
<1>1. SaleType'
  BY ForgetFacts, <1>0 DEF SayPaid, CardInv, CardTypeOK, SaleType
<1>2. AmountType'
  BY ForgetFacts, <1>0 DEF SayPaid, CardInv, CardTypeOK, AmountType, PosComs
<1>3. AppType'
  BY ForgetFacts, <1>0 DEF SayPaid, CardInv, CardTypeOK, AppType
<1>4. ProblemsInv'
  BY ForgetFacts, <1>0 DEF SayPaid, CardInv, CardTypeOK, SaleType, ProblemsInv
<1>5. LimitInv'
  BY ForgetFacts, <1>0 DEF SayPaid, CardInv, ProblemsInv, LimitInv
<1>6. KernelInv'
  BY ForgetFacts, <1>0 DEF SayPaid, CardInv, CardTypeOK, SaleType, ProblemsInv,
                           KernelInv
<1>7. NumberInv'
  BY ForgetFacts, <1>0 DEF SayPaid, CardInv, ProblemsInv, KernelInv, NumberInv,
                           TrackRead
<1>8. PosComInv'
  BY ForgetFacts, <1>0 DEF SayPaid, CardInv, CardTypeOK, AmountType, PosComs, PosComInv
<1>9. QED BY <1>1, <1>2, <1>3, <1>4, <1>5, <1>6, <1>7, <1>8 DEF CardInv, CardTypeOK

LEMMA FailedKeeps == CardInv /\ Failed => CardInv'
<1> SUFFICES ASSUME CardInv, Failed PROVE CardInv'
  OBVIOUS
<1>0. pc' = "idle" /\ Forget /\ apps' \in 0..MaxApps /\ 1 \in 1..9 /\ 0 \in Int
  BY BoundsAssumption DEF Failed, Forget
<1>1. SaleType'
  BY ForgetFacts, <1>0 DEF Failed, CardInv, CardTypeOK, SaleType
<1>2. AmountType'
  BY ForgetFacts, <1>0 DEF Failed, CardInv, CardTypeOK, AmountType, PosComs
<1>3. AppType'
  BY ForgetFacts, <1>0 DEF Failed, CardInv, CardTypeOK, AppType
<1>4. ProblemsInv'
  BY ForgetFacts, <1>0 DEF Failed, CardInv, CardTypeOK, SaleType, ProblemsInv
<1>5. LimitInv'
  BY ForgetFacts, <1>0 DEF Failed, CardInv, ProblemsInv, LimitInv
<1>6. KernelInv'
  BY ForgetFacts, <1>0 DEF Failed, CardInv, CardTypeOK, SaleType, ProblemsInv, KernelInv
<1>7. NumberInv'
  BY ForgetFacts, <1>0 DEF Failed, CardInv, ProblemsInv, KernelInv, NumberInv, TrackRead
<1>8. PosComInv'
  BY ForgetFacts, <1>0 DEF Failed, CardInv, CardTypeOK, AmountType, PosComs, PosComInv
<1>9. QED BY <1>1, <1>2, <1>3, <1>4, <1>5, <1>6, <1>7, <1>8 DEF CardInv, CardTypeOK

\* Twelve digits of cents go through a 32-bit int; what fits comes out as it was.
LEMMA AsIntOfSmall ==
  ASSUME NEW n \in Nat, n <= MaxInt
  PROVE  AsInt(n) = n
<1> DEFINE half == MaxInt + 1
<1>1. half \in Nat /\ n < half /\ half > 0
  BY BoundsAssumption
<1>2. AsInt(n) = ((n + half) % (2 * half)) - half
  BY BoundsAssumption DEF AsInt
<1> HIDE DEF half
<1>3. ASSUME NEW x \in Nat, NEW y \in Nat, x < y
      PROVE  x % y = x
  <2>1. y > 0 /\ x % y \in 0..(y - 1) /\ x \div y \in Int /\ x = y * (x \div y) + (x % y)
    BY <1>3
  <2>2. ASSUME NEW q \in Int, NEW r \in 0..(y - 1), x = y * q + r PROVE r = x
    <3>1. CASE q = 0
      BY <2>2, <3>1
    <3>2. CASE q >= 1
      <4>1. y * q >= y
        BY <3>2, Z3
      <4>2. QED BY <4>1, <2>2, <1>3
    <3>3. CASE q <= -1
      <4>1. y * q <= -y
        BY <3>3, Z3
      <4>2. QED BY <4>1, <2>2, <1>3
    <3>4. QED BY <3>1, <3>2, <3>3
  <2>3. QED BY <2>1, <2>2
<1>4. n + half \in Nat /\ 2 * half \in Nat /\ n + half < 2 * half
  BY <1>1
<1>5. (n + half) % (2 * half) = n + half
  BY <1>3, <1>4
<1>6. QED BY <1>1, <1>2, <1>5

\* The machine before its first sale.
LEMMA CardInitInv == CardInit => CardInv
<1> SUFFICES ASSUME CardInit PROVE CardInv
  OBVIOUS
<1>1. "emv" \in DOMAIN Script
  BY ScriptFacts
<1>2. ASSUME NEW k \in DOMAIN Script PROVE 1 <= Len(Script[k])
  BY LengthFacts
<1>3. SaleType
  <2>1. sales = 0 /\ spoken = 0 /\ problems = {} /\ reader = FALSE /\ typed = FALSE
    BY DEF CardInit
  <2>2. pc = "idle" /\ way = "tap" /\ outcome = "none"
    BY DEF CardInit
  <2>3. sales \in 0..MaxSales
    BY <2>1, BoundsAssumption
  <2>4. reader \in BOOLEAN /\ typed \in BOOLEAN
    BY <2>1
  <2>5. spoken \in Int
    BY <2>1
  <2>6. problems \subseteq {"limit", "call", "completion", "pin", "number"}
    BY <2>1
  <2>7. QED BY <2>2, <2>3, <2>4, <2>5, <2>6 DEF SaleType
<1>4. AmountType
  BY DEF CardInit, AmountType, PosComs, Zero
<1>5. AppType
  <2>1. apps = 0 /\ kernel = "emv" /\ step = 1 /\ tags = "none" /\ allowed = {} /\ refused = {}
    BY DEF CardInit
  <2>2. cvm = FALSE /\ online = FALSE
    BY DEF CardInit
  <2>3. apps \in 0..MaxApps
    BY <2>1, BoundsAssumption
  <2>4. cvm \in BOOLEAN /\ online \in BOOLEAN
    BY <2>2
  <2>5. kernel \in DOMAIN Script /\ step \in 1..9
    BY <1>1, <2>1
  <2>6. /\ allowed \subseteq {"paywave", "quics"} /\ refused \subseteq Contactless
        /\ tags \in {"both", "mismatch", "track2", "pan", "none"}
    BY <2>1
  <2>7. QED BY <2>3, <2>4, <2>5, <2>6 DEF AppType
<1>6. ProblemsInv /\ LimitInv
  BY DEF CardInit, ProblemsInv, LimitInv
<1>7. KernelInv /\ NumberInv
  BY <1>1, <1>2 DEF CardInit, KernelInv, NumberInv
<1>8. PosComInv
  BY DEF CardInit, PosComInv, Zero
<1>9. QED BY <1>3, <1>4, <1>5, <1>6, <1>7, <1>8 DEF CardInv, CardTypeOK

\* Every step keeps the invariant.
LEMMA CardNextInv == CardInv /\ [CardNext]_cardVars => CardInv'
<1> SUFFICES ASSUME CardInv, [CardNext]_cardVars PROVE CardInv'
  OBVIOUS
<1>1. CASE StartSale
  BY <1>1, StartSaleKeeps
<1>2. CASE TapCard
  BY <1>2, TapCardKeeps
<1>3. CASE ChooseApp
  BY <1>3, ChooseAppKeeps
<1>4. CASE Device
  BY <1>4, EnterAmountKeeps, CancelAmountKeeps, InsertCardKeeps, PassKeeps, CallFailsKeeps,
     ReselectKeeps, InitAppKeeps, InputAmtKeeps, ReadAppKeeps, GetPanKeeps, ReaderOffKeeps,
     TrackDataKeeps, VerifyKeeps, EnterPINKeeps, HolderKeeps, HostKeeps, ConfirmCardKeeps,
     RejectCardKeeps, SayPaidKeeps, FailedKeeps DEF Device
<1>5. CASE UNCHANGED cardVars
  BY <1>5 DEF cardVars, CardInv, CardTypeOK, SaleType, AmountType, AppType, ProblemsInv,
              LimitInv, KernelInv, NumberInv, PosComInv, TrackRead
<1>6. QED BY <1>1, <1>2, <1>3, <1>4, <1>5 DEF CardNext

LEMMA CardInvAlways == CardSpec => []CardInv
  BY CardInitInv, CardNextInv, PTL DEF CardSpec

\* The variables of a sale by card keep their types, the kernel's place in its calls
\* among them.
THEOREM CardTypeCorrect == CardSpec => []CardTypeOK
<1>1. CardInv => CardTypeOK
  BY DEF CardInv
<1>2. QED BY <1>1, CardInvAlways, PTL

\* For any amounts, any number of applications on the card and any number of sales:
\* the device says "Paid" only of an application all of whose calls succeeded, within
\* the limits, with a PIN and a number that were confirmed, but for the exceptions
\* Card.c, EmvCommon.c and func.c make themselves.
THEOREM PaidIsExplained == CardSpec => []PaidExplained
<1>1. CardInv => PaidExplained
  BY DEF CardInv, CardTypeOK, SaleType, AppType, ProblemsInv, LimitInv, KernelInv, NumberInv,
         PaidExplained
<1>2. QED BY <1>1, CardInvAlways, PTL

\* The amount that is spoken is the one the kernel authorised, whatever the width of
\* an int, as long as it fits one: CEmvInputAmt and GetAmount write both.
THEOREM PaidAmountAuthorised == CardSpec => []PaidAmountIsAuthorised
<1>1. CardInv => PaidAmountIsAuthorised
  <2> SUFFICES ASSUME CardInv, pc = "paid", ~(auth > MaxInt) PROVE spoken = auth
    BY DEF PaidAmountIsAuthorised
  <2>1. spoken = AsInt(auth) /\ auth \in Nat
    BY BoundsAssumption DEF CardInv, CardTypeOK, AmountType, PosComInv
  <2>2. QED BY <2>1, AsIntOfSmall, BoundsAssumption
<1>2. QED BY <1>1, CardInvAlways, PTL

=============================================================================
