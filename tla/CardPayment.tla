----------------------------- MODULE CardPayment -----------------------------
\* A sale by card on the soundbox, from the menu's "Tran By Tap Card" and "Tran By
\* Insert Card" (Card.c, EmvCommon.c, EmvCallBack.c, func.c).  The payment kernels
\* are external: each of their calls succeeds, fails, or says that the card's next
\* application is to be selected.  No host is asked yet ("connect to server, send
\* request" in EmvCommon.c): a sale is paid when the kernel's calls return 0.
EXTENDS Integers, Sequences

CONSTANTS Amounts,      \* amounts the user enters, in cents
          MaxInt,       \* the largest int: 2^31 - 1 on the device
          MaxApps,      \* bound: applications on a card
          MaxSales      \* bound: sales

ASSUME BoundsAssumption ==
    /\ MaxInt \in Nat /\ MaxApps \in Nat \ {0} /\ MaxSales \in Nat
    /\ Amounts \subseteq Nat

Contactless == {"paypass", "paywave", "quics", "rupay"}

\* The calls of each kernel, in order.  "pan", "off", "pin" and "host" are
\* GetPanNumber, PiccStop, EnterPIN and PaywaveTransComplete.
PaypassCalls == <<"init", "read", "pan", "restrict", "verify", "analyse", "analyse",
                  "complete", "pin">>
MagstripeCalls == <<"init", "read", "pan", "process", "verify", "pin">>
PaywaveCalls == <<"init", "read", "off", "pan", "restrict", "auth", "verify", "pin", "host">>
QuicsCalls == <<"init", "read", "auth", "verify", "pin">>
RupayCalls == <<"init", "read", "auth", "restrict", "verify", "risk", "analyse", "pin">>
EmvCalls == <<"init", "read", "track", "auth", "restrict", "holder", "risk", "analyse">>

Script == [paypass |-> PaypassCalls, magstripe |-> MagstripeCalls,
           paywave |-> PaywaveCalls, quics |-> QuicsCalls, rupay |-> RupayCalls,
           emv |-> EmvCalls]

VARIABLES
    pc,         \* where the menu thread is
    way,        \* "tap" or "insert"
    poscom,     \* PosCom: TradeAmount, HaveInputAmt, MainAcc, sPIN
    auth,       \* the kernel's amount, 9F02
    allowed,    \* PWaveCLAllowed, QuicsCLAllowed
    kernel, step,
    apps,       \* applications of the card not yet tried
    tags,       \* the application's 57 and 5A: both, mismatch, one of them, none
    cvm,        \* an online PIN is asked
    online,     \* PayWave: IccOnline
    reader,     \* the contactless reader is on
    outcome,    \* of the last sale
    spoken,     \* the amount of "Paid"
    sales,
    refused,    \* history: kernels whose PreProcess refused the amount
    typed,      \* history: a PIN was typed in this sale
    problems    \* history: what went wrong with the application that is tried

card == <<kernel, step, apps, tags, cvm, online>>
cardHistory == <<refused, typed, problems>>
cardVars == <<pc, way, poscom, auth, allowed, kernel, step, apps, tags, cvm,
          online, reader, outcome, spoken, sales, refused, typed, problems>>

Zero == [amount |-> 0, asked |-> FALSE, pan |-> "none", pin |-> FALSE]

PosComs == [amount : Amounts \cup {0}, asked : BOOLEAN,
            pan : {"none", "other", "card"}, pin : BOOLEAN]

SaleType ==
    /\ pc \in {"idle", "amount", "tap", "insert", "choose", "kernel", "reselect",
               "confirm", "paid", "failed"}
    /\ way \in {"tap", "insert"} /\ outcome \in {"none", "paid", "failed"}
    /\ sales \in 0..MaxSales /\ spoken \in Int
    /\ reader \in BOOLEAN /\ typed \in BOOLEAN
    /\ problems \subseteq {"limit", "call", "completion", "pin", "number"}
AmountType == poscom \in PosComs /\ auth \in Amounts \cup {0}
AppType ==
    /\ allowed \subseteq {"paywave", "quics"} /\ refused \subseteq Contactless
    /\ kernel \in DOMAIN Script /\ step \in 1..9 /\ apps \in 0..MaxApps
    /\ tags \in {"both", "mismatch", "track2", "pan", "none"}
    /\ cvm \in BOOLEAN /\ online \in BOOLEAN
CardTypeOK == SaleType /\ AmountType /\ AppType

CardInit ==
    /\ pc = "idle" /\ way = "tap" /\ poscom = Zero /\ auth = 0 /\ allowed = {}
    /\ kernel = "emv" /\ step = 1 /\ apps = 0 /\ tags = "none" /\ cvm = FALSE
    /\ online = FALSE /\ reader = FALSE /\ outcome = "none" /\ spoken = 0
    /\ sales = 0 /\ refused = {} /\ typed = FALSE /\ problems = {}

Fail == pc' = "failed"

-----------------------------------------------------------------------------
\* Card.c: the sale begins

\* TransTapCard, TransInsertCard
StartSale ==
    /\ pc = "idle" /\ sales < MaxSales /\ pc' = "amount"
    /\ sales' = sales + 1 /\ way' \in {"tap", "insert"}
    /\ poscom' = Zero /\ auth' = 0 /\ typed' = FALSE
    /\ UNCHANGED <<allowed, card, reader, outcome, spoken, refused, problems>>

\* GetCard: PiccInit, and CTLPreProcess, in which all four kernels look at the
\* amount and two of the answers are kept
PrepareReader ==
    \/ Fail /\ reader' = FALSE /\ UNCHANGED <<allowed, refused>>
    \/ /\ pc' = "tap" /\ reader' = TRUE /\ refused' \in SUBSET Contactless
       /\ allowed' = {"paywave", "quics"} \ refused'

\* GetAmount
EnterAmount ==
    /\ pc = "amount"
    /\ \E a \in Amounts : poscom' = [poscom EXCEPT !.amount = a] /\ auth' = a
    /\ \/ way = "tap" /\ PrepareReader
       \/ way = "insert" /\ pc' = "insert" /\ UNCHANGED <<reader, allowed, refused>>
    /\ UNCHANGED <<way, card, outcome, spoken, sales, typed, problems>>

\* ESC and a timeout: the sale is over without a word
CancelAmount ==
    /\ pc = "amount" /\ pc' = "idle"
    /\ UNCHANGED <<way, poscom, auth, allowed, card, reader, outcome, spoken, sales, cardHistory>>

Begin(k) == pc' = "kernel" /\ kernel' = k /\ step' = 1

\* App_CommonSelKernel: the first of the four that knows an application of the card
Order == <<"paypass", "paywave", "quics", "rupay">>
Found(k, own) == k \in own /\ (k \in {"paywave", "quics"} => k \in allowed)

\* GetCard: ESC and TIMEOUT leave the switch, not the loop around it: only a card
\* ends the waiting
TapCard ==
    /\ pc = "tap" /\ refused' = {}
    /\ \E own \in SUBSET Contactless :
          \/ \E i \in DOMAIN Order :
                /\ Found(Order[i], own) /\ \A j \in 1..(i - 1) : ~Found(Order[j], own)
                /\ Begin(Order[i]) /\ apps' \in 0..(MaxApps - 1)
                /\ problems' = IF Order[i] \in refused THEN {"limit"} ELSE {}
          \/ /\ \A k \in Contactless : ~Found(k, own)     \* "no app match"
             /\ Fail /\ UNCHANGED <<kernel, step, apps, problems>>
    /\ UNCHANGED <<way, poscom, auth, allowed, tags, cvm, online, reader, outcome,
                   spoken, sales, typed>>

\* EmvGetCard: here ESC and TIMEOUT do end it
InsertCard ==
    /\ pc = "insert"
    /\ \/ pc' = "choose" /\ apps' \in 1..MaxApps
       \/ Fail /\ apps' = 0
    /\ UNCHANGED <<way, poscom, auth, allowed, kernel, step, tags, cvm, online,
                   reader, outcome, spoken, sales, cardHistory>>

\* EMV_SelectApp_Api, and in it CEmvWaitAppSel, which has no timeout
ChooseApp ==
    /\ pc = "choose"
    /\ \/ Begin("emv") /\ apps' = apps - 1
       \/ Fail /\ UNCHANGED <<kernel, step, apps>>
    /\ UNCHANGED <<way, poscom, auth, allowed, tags, cvm, online, reader, outcome,
                   spoken, sales, cardHistory>>

-----------------------------------------------------------------------------
\* EmvCommon.c: the calls of a kernel

Call == Script[kernel][step]
Advance ==
    IF step = Len(Script[kernel]) THEN pc' = "confirm" /\ step' = 1
                                  ELSE pc' = "kernel" /\ step' = step + 1

\* Calls without an effect of their own
Pass ==
    /\ pc = "kernel"
    /\ Call \in {"restrict", "auth", "process", "risk", "analyse", "complete"}
    /\ Advance
    /\ UNCHANGED <<way, poscom, auth, allowed, kernel, apps, tags, cvm, online,
                   reader, outcome, spoken, sales, cardHistory>>

\* Where a kernel goes on with the next application on ERR_SELECTNEXT
Reselects ==
    CASE kernel = "rupay" -> {}
      [] kernel = "quics" -> {"init"}
      [] OTHER -> {"init", "read", "restrict", "auth", "process", "verify", "holder",
                   "risk", "analyse", "complete"}

\* Mutant: the result of RiskManagement is only logged
CallFailsUnchecked ==
    /\ pc = "kernel" /\ Call \notin {"pan", "off", "pin", "track", "host"}
    /\ \/ Call = "risk" /\ Advance
       \/ Call # "risk" /\ Fail /\ step' = step
    /\ problems' = problems \cup {"call"}
    /\ UNCHANGED <<way, poscom, auth, allowed, kernel, apps, tags, cvm, online,
                   reader, outcome, spoken, sales, refused, typed>>

CallFails ==
    /\ pc = "kernel" /\ Call \notin {"pan", "off", "pin", "track", "host"}
    /\ Fail \/ (Call \in Reselects /\ pc' = "reselect")
    /\ problems' = problems \cup {"call"}
    /\ UNCHANGED <<way, poscom, auth, allowed, card, reader, outcome, spoken,
                   sales, refused, typed>>

\* Mutant: EMV_SelectApp_Api(0) instead of (1), the first application again
ReselectFirst ==
    /\ pc = "reselect" /\ Begin(IF kernel = "magstripe" THEN "paypass" ELSE kernel)
    /\ tags' = "none" /\ cvm' = FALSE /\ online' = FALSE
    /\ UNCHANGED <<way, poscom, auth, allowed, apps, reader, outcome, spoken, sales, cardHistory>>

\* PayPass_SelectApp_Api(NULL) and its like: the next application, if there is one.
\* PosCom is as the last one left it.
Reselect ==
    /\ pc = "reselect"
    /\ \/ apps = 0 /\ Fail /\ UNCHANGED <<kernel, step, apps, problems>>
       \/ /\ apps > 0 /\ apps' = apps - 1
          /\ Begin(IF kernel = "magstripe" THEN "paypass" ELSE kernel)
          /\ problems' = problems \cap {"limit"}
    /\ poscom' = [poscom EXCEPT !.pan = IF @ = "none" THEN @ ELSE "other"]
    /\ tags' = "none" /\ cvm' = FALSE /\ online' = FALSE
    /\ UNCHANGED <<way, auth, allowed, reader, outcome, spoken, sales, refused, typed>>

\* InitApp: PayPass finds its path
InitApp ==
    /\ pc = "kernel" /\ Call = "init" /\ Advance
    /\ kernel' \in IF kernel = "paypass" THEN {"paypass", "magstripe"} ELSE {kernel}
    /\ UNCHANGED <<way, poscom, auth, allowed, apps, tags, cvm, online, reader,
                   outcome, spoken, sales, cardHistory>>

\* Mutant: AuthAmt is copied before the amount is entered again
InputAmtEarly ==
    /\ pc = "kernel" /\ Call = "init" /\ kernel = "emv" /\ ~poscom.asked
    /\ \E a \in Amounts : poscom' = [poscom EXCEPT !.amount = a, !.asked = TRUE]
    /\ UNCHANGED <<pc, way, auth, allowed, card, reader, outcome, spoken, sales, cardHistory>>

\* CEmvInputAmt: TransInsertCard leaves HaveInputAmt 0, so the user may be asked a
\* second time
InputAmt ==
    /\ pc = "kernel" /\ Call = "init" /\ kernel = "emv" /\ ~poscom.asked
    /\ \E a \in Amounts :
          poscom' = [poscom EXCEPT !.amount = a, !.asked = TRUE] /\ auth' = a
    /\ UNCHANGED <<pc, way, allowed, card, reader, outcome, spoken, sales, cardHistory>>

ReadApp ==
    /\ pc = "kernel" /\ Call = "read" /\ Advance
    /\ tags' \in {"both", "mismatch", "track2", "pan", "none"}
    /\ UNCHANGED <<way, poscom, auth, allowed, kernel, apps, cvm, online, reader,
                   outcome, spoken, sales, cardHistory>>

\* GetPanNumber
GetPan ==
    /\ pc = "kernel" /\ Call = "pan" /\ Advance
    /\ poscom' = [poscom EXCEPT !.pan = IF tags = "none" THEN @ ELSE "card"]
    /\ UNCHANGED <<way, auth, allowed, kernel, apps, tags, cvm, online, reader,
                   outcome, spoken, sales, cardHistory>>

\* PayWave has read the card: "Please remove card"
ReaderOff ==
    /\ pc = "kernel" /\ Call = "off" /\ Advance /\ reader' = FALSE
    /\ UNCHANGED <<way, poscom, auth, allowed, kernel, apps, tags, cvm, online,
                   outcome, spoken, sales, cardHistory>>

\* GetEmvTrackData: the numbers of 57 and 5A agree, or one of them is missing
TrackRead == tags \in {"both", "track2", "pan"}
TrackData ==
    /\ pc = "kernel" /\ Call = "track"
    /\ \/ TrackRead /\ Advance
       \/ ~TrackRead /\ Fail /\ step' = step
    /\ UNCHANGED <<way, poscom, auth, allowed, kernel, apps, tags, cvm, online,
                   reader, outcome, spoken, sales, cardHistory>>

\* VerifyCardholder of the contactless kernels
Verify ==
    /\ pc = "kernel" /\ Call = "verify" /\ Advance
    /\ cvm' \in BOOLEAN /\ online' \in (IF kernel = "paywave" THEN BOOLEAN ELSE {FALSE})
    /\ UNCHANGED <<way, poscom, auth, allowed, kernel, apps, tags, reader, outcome,
                   spoken, sales, cardHistory>>

\* EnterPIN returns 0 whatever PEDGetPwd_Api does
EnterPIN ==
    /\ pc = "kernel" /\ Call = "pin" /\ Advance
    /\ \/ cvm /\ \E t \in BOOLEAN :
             /\ poscom' = [poscom EXCEPT !.pin = @ \/ t] /\ typed' = (typed \/ t)
             /\ problems' = IF typed' THEN problems ELSE problems \cup {"pin"}
       \/ ~cvm /\ UNCHANGED <<poscom, typed, problems>>
    /\ UNCHANGED <<way, auth, allowed, kernel, apps, tags, cvm, online, reader,
                   outcome, spoken, sales, refused>>

\* EMV_VerifyCardholder_Api may call CEmvGetOnlinePwd or CEmvGetHolderPwd.  They
\* answer that there is a PIN when one is in PosCom, or an offline PIN was typed;
\* without one the kernel may still go on.
Holder ==
    /\ pc = "kernel" /\ Call = "holder" /\ Advance
    /\ \/ UNCHANGED <<poscom, typed, problems>>
       \/ \E t \in BOOLEAN, offline \in BOOLEAN :
             /\ poscom' = [poscom EXCEPT !.amount = auth, !.pan = "card",
                                         !.pin = @ \/ (t /\ ~offline)]
             /\ typed' = (typed \/ t)
             /\ problems' = IF ~offline /\ poscom'.pin /\ ~typed'
                            THEN problems \cup {"pin"} ELSE problems
    /\ UNCHANGED <<way, auth, allowed, kernel, apps, tags, cvm, online, reader,
                   outcome, spoken, sales, refused>>

\* PaywaveTransComplete.  The issuer may want the card a second time: what
\* PayWave_Completion_Api said is then overwritten by PiccInit and the update.
Complete ==
    /\ reader' = FALSE
    /\ \E denied \in BOOLEAN, again \in BOOLEAN, updated \in BOOLEAN :
          /\ IF (again /\ ~updated) \/ (~again /\ denied) THEN Fail /\ step' = step
                                                          ELSE Advance
          /\ problems' = IF denied THEN problems \cup {"completion"} ELSE problems

Host ==
    /\ pc = "kernel" /\ Call = "host"
    /\ \/ online /\ Complete
       \/ ~online /\ Advance /\ UNCHANGED <<reader, problems>>
    /\ UNCHANGED <<way, poscom, auth, allowed, kernel, apps, tags, cvm, online,
                   outcome, spoken, sales, refused, typed>>

-----------------------------------------------------------------------------
\* The sale ends

\* A 32-bit int
AsInt(n) == ((n + MaxInt + 1) % (2 * (MaxInt + 1))) - (MaxInt + 1)

\* The number DispCardNo shows
Shown == IF tags \in {"both", "track2"} THEN "card" ELSE poscom.pan

\* DispCardNo: ENTER goes on, also when there is no number to confirm
ConfirmCard ==
    /\ pc = "confirm" /\ pc' = "paid" /\ spoken' = AsInt(poscom.amount)
    /\ problems' = IF TrackRead /\ Shown = "card" THEN problems
                                                  ELSE problems \cup {"number"}
    /\ UNCHANGED <<way, poscom, auth, allowed, card, reader, outcome, sales, refused, typed>>

RejectCard ==
    /\ pc = "confirm" /\ Fail
    /\ UNCHANGED <<way, poscom, auth, allowed, card, reader, outcome, spoken, sales, cardHistory>>

Forget ==
    /\ kernel' = "emv" /\ step' = 1 /\ apps' = 0 /\ tags' = "none" /\ cvm' = FALSE
    /\ online' = FALSE /\ spoken' = 0 /\ refused' = {} /\ typed' = FALSE /\ problems' = {}

\* "Paid", and PiccStop
SayPaid ==
    /\ pc = "paid" /\ pc' = "idle" /\ outcome' = "paid" /\ reader' = FALSE /\ Forget
    /\ UNCHANGED <<way, poscom, auth, allowed, sales>>

\* "Transaction failed."; the reader stays as it is
Failed ==
    /\ pc = "failed" /\ pc' = "idle" /\ outcome' = "failed" /\ Forget
    /\ UNCHANGED <<way, poscom, auth, allowed, reader, sales>>

Device ==
    \/ EnterAmount \/ CancelAmount \/ InsertCard
    \/ Pass \/ CallFails \/ Reselect \/ InitApp \/ InputAmt \/ ReadApp \/ GetPan
    \/ ReaderOff \/ TrackData \/ Verify \/ EnterPIN \/ Holder \/ Host
    \/ ConfirmCard \/ RejectCard \/ SayPaid \/ Failed

CardNext == StartSale \/ TapCard \/ ChooseApp \/ Device

\* Every other wait for the user has a timeout: 60 s for an amount or a card to be
\* inserted, 30 s for a confirmation.
CardSpec == CardInit /\ [][CardNext]_cardVars /\ WF_cardVars(Device)

-----------------------------------------------------------------------------
\* Properties

\* A sale is "Paid" when every call for the card's last application succeeded, the
\* amount was within the kernel's limits, a PIN that was asked was typed, and the
\* user confirmed the card's number.  The exceptions are the code's: CTLPreProcess
\* drops what PayPass and RuPay say of the amount, EnterPIN never fails, an issuer
\* update overwrites a denial, DispCardNo accepts ENTER without a number.
PaidExplained ==
    pc = "paid" =>
        /\ "call" \notin problems
        /\ "limit" \in problems => kernel \in {"paypass", "magstripe", "rupay"}
        /\ "pin" \in problems => way = "tap"
        /\ "completion" \in problems => kernel = "paywave" /\ online
        /\ "number" \in problems => way = "tap" \/ tags = "pan"

\* "Paid" names the amount the kernel was given (9F02), up to the largest int,
\* however often the amount was entered.
PaidAmountIsAuthorised == pc = "paid" => spoken = auth \/ auth > MaxInt

\* A sale ends, whatever the card answers, unless it waits for a card to be tapped
\* or an application to be chosen: GetCard and CEmvWaitAppSel go on for ever.
SaleEnds ==
    (pc \notin {"idle", "tap", "choose"}) ~> (pc \in {"idle", "tap", "choose"})
=============================================================================
