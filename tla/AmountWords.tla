----------------------------- MODULE AmountWords ----------------------------
\* What the soundbox says of an amount: the clips the service sends for a QRIS
\* payment (Voice), and the English words the firmware puts together itself for a
\* card sale (AmtToMp3.c).  The words are collected in a global buffer, which only a
\* finished buildJson clears.
EXTENDS Voice

CONSTANTS Rupiahs,      \* amounts of QRIS payments
          Cents,        \* amounts of card sales
          Failing,      \* bound: those whose JSON text may find no memory
          MaxFailures   \* bound: sales that find none

INT_MAX == 2147483647   \* the largest int; Card.c: int amt

ASSUME WordsAssumption ==
    /\ Rupiahs \subseteq Int
    /\ Cents \subseteq 0..INT_MAX
    /\ Failing \subseteq Cents /\ MaxFailures \in Nat

VARIABLES said,         \* what the device was last to say
          buffer,       \* WORDS_RESULTS
          failures,     \* sales whose buildJson failed
          missed        \* history: a sale was silent since the last that was spoken

wordsVars == <<said, buffer, failures, missed>>

units == <<"One", "Two", "Three", "Four", "Five", "Six", "Seven", "Eight", "Nine">>
teen == <<"Ten", "Eleven", "Twelve", "Thirteen", "Fourteen", "Fifteen", "Sixteen",
          "Seventeen", "Eighteen", "Nineteen">>
tens == <<"", "Twenty", "Thirty", "Forty", "Fifty", "Sixty", "Seventy", "Eighty", "Ninety">>
suffixes == <<"", "Thousand", "Million", "Billion">>

\* A text is the sequence of its words, each followed by a space; two spaces in a row
\* are an empty word between them.  "AndDollars" and the like are two words that no
\* space is put between.
Words == ToSet(units) \cup ToSet(teen) \cup ToSet(tens) \cup ToSet(suffixes)
         \cup {"", "Hundred", "And", "Dollars", "Cents", "AndDollars", "AndCents",
               "Received", "ReceivedAgain"}
Unit(one) == IF one = 0 THEN "" ELSE units[one]

\* Mutant: the teens are taken for tens
convertTeenAsTen(num) ==
    LET hundred == num \div 100
        ten == (num \div 10) % 10
        one == num % 10
    IN  (IF hundred > 0 THEN <<units[hundred], "Hundred">> ELSE <<>>)
        \o (IF hundred > 0 /\ ten + one > 0 THEN <<"And">> ELSE <<>>)
        \o (IF ten > 0 THEN <<tens[ten], Unit(one)>>
            ELSE IF one > 0 THEN <<units[one]>> ELSE <<>>)

\* The words of a number below 1000
convertThreeDigits(num) ==
    LET hundred == num \div 100
        ten == (num \div 10) % 10
        one == num % 10
    IN  (IF hundred > 0 THEN <<units[hundred], "Hundred">> ELSE <<>>)
        \o (IF hundred > 0 /\ ten + one > 0 THEN <<"And">> ELSE <<>>)
        \o (CASE ten > 1 -> <<tens[ten], Unit(one)>>
              [] ten = 1 -> <<teen[one + 1]>>
              [] ten = 0 -> IF one > 0 THEN <<units[one]>> ELSE <<>>)

\* RESULT: the words of group i of three digits, counted from the last.  Groups that
\* are zero, and those doAmt does not come to, stay empty.
places == <<1, Thousand, Million, Billion>>
RESULT(amt, i) ==
    LET threeDigits == (amt \div places[i]) % Thousand
    IN  IF threeDigits = 0 THEN <<>>
        ELSE convertThreeDigits(threeDigits)
             \o (IF suffixes[i] = "" THEN <<"">> ELSE <<suffixes[i], "And">>)

\* The results put together from the last group to the first
doAmt(amt) == RESULT(amt, 4) \o RESULT(amt, 3) \o RESULT(amt, 2) \o RESULT(amt, 1)

\* What the text "dollars.cents" of an amount is parsed into
amt_(amt) == amt \div 100
amt_decimal(amt) == amt % 100

\* The last space is cut and the currency put in its place
joined == [Dollars |-> "AndDollars", Cents |-> "AndCents"]
WithCurrency(text, tag) ==
    Append(Front(text), IF Last(text) = "" THEN tag ELSE joined[tag])
dollarText(amt) == WithCurrency(doAmt(amt_(amt)), "Dollars")
centText(amt) == WithCurrency(doAmt(amt_decimal(amt)), "Cents")

\* Two spaces become one
Keep[p \in Seq(Words) \X Words] == IF p[2] = "" THEN p[1] ELSE Append(p[1], p[2])
replaceStr(text) == Fold(Keep, <<>>, text)

\* replaceStr copies what it shortens into 24 bytes
TooLong(text) ==
    "" \in ToSet(text) /\ FoldLeft(LAMBDA n, w : n + Len(w) + 1, -1, text) > 23
Overflows(amt) ==
    TooLong(dollarText(amt)) \/ (amt_decimal(amt) # 0 /\ TooLong(centText(amt)))

dollarWords(amt) == replaceStr(dollarText(amt))
centWords(amt) == IF amt_decimal(amt) = 0 THEN <<>> ELSE replaceStr(centText(amt))

\* WORDS_RESULTS after the sale's words were added to what was in it.  No space is put
\* between: the last word of the one and the first of the other become one that is no
\* word.
Collected(amt) ==
    LET words == dollarWords(amt) \o (IF amt_decimal(amt) = 0 THEN <<>> ELSE <<"And">>)
                 \o centWords(amt) \o <<"Received">>
    IN  IF buffer = <<>> THEN words
        ELSE Front(buffer) \o <<"ReceivedAgain">> \o Tail(words)

\* SEQUENCE_RESULTS, as far as it is this sale's: a file for every word that a space
\* follows, and one for the currency
dollarFiles(amt) == Append(Front(dollarWords(amt)), "Dollars")
centFiles(amt) ==
    IF amt_decimal(amt) = 0 THEN <<>>
    ELSE <<"And">> \o Append(Front(centWords(amt)), "Cents")
Files(amt) == dollarFiles(amt) \o centFiles(amt) \o <<"Received">>

Silence == [by |-> "none", amount |-> 0, words |-> <<>>, files |-> <<>>, late |-> FALSE]

WordsTypeOK ==
    /\ said.by \in {"none", "qris", "card"} /\ said.amount \in Rupiahs \cup Cents \cup {0}
    /\ failures \in 0..MaxFailures /\ missed \in BOOLEAN /\ buffer \in Seq(Words)

WordsInit == said = Silence /\ buffer = <<>> /\ failures = 0 /\ missed = FALSE

\* A payment's clips: without them (an error from Compose) the payment is not announced
AnnouncePayment(rupiah) ==
    /\ said' = [Silence EXCEPT !.by = "qris", !.amount = rupiah,
                               !.words = IF Unspeakable(rupiah) THEN <<>>
                                                                ELSE Compose(rupiah)]
    /\ UNCHANGED <<buffer, failures, missed>>

Sale(amt, words, files) ==
    [by |-> "card", amount |-> amt, words |-> words, files |-> files,
     late |-> missed]

\* Less than a dollar: "PARSE AMT FAILED", before anything is collected
SaySmallSale(amt) ==
    /\ amt_(amt) = 0
    /\ said' = Sale(amt, <<>>, <<>>) /\ UNCHANGED <<buffer, failures, missed>>

\* AmtToMp3, and AppPlayTip of the words
SaySale(amt) ==
    /\ amt_(amt) > 0
    /\ said' = Sale(amt, Collected(amt), Files(amt)) /\ buffer' = <<>>
    /\ missed' = FALSE /\ UNCHANGED failures

\* buildJson has no memory: the sale is silent, and its words stay
SayNothing(amt) ==
    /\ amt_(amt) > 0 /\ amt \in Failing /\ failures < MaxFailures /\ failures' = failures + 1
    /\ said' = Sale(amt, <<>>, <<>>) /\ buffer' = Collected(amt) /\ missed' = TRUE

\* replaceStr writes past its 24 bytes: the build may go on as if there were more of
\* them (SaySale), or end there and start again
SayOverflows(amt) ==
    /\ amt_(amt) > 0 /\ Overflows(amt)
    /\ said' = Sale(amt, <<>>, <<>>) /\ buffer' = <<>> /\ missed' = FALSE
    /\ UNCHANGED failures

WordsNext ==
    \/ \E rupiah \in Rupiahs : AnnouncePayment(rupiah)
    \/ \E amt \in Cents : SaySmallSale(amt) \/ SaySale(amt) \/ SayNothing(amt)
                              \/ SayOverflows(amt)

WordsSpec == WordsInit /\ [][WordsNext]_wordsVars

-----------------------------------------------------------------------------
\* The reference: how a listener reads the English words back.

InWords == (ToSet(units) \cup ToSet(teen) \cup ToSet(tens)) \ {""}
AsNumber(w) ==
    IF w \in ToSet(units) THEN CHOOSE d \in 1..9 : units[d] = w
    ELSE IF w \in ToSet(teen) THEN 9 + CHOOSE d \in 1..10 : teen[d] = w
    ELSE 10 * CHOOSE d \in 2..9 : tens[d] = w

\* dollars and cents are what was heard of each; "And" says nothing
Sums == [heard : Nat, total : Nat, dollars : Nat, cents : Nat, clear : BOOLEAN]
Told(x, t, d, c) == [heard |-> x, total |-> t, dollars |-> d, cents |-> c, clear |-> TRUE]
Listen[p \in Sums \X Words] ==
    LET h == p[1]
        w == p[2]
    IN  CASE ~h.clear -> h
          [] w \in InWords -> Told(h.heard + AsNumber(w), h.total, h.dollars, h.cents)
          [] w = "Hundred" -> Told(100 * h.heard, h.total, h.dollars, h.cents)
          [] w = "Thousand" -> Told(0, h.total + Thousand * h.heard, h.dollars, h.cents)
          [] w = "Million" -> Told(0, h.total + Million * h.heard, h.dollars, h.cents)
          [] w = "Dollars" -> Told(0, 0, h.total + h.heard, h.cents)
          [] w = "Cents" -> Told(0, h.total, h.dollars, h.heard)
          [] w \in {"And", "Received"} -> h
          [] OTHER -> [h EXCEPT !.clear = FALSE]

Reads(words, amt) ==
    LET h == Fold(Listen, Told(0, 0, 0, 0), words)
    IN  h.clear /\ 100 * h.dollars + h.cents = amt

-----------------------------------------------------------------------------
\* Properties

\* The clips of a payment read back as its amount, use the words Indonesian has for
\* one ten, hundred and thousand, and name no clip the device lacks; an amount
\* without clips is one no clip set can name (voice.Compose).
ClipsNameThePayment ==
    said.by = "qris" =>
        IF said.words = <<>> THEN Unspeakable(said.amount)
        ELSE LET number == SubSeq(said.words, 2, Len(said.words) - 1)
             IN  /\ ToSet(number) \subseteq Clips /\ ~Regular(number)
                 /\ Heard(number) = said.amount

\* The words of a sale read back as its amount, and so do the files.  The exceptions
\* are the code's: whole thousands of dollars end in "AndDollars", because the
\* space that is cut is the one after "And"; and after a sale whose JSON text could
\* not be built, the next one is read out behind that one's words.  A sale is silent
\* only below a dollar, without memory, or when replaceStr cannot hold its text.
WordsNameTheSale ==
    said.by = "card" =>
        IF said.words = <<>>
        THEN said.amount < 100 \/ missed \/ Overflows(said.amount)
        ELSE /\ Reads(said.files, said.amount)
             /\ \/ Reads(said.words, said.amount)
                \/ (said.amount \div 100) % Thousand = 0
                \/ said.late

=============================================================================
