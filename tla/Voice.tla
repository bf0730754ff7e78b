------------------------------- MODULE Voice --------------------------------
\* The clips that announce a payment (internal/voice): an amount in rupiah, spelled
\* in Indonesian, as the files the soundbox plays in order.
EXTENDS Integers, Sequences, SequencesExt

CONSTANT MaxRupiah      \* the largest amount there are clips for

\* Compose's limit, 999 999 999 999: above it a "triliun" would be needed
ASSUME MaxRupiahAssumption == MaxRupiah \in Nat /\ MaxRupiah \div 1000 <= 999999999

digitClips == <<"satu", "dua", "tiga", "empat", "lima", "enam", "tujuh",
                "delapan", "sembilan">>

Thousand == 1000
Million == 1000000
Billion == 1000000000

\* The levels from the largest down.  solo is the form for exactly one; "" is none.
scales == << [value |-> Billion, mult |-> "miliar", solo |-> ""],
             [value |-> Million, mult |-> "juta", solo |-> ""],
             [value |-> Thousand, mult |-> "ribu", solo |-> "seribu"] >>

\* 1 to 99
belowHundred(n) ==
    CASE n < 10 -> <<digitClips[n]>>
      [] n = 10 -> <<"sepuluh">>
      [] n = 11 -> <<"sebelas">>
      [] n \in 12..19 -> <<digitClips[n - 10], "belas">>
      [] OTHER -> <<digitClips[n \div 10], "puluh">>
                  \o (IF n % 10 > 0 THEN <<digitClips[n % 10]>> ELSE <<>>)

\* Mutant: the remainder is spelled also when it is 0, as a missing clip
hundredsWithZero(n) ==
    (IF n \div 100 = 1 THEN <<"seratus">> ELSE <<digitClips[n \div 100], "ratus">>)
    \o (IF n % 100 > 0 THEN belowHundred(n % 100) ELSE <<"nol">>)

\* 100 to 999
hundreds(n) ==
    (IF n \div 100 = 1 THEN <<"seratus">> ELSE <<digitClips[n \div 100], "ratus">>)
    \o (IF n % 100 > 0 THEN belowHundred(n % 100) ELSE <<>>)

\* One level, given the spelling of how often it fits
withScale(part, s, spelled) ==
    IF part = 1 /\ s.solo # "" THEN <<s.solo>> ELSE Append(spelled, s.mult)

\* The levels a number reaches
Reached(n) == {i \in DOMAIN scales : n >= scales[i].value}

\* The largest of them, and then the rest
numberClips[n \in 0..MaxRupiah] ==
    LET s == scales[CHOOSE i \in Reached(n) : \A j \in Reached(n) : i <= j]
    IN  IF n < 100 THEN belowHundred(n)
        ELSE IF Reached(n) = {} THEN hundreds(n)
        ELSE withScale(n \div s.value, s, numberClips[n \div s.value])
             \o (IF n % s.value > 0 THEN numberClips[n % s.value] ELSE <<>>)

\* An amount Compose returns an error for
Unspeakable(rupiah) == rupiah <= 0 \/ rupiah > MaxRupiah

Compose(rupiah) == <<"awal-qris">> \o numberClips[rupiah] \o <<"akhir-berhasil">>

-----------------------------------------------------------------------------
\* The reference: how a listener reads the clips of a number back.

\* A step for every word of a text, from the first on.  (The community modules' folds
\* take an operator; a function can be spoken of in a theorem.)
Fold(step, start, text) ==
    LET done[k \in 0..Len(text)] ==
            IF k = 0 THEN start ELSE step[<<done[k - 1], text[k]>>]
    IN  done[Len(text)]

\* The value of a clip that stands for a number of its own
Value(clip) ==
    CASE clip = "sepuluh" -> 10 [] clip = "sebelas" -> 11 [] clip = "seratus" -> 100
      [] OTHER -> CHOOSE d \in 1..9 : digitClips[d] = clip

Clips == ToSet(digitClips) \cup {"sepuluh", "sebelas", "seratus", "seribu", "belas",
                                 "puluh", "ratus", "ribu", "juta", "miliar"}

\* heard is what was heard of the level being spelled, total of those before it
Readings == [heard : Nat, total : Nat]
Reading(heard, total) == [heard |-> heard, total |-> total]
Hear[p \in Readings \X Clips] ==
    LET h == p[1]
        clip == p[2]
    IN  CASE clip = "belas" -> Reading(h.heard + 10, h.total)
          [] clip = "puluh" -> Reading(h.heard + 9 * (h.heard % 10), h.total)
          [] clip = "ratus" -> Reading(100 * h.heard, h.total)
          [] clip = "ribu" -> Reading(0, h.total + Thousand * h.heard)
          [] clip = "juta" -> Reading(0, h.total + Million * h.heard)
          [] clip = "miliar" -> Reading(0, h.total + Billion * h.heard)
          [] clip = "seribu" -> Reading(0, h.total + Thousand)
          [] OTHER -> Reading(h.heard + Value(clip), h.total)

Heard(clips) == LET h == Fold(Hear, Reading(0, 0), clips) IN h.total + h.heard

\* Indonesian has a word of its own for one ten, one hundred, and one thousand that
\* opens its level
Regular(clips) ==
    \E i \in 1..(Len(clips) - 1) :
        /\ clips[i] = "satu"
        /\ \/ clips[i + 1] \in {"belas", "puluh", "ratus"}
           \/ /\ clips[i + 1] = "ribu"
              /\ i = 1 \/ clips[i - 1] \in {"juta", "miliar"}
=============================================================================
