SPECIFICATION WordsSpec
CONSTANTS
    MaxRupiah = 2000000000
    Rupiahs <- MCRupiahs
    Cents <- MCCents
    Failing <- MCFailing
    MaxFailures = 1
INVARIANTS
    ClipsNameThePayment
    WordsNameTheSale
