--------------------------- MODULE MCAmountWords ---------------------------
EXTENDS AmountWords

\* Every two digits, every place in a group of three, and groups that are zero
MCRupiahs ==
    (-1)..120 \cup {100 * h + r : h \in 1..9, r \in {1, 10, 11, 19, 99}}
        \cup {1000 * k + r : k \in {1, 2, 11, 21, 100, 101, 999}, r \in {0, 1, 111}}
        \cup {1000000 * k + r : k \in {1, 11, 101, 1000, 1001, 2000, 2001},
                              r \in {0, 1, 1000, 1001}}

MCCents ==
    0..130 \cup {100 * d : d \in 1..121}
        \cup {100000 * k + 100 * r + c : k \in {1, 10, 12, 100, 101, 999, 1000, 1001, 21000},
                                       r \in {0, 1, 20, 300, 999}, c \in {0, 5, 10}}

\* A whole thousand of dollars, and an amount with cents
MCFailing == {100000, 101}
=============================================================================
