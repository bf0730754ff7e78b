-------------------------- MODULE MCRequestIntake --------------------------
EXTENDS RequestIntake

CONSTANTS m1, m2, d1, d2

MCHome == [s \in {d1, d2} |-> IF s = d1 THEN m1 ELSE m2]

\* Two devices, a payload that names the other one, less than a rupiah, no amount
MCRequests ==
    {[m |-> m1, s |-> d1, p |-> d1, sen |-> 1999], [m |-> m2, s |-> d2, p |-> d2, sen |-> 1999],
     [m |-> m1, s |-> d1, p |-> d2, sen |-> 1999], [m |-> m1, s |-> d1, p |-> d1, sen |-> 50],
     [m |-> m1, s |-> d1, p |-> d1, sen |-> -1]}
=============================================================================
