---------------------------- MODULE MCCardPayment ----------------------------
EXTENDS CardPayment
=============================================================================
