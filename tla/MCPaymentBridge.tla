-------------------------- MODULE MCPaymentBridge --------------------------
\* The instances are interchangeable, but the runs check liveness: no symmetry.
EXTENDS PaymentBridge
=============================================================================
