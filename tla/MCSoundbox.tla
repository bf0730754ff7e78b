------------------------------ MODULE MCSoundbox ------------------------------
\* Soundbox with the bounds of its configurations: a few requests, one lost
\* connection or restart.
EXTENDS Soundbox
=============================================================================
