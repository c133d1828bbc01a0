------------------------------- MODULE MCTimer -------------------------------
\* One timer device with its channels 0, 1 and 2 in use.
EXTENDS TimerInv
=============================================================================
