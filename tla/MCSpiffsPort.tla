---------------------------- MODULE MCSpiffsPort ----------------------------
\* The flash driver and the SPIFFS port on a block of two sectors, which is also
\* two halves: four pages of two one-bit bytes.
EXTENDS SpiffsPortInv

CONSTANT b1

One == {b1}
Zero == {}

\* Writes inside a page, across pages, and across the sectors (and halves); some
\* need a bit set that an earlier one has cleared.
HalWrites ==
  { [addr |-> 0, data |-> <<Zero>>],
    [addr |-> 2, data |-> <<Zero, One>>],
    [addr |-> 5, data |-> <<Zero>>],
    [addr |-> 4, data |-> <<One, Zero>>],
    [addr |-> 3, data |-> <<Zero, Zero, One>>] }
=============================================================================
