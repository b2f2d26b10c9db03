----------------------------- MODULE MCMessages -----------------------------
EXTENDS Messages

Device(e, c, m) == [elem |-> e, count |-> c, message |-> m]

\* Devices that take one node or several, in messages that hold none, two, or
\* more than the size field can count.
Devices == {Device(0, 0, 39), Device(2, 9, 88), Device(2, 2, 500), Device(1, 9, 500)}
=============================================================================
