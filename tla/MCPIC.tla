------------------------------- MODULE MCPIC -------------------------------
EXTENDS PIC

\* The code's three terminals.
MCNumTerms == 3

\* The lines the kernel needs: the PIT, the keyboard, the slave's cascade
\* pin and the RTC.
MCBootLines == {0, 1, 2, 8}
=============================================================================
