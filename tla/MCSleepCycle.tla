--------------------------- MODULE MCSleepCycle ---------------------------
EXTENDS SleepCycle
=============================================================================
