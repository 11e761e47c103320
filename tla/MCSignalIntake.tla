--------------------------- MODULE MCSignalIntake ---------------------------
EXTENDS SignalIntake
=============================================================================
