------------------------- MODULE MCOperatorControl -------------------------
EXTENDS OperatorControl
=============================================================================
