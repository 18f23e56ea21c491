---------------------------- MODULE MCOtaTransfer ----------------------------
EXTENDS OtaTransfer
=============================================================================
