---------------------------- MODULE MCModelRequest ----------------------------
EXTENDS ModelRequest
=============================================================================
