------------------------------ MODULE MCAuxCall ------------------------------
EXTENDS AuxCall

CONSTANTS main, nous

\* A call without a parameter is one that is never refused for it.  A model
\* matters to the key of the client only, and a call that is no compression
\* retries a time-out as it does a lost connection.
MCAsked == {a \in Arguments : a.params = Param /\ a.model = ~a.compression /\ (a.async \/ a.compression)}
=============================================================================
