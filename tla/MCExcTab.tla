------------------------------ MODULE MCExcTab ------------------------------
EXTENDS ExcTab

MCGarbage == [block |-> 0, handler |-> 0]
=============================================================================
