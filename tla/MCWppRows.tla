------------------------------ MODULE MCWppRows -------------------------------
EXTENDS WppRows
===============================================================================
