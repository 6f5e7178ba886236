--------------------------- MODULE MCAsyncProtocol -----------------------------
EXTENDS AsyncProtocol
================================================================================
