--------------------------- MODULE MCAsyncWriter ----------------------------
EXTENDS AsyncWriter
=============================================================================
