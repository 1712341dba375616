----------------------------- MODULE MCServer -----------------------------
EXTENDS AsyncServer
=============================================================================
