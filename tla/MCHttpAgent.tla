------------------------------ MODULE MCHttpAgent ------------------------------
EXTENDS HttpAgent
=============================================================================
