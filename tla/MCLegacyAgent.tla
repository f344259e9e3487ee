----------------------------- MODULE MCLegacyAgent -----------------------------
EXTENDS LegacyAgent
=============================================================================
