---------------------------- MODULE MCLanPlayer ----------------------------
EXTENDS LanPlayer
=============================================================================
