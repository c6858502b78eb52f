----------------------------- MODULE MCAlertApp -----------------------------
EXTENDS AlertApp
=============================================================================
