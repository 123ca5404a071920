------------------------------- MODULE MCTray -------------------------------
EXTENDS Tray
=============================================================================
