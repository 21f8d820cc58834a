------------------------------ MODULE MCPanelSync ------------------------------
EXTENDS PanelSync

CONSTANTS l1, l2, c1, b1
=============================================================================
