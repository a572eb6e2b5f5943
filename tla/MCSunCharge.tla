---------------------------- MODULE MCSunCharge ----------------------------
EXTENDS SunCharge

MCFull == -2
MCManuals == {-1}
MCPvPowers == {0, -1}
============================================================================
