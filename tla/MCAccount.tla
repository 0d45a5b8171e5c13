----------------------------- MODULE MCAccount -------------------------------
(* Account with prices around 20.                                          *)
EXTENDS Account

MCPrices == 17..24
MCGaps == {-1, 1}
=============================================================================
