--------------------------- MODULE MCAudioService ---------------------------
(* Small instances of AudioService for TLC.                                *)
EXTENDS AudioService

CONSTANTS w1, w2, ring, client, admin

Tasks == {w1, w2, ring, client, admin}
=============================================================================
