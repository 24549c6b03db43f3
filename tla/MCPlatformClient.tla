--------------------------- MODULE MCPlatformClient ---------------------------
(* Instances of PlatformClient for TLC.                                    *)
EXTENDS PlatformClient

CONSTANTS s1, r1
=============================================================================
