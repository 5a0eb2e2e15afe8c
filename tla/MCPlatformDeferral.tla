------------------------ MODULE MCPlatformDeferral ------------------------
(* Small instances of PlatformDeferral for TLC.                            *)
EXTENDS PlatformDeferral
=============================================================================
