--------------------------- MODULE MCPersistWriter ---------------------------
(* Instances of PersistWriter small enough for TLC.                        *)
EXTENDS PersistWriter, TLC

CONSTANTS blur, quit   \* a window-blur flush and the process's shutdown

MCFlushers == {blur}
MCClosers == {quit}
=============================================================================
