--------------------------- MODULE MCPaperSettling ---------------------------
(***************************************************************************)
(* The plans of MCPaperExecution one after the other.                        *)
(***************************************************************************)
EXTENDS MCPaperExecution, PaperSettling
=============================================================================
