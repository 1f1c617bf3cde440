----------------------------- MODULE MCPipeline -----------------------------
(* Two channels, both needed for a fix, so that a fix, a fix given up for want *)
(* of satellites and the loss of one or of all satellites occur within three   *)
(* or four TICs.                                                               *)
EXTENDS Pipeline
=============================================================================
