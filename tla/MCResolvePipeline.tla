------------------------- MODULE MCResolvePipeline --------------------------
(***************************************************************************)
(* Two sources that share a directory, as two projects of GCR do, so that  *)
(* two chains ask one cache for one image.  The map of clients has another *)
(* registry's already, that of a destination.                              *)
(***************************************************************************)
EXTENDS ResolvePipeline, TLC

CONSTANTS d, i, a, source, mirror

MCKindsOf == source :> {"dockerhub", "gcr"} @@ mirror :> {"gcr"}
MCPreflight == <<mirror>>
MCRegistryOf == d :> source

MCImagesIn == d :> {i}
MCTagsOf == i :> {a}
MCSourceDirs == <<d, d>>
=============================================================================
