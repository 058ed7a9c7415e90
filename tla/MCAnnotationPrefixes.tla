------------------------ MODULE MCAnnotationPrefixes ------------------------
(***************************************************************************)
(* The tool with the names of the annotations, on the command lines and    *)
(* the collations of MCStatsLogApiGen.                                     *)
(***************************************************************************)
EXTENDS MCStatsLogApiGen, AnnotationPrefixes
=============================================================================
