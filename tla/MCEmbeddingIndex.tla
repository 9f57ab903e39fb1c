-------------------------- MODULE MCEmbeddingIndex --------------------------
(***************************************************************************)
(* Small instances of EmbeddingIndex for TLC.  The embedders: the bundled  *)
(* local model, the same without its file, a remote model of the local     *)
(* width, and the same remote name served with another width.              *)
(***************************************************************************)
EXTENDS EmbeddingIndex, TLC

MCEmbedders == {"local", "bare", "remote", "wide"}
MCUnloaded  == {"bare"}
MCModelId   == [e \in MCEmbedders |->
                  IF e \in {"local", "bare"} THEN "minilm" ELSE "small"]
MCDim       == [e \in MCEmbedders |-> IF e = "wide" THEN 2 ELSE 1]

\* Units are interchangeable: no action or invariant singles one out.
UnitSymmetry == Permutations(Units)
=============================================================================
