---------------------------- MODULE MCGlobalDir ----------------------------
(***************************************************************************)
(* A small instance of GlobalDir for TLC: two processes, downloads in two  *)
(* pieces.  The calls of config() set, halve and clear the remote          *)
(* embedder, and set the LLM.                                              *)
(***************************************************************************)
EXTENDS GlobalDir

MCProcs  == {"p1", "p2"}
MCNames  == <<"model.onnx", "tokenizer.json">>

Set(llm, base, model) == [f \in Fields |->
    CASE f = "llm" -> llm [] f = "base" -> base [] OTHER -> model]

MCRequests ==
    {[set |-> Set("a", None, None), clear |-> FALSE],
     [set |-> Set(None, "a", "a"), clear |-> TRUE],
     [set |-> Set(None, "unset", None), clear |-> FALSE],
     [set |-> Set(None, None, None), clear |-> TRUE]}
=============================================================================
