---------------------------- MODULE MCIndexAccess ----------------------------
(***************************************************************************)
(* A small instance of IndexAccess for TLC: two processes, one of them     *)
(* with two concurrent tasks.                                              *)
(***************************************************************************)
EXTENDS IndexAccess

MCClients  == {"c1", "c2"}
MCTasks    == {"t1", "t2", "t3"}
MCClientOf == [t \in MCTasks |-> IF t = "t3" THEN "c2" ELSE "c1"]
MCCalls    == [t \in MCTasks |->
                 CASE t = "t1" -> {"sync", "close"}
                   [] t = "t2" -> {"api", "configEmbedding", "configLlm"}
                   [] t = "t3" -> {"search", "sync", "configEmbedding"}]
=============================================================================
