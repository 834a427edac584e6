------------------------------- MODULE MCPipeline -------------------------------
(***************************************************************************)
(* Pipeline on small instances.                                            *)
(***************************************************************************)
EXTENDS Pipeline

CONSTANTS t1, t2, c1, c2

(* One target is tried with two candidates, the other with one of them. *)
MCAttempts == {<<t1, c1>>, <<t1, c2>>, <<t2, c1>>}

(* One candidate for one target. *)
OneAttempt == {<<t1, c1>>}
===============================================================================
