---------------------------- MODULE MCHttpServer ----------------------------
(* Instance of HttpServer for TLC.  Workers are interchangeable, and so are *)
(* requests: which kind a request has is part of the state.                *)
EXTENDS HttpServer, TLC

ServerSymmetry == Permutations(Worker) \cup Permutations(Request)
=============================================================================
