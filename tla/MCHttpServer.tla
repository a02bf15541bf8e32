---------------------------- MODULE MCHttpServer ----------------------------
(***************************************************************************)
(* HttpServer for TLC, with limits scaled down: the buffer grows twice on  *)
(* its way to the limit.  Heads of the limit and one more, bodies shorter  *)
(* and longer than declared, at the limit of a body and one more, and a    *)
(* length that is no number.                                               *)
(***************************************************************************)
EXTENDS HttpServer

Sizes == {<<3, 0, 0>>, <<8, 0, 0>>, <<9, 0, 0>>, <<2, 4, 4>>, <<8, 4, 4>>,
          <<3, 5, 5>>, <<3, 3, 2>>, <<4, 1, 3>>, <<4, -1, 2>>}

SampleRequests == {[head |-> s[1], declared |-> s[2], body |-> s[3]] : s \in Sizes}
=============================================================================
