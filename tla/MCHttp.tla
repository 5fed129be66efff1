------------------------------- MODULE MCHttp -------------------------------
(* A small instance of HttpLoop. *)
EXTENDS HttpLoop
MCReads == {"read", "look", "list"}
MCBatches == {<<"read", "look", "list">>, <<"write", "read">>}
===============================================================================
