------------------------ MODULE MCConnectionManager ------------------------
(* ConnectionManager with two calls, of which one may be limited. *)
EXTENDS ConnectionManager
============================================================================
