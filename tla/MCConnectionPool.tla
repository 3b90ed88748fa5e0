--------------------------- MODULE MCConnectionPool ---------------------------
(* Small instance of ConnectionPool. *)
EXTENDS ConnectionPool

FourCalls == 1 .. 4
===============================================================================
