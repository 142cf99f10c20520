------------------------------ MODULE MCCache ------------------------------
(***************************************************************************)
(* One reader, who stands for all of them (readers share nothing but the   *)
(* caches), and one request more than there is room for.                   *)
(***************************************************************************)
EXTENDS Cache

CONSTANTS k1, k2, v1
=============================================================================
