---------------------------- MODULE MCStudioPage ----------------------------
(***************************************************************************)
(* Three orders where two are kept, one of them with a gate, two clicks,   *)
(* two reloads and a restart of the server: a list that overflows, and is  *)
(* loaded again, while requests are under way.                             *)
(***************************************************************************)
EXTENDS StudioPage
=============================================================================
