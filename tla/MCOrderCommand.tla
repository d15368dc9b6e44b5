--------------------------- MODULE MCOrderCommand ---------------------------
(***************************************************************************)
(* Every validated pair of small timeouts, with and without an override    *)
(* that breaks the validated relation, a slack of two ticks, and a command *)
(* that looks three times: orders reach their gate before, while and after *)
(* it looks.                                                               *)
(***************************************************************************)
EXTENDS OrderCommand
=============================================================================
