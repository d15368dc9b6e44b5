--------------------------- MODULE MCNodeActivity ---------------------------
(***************************************************************************)
(* The default policy of three attempts and every chaos spec that differs: *)
(* all modes, on no attempt in particular (0), on some, on all of them.    *)
(***************************************************************************)
EXTENDS NodeActivity

MCChaosSpecs == [targeted : {TRUE}, mode : Modes, attempts : 0..3]
                    \cup [targeted : {FALSE}, mode : {"permanent_error"}, attempts : {0}]
=============================================================================
