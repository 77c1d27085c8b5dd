--------------------------------- MODULE MCPty ---------------------------------
(***************************************************************************)
(* Three calls of open_pty on two worker threads.                          *)
(***************************************************************************)
EXTENDS Pty, TLC

CONSTANTS c1, c2, c3, w1, w2

CallSymmetry == Permutations({c1, c2, c3})
===============================================================================
