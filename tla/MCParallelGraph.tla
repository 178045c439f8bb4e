--------------------------- MODULE MCParallelGraph ---------------------------
(***************************************************************************)
(* Small instances of ParallelGraph: two cycles that share an edge, a      *)
(* node behind them, and a node of another component.  Every node has a bit of its own   *)
(* in the sum, so the sum tells which nodes were counted, and how often.   *)
(***************************************************************************)
EXTENDS ParallelGraph, TLC

MCNodes == 0 .. 5
MCInfo == <<2, 4, 8, 16, 32>> @@ (0 :> 1)
MCNeighbours == << <<0, 2, 3>>, <<0, 1, 3>>, <<1, 2, 4>>, <<3>>, <<>> >>
                @@ (0 :> <<1, 2>>)

(* Workers are interchangeable. *)
Symmetry == Permutations(Threads)
=============================================================================
