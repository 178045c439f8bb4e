----------------------------- MODULE MCAwsServer -----------------------------
(***************************************************************************)
(* Small instances of AwsServer: files of three units, one and a half      *)
(* buffers, for a socket that takes two units.  A static file does not fit  *)
(* it, and a dynamic one takes two reads.                                  *)
(***************************************************************************)
EXTENDS AwsServer

MCRequests == [type : {"static", "dynamic"}, size : {3}]
              \cup {[type |-> "dynamic", size |-> 0],
                    [type |-> "static", size |-> Missing],
                    [type |-> "other", size |-> 0]}

MCDynamic == {[type |-> "dynamic", size |-> 3]}
=============================================================================
