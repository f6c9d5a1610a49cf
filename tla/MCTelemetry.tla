------------------------------- MODULE MCTelemetry -------------------------------
(***************************************************************************)
(* The limits and the files of TLC's instance of RunTelemetry.             *)
(***************************************************************************)
EXTENDS RunTelemetry

SmallLimits == [calls |-> None, failed |-> None, identical |-> None,
                streak |-> 0, tokens |-> 1, idle |-> None]

SmallFiles == {Empty,
               [lines |-> <<"call">>, tail |-> FALSE],
               [lines |-> <<"junk">>, tail |-> FALSE],
               [lines |-> <<"usage">>, tail |-> TRUE]}
=============================================================================
