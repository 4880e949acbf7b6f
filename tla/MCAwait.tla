------------------------------- MODULE MCAwait -------------------------------
(***************************************************************************)
(* Instances of Await for TLC: two callers over one or two documents.      *)
(***************************************************************************)
EXTENDS Await, TLC

CONSTANTS c1, c2, d1, d2

(* Who writes what.                                                        *)
EachItsOwn == c1 :> {d1} @@ c2 :> {d2}
BothTheSame == c1 :> {d1} @@ c2 :> {d1}
Overlapping == c1 :> {d1, d2} @@ c2 :> {d1}
OnlyTheFirst == c1 :> {d1} @@ c2 :> {}

NoFaults == {}
Outages == {"outage"}
AnyFault == AllFaults
=============================================================================
