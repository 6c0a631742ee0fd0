--------------------------- MODULE MCUsageReport ---------------------------
(* Up to two objects an hour, in which a key goes up and down, with values *)
(* in halves, one of which counts none.                                    *)
EXTENDS UsageReport

MCEvent(k, n) == [key |-> k, value |-> n]
MCAfter == <<<<MCEvent("b", 4), MCEvent("", 2)>>>>
MCObjects == {<<>>,
              <<<<MCEvent("a", 5)>>, <<MCEvent("a", 3), MCEvent("b", 2)>>>>,
              <<<<MCEvent("a", 1), MCEvent("b", 3)>>>>,
              MCAfter}
=============================================================================
