--------------------------- MODULE MCStreamProxy ---------------------------
(* Small streams: a few commands, two requests of two bytes.               *)
EXTENDS StreamProxy

\* Records that need two fragments.
OneLength == {2}

\* Once the worker has left a stream it had changed, or has put on the wire what
\* it does not map, nothing is promised and nothing more is explored.
StillPromised == disturbed \intersect {"untranslated", "ended"} = {}
=============================================================================
