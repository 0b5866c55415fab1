---------------------------------- MODULE Routes ----------------------------------
(***************************************************************************)
(* Tools::Route.  A path is the sequence of what stands between its        *)
(* slashes, empty where there is nothing: "/json/" is <<"json", "">>.      *)
(***************************************************************************)
EXTENDS Sequences

\* StringToSegment_: Poco's getPathSegments leaves the empty ones out.
Segments(path) == SelectSeq(path, LAMBDA segment : segment # "")

\* SegmentsToString_ puts one slash before each segment.
SegmentsToString(segments) == segments

\* IdentifyRouteType_
RouteType(path) ==
    IF Segments(path) # <<>> /\ Head(Segments(path)) = "api" THEN "endpoint" ELSE "entrypoint"

\* A route made from a string keeps the string, its query included, and operator==
\* compares strings: a path with a query or with empty segments is no other one.
SameRoute(path, query, other) == ~query /\ path = other

===============================================================================
