---------------------------- MODULE MCRouteSync ----------------------------
EXTENDS RouteSync, TLC

CONSTANTS a, b, c

NoLink == {}
Path == {{a, b}, {b, c}}

\* Exchanging the ends of the path, or the two nodes of a pair.
Ends == Permutations({a, c})
Both == Permutations({a, b})
=============================================================================
