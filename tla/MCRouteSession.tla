--------------------------- MODULE MCRouteSession ---------------------------
EXTENDS RouteSession

Scenario(l, c, t, n) == [link |-> l, changes |-> c, timeouts |-> t, lags |-> n]

\* The paths on three peers, with each peer in the middle.
PathsOn3 == {{{1, 2}, {2, 3}}, {{1, 2}, {1, 3}}, {{1, 3}, {2, 3}}}

\* A connection that closes and opens again.
Flapping == {{1, 2}}

\* Paths with a call that times out, a flapping pair with a lagging task.
Faulty == {Scenario(l, 0, 1, 0) : l \in PathsOn3} \cup {Scenario(Flapping, 2, 1, 1)}

\* Paths without fault, a flapping pair with calls that time out.
Fair == {Scenario(l, 0, 0, 0) : l \in PathsOn3} \cup {Scenario(Flapping, 2, 2, 0)}

\* 1 - 4 - 3 - 2: the peers with the smallest ids are the ends of the path.
Path1432 == {Scenario({{1, 4}, {4, 3}, {3, 2}}, 0, 0, 0)}
=============================================================================
