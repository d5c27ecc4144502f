------------------------------ MODULE MCDiscovery -----------------------------
EXTENDS Discovery

\* DEFAULT_BOUNDS, but for the number of steps.
DefaultBounds == [repeatsAllowed |-> 2, ineffectiveAllowed |-> 3, maxSteps |-> 5,
                  resolutionFailuresAllowed |-> 3]

\* Bounds under which nothing done shows before a lap does.
TunedBounds == [repeatsAllowed |-> 2, ineffectiveAllowed |-> 1, maxSteps |-> 4,
                resolutionFailuresAllowed |-> 2]

MCBounds == {DefaultBounds, TunedBounds}
=============================================================================
