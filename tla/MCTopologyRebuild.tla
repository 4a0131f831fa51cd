-------------------------- MODULE MCTopologyRebuild --------------------------
(* An instance of TopologyRebuild for TLC: two rebuilds, two traces and *)
(* one whose identifier is refused; one slot, so that requests wait.       *)
EXTENDS TopologyRebuild

MCRequests == Rebuilds \X (Traces \cup {0})

\* Of the first trace: a chain of calls, or a span identifier used twice.
\* Of the second: a call back whose first part is missing here but has the
\* identifier of a span there, two calls of unequal length, or nothing.
MCPayloads ==
  <<{<<Span(1, 1, 0, 1, 0, 90, FALSE), Span(1, 2, 1, 2, 5, 80, FALSE),
       Span(1, 3, 2, 3, 10, 50, TRUE)>>,
     <<Span(1, 1, 0, 2, 0, 9, FALSE), Span(1, 2, 1, 0, 1, 8, FALSE),
       Span(1, 2, 1, 1, 2, 5, TRUE), Span(1, 3, 2, 2, 3, 4, FALSE)>>},
    {<<Span(2, 4, 1, 3, 0, 70, TRUE)>>,
     <<Span(2, 1, 0, 3, 0, 95, FALSE), Span(2, 2, 1, 2, 5, 35, FALSE),
       Span(2, 4, 1, 2, 40, 90, TRUE)>>,
     <<>>},
    {}>>
=============================================================================
