----------------------------- MODULE MCJobPage -----------------------------
(* Bounds for TLC on the pages of JobPage.                                 *)
EXTENDS JobPage

\* A page that found a job going on, its engine alive, reads on and polls again: it
\* writes nothing and shows nothing the properties of the run speak of.  It is followed
\* before the first run only.
EndingPages ==
  page.at \in {"load", "tasks", "pid"} \/ page.job.status \in Terminal \/ eng.runs = 0

\* Bound: stops, and loads that mark late, are of the first run; the page's own load
\* marks either.
FirstRunMarked == eng.runs > 1 => stop.at = "idle" /\ seen
=============================================================================
