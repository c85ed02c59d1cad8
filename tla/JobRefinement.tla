---------------------------- MODULE JobRefinement ----------------------------
(* The lists and workers of JobWorker, read as JobLife. *)
EXTENDS JobWorker

Ids(q) == [i \in 1..Len(q) |-> q[i].id]

Line == Ids(queue)
Letters == Ids(dead)

Served(j, states) == \E w \in Workers : pc[w] \in states /\ hand[w].id = j

Places == {"new", "waiting", "running", "failed", "dead", "handled"}

In(j, place) ==
  \/ place = "new" /\ phase[j] = "new"
  \/ place = "waiting" /\ Queued(j)
  \/ place = "running" /\ Served(j, {"handling"})
  \/ place = "failed" /\ Served(j, {"backoff", "burying"})
  \/ place = "dead" /\ Buried(j)
  \/ place = "handled" /\ phase[j] = "done"

Whereabouts == [j \in Jobs |-> {place \in Places : In(j, place)}]

Life == INSTANCE JobLife WITH
  line <- Line, letters <- Letters, places <- Whereabouts, starts <- runs

\* However many workers pop, retry, end and start again: every job goes through
\* its life in one piece, from one place to the next, is started in the order of
\* the line, and given up exactly after its last retry (base.py, redis_queue.py,
\* worker.py:24-58).
ImplementsJobLife == Life!Spec
=============================================================================
