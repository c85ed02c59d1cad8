------------------------- MODULE MCGovernedExecution -------------------------
(* Instances of GovernedExecution, and of what it implements, for TLC. *)
EXTENDS LedgerRefinement, TLC

CONSTANTS c1, c2, c3, c4, mail, post, look, nope, ap1, ap2

\* Two calls of one gated name race, one is of another gated name without an
\* operation behind it, one is a read.
MixedCalls == (c1 :> mail) @@ (c2 :> mail) @@ (c3 :> post) @@ (c4 :> look)
Standing4 == (mail :> "ready") @@ (post :> "unwired") @@ (look :> "ready")
             @@ (nope :> "unknown")
\* One approval is for mail, one for post.
EachApproved == (ap1 :> mail) @@ (ap2 :> post)

=============================================================================
