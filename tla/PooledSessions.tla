---------------------------- MODULE PooledSessions ----------------------------
(***************************************************************************)
(* The parent's books on its workers: the pool that leases them            *)
(* (WorkerPool), and for one worker the sessions that its child keeps       *)
(* (SessionReuse).  The pool sees no more of a session than that there is   *)
(* one, so each is a model of its own; one runs while the other rests.      *)
(***************************************************************************)
EXTENDS WorkerPool, SessionReuse

BooksInit == Init /\ ReuseInit

\* A worker binary is chosen at the start; the pool asks for none of its traits.
ReuseRests == ReuseInit /\ setup = CHOOSE s \in Setups : TRUE

BooksNext ==
  \/ ReuseRests /\ Next /\ UNCHANGED reuseVars
  \/ Init /\ ReuseNext /\ UNCHANGED vars

BooksSpec == BooksInit /\ [][BooksNext]_<<vars, reuseVars>>
=============================================================================
