------------------------ MODULE MCDatastoreController ------------------------
(* The controller's model on small instances. *)
EXTENDS DatastoreController, TLC

\* The workers run the same code on the same state.
WorkerSymmetry == Permutations(Workers)

\* What an out-of-date copy holds does not matter once all that is left to do
\* with it is an Update that the server will refuse.
View ==
    <<server, informers, budget,
      [w \in Workers |->
         IF job[w].pc \in UpdateSteps /\ ~job[w].current
         THEN job[w].pc
         ELSE job[w]]>>
=============================================================================
