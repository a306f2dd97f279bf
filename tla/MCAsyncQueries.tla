---------------------------- MODULE MCAsyncQueries ----------------------------
(***************************************************************************)
(* AsyncQueries for TLC: two jobs on one channel.                          *)
(***************************************************************************)
EXTENDS AsyncQueries

CONSTANTS j1, j2, c1

MCJobs == {j1, j2}
MCChannelOf == [j \in MCJobs |-> c1]

=============================================================================
