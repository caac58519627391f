------------------------------ MODULE MCBlackboard ------------------------------
(***************************************************************************)
(* Blackboard with two runs, a reader and the memories of earlier runs.    *)
(***************************************************************************)
EXTENDS Blackboard, TLC

Exact == [words |-> {"redis", "lag"}, phrases |-> {<<"redis", "lag">>}, facts |-> {"stats"}]
Partial == [words |-> {"redis"}, phrases |-> {}, facts |-> {}]

SomeTexts == {Exact, Partial}

SomeQueries ==
  {[tokens |-> <<"redis", "lag">>, filters |-> {}, limit |-> 2],
   [tokens |-> <<"lag", "lag">>, filters |-> {"stats"}, limit |-> 1]}

Memory(id, at, text) == [id |-> id, at |-> at, text |-> text, commands |-> FALSE]

(* What matches best leaves the window of the newest three when two more   *)
(* are stored.                                                             *)
SomeHistory ==
  <<Memory("old1", -3, Exact), Memory("old2", -2, Partial)>>

Interchangeable == Permutations(Runs)

===============================================================================
