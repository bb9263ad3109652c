------------------------ MODULE MCDependencyUpdates -------------------------
(* Instances of DependencyUpdates for TLC.                                 *)
EXTENDS DependencyUpdates

CONSTANTS w1, key, login, app   \* model values: a worker and secrets

\* A connection string, and a setting built from it and from the key itself.
Cascade ==
  [s \in {key, login, app} |->
     CASE s = key -> {} [] s = login -> {key} [] s = app -> {key, login}]

=============================================================================
