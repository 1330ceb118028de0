------------------------- MODULE MCProjectLifecycle -------------------------
(***************************************************************************)
(* Small instances of ProjectLifecycle.                                     *)
(* The set of idempotency keys decides which requests, scans and repairs   *)
(* can happen, and how often: a key is used at most once.                  *)
(***************************************************************************)
EXTENDS ProjectLifecycle

MCKeysCrossing ==
  {First, <<"repair", 0>>, <<"idlepause", 0>>, <<"resume", 1>>, <<"delete", 0>>, <<"purge", 0>>}
MCKeysEnds == {First, <<"pause", 1>>, <<"delete", 0>>, <<"purge", 0>>}
MCKeysInterlock == {First, <<"repair", 0>>, <<"pause", 1>>}
=============================================================================
