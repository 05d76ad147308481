---- MODULE MCComponents ----
(***************************************************************************)
(* TLC's instance of Components: the configuration gives the constants.    *)
(***************************************************************************)
EXTENDS Components

MCLimits == {<<0, 1>>, <<1, 2>>, <<2, 1>>}
====
