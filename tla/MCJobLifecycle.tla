--------------------------- MODULE MCJobLifecycle ---------------------------
(* An instance of JobLifecycle for TLC: jobs of any kind alone, a wipe that is
   requested while a PGN import is at work, an import that starts an analysis. *)
EXTENDS JobLifecycle, TLC

CONSTANTS j1, j2

MCCompany == {<<j1, "pgn">>, <<j2, "wipe">>}
MCFollowers == {<<"import", j2>>, <<"sync", j2>>}
=============================================================================
