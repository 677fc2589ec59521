--------------------------- MODULE MCKodiScrobble ---------------------------
(* KodiScrobble on small instances.                                         *)
EXTENDS KodiScrobble

NoFaults == {}
AllFaults == {"unreachable", "answer lost", "refused", "restart"}
=============================================================================
