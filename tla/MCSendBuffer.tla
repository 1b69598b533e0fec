----------------------------- MODULE MCSendBuffer -----------------------------
(* The constants TLC checks SendBuffer with: the thread of an sf and two s    *)
(* commands, which write more than the buffer holds, each a different amount. *)
(* The one command line of vhost runs its s commands one after the other;     *)
(* here they may overlap, as the API allows.                                  *)
EXTENDS SendBuffer, TLC

CONSTANTS sf, s1, s2
MCWriters == {sf, s1, s2}
MCToWrite == (sf :> 4) @@ (s1 :> 3) @@ (s2 :> 2)
==============================================================================
