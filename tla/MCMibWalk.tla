----------------------------- MODULE MCMibWalk -----------------------------
(* A small MIB for MibWalk.  The two OIDs under .1.3.9 differ in arcs whose *)
(* encodings have two and three bytes, one handler lies below another,      *)
(* upagain claims the OID of the library's sysUpTime, and mine that of a    *)
(* member of the system group.                                              *)
EXTENDS MibWalk

CONSTANTS up, upagain, descr, name, mine, mid, deep, big

MCArcs ==
  up      :> <<1, 3, 0>>  @@ upagain :> <<1, 3, 0>>  @@
  descr   :> <<1, 1, 0>>  @@ name    :> <<1, 5, 0>>  @@
  mine    :> <<1, 5, 0>>  @@
  mid     :> <<9, 16383>> @@ deep    :> <<9, 16383, 4>> @@
  big     :> <<9, 16384>>

MCGroup == <<descr, name>>

MCAsked ==
  {<<>>, <<1>>, <<9>>, <<1, 3, 0>>, <<1, 5, 0>>, <<9, 16383>>, <<9, 16383, 4>>}
=============================================================================
