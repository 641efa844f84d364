---------------------------- MODULE MCAuthTunnel ----------------------------
(***************************************************************************)
(* Instances of AuthTunnel for TLC.  Cells are the unit: a header of 2 or  *)
(* 4 cells against a limit of 2 and reads of up to 2, bodies of 2, so that *)
(* a read can end before, at and beyond the blank line, and the limit be   *)
(* met before it.                                                          *)
(***************************************************************************)
EXTENDS AuthTunnel

MCSchemes == {"Anonymous", "Basic", "NTLM", "Kerberos"}
MCNothing == {0}
MCSmall == {0, 2}
MCPage == {2}
MCFillers == {1, 3}
MCWellBehaved == {FALSE}
MCFaulty == {TRUE}
=============================================================================
