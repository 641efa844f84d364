--------------------------- MODULE MCConnectFlow ----------------------------
(***************************************************************************)
(* An instance of ConnectFlow for TLC: every target, and every             *)
(* configuration up to what a CONNECT depends on.                          *)
(***************************************************************************)
EXTENDS ConnectFlow

MCConfigs ==
  {c \in Config : c.auth \in {"none", "ntlm"} /\ c.user /\ c.password /\ ~c.keyring /\ ~c.stored}
=============================================================================
