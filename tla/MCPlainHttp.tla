---------------------------- MODULE MCPlainHttp -----------------------------
(***************************************************************************)
(* An instance of PlainHttp for TLC: every target, and every configuration *)
(* up to what a plain request depends on.                                  *)
(***************************************************************************)
EXTENDS PlainHttp

MCConfigs == {c \in Config : c.auth \in {"none", "basic"} /\ c.user /\ c.keyring /\ ~c.stored}
=============================================================================
