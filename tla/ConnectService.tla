--------------------------- MODULE ConnectService ---------------------------
(***************************************************************************)
(* What one call of perform_authenticated_connect promises its caller,     *)
(* ConnectHandler: it sends a bounded number of CONNECT requests, it never *)
(* sends one once the upstream proxy has switched the connection to a      *)
(* tunnel, and it reports success only for a connection that was switched. *)
(* Both promises end when text of an error page has been taken for an      *)
(* answer; the bound does not.  AuthTunnel is shown to implement this      *)
(* specification.                                                          *)
(***************************************************************************)
EXTENDS Integers

CONSTANT MaxAttempts   \* CONNECT requests one call may send, at least one

VARIABLES
  verdict,    \* what the caller was told
  granted,    \* has the upstream proxy switched the connection to a tunnel?
  attempts,   \* CONNECT requests sent on the connection
  misled      \* has page text been taken for an answer?

vars == <<verdict, granted, attempts, misled>>

Verdicts == {"pending", "established", "failed"}

Init ==
  /\ verdict = "pending"
  /\ granted = FALSE
  /\ attempts = 0
  /\ misled = FALSE

Attempt ==
  /\ verdict = "pending"
  /\ ~granted \/ misled
  /\ attempts < MaxAttempts
  /\ attempts' = attempts + 1
  /\ UNCHANGED <<verdict, granted, misled>>

\* Only a page sent in answer to a CONNECT can mislead.
Mislead ==
  /\ verdict = "pending"
  /\ attempts > 0
  /\ misled' = TRUE
  /\ UNCHANGED <<verdict, granted, attempts>>

\* The proxy may grant a CONNECT whose sender has already given up.
Grant ==
  /\ verdict # "established" \/ misled
  /\ ~granted
  /\ attempts > 0
  /\ granted' = TRUE
  /\ UNCHANGED <<verdict, attempts, misled>>

Establish ==
  /\ verdict = "pending"
  /\ granted \/ misled
  /\ verdict' = "established"
  /\ UNCHANGED <<granted, attempts, misled>>

GiveUp ==
  /\ verdict = "pending"
  /\ verdict' = "failed"
  /\ UNCHANGED <<granted, attempts, misled>>

Next == Attempt \/ Mislead \/ Grant \/ Establish \/ GiveUp

Spec == Init /\ [][Next]_vars
=============================================================================
