----------------------------- MODULE PacService -----------------------------
(***************************************************************************)
(* What the PAC worker pool promises the services that await find_proxy,   *)
(* whatever channels and threads it is made of: a call joins the line of   *)
(* one worker, lines are served first come first served, each call once    *)
(* and with the outcome of its own script run, and only those who chose a  *)
(* worker that has died are told of a failure of the pool.  PacEngine      *)
(* implements this module.                                                 *)
(***************************************************************************)
EXTENDS Integers, Sequences

CONSTANTS Callers, Workers, Kinds, None

VARIABLES
  kind,   \* how the script behaves on each caller's URL
  at,     \* the worker each call has chosen, or None
  line,   \* the calls that wait for each worker or are being served
  dead,   \* the workers that have died
  said,   \* the outcome of each call's script run
  told    \* what each caller was told, or that it has left

vars == <<kind, at, line, dead, said, told>>

Init ==
  /\ kind \in Kinds
  /\ at = [c \in Callers |-> None]
  /\ line = [w \in Workers |-> <<>>]
  /\ dead = {}
  /\ said = [c \in Callers |-> "empty"]
  /\ told = [c \in Callers |-> "pending"]

Choose(c) ==
  /\ at[c] = None
  /\ \E w \in Workers : at' = [at EXCEPT ![c] = w]
  /\ UNCHANGED <<kind, line, dead, said, told>>

Waits(c) == \E i \in DOMAIN line[at[c]] : line[at[c]][i] = c

\* A call that has not been served joins its line once.
Join(c) ==
  /\ told[c] = "pending" /\ said[c] = "empty"
  /\ at[c] \in Workers \ dead
  /\ ~Waits(c)
  /\ line' = [line EXCEPT ![at[c]] = Append(@, c)]
  /\ UNCHANGED <<kind, at, dead, said, told>>

\* A script run may always be cut off.
Outcomes(c) == {"error"} \cup (IF kind[c] = "value" THEN {"value"} ELSE {})

Serve(w) ==
  /\ line[w] # <<>>
  /\ \E o \in Outcomes(Head(line[w])) : said' = [said EXCEPT ![Head(line[w])] = o]
  /\ line' = [line EXCEPT ![w] = Tail(@)]
  /\ UNCHANGED <<kind, at, dead, told>>

Die(w) ==
  /\ w \notin dead
  /\ dead' = dead \cup {w}
  /\ line' = [line EXCEPT ![w] = <<>>]
  /\ UNCHANGED <<kind, at, said, told>>

Tell(c) ==
  /\ told[c] = "pending" /\ said[c] # "empty"
  /\ told' = [told EXCEPT ![c] = said[c]]
  /\ UNCHANGED <<kind, at, line, dead, said>>

Fail(c) ==
  /\ told[c] = "pending" /\ said[c] = "empty"
  /\ at[c] \in dead
  /\ told' = [told EXCEPT ![c] = "failure"]
  /\ UNCHANGED <<kind, at, line, dead, said>>

\* A caller that leaves is taken out of the line, or is served for nobody.
Leave(c) ==
  /\ told[c] = "pending" /\ at[c] # None
  /\ told' = [told EXCEPT ![c] = "left"]
  /\ \/ UNCHANGED line
     \/ \E i \in DOMAIN line[at[c]] :
          /\ line[at[c]][i] = c
          /\ line' = [line EXCEPT ![at[c]] = SubSeq(@, 1, i - 1) \o SubSeq(@, i + 1, Len(@))]
  /\ UNCHANGED <<kind, at, dead, said>>

Next ==
  \/ \E c \in Callers : Choose(c) \/ Join(c) \/ Tell(c) \/ Fail(c) \/ Leave(c)
  \/ \E w \in Workers : Serve(w) \/ Die(w)

Spec == Init /\ [][Next]_vars
=============================================================================
