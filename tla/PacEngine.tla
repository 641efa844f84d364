----------------------------- MODULE PacEngine ------------------------------
(***************************************************************************)
(* The PAC worker pool, crates/ferrovela-lib/src/pac.rs: find_proxy picks  *)
(* a worker thread round robin, sends its request through the worker's     *)
(* bounded channel, and awaits a oneshot answer.  A worker evaluates one   *)
(* FindProxyForURL call at a time under a deadline.                        *)
(*                                                                         *)
(* Each member of Callers is one find_proxy future.  A script run ends     *)
(* with a string ("value"), with a JavaScript error ("throw"), or never    *)
(* ("loop"), depending on the caller's URL.  The tokio channel is modelled *)
(* by what it guarantees: senders that find it full are admitted in the    *)
(* order they came, and a receiver that is dropped fails them.             *)
(***************************************************************************)
EXTENDS Integers, Sequences, FiniteSets

CONSTANTS
  Callers,      \* find_proxy calls
  Kinds,        \* the ways the script may behave on their URLs
  NumWorkers,   \* senders.len()
  QueueCap,     \* capacity of a worker's channel (32 in the code)
  CounterMod,   \* values of next_worker: 2^64 in the build
  Faults,       \* may a worker thread fail to start, lack the script, or panic?
  None          \* no request, or no worker

Workers == 0..(NumWorkers - 1)

ASSUME ConstantsAssumption ==
  /\ IsFiniteSet(Callers)
  /\ Kinds \subseteq [Callers -> {"value", "throw", "loop"}]
  /\ NumWorkers \in Nat \ {0}
  /\ QueueCap \in Nat \ {0}
  /\ CounterMod \in Nat \ {0}
  /\ Faults \in BOOLEAN
  /\ None \notin Callers \cup Workers

VARIABLES
  next,      \* next_worker, which wraps
  kind,      \* how the script behaves on each caller's URL
  pc,        \* where each find_proxy is
  target,    \* the worker it picked
  answer,    \* its oneshot channel
  result,    \* what it returned
  state,     \* each worker thread
  script,    \* does the worker's context define FindProxyForURL?
  blocked,   \* callers waiting for capacity, first come first
  queue,     \* requests in the worker's channel
  current,   \* the request a worker evaluates
  deadline   \* eval_deadline of each worker: "none", "ahead" or "passed"

callers == <<next, kind, pc, target, answer, result>>
vars == <<callers, state, script, blocked, queue, current, deadline>>

PCs == {"start", "picked", "sending", "waiting", "done", "cancelled"}
Answers == {"value", "error"}
Failures == {"thread_dead", "dropped_channel"}

\* An invariant of the data each variable holds.
TypeOK ==
  /\ next \in 0..(CounterMod - 1)
  /\ kind \in Kinds
  /\ pc \in [Callers -> PCs]
  /\ target \in [Callers -> Workers]
  /\ answer \in [Callers -> Answers \cup {"empty"}]
  /\ result \in [Callers -> Answers \cup Failures \cup {"pending"}]
  /\ state \in [Workers -> {"starting", "idle", "evaluating", "dead"}]
  /\ script \in [Workers -> BOOLEAN]
  /\ blocked \in [Workers -> Seq(Callers)]
  /\ queue \in [Workers -> Seq(Callers)]
  /\ current \in [Workers -> Callers \cup {None}]
  /\ deadline \in [Workers -> {"none", "ahead", "passed"}]

Init ==
  /\ next = 0
  /\ kind \in Kinds
  /\ pc = [c \in Callers |-> "start"]
  /\ target = [c \in Callers |-> 0]
  /\ answer = [c \in Callers |-> "empty"]
  /\ result = [c \in Callers |-> "pending"]
  /\ state = [w \in Workers |-> "starting"]
  /\ script = [w \in Workers |-> FALSE]
  /\ blocked = [w \in Workers |-> <<>>]
  /\ queue = [w \in Workers |-> <<>>]
  /\ current = [w \in Workers |-> None]
  /\ deadline = [w \in Workers |-> "none"]

-----------------------------------------------------------------------------
(***************************************************************************)
(* find_proxy.                                                             *)
(***************************************************************************)
\* Mutants of FetchAdd: a load without the add; an add that does not wrap.
LoadOnly == next
AddOnly == next + 1
FetchAdd == (next + 1) % CounterMod

\* fetch_add and the choice of the worker; a dead one is chosen like any other.
PickWorker(c) ==
  /\ pc[c] = "start"
  /\ next' = FetchAdd
  /\ target' = [target EXCEPT ![c] = next % NumWorkers]
  /\ pc' = [pc EXCEPT ![c] = "picked"]
  /\ UNCHANGED <<kind, answer, result, state, script, blocked, queue, current, deadline>>

\* Mutant of Closed: a full channel fails the send, as try_send would.
ClosedOrFull(w) == state[w] = "dead" \/ Len(queue[w]) = QueueCap
Closed(w) == state[w] = "dead"

\* The first poll of send(): the caller joins those waiting for capacity.
Send(c) ==
  /\ pc[c] = "picked"
  /\ ~Closed(target[c])
  /\ blocked' = [blocked EXCEPT ![target[c]] = Append(@, c)]
  /\ pc' = [pc EXCEPT ![c] = "sending"]
  /\ UNCHANGED <<next, kind, target, answer, result, state, script, queue, current, deadline>>

HasRoom(w) == Len(queue[w]) < QueueCap

\* A permit goes to the caller that has waited longest.
Admit(w) ==
  /\ state[w] # "dead"
  /\ blocked[w] # <<>>
  /\ HasRoom(w)
  /\ blocked' = [blocked EXCEPT ![w] = Tail(@)]
  /\ queue' = [queue EXCEPT ![w] = Append(@, Head(blocked[w]))]
  /\ pc' = [pc EXCEPT ![Head(blocked[w])] = "waiting"]
  /\ UNCHANGED <<next, kind, target, answer, result, state, script, current, deadline>>

Return(c, r) ==
  /\ pc' = [pc EXCEPT ![c] = "done"]
  /\ result' = [result EXCEPT ![c] = r]

Receive(c) ==
  /\ pc[c] = "waiting"
  /\ answer[c] # "empty"
  /\ Return(c, answer[c])
  /\ UNCHANGED <<next, kind, target, answer, state, script, blocked, queue, current, deadline>>

\* send() on a channel whose receiver is gone.
SendFails(c) ==
  /\ pc[c] \in {"picked", "sending"}
  /\ Closed(target[c])
  /\ Return(c, "thread_dead")
  /\ UNCHANGED <<next, kind, target, answer, state, script, blocked, queue, current, deadline>>

\* The oneshot sender was dropped with the worker's channel or its stack.
AnswerDropped(c) ==
  /\ pc[c] = "waiting"
  /\ answer[c] = "empty"
  /\ state[target[c]] = "dead"
  /\ Return(c, "dropped_channel")
  /\ UNCHANGED <<next, kind, target, answer, state, script, blocked, queue, current, deadline>>

Elements(s) == {s[i] : i \in DOMAIN s}

\* A dropped send() gives up its place among those waiting.
Leave(s, c) ==
  LET i == CHOOSE j \in DOMAIN s : s[j] = c
  IN  SubSeq(s, 1, i - 1) \o SubSeq(s, i + 1, Len(s))

\* The client disconnects and the server drops the future.  A request that is
\* in the channel already stays there and is evaluated for nobody.
Cancel(c) ==
  /\ pc[c] \in {"picked", "sending", "waiting"}
  /\ pc' = [pc EXCEPT ![c] = "cancelled"]
  /\ blocked' = [w \in Workers |-> IF c \in Elements(blocked[w]) THEN Leave(blocked[w], c)
                                                               ELSE blocked[w]]
  /\ UNCHANGED <<next, kind, target, answer, result, state, script, queue, current, deadline>>

-----------------------------------------------------------------------------
(***************************************************************************)
(* The worker thread.                                                      *)
(***************************************************************************)
StartWorker(w) ==
  /\ state[w] = "starting"
  /\ state' = [state EXCEPT ![w] = "idle"]
  /\ script' \in {[script EXCEPT ![w] = TRUE]} \cup
                 (IF Faults THEN {[script EXCEPT ![w] = FALSE]} ELSE {})
  /\ UNCHANGED <<callers, blocked, queue, current, deadline>>

\* Mutant of Arm: the deadline is never set.
NeverArm == "none"
Arm == "ahead"

\* Mutant of Remaining: the request is looked at but not taken.
Peek(w) == queue[w]
Remaining(w) == Tail(queue[w])

TakeRequest(w) ==
  /\ state[w] = "idle"
  /\ queue[w] # <<>>
  /\ state' = [state EXCEPT ![w] = "evaluating"]
  /\ queue' = [queue EXCEPT ![w] = Remaining(w)]
  /\ current' = [current EXCEPT ![w] = Head(queue[w])]
  /\ deadline' = [deadline EXCEPT ![w] = Arm]
  /\ UNCHANGED <<callers, script, blocked>>

\* PAC_EVAL_TIMEOUT elapses before the call has returned.
DeadlinePasses(w) ==
  /\ deadline[w] = "ahead"
  /\ deadline' = [deadline EXCEPT ![w] = "passed"]
  /\ UNCHANGED <<callers, state, script, blocked, queue, current>>

\* What the call may have returned by now.  The interrupt handler is polled by
\* the interpreter: a call may still end by itself after its deadline.
Outcomes(w) ==
  LET k == kind[current[w]]
  IN  (IF script[w] /\ k = "value" THEN {"value"} ELSE {})
      \cup (IF ~script[w] \/ k = "throw" \/ deadline[w] = "passed" THEN {"error"} ELSE {})

\* Mutant of Addressee: the answer goes to the request that is next in line.
NextInLine(w) == IF queue[w] = <<>> THEN current[w] ELSE Head(queue[w])
Addressee(w) == current[w]

\* Disarm and respond; `let _ = respond_to.send`: nobody may be listening.
FinishCall(w) ==
  /\ state[w] = "evaluating"
  /\ \E o \in Outcomes(w) :
       answer' = [answer EXCEPT ![Addressee(w)] = o]
  /\ deadline' = [deadline EXCEPT ![w] = "none"]
  /\ current' = [current EXCEPT ![w] = None]
  /\ state' = [state EXCEPT ![w] = "idle"]
  /\ UNCHANGED <<next, kind, pc, target, result, script, blocked, queue>>

\* The thread returns early (no runtime, no context) or panics: its receiver,
\* and with it every request in the channel, is dropped.
WorkerDies(w) ==
  /\ Faults
  /\ state[w] \in {"starting", "evaluating"}
  /\ state' = [state EXCEPT ![w] = "dead"]
  /\ queue' = [queue EXCEPT ![w] = <<>>]
  /\ blocked' = [blocked EXCEPT ![w] = <<>>]
  /\ current' = [current EXCEPT ![w] = None]
  /\ deadline' = [deadline EXCEPT ![w] = "none"]
  /\ UNCHANGED <<callers, script>>

-----------------------------------------------------------------------------
CallerStep(c) ==
  PickWorker(c) \/ Send(c) \/ Receive(c) \/ SendFails(c) \/ AnswerDropped(c)

WorkerStep(w) ==
  Admit(w) \/ StartWorker(w) \/ TakeRequest(w) \/ DeadlinePasses(w) \/ FinishCall(w)

Next ==
  \/ \E c \in Callers : CallerStep(c) \/ Cancel(c)
  \/ \E w \in Workers : WorkerStep(w) \/ WorkerDies(w)

Spec == Init /\ [][Next]_vars

\* Tokio polls every live future, the threads are scheduled, and time passes.
FairSpec ==
  /\ Spec
  /\ \A c \in Callers : WF_vars(CallerStep(c))
  /\ \A w \in Workers : WF_vars(WorkerStep(w))

-----------------------------------------------------------------------------
(***************************************************************************)
(* Properties.                                                             *)
(***************************************************************************)
\* A caller gets the outcome of its own script run: no value when that run
\* threw or was cut off, whoever else was queued, cancelled or evaluated.
OwnAnswer ==
  \A c \in Callers : "value" \in {answer[c], result[c]} => kind[c] = "value"

\* A caller that awaits its oneshot is accounted for: its request is in its
\* worker's channel, or being evaluated, or answered, or its worker is dead.
NoLostRequest ==
  \A c \in Callers : pc[c] = "waiting" =>
    \/ c \in Elements(queue[target[c]])
    \/ current[target[c]] = c
    \/ answer[c] # "empty"
    \/ state[target[c]] = "dead"

NoRepeats(s) == \A i, j \in DOMAIN s : s[i] = s[j] => i = j

\* The evaluations a caller's request causes are at most one: it is in one
\* place only, at the worker the caller picked, and once there.
OneEvaluation ==
  \A w \in Workers : \A c \in Callers :
    /\ c \in Elements(queue[w]) \cup {current[w]} => target[c] = w /\ answer[c] = "empty"
    /\ c \in Elements(queue[w]) => current[w] # c
    /\ NoRepeats(queue[w])

\* An error that is not the script's own means that the worker the caller
\* picked is dead: with every worker alive find_proxy fails only as the script does.
FailureMeansDeadWorker ==
  \A c \in Callers : result[c] \in Failures => state[target[c]] = "dead"

\* Round robin spreads the calls evenly, also when callers race for the
\* counter: no two workers are ever assigned loads more than one call apart.
Load(w) == Cardinality({c \in Callers : pc[c] # "start" /\ target[c] = w})
Balanced == \A v, w \in Workers : Load(v) - Load(w) <= 1

\* To its callers the pool is a line for each worker: evaluation, channel and
\* those waiting for its capacity are one queue, first come first served, from
\* which nobody is lost or answered for another.
Line(w) == (IF current[w] = None THEN <<>> ELSE <<current[w]>>) \o queue[w] \o blocked[w]
Told(c) == CASE pc[c] = "cancelled" -> "left"
             [] result[c] \in Failures -> "failure"
             [] OTHER -> result[c]
Service == INSTANCE PacService WITH
  at <- [c \in Callers |-> IF pc[c] = "start" THEN None ELSE target[c]],
  line <- [w \in Workers |-> Line(w)],
  dead <- {w \in Workers : state[w] = "dead"},
  said <- answer,
  told <- [c \in Callers |-> Told(c)]
ImplementsPacService == Service!Spec

\* Every find_proxy returns (or is dropped by its own caller), also when the
\* script loops forever, the channel is full or the worker dies.
EveryCallReturns ==
  \A c \in Callers : pc[c] = "picked" ~> pc[c] \in {"done", "cancelled"}
=============================================================================
