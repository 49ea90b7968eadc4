------------------------------ MODULE AgentTask ------------------------------
(***************************************************************************)
(* What the Agent Task API promises a client about the durable record of   *)
(* one task, whatever transport, replay, retry or restart produced it:     *)
(* the record is a growing log of events that ends with one terminal event *)
(* naming the outcome the run really had, and the result attached to it is *)
(* written once.                                                           *)
(***************************************************************************)
EXTENDS Sequences

CONSTANTS Outcomes,        \* the terminal statuses of a run
          Output,          \* the outcome after which a result may exist
          EventTypes       \* the types of non-terminal events

VARIABLES outcome,         \* what the run came to, or "none"
          status,          \* the status the record shows: "running" or an outcome
          log,             \* the types of the recorded events, oldest first
          result           \* "none" until written, then "available" or "missing"

absVars == <<outcome, status, log, result>>

AbsInit == outcome = "none" /\ status = "running" /\ log = <<"created">> /\ result = "none"

\* The run comes to an end, once.
Decide(o) == outcome = "none" /\ outcome' = o /\ UNCHANGED <<status, log, result>>

\* An event is recorded; nothing is recorded after the terminal one.
Record(e) == status = "running" /\ log' = Append(log, e) /\ UNCHANGED <<outcome, status, result>>

\* The outcome is recorded, with its event and possibly with its result.
Settle(r) ==
  /\ status = "running" /\ outcome # "none"
  /\ r = "available" => outcome = Output
  /\ status' = outcome /\ log' = Append(log, outcome) /\ result' = r
  /\ UNCHANGED outcome

\* A result that was not known when the task settled is attached afterwards.
Attach(r) ==
  /\ status # "running" /\ result = "none"
  /\ r = "available" => outcome = Output
  /\ result' = r /\ UNCHANGED <<outcome, status, log>>

AbsNext ==
  \/ \E o \in Outcomes : Decide(o)
  \/ \E e \in EventTypes : Record(e)
  \/ \E r \in {"none", "available", "missing"} : Settle(r)
  \/ \E r \in {"available", "missing"} : Attach(r)

AbsSpec == AbsInit /\ [][AbsNext]_absVars
=============================================================================
