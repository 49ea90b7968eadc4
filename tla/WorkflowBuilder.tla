-------------------------- MODULE WorkflowBuilder --------------------------
(***************************************************************************)
(* The conversational workflow builder, the compiler behind it and the     *)
(* approval of what they make (src/src/workflow/builder/service.ts,        *)
(* compiler/compiler.ts, compiler/model-client.ts, and the draft and       *)
(* session transactions of control/sqlite-store.ts).  One session, several *)
(* turn keys; request handlers run concurrently and interleave at every    *)
(* await, each store call being one transaction; the process may crash     *)
(* between any two of them, which loses the handlers and keeps the store   *)
(* and the compiler tasks.                                                 *)
(*                                                                         *)
(* A draft is named by its turn key (its id is a hash of it).  The request *)
(* fingerprint is the part of it that can differ between two requests of   *)
(* one key: the messages before the turn and the current draft.  What the  *)
(* compiler model answers, and whether the answer passes validateReady     *)
(* (module WorkflowValidator), is chosen once per compiler task.           *)
(***************************************************************************)
EXTENDS Naturals, Sequences, SequencesExt

CONSTANTS
    Keys,         \* turn keys (idempotency keys of messages)
    Handlers,     \* concurrent sendMessage calls
    Approvers,    \* concurrent approve calls
    MaxRequests,  \* bound on the messages sent, retries included
    NoDraft       \* no draft, no key

ASSUME BuilderAssumption == MaxRequests \in Nat /\ NoDraft \notin Keys

VARIABLES
    session,   \* [status, current, rev, pending]
    msgs,      \* the conversation: [role, key, draft]
    drafts,    \* per key: [cs, vs, base, hist, placed, bound, mat]
    tasks,     \* per key: the compiler task's answer, "absent" before it exists
    hs,        \* per handler: its pc and what it holds across awaits
    ap,        \* per approver: [pc, draft, hash]
    flows,     \* materialised workflows: [draft, spec]
    requests   \* messages sent so far

vars == <<session, msgs, drafts, tasks, hs, ap, flows, requests>>

\* What a compiler task may end with: a spec that passes or fails validateReady, a question,
\* text that parseCompilerResult refuses, or a failed task.
Answers == {"ready_valid", "ready_invalid", "needs_input", "garbage", "failed"}

NoHandler == [pc |-> "idle", key |-> NoDraft, cur |-> NoDraft, rev |-> 0, hist |-> 0,
              out |-> "none"]
NoApprover == [pc |-> "idle", draft |-> NoDraft, hash |-> NoDraft]
FreshDraft == [cs |-> "absent", vs |-> "pending", base |-> NoDraft, hist |-> 0,
               placed |-> TRUE, bound |-> FALSE, mat |-> FALSE]

OrNone == Keys \union {NoDraft}
Sessions == [status : {"absent", "active", "archived"}, current : OrNone, rev : Nat, pending : OrNone]
Messages == [role : {"user", "assistant"}, key : Keys, draft : OrNone]
Drafts == [cs : {"absent", "pending", "ready", "needs_input", "impossible"},
           vs : {"pending", "valid", "invalid"}, base : OrNone, hist : Nat,
           placed : BOOLEAN, bound : BOOLEAN, mat : BOOLEAN]
HandlerStates == [pc : {"idle", "lookup_only", "read", "append", "context", "compile", "create", "run",
                        "wait", "bind", "finalize", "classify", "error"},
                  key : OrNone, cur : OrNone, rev : Nat, hist : Nat,
                  out : Answers \union {"none", "absent", "missing"}]
ApproverStates == [pc : {"idle", "materialize", "approve"}, draft : OrNone, hash : OrNone]

TypeOK ==
    /\ session \in Sessions /\ msgs \in Seq(Messages) /\ drafts \in [Keys -> Drafts]
    /\ tasks \in [Keys -> Answers \union {"absent"}]
    /\ hs \in [Handlers -> HandlerStates] /\ ap \in [Approvers -> ApproverStates]
    /\ flows \subseteq [draft : OrNone, spec : OrNone] /\ requests \in 0..MaxRequests

\* The spec hash of a draft: a validated draft has the one of its own spec.
SpecHash(k) == IF drafts[k].vs = "valid" THEN k ELSE NoDraft

UserMsgs(k) == {i \in 1..Len(msgs) : msgs[i].role = "user" /\ msgs[i].key = k}
AssistantMsgs(k) == {i \in 1..Len(msgs) : msgs[i].role = "assistant" /\ msgs[i].key = k}

Init ==
    /\ session = [status |-> "absent", current |-> NoDraft, rev |-> 1, pending |-> NoDraft]
    /\ msgs = <<>>
    /\ drafts = [k \in Keys |-> FreshDraft]
    /\ tasks = [k \in Keys |-> "absent"]
    /\ hs = [h \in Handlers |-> NoHandler]
    /\ ap = [a \in Approvers |-> NoApprover]
    /\ flows = {} /\ requests = 0

-----------------------------------------------------------------------------
(* Sessions and the first half of a turn. *)

\* create-or-return by the stable session id
CreateSession ==
    /\ session.status = "absent"
    /\ session' = [session EXCEPT !.status = "active"]
    /\ UNCHANGED <<msgs, drafts, tasks, hs, ap, flows, requests>>

ArchiveSession ==
    /\ session.status = "active"
    /\ session' = [session EXCEPT !.status = "archived"]
    /\ UNCHANGED <<msgs, drafts, tasks, hs, ap, flows, requests>>

\* sendMessage up to its first await: the session is read once and held to the end.
\* expected is the revision the client names, 0 when it names none; the pending key and
\* the status are judged on what was read.
Receive(h, k, expected) ==
    /\ hs[h].pc = "idle" /\ session.status # "absent" /\ requests < MaxRequests
    /\ requests' = requests + 1
    /\ LET refused == \/ session.pending \notin {NoDraft, k}
                      \/ session.status # "active"
                      \/ expected \notin {0, session.rev}
       IN  hs' = [hs EXCEPT ![h] = [NoHandler EXCEPT
                    !.pc = IF refused THEN "lookup_only" ELSE "read",
                    !.key = k, !.cur = session.current, !.rev = session.rev]]
    /\ UNCHANGED <<session, msgs, drafts, tasks, ap, flows>>

Goto(h, pc) == hs' = [hs EXCEPT ![h].pc = pc]
Reply(h) == hs' = [hs EXCEPT ![h] = NoHandler]

\* findBuilderTurn: a completed turn is replayed, nothing is written; only then do the
\* checks on the session apply.
ReplayOrRefuse(h) ==
    /\ hs[h].pc \in {"read", "lookup_only"}
    /\ hs[h].pc = "lookup_only" \/ AssistantMsgs(hs[h].key) # {}
    /\ Reply(h)
    /\ UNCHANGED <<session, msgs, drafts, tasks, ap, flows, requests>>

Proceed(h) ==
    /\ hs[h].pc = "read" /\ AssistantMsgs(hs[h].key) = {}
    /\ Goto(h, "append")
    /\ UNCHANGED <<session, msgs, drafts, tasks, ap, flows, requests>>

\* Mutant of AppendRefused: another pending turn does not stop a new one.
AppendRefusedOvertakes(k) == session.status # "active"

\* The refusals of appendBuilderUserMessage, decided in its transaction.
AppendRefused(k) ==
    \/ session.status # "active"
    \/ UserMsgs(k) = {} /\ session.pending \notin {NoDraft, k}

\* appendBuilderUserMessage: the message and the pending marker in one transaction; a
\* resumed turn finds its message and writes nothing.
AppendUserMessage(h) ==
    LET k == hs[h].key IN
    /\ hs[h].pc = "append"
    /\ \/ /\ AppendRefused(k)
          /\ Reply(h) /\ UNCHANGED <<session, msgs>>
       \/ /\ ~AppendRefused(k) /\ UserMsgs(k) # {}
          /\ Goto(h, "context") /\ UNCHANGED <<session, msgs>>
       \/ /\ ~AppendRefused(k) /\ UserMsgs(k) = {}
          /\ msgs' = Append(msgs, [role |-> "user", key |-> k, draft |-> NoDraft])
          /\ session' = [session EXCEPT !.pending = k]
          /\ Goto(h, "context")
    /\ UNCHANGED <<drafts, tasks, ap, flows, requests>>

\* The compile context: every message but its own, and the current draft as it was read.
BuildContext(h) ==
    /\ hs[h].pc = "context"
    /\ hs' = [hs EXCEPT ![h].pc = "compile", ![h].hist = Len(msgs) - 1]
    /\ UNCHANGED <<session, msgs, drafts, tasks, ap, flows, requests>>

-----------------------------------------------------------------------------
(* Compiling the draft of the turn. *)

SameFingerprint(h) ==
    drafts[hs[h].key].base = hs[h].cur /\ drafts[hs[h].key].hist = hs[h].hist

\* compile: an existing draft of the key is returned or resumed for the same request, and
\* refused (idempotency_conflict) for a changed one.
FindDraft(h) ==
    LET d == drafts[hs[h].key] IN
    /\ hs[h].pc = "compile"
    /\ Goto(h, CASE d.cs = "absent" -> "create"
                 [] d.cs # "absent" /\ ~SameFingerprint(h) -> "error"
                 [] d.cs = "pending" /\ SameFingerprint(h) -> "run"
                 [] OTHER -> "classify")
    /\ UNCHANGED <<session, msgs, drafts, tasks, ap, flows, requests>>

\* createDraft: create-or-return, with one inventory snapshot.  The snapshot holds a
\* placement that can enforce the compiler's profile, or not.
CreateDraft(h, placed) ==
    LET k == hs[h].key IN
    /\ hs[h].pc = "create"
    /\ drafts' = IF drafts[k].cs # "absent" THEN drafts
                 ELSE [drafts EXCEPT ![k].cs = "pending", ![k].base = hs[h].cur,
                                     ![k].hist = hs[h].hist, ![k].placed = placed]
    /\ Goto(h, IF drafts[k].cs \in {"absent", "pending"} THEN "run" ELSE "classify")
    /\ UNCHANGED <<session, msgs, tasks, ap, flows, requests>>

\* The inventory snapshot or the task client throws: an infrastructure error.
CompileThrows(h) ==
    /\ hs[h].pc \in {"create", "run", "wait"}
    /\ Goto(h, "error")
    /\ UNCHANGED <<session, msgs, drafts, tasks, ap, flows, requests>>

\* runCompile: no placement fails closed before any task; else the task is created, once
\* per draft (its idempotency key is the draft's).
CreateCompilerTask(h, answer) ==
    LET k == hs[h].key IN
    /\ hs[h].pc = "run"
    /\ \/ /\ ~drafts[k].placed
          /\ hs' = [hs EXCEPT ![h].pc = "finalize", ![h].out = "failed"]
          /\ UNCHANGED tasks
       \/ /\ drafts[k].placed
          /\ tasks' = IF tasks[k] = "absent" THEN [tasks EXCEPT ![k] = answer] ELSE tasks
          /\ Goto(h, "wait")
    /\ UNCHANGED <<session, msgs, drafts, ap, flows, requests>>

\* waitForTerminal: the task's result, or nothing authoritative once the waits are used up.
TaskOutcome(h) ==
    /\ hs[h].pc = "wait"
    /\ \E out \in {tasks[hs[h].key], "missing"} :
         hs' = [hs EXCEPT ![h].pc = "bind", ![h].out = out]
    /\ UNCHANGED <<session, msgs, drafts, tasks, ap, flows, requests>>

BindCompilerTask(h) ==
    /\ hs[h].pc = "bind"
    /\ drafts' = [drafts EXCEPT ![hs[h].key].bound = TRUE]
    /\ Goto(h, "finalize")
    /\ UNCHANGED <<session, msgs, tasks, ap, flows, requests>>

\* The statuses runCompile finalizes an outcome with.
CompilerStatus(out) ==
    CASE out \in {"ready_valid", "ready_invalid"} -> "ready"
      [] out = "needs_input" -> "needs_input"
      [] OTHER -> "impossible"
ValidationStatus(out) == IF out = "ready_valid" THEN "valid" ELSE "invalid"

\* Mutant of Finalized: the last finalize wins.
FinalizedLast(d, out) ==
    [d EXCEPT !.cs = CompilerStatus(out), !.vs = ValidationStatus(out)]

\* finalizeDraft: the first finalize wins, the content is immutable after it.
Finalized(d, out) ==
    IF d.cs # "pending" THEN d
    ELSE [d EXCEPT !.cs = CompilerStatus(out), !.vs = ValidationStatus(out)]

FinalizeDraft(h) ==
    LET k == hs[h].key IN
    /\ hs[h].pc = "finalize"
    /\ drafts' = [drafts EXCEPT ![k] = Finalized(drafts[k], hs[h].out)]
    /\ Goto(h, "classify")
    /\ UNCHANGED <<session, msgs, tasks, ap, flows, requests>>

-----------------------------------------------------------------------------
(* Completing the turn. *)

\* The current pointer advances only to a validated draft.
NewCurrent(h) ==
    IF hs[h].pc = "classify" /\ SpecHash(hs[h].key) # NoDraft THEN hs[h].key ELSE hs[h].cur

\* Mutant of CompleteRefused: the revision is not compared.
CompleteRefusedAnyRevision(h) == session.status # "active"

\* The refusals of completeBuilderTurn, decided in its transaction.
CompleteRefused(h) == session.status # "active" \/ session.rev # hs[h].rev

\* completeBuilderTurn, after a compile or after its infrastructure error: the assistant
\* message, the pointer, the revision and the pending marker in one transaction; a turn
\* that has its answer is replayed.
CompleteTurn(h) ==
    LET k == hs[h].key IN
    /\ hs[h].pc \in {"classify", "error"}
    /\ \/ /\ AssistantMsgs(k) # {} \/ CompleteRefused(h)
          /\ UNCHANGED <<session, msgs>>
       \/ /\ AssistantMsgs(k) = {} /\ ~CompleteRefused(h)
          /\ msgs' = Append(msgs, [role |-> "assistant", key |-> k,
                                   draft |-> IF hs[h].pc = "classify" THEN k ELSE NoDraft])
          /\ session' = [session EXCEPT !.current = NewCurrent(h), !.rev = @ + 1,
                                        !.pending = NoDraft]
    /\ Reply(h)
    /\ UNCHANGED <<drafts, tasks, ap, flows, requests>>

\* The controller process dies and restarts; requests in flight are gone.
Crash ==
    /\ \E h \in Handlers : hs[h].pc # "idle"
    /\ hs' = [h \in Handlers |-> NoHandler]
    /\ ap' = [a \in Approvers |-> NoApprover]
    /\ UNCHANGED <<session, msgs, drafts, tasks, flows, requests>>

-----------------------------------------------------------------------------
(* Approval. *)

\* An operator inspects a draft and approves the hash it saw, or some other one.
ApproveReads(a, k, hash) ==
    /\ ap[a].pc = "idle" /\ drafts[k].cs # "absent"
    /\ ap' = [ap EXCEPT ![a] =
         IF ~drafts[k].mat /\ drafts[k].cs = "ready" /\ hash # NoDraft /\ hash = SpecHash(k)
           THEN [pc |-> "materialize", draft |-> k, hash |-> hash]
           ELSE NoApprover]    \* already materialised, not approvable, or a hash conflict
    /\ UNCHANGED <<session, msgs, drafts, tasks, hs, flows, requests>>

\* materializeWorkflow: one workflow per draft, its id being a hash of the draft's
Materialize(a) ==
    /\ ap[a].pc = "materialize"
    /\ flows' = IF \E f \in flows : f.draft = ap[a].draft THEN flows
                ELSE flows \union {[draft |-> ap[a].draft, spec |-> ap[a].hash]}
    /\ ap' = [ap EXCEPT ![a].pc = "approve"]
    /\ UNCHANGED <<session, msgs, drafts, tasks, hs, requests>>

ApproveDraft(a) ==
    /\ ap[a].pc = "approve"
    /\ drafts' = [drafts EXCEPT ![ap[a].draft].mat = TRUE]
    /\ ap' = [ap EXCEPT ![a] = NoApprover]
    /\ UNCHANGED <<session, msgs, tasks, hs, flows, requests>>

Next ==
    \/ CreateSession
    \/ ArchiveSession
    \/ \E h \in Handlers, k \in Keys, e \in 0..session.rev : Receive(h, k, e)
    \/ \E h \in Handlers : ReplayOrRefuse(h)
    \/ \E h \in Handlers : Proceed(h)
    \/ \E h \in Handlers : AppendUserMessage(h)
    \/ \E h \in Handlers : BuildContext(h)
    \/ \E h \in Handlers : FindDraft(h)
    \/ \E h \in Handlers, p \in BOOLEAN : CreateDraft(h, p)
    \/ \E h \in Handlers : CompileThrows(h)
    \/ \E h \in Handlers, answer \in Answers : CreateCompilerTask(h, answer)
    \/ \E h \in Handlers : TaskOutcome(h)
    \/ \E h \in Handlers : BindCompilerTask(h)
    \/ \E h \in Handlers : FinalizeDraft(h)
    \/ \E h \in Handlers : CompleteTurn(h)
    \/ Crash
    \/ \E a \in Approvers, k \in Keys, hash \in Keys : ApproveReads(a, k, hash)
    \/ \E a \in Approvers : Materialize(a)
    \/ \E a \in Approvers : ApproveDraft(a)

Spec == Init /\ [][Next]_vars

-----------------------------------------------------------------------------
(* Properties. *)

\* getSession: the turn in flight and the user message that awaits its answer
PendingTurn == {i \in UserMsgs(session.pending) : session.pending # NoDraft}

\* Turns never overtake each other: user and assistant messages alternate, each answer
\* follows the message of its own turn, and the pending marker a reader sees after a crash
\* is exactly the last message while it has no answer (appendBuilderUserMessage and
\* completeBuilderTurn under concurrent handlers and restarts).
TurnsAreSerial ==
    /\ \A i \in 1..Len(msgs) :
         IF i % 2 = 1 THEN msgs[i].role = "user"
         ELSE msgs[i].role = "assistant" /\ msgs[i].key = msgs[i - 1].key
    /\ PendingTurn = IF Len(msgs) % 2 = 1 THEN {Len(msgs)} ELSE {}

\* Where in the conversation a turn was answered with a validated draft.
ValidAnswers ==
    {i \in 1..Len(msgs) : msgs[i].draft # NoDraft /\ drafts[msgs[i].draft].vs = "valid"}

\* The session's current draft is the draft of the latest answer that had a validated one:
\* failed and clarifying turns preserve it, and a handler that read the session before
\* another turn completed never puts an older pointer back (completeBuilderTurn).
CurrentIsLatestValid ==
    session.current = IF ValidAnswers = {} THEN NoDraft ELSE msgs[Max(ValidAnswers)].draft

\* An approval stands for what was inspected: every materialised workflow carries the spec
\* of a draft that is, and stays, ready and valid with that hash, and a draft has at most
\* one, whatever compiles are still running for it (approve, finalizeDraft).
ApprovedIsInspected ==
    /\ \A f \in flows : drafts[f.draft].cs = "ready" /\ f.spec = SpecHash(f.draft)
    /\ \A k \in Keys : drafts[k].mat => \E f \in flows : f.draft = k
=============================================================================
