------------------------ MODULE WorkflowBuilder_proof ------------------------
(***************************************************************************)
(* Proofs about WorkflowBuilder, for any number of turn keys, concurrent   *)
(* requests, approvals and crashes.                                        *)
(***************************************************************************)
EXTENDS WorkflowBuilder, SequenceTheorems, TLAPS

\* Past the append, a handler's user message is in the conversation.
Appended == {"context", "compile", "create", "run", "wait", "bind", "finalize", "classify", "error"}

\* A draft whose outcome is settled.
Final(k) == drafts[k].cs \notin {"absent", "pending"}

\* The conversation: messages alternate, a key asks once, and the pending marker is the key of the
\* last message while it has no answer.
Conversation ==
    /\ \A i \in 1..Len(msgs) :
         IF i % 2 = 1 THEN msgs[i].role = "user"
         ELSE msgs[i].role = "assistant" /\ msgs[i].key = msgs[i - 1].key
    /\ \A i, j \in 1..Len(msgs) :
         msgs[i].role = "user" /\ msgs[j].role = "user" /\ msgs[i].key = msgs[j].key => i = j
    /\ session.pending = IF Len(msgs) % 2 = 1 THEN msgs[Len(msgs)].key ELSE NoDraft

\* What a handler read of the session, and what it has written so far, is still there.
Sane(r) ==
    r.pc # "idle" =>
        /\ r.key \in Keys /\ r.rev <= session.rev
        /\ r.rev = session.rev => r.cur = session.current
        /\ r.pc \in Appended => UserMsgs(r.key) # {}
        /\ r.pc = "classify" => Final(r.key)
        /\ r.pc \in {"run", "wait", "bind", "finalize"} => drafts[r.key].cs # "absent"

HandlersTrue == \A h \in Handlers : Sane(hs[h])

\* Position i is the latest answer with a validated draft.
Latest(i) == i \in ValidAnswers /\ \A j \in ValidAnswers : j <= i

\* Answers name settled drafts, and the current draft is that of the latest validated one.
Answered ==
    /\ \A i \in 1..Len(msgs) : msgs[i].draft # NoDraft => Final(msgs[i].draft)
    /\ session.current = NoDraft => ValidAnswers = {}
    /\ session.current # NoDraft => \E i \in 1..Len(msgs) : Latest(i) /\ msgs[i].draft = session.current

\* A draft that can be approved.
Approvable(k) == k \in Keys /\ drafts[k].cs = "ready" /\ drafts[k].vs = "valid"

\* Approvals under way and workflows made are of approvable drafts.
Approved ==
    /\ \A a \in Approvers : ap[a].pc # "idle" => Approvable(ap[a].draft) /\ ap[a].hash = ap[a].draft
    /\ \A a \in Approvers : ap[a].pc = "approve" => \E f \in flows : f.draft = ap[a].draft
    /\ \A f \in flows : Approvable(f.draft) /\ f.spec = f.draft
    /\ \A k \in Keys : drafts[k].mat => \E f \in flows : f.draft = k

IInv == TypeOK /\ Conversation /\ HandlersTrue /\ Answered /\ Approved

-----------------------------------------------------------------------------
(* Frames *)

\* The types of the parts of the state.
LEMMA Now ==
    ASSUME IInv
    PROVE  /\ session \in Sessions /\ msgs \in Seq(Messages) /\ drafts \in [Keys -> Drafts]
           /\ hs \in [Handlers -> HandlerStates] /\ ap \in [Approvers -> ApproverStates]
           /\ session.rev \in Nat /\ session.current \in OrNone /\ session.pending \in OrNone
           /\ Len(msgs) \in Nat
           /\ \A i \in 1..Len(msgs) : /\ msgs[i] \in Messages /\ msgs[i].role \in {"user", "assistant"}
                                      /\ msgs[i].key \in Keys /\ msgs[i].draft \in OrNone
           /\ \A h \in Handlers : hs[h].rev \in Nat /\ hs[h].key \in OrNone /\ hs[h].cur \in OrNone
           /\ Conversation /\ HandlersTrue /\ Answered /\ Approved
<1>1. /\ session \in Sessions /\ msgs \in Seq(Messages) /\ drafts \in [Keys -> Drafts]
      /\ hs \in [Handlers -> HandlerStates] /\ ap \in [Approvers -> ApproverStates]
      /\ Conversation /\ HandlersTrue /\ Answered /\ Approved
  BY DEF IInv, TypeOK
<1>2. Len(msgs) \in Nat /\ \A i \in 1..Len(msgs) : msgs[i] \in Messages
  BY <1>1, LenProperties, ElementOfSeq
<1>3. session.rev \in Nat /\ session.current \in OrNone /\ session.pending \in OrNone
  BY <1>1 DEF Sessions
<1>4. \A i \in 1..Len(msgs) : /\ msgs[i].role \in {"user", "assistant"}
                              /\ msgs[i].key \in Keys /\ msgs[i].draft \in OrNone
  BY <1>2 DEF Messages
<1>5. \A h \in Handlers : hs[h].rev \in Nat /\ hs[h].key \in OrNone /\ hs[h].cur \in OrNone
  BY <1>1 DEF HandlerStates
<1> QED BY <1>1, <1>2, <1>3, <1>4, <1>5

\* A step of one handler that writes nothing to the store.
LEMMA HandlerMoves ==
    ASSUME IInv, NEW h \in Handlers, NEW r \in HandlerStates, Sane(r), hs' = [hs EXCEPT ![h] = r],
           UNCHANGED <<session, msgs, drafts, ap, flows>>,
           tasks' \in [Keys -> Answers \union {"absent"}], requests' \in 0..MaxRequests
    PROVE  IInv'
<1>1. hs' \in [Handlers -> HandlerStates] /\ \A g \in Handlers : hs'[g] = IF g = h THEN r ELSE hs[g]
  BY Now
<1>2. TypeOK'
  BY <1>1 DEF IInv, TypeOK
<1>3. Conversation' /\ Answered' /\ Approved'
  BY Now DEF Conversation, Answered, Approved, Latest, ValidAnswers, Final, Approvable
<1>4. \A g \in Handlers : Sane(hs'[g])
  BY <1>1, Now DEF HandlersTrue
<1>5. HandlersTrue'
  BY <1>4 DEF HandlersTrue, Sane, UserMsgs, Final
<1> QED BY <1>2, <1>3, <1>5 DEF IInv

\* A step that only advances drafts keeps what was settled about them.
LEMMA DraftsAdvance ==
    ASSUME IInv, UNCHANGED <<session, msgs>>, drafts' \in [Keys -> Drafts],
           \A k \in Keys : /\ drafts[k].cs # "absent" => drafts'[k].cs # "absent"
                           /\ Final(k) => drafts'[k].cs = drafts[k].cs /\ drafts'[k].vs = drafts[k].vs
    PROVE  /\ Conversation' /\ Answered'
           /\ \A h \in Handlers : hs'[h] = hs[h] => Sane(hs[h])'
           /\ \A k \in Keys : Approvable(k) => Approvable(k)'
<1>1. \A k \in Keys : Final(k) => Final(k)'
  BY DEF Final
<1>2. Conversation'
  BY Now DEF Conversation
<1>3. \A i \in 1..Len(msgs) : msgs[i].draft # NoDraft => msgs[i].draft \in Keys /\ Final(msgs[i].draft)
  BY Now DEF Answered, OrNone
<1>4. ValidAnswers' = ValidAnswers
  BY <1>3 DEF ValidAnswers
<1>5. \A i \in 1..Len(msgs) : Latest(i) => Latest(i)'
  BY <1>4 DEF Latest
<1>6. \A i \in 1..Len(msgs) : msgs[i].draft # NoDraft => Final(msgs[i].draft)'
  BY <1>1, <1>3
<1>7. Answered'
  BY <1>4, <1>5, <1>6, Now DEF Answered
<1>8. ASSUME NEW h \in Handlers, hs'[h] = hs[h]
      PROVE  Sane(hs[h])'
  <2>1. Sane(hs[h])
    BY Now DEF HandlersTrue
  <2> QED BY <1>1, <1>8, <2>1 DEF Sane, UserMsgs
<1>9. \A k \in Keys : Approvable(k) => Approvable(k)'
  BY DEF Approvable, Final
<1> QED BY <1>2, <1>7, <1>8, <1>9

\* Approvals stay true when approvable drafts stay so and no draft becomes materialised.
LEMMA ApprovedKept ==
    ASSUME IInv, UNCHANGED <<ap, flows>>, \A k \in Keys : Approvable(k) => Approvable(k)',
           \A k \in Keys : drafts'[k].mat => drafts[k].mat
    PROVE  Approved'
BY Now DEF Approved, Approvable

\* The record of a handler, and that of an idle one.
LEMMA HandlerFields ==
    ASSUME IInv, NEW h \in Handlers
    PROVE  /\ hs[h] \in HandlerStates
           /\ NoHandler \in HandlerStates /\ Sane(NoHandler)
<1>1. hs[h] \in HandlerStates
  BY Now
<1>2. NoHandler \in HandlerStates /\ NoHandler.pc = "idle"
  BY DEF NoHandler, HandlerStates, OrNone
<1> QED BY <1>1, <1>2 DEF HandlerStates, Sane

-----------------------------------------------------------------------------
(* Steps that write nothing to the store *)

\* Goto and Reply as replacements of the handler's record.
LEMMA GotoMoves ==
    ASSUME IInv, NEW h \in Handlers,
           NEW pc \in {"idle", "lookup_only", "read", "append", "context", "compile", "create", "run",
                       "wait", "bind", "finalize", "classify", "error"},
           Goto(h, pc), UNCHANGED <<session, msgs, drafts, ap, flows>>,
           tasks' \in [Keys -> Answers \union {"absent"}], requests' \in 0..MaxRequests,
           hs[h].pc # "idle", pc \in Appended => hs[h].pc \in Appended \/ UserMsgs(hs[h].key) # {},
           pc = "classify" => Final(hs[h].key),
           pc \in {"run", "wait", "bind", "finalize"} => drafts[hs[h].key].cs # "absent"
    PROVE  IInv'
<1> DEFINE r == [hs[h] EXCEPT !.pc = pc]
<1>1. /\ r \in HandlerStates /\ r.pc = pc /\ r.key = hs[h].key /\ r.cur = hs[h].cur /\ r.rev = hs[h].rev
  <2>1. hs[h] \in HandlerStates
    BY Now
  <2> QED BY <2>1 DEF HandlerStates
<1>2. hs' = [hs EXCEPT ![h] = r]
  BY Now DEF Goto
<1>3. Sane(hs[h])
  BY Now DEF HandlersTrue
<1> HIDE DEF r
<1>4. Sane(r)
  BY <1>1, <1>3 DEF Sane
<1> QED BY <1>1, <1>2, <1>4, HandlerMoves

\* A handler that ends.
LEMMA ReplyMoves ==
    ASSUME IInv, NEW h \in Handlers, Reply(h), UNCHANGED <<session, msgs, drafts, tasks, ap, flows, requests>>
    PROVE  IInv'
<1>1. tasks' \in [Keys -> Answers \union {"absent"}] /\ requests' \in 0..MaxRequests
  BY DEF IInv, TypeOK
<1> QED BY <1>1, HandlerFields, HandlerMoves DEF Reply

\* sendMessage reads the session.
LEMMA ReceiveStep ==
    ASSUME IInv, NEW h \in Handlers, NEW k \in Keys, NEW e, Receive(h, k, e)
    PROVE  IInv'
<1>1. PICK pc \in {"lookup_only", "read"} :
        hs' = [hs EXCEPT ![h] = [NoHandler EXCEPT !.pc = pc, !.key = k, !.cur = session.current, !.rev = session.rev]]
  BY DEF Receive
<1> DEFINE r == [NoHandler EXCEPT !.pc = pc, !.key = k, !.cur = session.current, !.rev = session.rev]
<1>2. r \in HandlerStates /\ r.pc = pc /\ r.key = k /\ r.cur = session.current /\ r.rev = session.rev
  <2>1. NoHandler \in HandlerStates
    BY HandlerFields
  <2> QED BY <2>1, Now DEF HandlerStates, OrNone
<1>3. hs' = [hs EXCEPT ![h] = r]
  BY <1>1
<1> HIDE DEF r
<1>4. Sane(r)
  BY <1>2, Now DEF Sane, Appended
<1>5. UNCHANGED <<session, msgs, drafts, ap, flows>> /\ tasks' \in [Keys -> Answers \union {"absent"}]
  BY DEF IInv, TypeOK, Receive
<1>6. requests' \in 0..MaxRequests
  <2>1. requests \in 0..MaxRequests /\ MaxRequests \in Nat
    BY BuilderAssumption DEF IInv, TypeOK
  <2>2. requests < MaxRequests /\ requests' = requests + 1
    BY DEF Receive
  <2> QED BY <2>1, <2>2
<1> QED BY <1>2, <1>3, <1>4, <1>5, <1>6, HandlerMoves

\* A step of one handler that leaves the store alone, and the bound on requests.
LEMMA Rest ==
    ASSUME IInv, UNCHANGED <<tasks, requests>>
    PROVE  tasks' \in [Keys -> Answers \union {"absent"}] /\ requests' \in 0..MaxRequests
BY DEF IInv, TypeOK

\* A handler in flight has the key of a turn.
LEMMA InFlight ==
    ASSUME IInv, NEW h \in Handlers, hs[h].pc # "idle"
    PROVE  /\ hs[h].key \in Keys /\ Sane(hs[h]) /\ drafts[hs[h].key] \in Drafts
           /\ hs[h].pc \in Appended => UserMsgs(hs[h].key) # {}
BY Now DEF HandlersTrue, Sane

\* The steps of a handler up to the draft.
LEMMA EarlyStep ==
    ASSUME IInv, NEW h \in Handlers, ReplayOrRefuse(h) \/ Proceed(h) \/ CompileThrows(h) \/ FindDraft(h)
    PROVE  IInv'
<1>1. CASE ReplayOrRefuse(h)
  BY <1>1, ReplyMoves DEF ReplayOrRefuse
<1>2. CASE Proceed(h)
  <2>1. hs[h].pc = "read" /\ Goto(h, "append") /\ UNCHANGED <<session, msgs, drafts, tasks, ap, flows, requests>>
    BY <1>2 DEF Proceed
  <2> QED BY <2>1, Rest, GotoMoves DEF Appended
<1>3. CASE CompileThrows(h)
  <2>1. hs[h].pc \in {"create", "run", "wait"} /\ Goto(h, "error")
        /\ UNCHANGED <<session, msgs, drafts, tasks, ap, flows, requests>>
    BY <1>3 DEF CompileThrows
  <2> QED BY <2>1, Rest, GotoMoves DEF Appended
<1>4. CASE FindDraft(h)
  <2> DEFINE d == drafts[hs[h].key]
  <2>1. hs[h].pc = "compile" /\ UNCHANGED <<session, msgs, drafts, tasks, ap, flows, requests>>
    BY <1>4 DEF FindDraft
  <2>2. d \in Drafts /\ hs[h].key \in Keys
    BY <2>1, InFlight
  <2>3. PICK pc \in {"create", "error", "run", "classify"} :
          /\ Goto(h, pc) /\ (pc = "classify" => d.cs \notin {"absent", "pending"})
          /\ (pc = "run" => d.cs # "absent")
    <3>1. CASE d.cs = "absent"
      BY <1>4, <3>1 DEF FindDraft
    <3>2. CASE d.cs # "absent" /\ ~SameFingerprint(h)
      BY <1>4, <3>2 DEF FindDraft
    <3>3. CASE d.cs = "pending" /\ SameFingerprint(h)
      BY <1>4, <3>3 DEF FindDraft
    <3>4. CASE d.cs \notin {"absent", "pending"} /\ SameFingerprint(h)
      BY <1>4, <3>4 DEF FindDraft
    <3> QED BY <3>1, <3>2, <3>3, <3>4
  <2> QED BY <2>1, <2>2, <2>3, Rest, GotoMoves DEF Appended, Final
<1> QED BY <1>1, <1>2, <1>3, <1>4

\* Steps that set a field of the handler besides its place.
LEMMA FieldStep ==
    ASSUME IInv, NEW h \in Handlers,
           \/ BuildContext(h) \/ TaskOutcome(h)
           \/ \E answer \in Answers : CreateCompilerTask(h, answer)
    PROVE  IInv'
<1>0. hs[h] \in HandlerStates
  BY Now
<1>1. CASE BuildContext(h)
  <2> DEFINE r == [hs[h] EXCEPT !.pc = "compile", !.hist = Len(msgs) - 1]
  <2>1. hs[h].pc = "context" /\ UNCHANGED <<session, msgs, drafts, tasks, ap, flows, requests>> /\ hs' = [hs EXCEPT ![h] = r]
    BY <1>1, Now DEF BuildContext
  <2>2. Sane(hs[h]) /\ UserMsgs(hs[h].key) # {}
    BY <2>1, InFlight DEF Appended
  <2>3. Len(msgs) - 1 \in Nat
    BY <2>2, Now DEF UserMsgs
  <2>4. r \in HandlerStates /\ r.pc = "compile" /\ r.key = hs[h].key /\ r.cur = hs[h].cur /\ r.rev = hs[h].rev
    BY <1>0, <2>3 DEF HandlerStates
  <2> HIDE DEF r
  <2>5. Sane(r)
    BY <2>1, <2>2, <2>4 DEF Sane, Appended
  <2> QED BY <2>1, <2>4, <2>5, Rest, HandlerMoves
<1>2. CASE TaskOutcome(h)
  <2>1. PICK out \in {tasks[hs[h].key], "missing"} : hs' = [hs EXCEPT ![h].pc = "bind", ![h].out = out]
    BY <1>2 DEF TaskOutcome
  <2>2. hs[h].pc = "wait" /\ UNCHANGED <<session, msgs, drafts, tasks, ap, flows, requests>>
    BY <1>2 DEF TaskOutcome
  <2> DEFINE r == [hs[h] EXCEPT !.pc = "bind", !.out = out]
  <2>3. hs' = [hs EXCEPT ![h] = r]
    BY <2>1, Now
  <2>4. Sane(hs[h]) /\ hs[h].key \in Keys
    BY <2>2, InFlight
  <2>5. out \in Answers \union {"absent", "missing"}
    BY <2>1, <2>4 DEF IInv, TypeOK
  <2>6. r \in HandlerStates /\ r.pc = "bind" /\ r.key = hs[h].key /\ r.cur = hs[h].cur /\ r.rev = hs[h].rev
    BY <1>0, <2>5 DEF HandlerStates
  <2> HIDE DEF r
  <2>7. Sane(r)
    BY <2>2, <2>4, <2>6 DEF Sane, Appended
  <2> QED BY <2>2, <2>3, <2>6, <2>7, Rest, HandlerMoves
<1>3. ASSUME NEW answer \in Answers, CreateCompilerTask(h, answer)
      PROVE  IInv'
  <2> DEFINE r == [hs[h] EXCEPT !.pc = "finalize", !.out = "failed"]
  <2>1. hs[h].pc = "run" /\ UNCHANGED <<session, msgs, drafts, ap, flows, requests>>
    BY <1>3 DEF CreateCompilerTask
  <2>2. Sane(hs[h]) /\ hs[h].key \in Keys /\ drafts[hs[h].key].cs # "absent"
    BY <2>1, InFlight DEF Sane
  <2>3. tasks' \in [Keys -> Answers \union {"absent"}] /\ requests' \in 0..MaxRequests
    BY <1>3, <2>2 DEF CreateCompilerTask, IInv, TypeOK
  <2>4. CASE hs' = [hs EXCEPT ![h].pc = "finalize", ![h].out = "failed"]
    <3>1. hs' = [hs EXCEPT ![h] = r]
      BY <2>4, Now
    <3>2. r \in HandlerStates /\ r.pc = "finalize" /\ r.key = hs[h].key /\ r.cur = hs[h].cur /\ r.rev = hs[h].rev
      BY <1>0 DEF HandlerStates, Answers
    <3> HIDE DEF r
    <3>3. Sane(r)
      BY <2>1, <2>2, <3>2 DEF Sane, Appended
    <3> QED BY <2>1, <2>3, <3>1, <3>2, <3>3, HandlerMoves
  <2>5. CASE Goto(h, "wait")
    BY <2>1, <2>2, <2>3, <2>5, GotoMoves DEF Appended
  <2> QED BY <1>3, <2>4, <2>5 DEF CreateCompilerTask
<1> QED BY <1>1, <1>2, <1>3

-----------------------------------------------------------------------------
(* Drafts and approvals *)

\* A step on drafts by one handler, which goes on.
LEMMA DraftStep ==
    ASSUME IInv, NEW h \in Handlers, hs[h].pc \in Appended,
           NEW pc \in {"run", "classify", "finalize"}, Goto(h, pc),
           UNCHANGED <<session, msgs, tasks, ap, flows, requests>>, drafts' \in [Keys -> Drafts],
           \A k \in Keys : /\ drafts[k].cs # "absent" => drafts'[k].cs # "absent"
                           /\ Final(k) => drafts'[k].cs = drafts[k].cs /\ drafts'[k].vs = drafts[k].vs
                           /\ drafts'[k].mat => drafts[k].mat,
           drafts'[hs[h].key].cs # "absent", pc = "classify" => drafts'[hs[h].key].cs # "pending"
    PROVE  IInv'
<1> DEFINE r == [hs[h] EXCEPT !.pc = pc]
<1>1. /\ Conversation' /\ Answered' /\ \A g \in Handlers : hs'[g] = hs[g] => Sane(hs[g])'
      /\ \A k \in Keys : Approvable(k) => Approvable(k)'
  BY DraftsAdvance
<1>2. Approved'
  BY <1>1, ApprovedKept
<1>3. hs[h] \in HandlerStates /\ Sane(hs[h]) /\ hs[h].key \in Keys /\ UserMsgs(hs[h].key) # {}
  BY InFlight, Now DEF Appended
<1>4. hs' = [hs EXCEPT ![h] = r]
  BY Now DEF Goto
<1>5. r \in HandlerStates /\ r.pc = pc /\ r.key = hs[h].key /\ r.cur = hs[h].cur /\ r.rev = hs[h].rev
  BY <1>3 DEF HandlerStates
<1> HIDE DEF r
<1>6. hs' \in [Handlers -> HandlerStates] /\ \A g \in Handlers : hs'[g] = IF g = h THEN r ELSE hs[g]
  BY <1>4, <1>5, Now
<1>7. TypeOK'
  BY <1>6 DEF IInv, TypeOK
<1>8. Sane(hs[h])'
  <2>1. /\ hs'[h].key = hs[h].key /\ hs'[h].cur = hs[h].cur /\ hs'[h].rev = hs[h].rev /\ hs'[h].pc = pc
    BY <1>5, <1>6
  <2>2. hs[h].rev <= session.rev /\ (hs[h].rev = session.rev => hs[h].cur = session.current)
    BY <1>3 DEF Sane, Appended
  <2>3. UserMsgs(hs[h].key)' # {}
    BY <1>3, <2>1 DEF UserMsgs
  <2> QED BY <1>3, <2>1, <2>2, <2>3 DEF Sane, Final, Appended
<1>9. HandlersTrue'
  BY <1>1, <1>6, <1>8 DEF HandlersTrue
<1> QED BY <1>1, <1>2, <1>7, <1>9 DEF IInv

\* createDraft, bindCompilerTask and finalizeDraft.
LEMMA WriteDraft ==
    ASSUME IInv, NEW h \in Handlers,
           (\E p \in BOOLEAN : CreateDraft(h, p)) \/ BindCompilerTask(h) \/ FinalizeDraft(h)
    PROVE  IInv'
<1> DEFINE k == hs[h].key
<1>0. hs[h].pc \in Appended /\ hs[h].pc # "idle"
  BY DEF CreateDraft, BindCompilerTask, FinalizeDraft, Appended
<1>1. k \in Keys /\ Sane(hs[h]) /\ drafts[k] \in Drafts /\ drafts \in [Keys -> Drafts]
      /\ hs[h] \in HandlerStates
  BY <1>0, InFlight, Now
<1>2. ASSUME NEW p \in BOOLEAN, CreateDraft(h, p)
      PROVE  IInv'
  <2>1. UNCHANGED <<session, msgs, tasks, ap, flows, requests>>
    BY <1>2 DEF CreateDraft
  <2>2. hs[h].cur \in OrNone /\ hs[h].hist \in Nat
    BY <1>1 DEF HandlerStates
  <2> DEFINE d == [drafts[k] EXCEPT !.cs = "pending", !.base = hs[h].cur, !.hist = hs[h].hist, !.placed = p]
  <2>3. d \in Drafts /\ d.cs = "pending" /\ d.vs = drafts[k].vs /\ d.mat = drafts[k].mat
    BY <1>1, <2>2 DEF Drafts
  <2>4. CASE drafts[k].cs = "absent"
    <3>1. drafts' = [drafts EXCEPT ![k] = d] /\ Goto(h, "run")
      BY <1>1, <1>2, <2>4 DEF CreateDraft
    <3> HIDE DEF d
    <3>2. drafts' \in [Keys -> Drafts] /\ \A j \in Keys : drafts'[j] = IF j = k THEN d ELSE drafts[j]
      BY <1>1, <2>3, <3>1
    <3>3. \A j \in Keys : /\ drafts[j].cs # "absent" => drafts'[j].cs # "absent"
                          /\ Final(j) => drafts'[j].cs = drafts[j].cs /\ drafts'[j].vs = drafts[j].vs
                          /\ drafts'[j].mat => drafts[j].mat
      BY <2>3, <2>4, <3>2 DEF Final
    <3>4. drafts'[k].cs # "absent"
      BY <1>1, <2>3, <3>2
    <3> QED BY <1>0, <2>1, <3>1, <3>2, <3>3, <3>4, DraftStep
  <2>5. CASE drafts[k].cs # "absent"
    <3>1. drafts' = drafts
      BY <1>2, <2>5 DEF CreateDraft
    <3>2. PICK pc \in {"run", "classify"} : Goto(h, pc) /\ (pc = "classify" => drafts[k].cs # "pending")
      BY <1>2, <2>5 DEF CreateDraft
    <3> QED BY <1>0, <1>1, <2>1, <2>5, <3>1, <3>2, DraftStep
  <2> QED BY <2>4, <2>5
<1>3. CASE BindCompilerTask(h)
  <2> DEFINE d == [drafts[k] EXCEPT !.bound = TRUE]
  <2>1. /\ UNCHANGED <<session, msgs, tasks, ap, flows, requests>> /\ Goto(h, "finalize") /\ hs[h].pc = "bind"
        /\ drafts' = [drafts EXCEPT ![k] = d]
    BY <1>1, <1>3 DEF BindCompilerTask
  <2>2. d \in Drafts /\ d.cs = drafts[k].cs /\ d.vs = drafts[k].vs /\ d.mat = drafts[k].mat
    BY <1>1 DEF Drafts
  <2> HIDE DEF d
  <2>3. drafts' \in [Keys -> Drafts] /\ \A j \in Keys : drafts'[j] = IF j = k THEN d ELSE drafts[j]
    BY <1>1, <2>1, <2>2
  <2>4. \A j \in Keys : /\ drafts[j].cs # "absent" => drafts'[j].cs # "absent"
                        /\ Final(j) => drafts'[j].cs = drafts[j].cs /\ drafts'[j].vs = drafts[j].vs
                        /\ drafts'[j].mat => drafts[j].mat
    BY <2>2, <2>3
  <2>5. drafts[k].cs # "absent"
    BY <1>1, <2>1 DEF Sane
  <2> QED BY <1>0, <1>1, <2>1, <2>3, <2>4, <2>5, DraftStep
<1>4. CASE FinalizeDraft(h)
  <2> DEFINE d == Finalized(drafts[k], hs[h].out)
  <2>1. /\ UNCHANGED <<session, msgs, tasks, ap, flows, requests>> /\ Goto(h, "classify") /\ hs[h].pc = "finalize"
        /\ drafts' = [drafts EXCEPT ![k] = d]
    BY <1>4 DEF FinalizeDraft
  <2>2. drafts[k].cs # "absent"
    BY <1>1, <2>1 DEF Sane
  <2>3. /\ CompilerStatus(hs[h].out) \in {"ready", "needs_input", "impossible"}
        /\ ValidationStatus(hs[h].out) \in {"valid", "invalid"}
    BY DEF CompilerStatus, ValidationStatus
  <2>4. /\ d \in Drafts /\ d.cs \notin {"absent", "pending"} /\ d.mat = drafts[k].mat
        /\ drafts[k].cs # "pending" => d = drafts[k]
    BY <1>1, <2>2, <2>3 DEF Drafts, Finalized
  <2> HIDE DEF d
  <2>5. drafts' \in [Keys -> Drafts] /\ \A j \in Keys : drafts'[j] = IF j = k THEN d ELSE drafts[j]
    BY <1>1, <2>1, <2>4
  <2>6. \A j \in Keys : /\ drafts[j].cs # "absent" => drafts'[j].cs # "absent"
                        /\ Final(j) => drafts'[j].cs = drafts[j].cs /\ drafts'[j].vs = drafts[j].vs
                        /\ drafts'[j].mat => drafts[j].mat
    BY <2>4, <2>5 DEF Final
  <2> QED BY <1>0, <1>1, <2>1, <2>4, <2>5, <2>6, DraftStep
<1> QED BY <1>2, <1>3, <1>4

\* An operator's approval: its checks, the workflow it makes, the draft it marks.
LEMMA ApprovalStep ==
    ASSUME IInv, NEW a \in Approvers,
           \/ \E k \in Keys, hash \in Keys : ApproveReads(a, k, hash)
           \/ Materialize(a) \/ ApproveDraft(a)
    PROVE  IInv'
<1>0. /\ UNCHANGED <<session, msgs, hs>> /\ ap \in [Approvers -> ApproverStates] /\ drafts \in [Keys -> Drafts]
      /\ tasks' = tasks /\ requests' = requests /\ Approved
      /\ flows \subseteq [draft : OrNone, spec : OrNone]
  BY DEF ApproveReads, Materialize, ApproveDraft, IInv, TypeOK
<1>1. NoApprover \in ApproverStates /\ NoApprover.pc = "idle"
  BY DEF NoApprover, ApproverStates, OrNone
<1>2. ASSUME drafts' = drafts, ap' \in [Approvers -> ApproverStates],
             flows' \subseteq [draft : OrNone, spec : OrNone], Approved'
      PROVE  IInv'
  <2>1. Conversation' /\ Answered' /\ \A h \in Handlers : Sane(hs[h])'
    BY <1>0, <1>2, DraftsAdvance
  <2>2. TypeOK'
    BY <1>0, <1>2 DEF IInv, TypeOK
  <2> QED BY <1>2, <2>1, <2>2 DEF IInv, HandlersTrue
<1>3. ASSUME NEW k \in Keys, NEW hash \in Keys, ApproveReads(a, k, hash)
      PROVE  IInv'
  <2>1. drafts' = drafts /\ flows' = flows
    BY <1>3 DEF ApproveReads
  <2>2. PICK r \in ApproverStates :
          ap' = [ap EXCEPT ![a] = r] /\ (r.pc = "idle" \/ (r.pc = "materialize" /\ Approvable(r.draft) /\ r.hash = r.draft))
    <3>1. CASE ~drafts[k].mat /\ drafts[k].cs = "ready" /\ hash # NoDraft /\ hash = SpecHash(k)
      <4>1. hash = k /\ Approvable(k)
        BY <3>1 DEF SpecHash, Approvable
      <4>2. [pc |-> "materialize", draft |-> k, hash |-> hash] \in ApproverStates
        BY DEF ApproverStates, OrNone
      <4> QED BY <1>3, <3>1, <4>1, <4>2 DEF ApproveReads
    <3>2. CASE ~(~drafts[k].mat /\ drafts[k].cs = "ready" /\ hash # NoDraft /\ hash = SpecHash(k))
      BY <1>1, <1>3, <3>2 DEF ApproveReads
    <3> QED BY <3>1, <3>2
  <2>3. ap' \in [Approvers -> ApproverStates] /\ \A b \in Approvers : ap'[b] = IF b = a THEN r ELSE ap[b]
    BY <1>0, <2>2
  <2>4. Approved'
    BY <1>0, <2>1, <2>2, <2>3 DEF Approved, Approvable
  <2> QED BY <1>0, <1>2, <2>1, <2>3, <2>4
<1>4. CASE Materialize(a)
  <2> DEFINE r == [ap[a] EXCEPT !.pc = "approve"]
             new == [draft |-> ap[a].draft, spec |-> ap[a].hash]
  <2>1. drafts' = drafts /\ ap' = [ap EXCEPT ![a] = r] /\ ap[a].pc = "materialize"
    BY <1>0, <1>4 DEF Materialize
  <2>2. ap[a] \in ApproverStates /\ Approvable(ap[a].draft) /\ ap[a].hash = ap[a].draft
    BY <1>0, <2>1 DEF Approved
  <2>3. r \in ApproverStates /\ r.pc = "approve" /\ r.draft = ap[a].draft /\ r.hash = ap[a].hash
        /\ new \in [draft : OrNone, spec : OrNone] /\ new.draft = ap[a].draft /\ new.spec = ap[a].hash
    BY <2>2 DEF ApproverStates
  <2>4. /\ flows' = flows \/ flows' = flows \union {new}
        /\ \E f \in flows' : f.draft = ap[a].draft
    BY <1>4, <2>3 DEF Materialize
  <2> HIDE DEF r, new
  <2>5. flows' \subseteq [draft : OrNone, spec : OrNone]
    BY <1>0, <2>3, <2>4
  <2>6. ap' \in [Approvers -> ApproverStates] /\ \A b \in Approvers : ap'[b] = IF b = a THEN r ELSE ap[b]
    BY <1>0, <2>1, <2>3
  <2>7. \A k : Approvable(k) => Approvable(k)'
    BY <2>1 DEF Approvable
  <2>8. \A b \in Approvers : (ap[b].pc # "idle" => Approvable(ap[b].draft) /\ ap[b].hash = ap[b].draft)'
    BY <1>0, <2>2, <2>3, <2>6, <2>7 DEF Approved
  <2>9. \A b \in Approvers : ap'[b].pc = "approve" => \E f \in flows' : f.draft = ap'[b].draft
    BY <1>0, <2>3, <2>4, <2>6 DEF Approved
  <2>10. \A f \in flows' : Approvable(f.draft)' /\ f.spec = f.draft
    BY <1>0, <2>2, <2>3, <2>4, <2>7 DEF Approved
  <2>11. \A k \in Keys : drafts'[k].mat => \E f \in flows' : f.draft = k
    BY <1>0, <2>1, <2>4 DEF Approved
  <2>12. Approved'
    BY <2>8, <2>9, <2>10, <2>11 DEF Approved
  <2> QED BY <1>2, <2>1, <2>5, <2>6, <2>12
<1>5. CASE ApproveDraft(a)
  <2> DEFINE k == ap[a].draft
             d == [drafts[k] EXCEPT !.mat = TRUE]
  <2>1. ap' = [ap EXCEPT ![a] = NoApprover] /\ flows' = flows /\ ap[a].pc = "approve"
    BY <1>5 DEF ApproveDraft
  <2>2. k \in Keys /\ drafts[k] \in Drafts /\ (\E f \in flows : f.draft = k)
    BY <1>0, <2>1 DEF Approved, Approvable
  <2>3. drafts' = [drafts EXCEPT ![k] = d]
    BY <1>0, <1>5, <2>2 DEF ApproveDraft
  <2>4. d \in Drafts /\ d.cs = drafts[k].cs /\ d.vs = drafts[k].vs
    BY <2>2 DEF Drafts
  <2> HIDE DEF d
  <2>5. drafts' \in [Keys -> Drafts] /\ \A j \in Keys : drafts'[j] = IF j = k THEN d ELSE drafts[j]
    BY <1>0, <2>2, <2>3, <2>4
  <2>6. \A j \in Keys : drafts'[j].cs = drafts[j].cs /\ drafts'[j].vs = drafts[j].vs
    BY <2>4, <2>5
  <2>7. /\ Conversation' /\ Answered' /\ \A h \in Handlers : Sane(hs[h])'
        /\ \A j \in Keys : Approvable(j) => Approvable(j)'
    BY <1>0, <2>5, <2>6, DraftsAdvance
  <2>8. ap' \in [Approvers -> ApproverStates] /\ \A b \in Approvers : ap'[b] = IF b = a THEN NoApprover ELSE ap[b]
    BY <1>0, <1>1, <2>1
  <2>9. \A b \in Approvers : (ap[b].pc # "idle" => Approvable(ap[b].draft) /\ ap[b].hash = ap[b].draft)'
    BY <1>0, <1>1, <2>7, <2>8 DEF Approved, Approvable
  <2>10. \A b \in Approvers : ap'[b].pc = "approve" => \E f \in flows' : f.draft = ap'[b].draft
    BY <1>0, <1>1, <2>1, <2>8 DEF Approved
  <2>11. \A f \in flows' : Approvable(f.draft)' /\ f.spec = f.draft
    BY <1>0, <2>1, <2>7 DEF Approved, Approvable
  <2>12. \A j \in Keys : drafts'[j].mat => \E f \in flows' : f.draft = j
    BY <1>0, <2>1, <2>2, <2>5 DEF Approved
  <2>13. Approved'
    BY <2>9, <2>10, <2>11, <2>12 DEF Approved
  <2>14. TypeOK'
    BY <1>0, <2>1, <2>5, <2>8 DEF IInv, TypeOK
  <2> QED BY <2>7, <2>13, <2>14 DEF IInv, HandlersTrue
<1> QED BY <1>3, <1>4, <1>5

-----------------------------------------------------------------------------
(* The conversation *)

\* Odd and even positions alternate.
LEMMA Parity ==
    ASSUME NEW n \in Nat
    PROVE  n % 2 \in {0, 1} /\ (n + 1) % 2 = 1 - (n % 2)
OBVIOUS

\* A conversation longer by one message.
LEMMA OneMore ==
    ASSUME IInv, NEW m \in Messages, msgs' = Append(msgs, m)
    PROVE  /\ msgs' \in Seq(Messages) /\ Len(msgs') = Len(msgs) + 1 /\ msgs'[Len(msgs) + 1] = m
           /\ \A i \in 1..Len(msgs) : msgs'[i] = msgs[i]
           /\ \A k : UserMsgs(k) # {} => UserMsgs(k)' # {}
<1>1. msgs \in Seq(Messages) /\ Len(msgs) \in Nat
  BY Now
<1>2. /\ msgs' \in Seq(Messages) /\ Len(msgs') = Len(msgs) + 1 /\ msgs'[Len(msgs) + 1] = m
      /\ \A i \in 1..Len(msgs) : msgs'[i] = msgs[i]
  BY <1>1, AppendProperties
<1>3. ASSUME NEW k, UserMsgs(k) # {}
      PROVE  UserMsgs(k)' # {}
  <2>1. PICK i \in 1..Len(msgs) : msgs[i].role = "user" /\ msgs[i].key = k
    BY <1>3 DEF UserMsgs
  <2>2. i \in 1..Len(msgs') /\ msgs'[i] = msgs[i]
    BY <1>1, <1>2
  <2>3. i \in UserMsgs(k)'
    BY <2>1, <2>2 DEF UserMsgs
  <2> QED BY <2>3
<1> QED BY <1>2, <1>3

\* A message that keeps the alternation keeps the conversation.
LEMMA Alternates ==
    ASSUME IInv, NEW m \in Messages, msgs' = Append(msgs, m),
           Len(msgs) % 2 = 0 => m.role = "user" /\ UserMsgs(m.key) = {} /\ session'.pending = m.key,
           Len(msgs) % 2 = 1 => /\ m.role = "assistant" /\ msgs[Len(msgs)].key = m.key
                                /\ session'.pending = NoDraft
    PROVE  Conversation'
<1> DEFINE n == Len(msgs)
<1>1. n \in Nat /\ Len(msgs') = n + 1 /\ msgs'[n + 1] = m /\ \A i \in 1..n : msgs'[i] = msgs[i]
  BY OneMore, Now
<1>2. n % 2 \in {0, 1} /\ (n + 1) % 2 = 1 - (n % 2)
  BY <1>1, Parity
<1>3. Conversation
  BY Now
<1>4. ASSUME NEW i \in 1..Len(msgs')
      PROVE  IF i % 2 = 1 THEN msgs'[i].role = "user"
             ELSE msgs'[i].role = "assistant" /\ msgs'[i].key = msgs'[i - 1].key
  <2>1. CASE i = n + 1
    <3>1. CASE n % 2 = 0
      BY <1>1, <1>2, <2>1, <3>1
    <3>2. CASE n % 2 = 1
      <4>1. i % 2 = 0 /\ i - 1 = n /\ n \in 1..n
        BY <1>1, <1>2, <2>1, <3>2
      <4>2. msgs'[i - 1] = msgs[n] /\ msgs'[i] = m
        BY <1>1, <2>1, <4>1
      <4> QED BY <3>2, <4>1, <4>2
    <3> QED BY <1>2, <3>1, <3>2
  <2>2. CASE i # n + 1
    <3>1. i \in 1..n /\ msgs'[i] = msgs[i]
      BY <1>1, <1>4, <2>2
    <3>2. IF i % 2 = 1 THEN msgs[i].role = "user"
          ELSE msgs[i].role = "assistant" /\ msgs[i].key = msgs[i - 1].key
      BY <1>3, <3>1 DEF Conversation
    <3>3. i % 2 # 1 => i - 1 \in 1..n
      BY <1>1, <3>1
    <3>4. i % 2 # 1 => msgs'[i - 1] = msgs[i - 1]
      BY <1>1, <3>3
    <3> QED BY <3>1, <3>2, <3>4
  <2> QED BY <2>1, <2>2
<1>5. ASSUME NEW i \in 1..Len(msgs'), NEW j \in 1..Len(msgs'),
             msgs'[i].role = "user" /\ msgs'[j].role = "user" /\ msgs'[i].key = msgs'[j].key
      PROVE  i = j
  <2>1. ASSUME NEW p \in 1..n, msgs'[p].role = "user", msgs'[p].key = m.key, m.role = "user"
        PROVE  FALSE
    <3>1. n % 2 = 0
      BY <1>2, <2>1
    <3>2. p \in UserMsgs(m.key)
      BY <1>1, <2>1 DEF UserMsgs
    <3> QED BY <3>1, <3>2
  <2>2. (i \in 1..n \/ i = n + 1) /\ (j \in 1..n \/ j = n + 1)
    BY <1>1
  <2>3. CASE i \in 1..n /\ j \in 1..n
    BY <1>1, <1>3, <1>5, <2>3 DEF Conversation
  <2>4. CASE i = n + 1 /\ j \in 1..n
    BY <1>1, <1>5, <2>1, <2>4
  <2>5. CASE j = n + 1 /\ i \in 1..n
    BY <1>1, <1>5, <2>1, <2>5
  <2> QED BY <2>2, <2>3, <2>4, <2>5
<1>6. session'.pending = IF Len(msgs') % 2 = 1 THEN msgs'[Len(msgs')].key ELSE NoDraft
  <2>1. CASE n % 2 = 0
    BY <1>1, <1>2, <2>1
  <2>2. CASE n % 2 = 1
    BY <1>1, <1>2, <2>2
  <2> QED BY <1>2, <2>1, <2>2
<1> QED BY <1>4, <1>5, <1>6 DEF Conversation

\* A message without a validated draft leaves the valid answers as they are.
LEMMA NoNewAnswer ==
    ASSUME IInv, NEW m \in Messages, msgs' = Append(msgs, m), drafts' = drafts,
           session'.current = session.current,
           m.draft # NoDraft => Final(m.draft) /\ drafts[m.draft].vs # "valid"
    PROVE  Answered'
<1> DEFINE n == Len(msgs)
<1>1. n \in Nat /\ Len(msgs') = n + 1 /\ msgs'[n + 1] = m /\ \A i \in 1..n : msgs'[i] = msgs[i]
  BY OneMore, Now
<1>2. 1..Len(msgs') = (1..n) \union {n + 1}
  BY <1>1
<1>3. ValidAnswers' = ValidAnswers
  BY <1>1, <1>2 DEF ValidAnswers
<1>4. \A i : Latest(i) => Latest(i)'
  BY <1>3 DEF Latest
<1>5. \A i \in 1..Len(msgs') : msgs'[i].draft # NoDraft => Final(msgs'[i].draft)
  BY <1>1, <1>2, Now DEF Answered
<1>6. \A k : Final(k) <=> Final(k)'
  BY DEF Final
<1>7. \A i \in 1..Len(msgs') : (msgs[i].draft # NoDraft => Final(msgs[i].draft))'
  BY <1>5 DEF Final
<1>8. session.current # NoDraft => \E i \in 1..n : Latest(i) /\ msgs[i].draft = session.current
  BY Now DEF Answered
<1>9. session'.current # NoDraft => \E i \in 1..Len(msgs') : (Latest(i) /\ msgs[i].draft = session.current)'
  BY <1>1, <1>2, <1>4, <1>8
<1>10. session'.current = NoDraft => ValidAnswers' = {}
  BY <1>3, Now DEF Answered
<1> QED BY <1>7, <1>9, <1>10 DEF Answered

\* An answer with a validated draft is the latest one.
LEMMA NewAnswer ==
    ASSUME IInv, NEW m \in Messages, msgs' = Append(msgs, m), drafts' = drafts,
           session'.current = m.draft, m.draft # NoDraft, Final(m.draft), drafts[m.draft].vs = "valid"
    PROVE  Answered'
<1>0. PICK n : n = Len(msgs)
  OBVIOUS
<1>1. n \in Nat /\ Len(msgs') = n + 1 /\ msgs'[n + 1] = m /\ \A i \in 1..n : msgs'[i] = msgs[i]
  BY <1>0, OneMore, Now
<1>2. 1..Len(msgs') = (1..n) \union {n + 1}
  BY <1>1
<1>3. n + 1 \in ValidAnswers' /\ \A j \in ValidAnswers' : j <= n + 1
  BY <1>1 DEF ValidAnswers
<1>4. Latest(n + 1)'
  BY <1>1, <1>3 DEF Latest
<1>5. \A i \in 1..Len(msgs') : msgs'[i].draft # NoDraft => Final(msgs'[i].draft)
  BY <1>1, <1>2, Now DEF Answered
<1>6. \A i \in 1..Len(msgs') : (msgs[i].draft # NoDraft => Final(msgs[i].draft))'
  BY <1>5 DEF Final
<1>7. \E i \in 1..Len(msgs') : (Latest(i) /\ msgs[i].draft = session.current)'
  BY <1>1, <1>2, <1>4
<1> QED BY <1>6, <1>7 DEF Answered

\* The step of a handler that adds a message: what the other handlers hold stays true.
LEMMA OthersSane ==
    ASSUME IInv, NEW h \in Handlers, NEW m \in Messages, msgs' = Append(msgs, m), drafts' = drafts,
           NEW r \in HandlerStates, hs' = [hs EXCEPT ![h] = r],
           \/ session'.rev = session.rev /\ session'.current = session.current
           \/ session'.rev = session.rev + 1
    PROVE  \A g \in Handlers : g # h => Sane(hs[g])'
<1>1. hs' \in [Handlers -> HandlerStates] /\ \A g \in Handlers : hs'[g] = IF g = h THEN r ELSE hs[g]
  BY Now
<1>2. ASSUME NEW g \in Handlers, g # h, hs[g].pc # "idle"
      PROVE  Sane(hs[g])'
  <2>1. Sane(hs[g]) /\ hs'[g] = hs[g] /\ hs[g].rev \in Nat /\ session.rev \in Nat
    BY <1>1, <1>2, Now DEF HandlersTrue
  <2>2. hs[g].rev <= session'.rev /\ (hs[g].rev = session'.rev => hs[g].cur = session'.current)
    BY <1>2, <2>1 DEF Sane
  <2>3. hs[g].pc \in Appended => UserMsgs(hs[g].key)' # {}
    <3>1. PICK k : k = hs[g].key
      OBVIOUS
    <3>2. UserMsgs(k) # {} => UserMsgs(k)' # {}
      BY OneMore
    <3>3. UserMsgs(hs[g].key)' = UserMsgs(k)'
      BY <2>1, <3>1 DEF UserMsgs
    <3> QED BY <1>2, <2>1, <3>1, <3>2, <3>3 DEF Sane
  <2>4. (hs[g].pc = "classify" => Final(hs[g].key)) /\ hs[g].key \in Keys
    BY <1>2, <2>1 DEF Sane
  <2>5. hs[g].pc \in {"run", "wait", "bind", "finalize"} => drafts[hs[g].key].cs # "absent"
    BY <1>2, <2>1 DEF Sane
  <2> QED BY <2>1, <2>2, <2>3, <2>4, <2>5 DEF Sane, Final
<1>3. ASSUME NEW g \in Handlers, g # h, hs[g].pc = "idle"
      PROVE  Sane(hs[g])'
  BY <1>1, <1>3 DEF Sane
<1> QED BY <1>2, <1>3

\* appendBuilderUserMessage.
LEMMA AppendStep ==
    ASSUME IInv, NEW h \in Handlers, AppendUserMessage(h)
    PROVE  IInv'
<1> DEFINE k == hs[h].key
<1>1. hs[h].pc = "append" /\ UNCHANGED <<drafts, tasks, ap, flows, requests>>
  BY DEF AppendUserMessage
<1>2. k \in Keys /\ Sane(hs[h]) /\ hs[h] \in HandlerStates
  BY <1>1, InFlight, Now
<1>3. CASE Reply(h) /\ UNCHANGED <<session, msgs>>
  BY <1>1, <1>3, ReplyMoves
<1>4. CASE Goto(h, "context") /\ UNCHANGED <<session, msgs>> /\ UserMsgs(k) # {}
  BY <1>1, <1>4, Rest, GotoMoves DEF Appended
<1>5. CASE /\ ~AppendRefused(k) /\ UserMsgs(k) = {} /\ Goto(h, "context")
           /\ msgs' = Append(msgs, [role |-> "user", key |-> k, draft |-> NoDraft])
           /\ session' = [session EXCEPT !.pending = k]
  <2>1. PICK m : m = [role |-> "user", key |-> k, draft |-> NoDraft]
    OBVIOUS
  <2>2. m \in Messages /\ m.role = "user" /\ m.key = k /\ m.draft = NoDraft /\ msgs' = Append(msgs, m)
    BY <1>2, <1>5, <2>1 DEF Messages, OrNone
  <2>3. /\ session' \in Sessions /\ session'.pending = k /\ session'.rev = session.rev
        /\ session'.current = session.current
    BY <1>2, <1>5, Now DEF Sessions, OrNone
  <2>4. Len(msgs) % 2 = 0
    <3>1. Len(msgs) \in Nat /\ Len(msgs) % 2 \in {0, 1}
      BY Now, Parity
    <3>2. SUFFICES ASSUME Len(msgs) % 2 = 1 PROVE FALSE
      BY <3>1
    <3>3. Len(msgs) \in 1..Len(msgs)
      BY <3>1, <3>2
    <3>4. msgs[Len(msgs)].role = "user" /\ session.pending = msgs[Len(msgs)].key /\ session.pending \in Keys
      BY <3>2, <3>3, Now DEF Conversation
    <3>5. session.pending \in {NoDraft, k} /\ NoDraft \notin Keys
      BY <1>5, BuilderAssumption DEF AppendRefused
    <3>6. Len(msgs) \in UserMsgs(k)
      BY <3>3, <3>4, <3>5 DEF UserMsgs
    <3> QED BY <1>5, <3>6
  <2>5. Conversation'
    BY <1>5, <2>2, <2>3, <2>4, Alternates
  <2>6. Answered'
    BY <1>1, <2>2, <2>3, NoNewAnswer
  <2>7. Approved'
    BY <1>1, ApprovedKept DEF Approvable
  <2>8. PICK r : r = [hs[h] EXCEPT !.pc = "context"]
    OBVIOUS
  <2>9. hs' = [hs EXCEPT ![h] = r]
    BY <1>5, <2>8, Now DEF Goto
  <2>10. r \in HandlerStates /\ r.pc = "context" /\ r.key = k /\ r.cur = hs[h].cur /\ r.rev = hs[h].rev
    BY <1>2, <2>8 DEF HandlerStates
  <2>11. hs' \in [Handlers -> HandlerStates] /\ hs'[h] = r
    BY <2>9, <2>10, Now
  <2>12. \A g \in Handlers : g # h => Sane(hs[g])'
    BY <1>1, <2>2, <2>3, <2>9, <2>10, OthersSane
  <2>13. UserMsgs(hs[h].key)' # {}
    <3>1. Len(msgs) + 1 \in 1..Len(msgs') /\ msgs'[Len(msgs) + 1] = m
      BY <2>2, OneMore, Now
    <3>2. Len(msgs) + 1 \in UserMsgs(hs[h].key)'
      BY <2>2, <2>10, <2>11, <3>1 DEF UserMsgs
    <3> QED BY <3>2
  <2>14. Sane(hs[h])'
    <3>1. hs[h].rev <= session.rev /\ (hs[h].rev = session.rev => hs[h].cur = session.current)
      BY <1>1, <1>2 DEF Sane
    <3> QED BY <1>2, <2>3, <2>10, <2>11, <2>13, <3>1 DEF Sane, Appended
  <2>15. TypeOK'
    BY <1>1, <2>2, <2>3, <2>11, OneMore DEF IInv, TypeOK
  <2> QED BY <2>5, <2>6, <2>7, <2>12, <2>14, <2>15 DEF IInv, HandlersTrue
<1> QED BY <1>3, <1>4, <1>5 DEF AppendUserMessage

\* completeBuilderTurn.
LEMMA CompleteStep ==
    ASSUME IInv, NEW h \in Handlers, CompleteTurn(h)
    PROVE  IInv'
<1>0. PICK k : k = hs[h].key
  OBVIOUS
<1>1. hs[h].pc \in {"classify", "error"} /\ Reply(h) /\ UNCHANGED <<drafts, tasks, ap, flows, requests>>
  BY DEF CompleteTurn
<1>2. k \in Keys /\ Sane(hs[h]) /\ hs[h] \in HandlerStates /\ UserMsgs(k) # {}
  BY <1>0, <1>1, InFlight, Now DEF Appended
<1>3. CASE UNCHANGED <<session, msgs>>
  BY <1>1, <1>3, ReplyMoves
<1>4. CASE ~UNCHANGED <<session, msgs>>
  <2>1. PICK m : m = [role |-> "assistant", key |-> k, draft |-> IF hs[h].pc = "classify" THEN k ELSE NoDraft]
    OBVIOUS
  <2>2. /\ m \in Messages /\ m.role = "assistant" /\ m.key = k
        /\ m.draft = IF hs[h].pc = "classify" THEN k ELSE NoDraft
    BY <1>2, <2>1 DEF Messages, OrNone
  <2>3. /\ AssistantMsgs(k) = {} /\ session.rev = hs[h].rev /\ msgs' = Append(msgs, m)
        /\ session' = [session EXCEPT !.current = NewCurrent(h), !.rev = session.rev + 1, !.pending = NoDraft]
    BY <1>0, <1>4, <2>1 DEF CompleteTurn, CompleteRefused
  <2>4. NewCurrent(h) \in OrNone
    BY <1>0, <1>2, Now DEF NewCurrent, OrNone
  <2>5. /\ session' \in Sessions /\ session'.pending = NoDraft /\ session'.rev = session.rev + 1
        /\ session'.current = NewCurrent(h)
    <3>1. session \in Sessions /\ session.rev + 1 \in Nat /\ NoDraft \in OrNone
      BY Now DEF OrNone
    <3> QED BY <2>3, <2>4, <3>1 DEF Sessions
  <2>6. Len(msgs) % 2 = 1 /\ msgs[Len(msgs)].key = k
    <3>1. PICK i \in 1..Len(msgs) : msgs[i].role = "user" /\ msgs[i].key = k
      BY <1>2 DEF UserMsgs
    <3>2. i \in Nat /\ Len(msgs) \in Nat /\ i % 2 \in {0, 1} /\ (i + 1) % 2 = 1 - (i % 2)
      BY <3>1, Now, Parity
    <3>3. i % 2 = 1
      <4>1. IF i % 2 = 1 THEN msgs[i].role = "user" ELSE msgs[i].role = "assistant"
        BY <3>1, Now DEF Conversation
      <4> QED BY <3>1, <4>1
    <3>4. i = Len(msgs)
      <4>1. SUFFICES ASSUME i # Len(msgs) PROVE FALSE
        OBVIOUS
      <4>2. i + 1 \in 1..Len(msgs) /\ (i + 1) % 2 = 0 /\ (i + 1) - 1 = i
        BY <3>1, <3>2, <3>3, <4>1
      <4>3. msgs[i + 1].role = "assistant" /\ msgs[i + 1].key = msgs[(i + 1) - 1].key
        BY <4>2, Now DEF Conversation
      <4>4. i + 1 \in AssistantMsgs(k)
        BY <3>1, <4>2, <4>3 DEF AssistantMsgs
      <4> QED BY <2>3, <4>4
    <3> QED BY <3>1, <3>3, <3>4
  <2>7. Conversation'
    BY <2>2, <2>3, <2>5, <2>6, Alternates
  <2>8. hs[h].pc = "classify" => Final(k)
    BY <1>0, <1>2 DEF Sane
  <2>9. NoDraft \notin Keys
    BY BuilderAssumption
  <2>10. Answered'
    <3>1. CASE hs[h].pc = "classify" /\ drafts[k].vs = "valid"
      <4>1. NewCurrent(h) = k
        BY <1>0, <1>2, <2>9, <3>1 DEF NewCurrent, SpecHash
      <4> QED BY <1>1, <1>2, <2>2, <2>3, <2>5, <2>8, <2>9, <3>1, <4>1, NewAnswer
    <3>2. CASE ~(hs[h].pc = "classify" /\ drafts[k].vs = "valid")
      <4>1. NewCurrent(h) = hs[h].cur
        BY <1>0, <3>2 DEF NewCurrent, SpecHash
      <4>2. hs[h].cur = session.current
        BY <1>1, <1>2, <2>3 DEF Sane
      <4>3. m.draft # NoDraft => Final(m.draft) /\ drafts[m.draft].vs # "valid"
        BY <2>2, <2>8, <3>2
      <4> QED BY <1>1, <2>2, <2>3, <2>5, <4>1, <4>2, <4>3, NoNewAnswer
    <3> QED BY <3>1, <3>2
  <2>11. Approved'
    BY <1>1, ApprovedKept DEF Approvable
  <2>12. NoHandler \in HandlerStates /\ hs' = [hs EXCEPT ![h] = NoHandler] /\ NoHandler.pc = "idle"
    BY <1>1, HandlerFields DEF Reply, NoHandler
  <2>13. hs' \in [Handlers -> HandlerStates] /\ hs'[h] = NoHandler
    BY <2>12, Now
  <2>14. \A g \in Handlers : g # h => Sane(hs[g])'
    BY <1>1, <2>2, <2>3, <2>5, <2>12, OthersSane
  <2>15. Sane(hs[h])'
    BY <2>12, <2>13 DEF Sane
  <2>16. TypeOK'
    BY <1>1, <2>2, <2>3, <2>5, <2>13, OneMore DEF IInv, TypeOK
  <2> QED BY <2>7, <2>10, <2>11, <2>14, <2>15, <2>16 DEF IInv, HandlersTrue
<1> QED BY <1>3, <1>4

-----------------------------------------------------------------------------
(* The invariant *)

\* The session is created or archived; a crash loses the requests in flight.
LEMMA SessionStep ==
    ASSUME IInv, CreateSession \/ ArchiveSession
    PROVE  IInv'
<1>1. UNCHANGED <<msgs, drafts, tasks, hs, ap, flows, requests>>
  BY DEF CreateSession, ArchiveSession
<1>2. PICK s \in {"active", "archived"} : session' = [session EXCEPT !.status = s]
  BY DEF CreateSession, ArchiveSession
<1>3. /\ session' \in Sessions /\ session'.rev = session.rev /\ session'.current = session.current
      /\ session'.pending = session.pending
  BY <1>2, Now DEF Sessions
<1>4. TypeOK'
  BY <1>1, <1>3 DEF IInv, TypeOK
<1>5. Conversation' /\ HandlersTrue'
  BY <1>1, <1>3, Now DEF Conversation, HandlersTrue, Sane, UserMsgs, Final
<1>6. Answered' /\ Approved'
  BY <1>1, <1>3, Now DEF Answered, Approved, Latest, ValidAnswers, Final, Approvable
<1> QED BY <1>4, <1>5, <1>6 DEF IInv

LEMMA CrashStep ==
    ASSUME IInv, Crash
    PROVE  IInv'
<1>1. /\ UNCHANGED <<session, msgs, drafts, tasks, flows, requests>>
      /\ hs' = [h \in Handlers |-> NoHandler] /\ ap' = [a \in Approvers |-> NoApprover]
  BY DEF Crash
<1>2. /\ NoHandler \in HandlerStates /\ NoHandler.pc = "idle"
      /\ NoApprover \in ApproverStates /\ NoApprover.pc = "idle"
  BY DEF NoHandler, HandlerStates, NoApprover, ApproverStates, OrNone
<1>3. TypeOK'
  BY <1>1, <1>2 DEF IInv, TypeOK
<1>4. Conversation' /\ Answered'
  BY <1>1, Now DEF Conversation, Answered, Latest, ValidAnswers, Final
<1>5. HandlersTrue'
  BY <1>1, <1>2 DEF HandlersTrue, Sane
<1>6. Approved'
  BY <1>1, <1>2, Now DEF Approved, Approvable
<1> QED BY <1>3, <1>4, <1>5, <1>6 DEF IInv

LEMMA InitInv ==
    ASSUME Init
    PROVE  IInv
<1>1. /\ NoHandler \in HandlerStates /\ NoHandler.pc = "idle"
      /\ NoApprover \in ApproverStates /\ NoApprover.pc = "idle"
      /\ FreshDraft \in Drafts /\ FreshDraft.mat = FALSE
  BY DEF NoHandler, HandlerStates, NoApprover, ApproverStates, FreshDraft, Drafts, OrNone
<1>2. session \in Sessions /\ session.current = NoDraft /\ session.pending = NoDraft
  BY DEF Init, Sessions, OrNone
<1>3. msgs = <<>> /\ msgs \in Seq(Messages) /\ Len(msgs) = 0 /\ 1..Len(msgs) = {}
  BY DEF Init
<1>4. TypeOK
  BY <1>1, <1>2, <1>3, BuilderAssumption DEF Init, TypeOK
<1>5. ValidAnswers = {}
  BY <1>3 DEF ValidAnswers
<1>6. Conversation
  BY <1>2, <1>3 DEF Conversation
<1>7. Answered
  BY <1>2, <1>3, <1>5 DEF Answered
<1>8. HandlersTrue
  BY <1>1 DEF Init, HandlersTrue, Sane
<1>9. Approved
  BY <1>1 DEF Init, Approved
<1> QED BY <1>4, <1>6, <1>7, <1>8, <1>9 DEF IInv

LEMMA NextInv ==
    ASSUME IInv, [Next]_vars
    PROVE  IInv'
<1>1. CASE CreateSession \/ ArchiveSession
  BY <1>1, SessionStep
<1>2. CASE \E h \in Handlers, k \in Keys, e \in 0..session.rev : Receive(h, k, e)
  BY <1>2, ReceiveStep
<1>3. CASE \E h \in Handlers : ReplayOrRefuse(h) \/ Proceed(h) \/ CompileThrows(h) \/ FindDraft(h)
  BY <1>3, EarlyStep
<1>4. CASE \E h \in Handlers : AppendUserMessage(h)
  BY <1>4, AppendStep
<1>5. CASE \E h \in Handlers : \/ BuildContext(h) \/ TaskOutcome(h)
                               \/ \E answer \in Answers : CreateCompilerTask(h, answer)
  BY <1>5, FieldStep
<1>6. CASE \E h \in Handlers : (\E p \in BOOLEAN : CreateDraft(h, p)) \/ BindCompilerTask(h) \/ FinalizeDraft(h)
  BY <1>6, WriteDraft
<1>7. CASE \E h \in Handlers : CompleteTurn(h)
  BY <1>7, CompleteStep
<1>8. CASE Crash
  BY <1>8, CrashStep
<1>9. CASE \E a \in Approvers : \/ \E k \in Keys, hash \in Keys : ApproveReads(a, k, hash)
                                \/ Materialize(a) \/ ApproveDraft(a)
  BY <1>9, ApprovalStep
<1>10. CASE UNCHANGED vars
  <2>1. UNCHANGED <<session, msgs, drafts, tasks, hs, ap, flows, requests>>
    BY <1>10 DEF vars
  <2>2. TypeOK'
    BY <2>1 DEF IInv, TypeOK
  <2>3. Conversation' /\ HandlersTrue'
    BY <2>1, Now DEF Conversation, HandlersTrue, Sane, UserMsgs, Final
  <2>4. Answered' /\ Approved'
    BY <2>1, Now DEF Answered, Approved, Latest, ValidAnswers, Final, Approvable
  <2> QED BY <2>2, <2>3, <2>4 DEF IInv
<1> QED BY <1>1, <1>2, <1>3, <1>4, <1>5, <1>6, <1>7, <1>8, <1>9, <1>10 DEF Next

\* The invariant holds of every behaviour: concurrent messages and retries, compiles that race,
\* approvals, and crashes between any two of their transactions.
THEOREM Invariance == Spec => []IInv
<1>1. Init => IInv
  BY InitInv
<1>2. IInv /\ [Next]_vars => IInv'
  BY NextInv
<1> QED BY <1>1, <1>2, PTL DEF Spec

-----------------------------------------------------------------------------
(* The properties *)

\* The builder's state is always of its type.
THEOREM TypeCorrect == Spec => []TypeOK
<1>1. IInv => TypeOK
  BY DEF IInv
<1> QED BY <1>1, Invariance, PTL

\* The one user message a reader takes for the turn in flight.
LEMMA OnePending ==
    ASSUME IInv
    PROVE  PendingTurn = IF Len(msgs) % 2 = 1 THEN {Len(msgs)} ELSE {}
<1> DEFINE n == Len(msgs)
<1>1. n \in Nat /\ n % 2 \in {0, 1} /\ Conversation /\ NoDraft \notin Keys
  BY Now, Parity, BuilderAssumption
<1>2. CASE n % 2 = 1
  <2>1. n \in 1..n
    BY <1>1, <1>2
  <2>2. msgs[n].role = "user" /\ session.pending = msgs[n].key /\ session.pending \in Keys
    BY <1>1, <1>2, <2>1, Now DEF Conversation
  <2>3. \A i \in 1..n : msgs[i].role = "user" /\ msgs[i].key = session.pending => i = n
    BY <1>1, <2>1, <2>2 DEF Conversation
  <2>4. PendingTurn = {n}
    BY <1>1, <2>1, <2>2, <2>3 DEF PendingTurn, UserMsgs
  <2> QED BY <1>2, <2>4
<1>3. CASE n % 2 = 0
  <2>1. session.pending = NoDraft
    BY <1>1, <1>3 DEF Conversation
  <2> QED BY <1>3, <2>1 DEF PendingTurn
<1> QED BY <1>1, <1>2, <1>3

\* Turns never overtake each other, whatever requests, retries and crashes interleave: messages
\* alternate, every answer follows its own question, and the pending marker is the last question
\* while it has no answer (appendBuilderUserMessage, completeBuilderTurn).
THEOREM SerialTurns == Spec => []TurnsAreSerial
<1>1. IInv => TurnsAreSerial
  <2> SUFFICES ASSUME IInv PROVE TurnsAreSerial
    OBVIOUS
  <2>1. Conversation
    BY Now
  <2> QED BY <2>1, OnePending DEF TurnsAreSerial, Conversation
<1> QED BY <1>1, Invariance, PTL

\* The session's current draft is that of the latest answer with a validated one: a request that
\* read the session before another turn completed never puts an older pointer back
\* (completeBuilderTurn).
THEOREM LatestIsCurrent == Spec => []CurrentIsLatestValid
<1>1. IInv => CurrentIsLatestValid
  <2> SUFFICES ASSUME IInv PROVE CurrentIsLatestValid
    OBVIOUS
  <2>1. CASE session.current = NoDraft
    BY <2>1, Now DEF Answered, CurrentIsLatestValid
  <2>2. CASE session.current # NoDraft
    <3>1. PICK i \in 1..Len(msgs) : Latest(i) /\ msgs[i].draft = session.current
      BY <2>2, Now DEF Answered
    <3>2. ValidAnswers \subseteq Nat /\ i \in Nat
      BY <3>1, Now DEF ValidAnswers
    <3>3. i \in ValidAnswers /\ \A j \in ValidAnswers : i >= j
      BY <3>1, <3>2 DEF Latest
    <3>4. \A x \in ValidAnswers : (\A j \in ValidAnswers : x >= j) => x = i
      BY <3>2, <3>3
    <3>5. Max(ValidAnswers) = i
      BY <3>3, <3>4 DEF Max
    <3> QED BY <3>1, <3>3, <3>5 DEF CurrentIsLatestValid
  <2> QED BY <2>1, <2>2
<1> QED BY <1>1, Invariance, PTL

\* An approval stands for what was inspected: every workflow made is of a draft that is and stays
\* ready and valid with the approved hash, whatever compiles still run for it (approve,
\* finalizeDraft).
THEOREM ApprovalsHold == Spec => []ApprovedIsInspected
<1>1. IInv => ApprovedIsInspected
  <2> SUFFICES ASSUME IInv PROVE ApprovedIsInspected
    OBVIOUS
  <2>1. Approved
    BY Now
  <2> QED BY <2>1 DEF Approved, ApprovedIsInspected, Approvable, SpecHash
<1> QED BY <1>1, Invariance, PTL
=============================================================================
