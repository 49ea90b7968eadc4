------------------------ MODULE GatewayAdmission_proof ------------------------
(***************************************************************************)
(* Proofs about GatewayAdmission, for every finite set of requests, every  *)
(* set of request bodies, every cap and any number of crashes and failing  *)
(* statements of the control database.                                     *)
(***************************************************************************)
EXTENDS GatewayAdmission, FiniteSetTheorems, TLAPS

HasRow(r) == row[r].status # "none"
InFlight == {"preflight", "starting"}

\* What is known of a request at each point of its handler: nothing was sent before the row was
\* written, nothing but a start that reached the Node made a remote run, and only a handler that
\* is through has answered.
Phases ==
  \A r \in Reqs :
    /\ req[r].pc \in {"idle", "preflight"} => ~HasRow(r) /\ run[r] = "none" /\ start[r] = "unsent"
    /\ req[r].pc = "preflight" => IsRemote(req[r].body)
    /\ req[r].pc = "starting" => HasRow(r) /\ mem[r] = "absent"
    /\ req[r].pc \in InFlight => up # "down"
    /\ mem[r] # "absent" => HasRow(r)
    /\ req[r].pc \in InFlight \cup {"idle", "lost"} => reply[r] = "none"
    /\ start[r] # "unsent" => IsRemote(req[r].body) /\ HasRow(r)
    /\ start[r] \in {"unsent", "sent", "refused"} /\ IsRemote(req[r].body) => run[r] = "none"

\* The unique index on the idempotency key.
OneRowPerKey ==
  \A r, t \in Reqs : HasRow(r) /\ HasRow(t) /\ Key(r) = Key(t) /\ Key(r) # "absent" => r = t

\* An answer names a durable task of the request's own key; a conflict has a rival of that key.
RepliesTrue ==
  \A r \in Reqs :
    /\ reply[r] \in Reqs => HasRow(reply[r]) /\ Key(reply[r]) = Key(r)
    /\ reply[r] = "conflict" =>
         \E u \in Reqs : /\ HasRow(u) /\ Key(u) = Key(r) /\ Key(r) # "absent"
                         /\ ~SameRequest(req[u].body, req[r].body)

\* A final error is given only to a request whose start was never sent or was refused.
FinalSettled ==
  \A r \in Reqs : reply[r] \in {"fatal", "conflict"} => start[r] \in {"unsent", "refused"} /\ run[r] # "live"

IInv == TypeOK /\ Phases /\ OneRowPerKey /\ RepliesTrue /\ FinalSettled /\ SlotsAccounted

-----------------------------------------------------------------------------
(* Counting *)

\* A set of requests is finite: adding or removing one changes its size by one.
LEMMA CountOne ==
  ASSUME NEW S \in SUBSET Reqs, NEW r \in Reqs
  PROVE  /\ Cardinality(S) \in Nat
         /\ r \notin S => Cardinality(S \cup {r}) = Cardinality(S) + 1
         /\ r \in S => Cardinality(S \ {r}) = Cardinality(S) - 1 /\ Cardinality(S) - 1 \in Nat
<1>1. IsFiniteSet(S)
  BY FS_Subset, AdmissionAssumption
<1>2. Cardinality(S) \in Nat /\ Cardinality(S \ {r}) \in Nat
  BY <1>1, FS_CardinalityType, FS_RemoveElement
<1>3. r \notin S => Cardinality(S \cup {r}) = Cardinality(S) + 1
  BY <1>1, FS_AddElement
<1>4. r \in S => Cardinality(S \ {r}) = Cardinality(S) - 1
  BY <1>1, FS_RemoveElement
<1> QED BY <1>2, <1>3, <1>4

Pending == {r \in Reqs : req[r].pc \in {"preflight", "starting", "leaked"}}
Refreed == {r \in Reqs : req[r].pc = "refreed"}
Active == {r \in Reqs : mem[r] = "active"}

\* The errors a caller sees are of two classes.
LEMMA ClassifyType == \A c : Classify(c) \in {"transient", "fatal"}
BY DEF Classify

-----------------------------------------------------------------------------
(* What every step keeps *)

\* A durable task stays, and keeps the body it was made from; so does an answer.
Durable ==
  /\ \A u \in Reqs : HasRow(u) => row'[u].status # "none" /\ req'[u].body = req[u].body
  /\ \A t \in Reqs : reply[t] # "none" => reply'[t] = reply[t] /\ req'[t].body = req[t].body

\* A new answer is an error, the request's own durable task, or what the row of its key says.
Answered(t) ==
  \/ reply'[t] \in {"transient", "fatal"}
  \/ reply'[t] = t /\ row'[t].status # "none"
  \/ \E u \in Reqs :
       /\ HasRow(u) /\ req[u].body.idempotency_key = req'[t].body.idempotency_key
       /\ req[u].body.idempotency_key # "absent"
       /\ reply'[t] = IF SameRequest(req[u].body, req'[t].body) THEN u ELSE "conflict"

\* So answers stay true.
LEMMA RepliesStayTrue ==
  ASSUME IInv, Durable, \A t \in Reqs : reply[t] = "none" => reply'[t] = "none" \/ Answered(t)
  PROVE  RepliesTrue'
<1> SUFFICES ASSUME NEW t \in Reqs
             PROVE  /\ reply'[t] \in Reqs =>
                         row'[reply'[t]].status # "none"
                         /\ req'[reply'[t]].body.idempotency_key = req'[t].body.idempotency_key
                    /\ reply'[t] = "conflict" =>
                         \E u \in Reqs :
                           /\ row'[u].status # "none"
                           /\ req'[u].body.idempotency_key = req'[t].body.idempotency_key
                           /\ req'[t].body.idempotency_key # "absent"
                           /\ ~SameRequest(req'[u].body, req'[t].body)
  BY DEF RepliesTrue, HasRow, Key, SameRequest
<1>1. CASE reply[t] # "none"
  <2>1. reply'[t] = reply[t] /\ req'[t].body = req[t].body
    BY <1>1 DEF Durable
  <2> QED BY <2>1 DEF IInv, RepliesTrue, Durable, HasRow, Key
<1>2. CASE reply[t] = "none" /\ reply'[t] = "none"
  BY <1>2, AdmissionAssumption
<1>3. CASE reply[t] = "none" /\ Answered(t)
  <2>1. CASE reply'[t] \in {"transient", "fatal"}
    BY <2>1, AdmissionAssumption
  <2>2. CASE reply'[t] = t /\ row'[t].status # "none"
    BY <2>2, AdmissionAssumption
  <2>3. ASSUME NEW u \in Reqs, HasRow(u),
               req[u].body.idempotency_key = req'[t].body.idempotency_key,
               req[u].body.idempotency_key # "absent",
               reply'[t] = IF SameRequest(req[u].body, req'[t].body) THEN u ELSE "conflict"
        PROVE  /\ reply'[t] \in Reqs =>
                    row'[reply'[t]].status # "none"
                    /\ req'[reply'[t]].body.idempotency_key = req'[t].body.idempotency_key
               /\ reply'[t] = "conflict" =>
                    \E v \in Reqs :
                      /\ row'[v].status # "none"
                      /\ req'[v].body.idempotency_key = req'[t].body.idempotency_key
                      /\ req'[t].body.idempotency_key # "absent"
                      /\ ~SameRequest(req'[v].body, req'[t].body)
    <3>1. row'[u].status # "none" /\ req'[u].body = req[u].body
      BY <2>3 DEF Durable
    <3>2. "conflict" \notin Reqs
      BY AdmissionAssumption
    <3> QED BY <2>3, <3>1, <3>2
  <2> QED BY <1>3, <2>1, <2>2, <2>3 DEF Answered
<1> QED BY <1>1, <1>2, <1>3

\* The counters stay right when no handler holds or gives back a slot and no task changes sides.
LEMMA SlotsStay ==
  ASSUME IInv, Pending' = Pending, Refreed' = Refreed, Active' = Active,
         UNCHANGED <<pendingCreates, activeCount>>
  PROVE  SlotsAccounted'
BY DEF IInv, SlotsAccounted, Pending, Refreed, Active

\* They stay right when one handler takes a slot or frees it, once or once more, and when one task
\* becomes or ceases to be active.
LEMMA SlotsMove ==
  ASSUME IInv, NEW r \in Reqs,
         \/ Refreed' = Refreed /\ Pending' = Pending /\ UNCHANGED pendingCreates
         \/ Refreed' = Refreed /\ Pending' = Pending \cup {r} /\ r \notin Pending /\ pendingCreates' = pendingCreates + 1
         \/ Refreed' = Refreed /\ Pending' = Pending \ {r} /\ r \in Pending /\ pendingCreates' = pendingCreates - 1
         \/ Refreed' = Refreed \cup {r} /\ r \notin Refreed /\ Pending' = Pending /\ pendingCreates' = pendingCreates - 1,
         \/ Active' = Active /\ UNCHANGED activeCount
         \/ Active' = Active \cup {r} /\ r \notin Active /\ activeCount' = activeCount + 1
         \/ Active' = Active \ {r} /\ r \in Active /\ activeCount' = activeCount - 1
  PROVE  SlotsAccounted'
<1>1. Pending \in SUBSET Reqs /\ Refreed \in SUBSET Reqs /\ Active \in SUBSET Reqs
  BY DEF Pending, Refreed, Active
<1>2. pendingCreates = Cardinality(Pending) - Cardinality(Refreed) /\ activeCount = Cardinality(Active)
  BY DEF IInv, SlotsAccounted, Pending, Refreed, Active
<1>3. pendingCreates' = Cardinality(Pending') - Cardinality(Refreed')
  <2>1. /\ Cardinality(Pending) \in Nat /\ Cardinality(Refreed) \in Nat
        /\ r \notin Pending => Cardinality(Pending \cup {r}) = Cardinality(Pending) + 1
        /\ r \in Pending => Cardinality(Pending \ {r}) = Cardinality(Pending) - 1
        /\ r \notin Refreed => Cardinality(Refreed \cup {r}) = Cardinality(Refreed) + 1
    BY <1>1, CountOne
  <2>2. CASE Refreed' = Refreed /\ Pending' = Pending /\ UNCHANGED pendingCreates
    BY <1>2, <2>2
  <2>3. CASE /\ Refreed' = Refreed /\ Pending' = Pending \cup {r} /\ r \notin Pending
             /\ pendingCreates' = pendingCreates + 1
    BY <1>2, <2>1, <2>3
  <2>4. CASE /\ Refreed' = Refreed /\ Pending' = Pending \ {r} /\ r \in Pending
             /\ pendingCreates' = pendingCreates - 1
    BY <1>2, <2>1, <2>4
  <2>5. CASE /\ Refreed' = Refreed \cup {r} /\ r \notin Refreed /\ Pending' = Pending
             /\ pendingCreates' = pendingCreates - 1
    BY <1>2, <2>1, <2>5
  <2> QED BY <2>2, <2>3, <2>4, <2>5
<1>4. activeCount' = Cardinality(Active')
  BY <1>1, <1>2, CountOne
<1> QED BY <1>3, <1>4 DEF SlotsAccounted, Pending, Refreed, Active

\* An active task is counted.
LEMMA Counted ==
  ASSUME IInv, NEW r \in Reqs, mem[r] = "active"
  PROVE  activeCount - 1 \in Nat
<1>1. activeCount = Cardinality(Active)
  BY DEF IInv, SlotsAccounted, Active
<1>2. Active \in SUBSET Reqs
  BY DEF Active
<1> QED BY <1>1, <1>2, CountOne DEF Active

-----------------------------------------------------------------------------
(* handleCreate *)

\* A refused body leaves nothing behind.
LEMMA CreateInvalidPreserves ==
  ASSUME IInv, NEW r \in Reqs, NEW b \in Bodies, CreateInvalid(r, b)
  PROVE  IInv'
<1> USE DEF IInv, HasRow, Key, CreateInvalid, Fresh, Goto, Answer
<1>1. TypeOK'
  BY AdmissionAssumption, ClassifyType, SMTT(30) DEF TypeOK, PCs, Errors, Statuses, InFlight
<1>2. Phases'
  BY DEF TypeOK, Phases, InFlight
<1>3. OneRowPerKey'
  BY DEF TypeOK, Phases, OneRowPerKey
<1>4. RepliesTrue'
  <2>1. Durable
    BY DEF TypeOK, Phases, Durable, InFlight
  <2>2. \A t \in Reqs : reply[t] = "none" => reply'[t] = "none" \/ Answered(t)
    BY ClassifyType DEF TypeOK, Phases, Answered
  <2> QED BY <2>1, <2>2, RepliesStayTrue
<1>5. FinalSettled'
  BY AdmissionAssumption DEF TypeOK, Phases, FinalSettled, InFlight
<1>6. SlotsAccounted'
  <2>1. Pending' = Pending /\ Refreed' = Refreed /\ Active' = Active
    BY DEF TypeOK, Pending, Refreed, Active
  <2> QED BY <2>1, SlotsStay
<1> QED BY <1>1, <1>2, <1>3, <1>4, <1>5, <1>6

\* A replayed request is answered from the row of its key.
LEMMA CreateReplayedPreserves ==
  ASSUME IInv, NEW r \in Reqs, NEW b \in Bodies, CreateReplayed(r, b)
  PROVE  IInv'
<1> USE DEF IInv, HasRow, Key, CreateReplayed, Fresh, At, Answer, TasksOfKey
<1>1. TypeOK'
  BY AdmissionAssumption DEF TypeOK, PCs, Errors, Statuses, InFlight
<1>2. Phases'
  BY DEF TypeOK, Phases, InFlight
<1>3. OneRowPerKey'
  BY DEF TypeOK, Phases, OneRowPerKey
<1>4. RepliesTrue'
  <2>1. Durable
    BY DEF TypeOK, Phases, Durable, InFlight
  <2>2. \A t \in Reqs : reply[t] = "none" => reply'[t] = "none" \/ Answered(t)
    BY DEF TypeOK, Phases, Answered
  <2> QED BY <2>1, <2>2, RepliesStayTrue
<1>5. FinalSettled'
  BY AdmissionAssumption DEF TypeOK, Phases, FinalSettled, InFlight
<1>6. SlotsAccounted'
  <2>1. Pending' = Pending /\ Refreed' = Refreed /\ Active' = Active
    BY DEF TypeOK, Pending, Refreed, Active
  <2> QED BY <2>1, SlotsStay
<1> QED BY <1>1, <1>2, <1>3, <1>4, <1>5, <1>6

\* At the cap the request is turned away, whatever its pre-check said.
LEMMA CreateRefusedPreserves ==
  ASSUME IInv, NEW r \in Reqs, NEW b \in Bodies, CreateRefused(r, b)
  PROVE  IInv'
<1> USE DEF IInv, HasRow, Key, CreateRefused, Fresh, At, Answer, PreCheckPasses, StoreWorks, StoreFails, Faults, TasksOfKey
<1>1. TypeOK'
  BY AdmissionAssumption, ClassifyType DEF TypeOK, PCs, Errors, Statuses, InFlight
<1>2. Phases'
  BY DEF TypeOK, Phases, InFlight
<1>3. OneRowPerKey'
  BY DEF TypeOK, Phases, OneRowPerKey
<1>4. RepliesTrue'
  <2>1. Durable
    BY DEF TypeOK, Phases, Durable, InFlight
  <2>2. \A t \in Reqs : reply[t] = "none" => reply'[t] = "none" \/ Answered(t)
    BY ClassifyType DEF TypeOK, Phases, Answered
  <2> QED BY <2>1, <2>2, RepliesStayTrue
<1>5. FinalSettled'
  BY AdmissionAssumption DEF TypeOK, Phases, FinalSettled, InFlight
<1>6. SlotsAccounted'
  <2>1. Pending' = Pending /\ Refreed' = Refreed /\ Active' = Active
    BY DEF TypeOK, Pending, Refreed, Active
  <2> QED BY <2>1, SlotsStay
<1> QED BY <1>1, <1>2, <1>3, <1>4, <1>5, <1>6

\* A remote request takes its slot.
LEMMA CreateRemotePreserves ==
  ASSUME IInv, NEW r \in Reqs, NEW b \in Bodies, CreateRemote(r, b)
  PROVE  IInv'
<1> USE DEF IInv, HasRow, Key, CreateRemote, Fresh, At, PreCheckPasses, StoreWorks, StoreFails, Faults, TasksOfKey
<1>1. TypeOK'
  BY AdmissionAssumption DEF TypeOK, PCs, Errors, Statuses, InFlight
<1>2. Phases'
  BY DEF TypeOK, Phases, InFlight
<1>3. OneRowPerKey'
  BY DEF TypeOK, Phases, OneRowPerKey
<1>4. RepliesTrue'
  <2>1. Durable
    BY DEF TypeOK, Phases, Durable, InFlight
  <2>2. \A t \in Reqs : reply'[t] = reply[t]
    OBVIOUS
  <2> QED BY <2>1, <2>2, RepliesStayTrue
<1>5. FinalSettled'
  BY AdmissionAssumption DEF TypeOK, Phases, FinalSettled, InFlight
<1>6. SlotsAccounted'
  <2>1. Pending' = Pending \cup {r} /\ r \notin Pending /\ Refreed' = Refreed /\ Active' = Active
    BY DEF TypeOK, Pending, Refreed, Active
  <2> QED BY <2>1, SlotsMove
<1> QED BY <1>1, <1>2, <1>3, <1>4, <1>5, <1>6

\* A local request makes its row under a key nobody holds.
LEMMA CreateLocalPreserves ==
  ASSUME IInv, NEW r \in Reqs, NEW b \in Bodies, CreateLocal(r, b)
  PROVE  IInv'
<1> USE DEF IInv, HasRow, Key, CreateLocal, Fresh, At, Answer, StoreWorks, TasksOfKey
<1>1. TypeOK'
  BY AdmissionAssumption DEF TypeOK, PCs, Errors, Statuses, InFlight
<1>2. Phases'
  BY DEF TypeOK, Phases, InFlight
<1>3. OneRowPerKey'
  BY DEF TypeOK, Phases, OneRowPerKey
<1>4. RepliesTrue'
  <2>1. Durable
    BY DEF TypeOK, Phases, Durable, InFlight
  <2>2. \A t \in Reqs : reply[t] = "none" => reply'[t] = "none" \/ Answered(t)
    BY DEF TypeOK, Phases, Answered
  <2> QED BY <2>1, <2>2, RepliesStayTrue
<1>5. FinalSettled'
  BY AdmissionAssumption DEF TypeOK, Phases, FinalSettled, InFlight
<1>6. SlotsAccounted'
  <2>1. Active' = Active \cup {r} /\ r \notin Active /\ Pending' = Pending /\ Refreed' = Refreed
    BY DEF TypeOK, Phases, Pending, Refreed, Active
  <2> QED BY <2>1, SlotsMove
<1> QED BY <1>1, <1>2, <1>3, <1>4, <1>5, <1>6

\* A local start that fails before its run exists leaves nothing behind.
LEMMA CreateLocalFailsPreserves ==
  ASSUME IInv, NEW r \in Reqs, NEW b \in Bodies, CreateLocalFails(r, b)
  PROVE  IInv'
<1> USE DEF IInv, HasRow, Key, CreateLocalFails, Fresh, At, Answer, PreCheckPasses, StoreWorks, StoreFails, Faults, TasksOfKey
<1>1. TypeOK'
  BY AdmissionAssumption, ClassifyType DEF TypeOK, PCs, Errors, Statuses, InFlight
<1>2. Phases'
  BY DEF TypeOK, Phases, InFlight
<1>3. OneRowPerKey'
  BY DEF TypeOK, Phases, OneRowPerKey
<1>4. RepliesTrue'
  <2>1. Durable
    BY DEF TypeOK, Phases, Durable, InFlight
  <2>2. \A t \in Reqs : reply[t] = "none" => reply'[t] = "none" \/ Answered(t)
    BY ClassifyType DEF TypeOK, Phases, Answered
  <2> QED BY <2>1, <2>2, RepliesStayTrue
<1>5. FinalSettled'
  BY AdmissionAssumption DEF TypeOK, Phases, FinalSettled, InFlight
<1>6. SlotsAccounted'
  <2>1. Pending' = Pending /\ Refreed' = Refreed /\ Active' = Active
    BY DEF TypeOK, Pending, Refreed, Active
  <2> QED BY <2>1, SlotsStay
<1> QED BY <1>1, <1>2, <1>3, <1>4, <1>5, <1>6

\* A node that does not qualify frees the slot.
LEMMA PreflightFailsPreserves ==
  ASSUME IInv, NEW r \in Reqs, PreflightFails(r)
  PROVE  IInv'
<1> USE DEF IInv, HasRow, Key, PreflightFails, Goto, Answer
<1>1. TypeOK'
  <2>1. pendingCreates' \in Int /\ storeFaults' \in 0 .. MaxStoreFaults
    BY AdmissionAssumption DEF TypeOK
  <2>2. req' \in [Reqs -> [body : Bodies, pc : PCs]]
    BY DEF TypeOK, PCs
  <2>3. reply' \in [Reqs -> Reqs \cup Errors]
    BY ClassifyType DEF TypeOK, Errors
  <2> QED BY <2>1, <2>2, <2>3 DEF TypeOK, Statuses
<1>2. Phases'
  BY DEF TypeOK, Phases, InFlight
<1>3. OneRowPerKey'
  BY DEF TypeOK, Phases, OneRowPerKey
<1>4. RepliesTrue'
  <2>1. Durable
    BY DEF TypeOK, Phases, Durable, InFlight
  <2>2. \A t \in Reqs : reply[t] = "none" => reply'[t] = "none" \/ Answered(t)
    BY ClassifyType DEF TypeOK, Phases, Answered
  <2> QED BY <2>1, <2>2, RepliesStayTrue
<1>5. FinalSettled'
  BY AdmissionAssumption DEF TypeOK, Phases, FinalSettled, InFlight
<1>6. SlotsAccounted'
  <2>1. Pending' = Pending \ {r} /\ r \in Pending /\ Refreed' = Refreed /\ Active' = Active
    BY DEF TypeOK, Pending, Refreed, Active
  <2> QED BY <2>1, SlotsMove
<1> QED BY <1>1, <1>2, <1>3, <1>4, <1>5, <1>6

\* The row is written under a key nobody holds, before the start is sent.
LEMMA PreflightOkPreserves ==
  ASSUME IInv, NEW r \in Reqs, PreflightOk(r)
  PROVE  IInv'
<1> USE DEF IInv, HasRow, Key, PreflightOk, Goto, StoreWorks, PersistCreate, TasksOfKey
<1>1. TypeOK'
  BY AdmissionAssumption DEF TypeOK, PCs, Errors, Statuses, InFlight
<1>2. Phases'
  BY DEF TypeOK, Phases, InFlight
<1>3. OneRowPerKey'
  BY DEF TypeOK, Phases, OneRowPerKey
<1>4. RepliesTrue'
  <2>1. Durable
    BY DEF TypeOK, Phases, Durable, InFlight
  <2>2. \A t \in Reqs : reply'[t] = reply[t]
    OBVIOUS
  <2> QED BY <2>1, <2>2, RepliesStayTrue
<1>5. FinalSettled'
  BY AdmissionAssumption DEF TypeOK, Phases, FinalSettled, InFlight
<1>6. SlotsAccounted'
  <2>1. Pending' = Pending /\ Refreed' = Refreed /\ Active' = Active
    BY DEF TypeOK, Pending, Refreed, Active
  <2> QED BY <2>1, SlotsStay
<1> QED BY <1>1, <1>2, <1>3, <1>4, <1>5, <1>6

\* The loser of a race is answered from the winner.
LEMMA PreflightLosesPreserves ==
  ASSUME IInv, NEW r \in Reqs, PreflightLoses(r)
  PROVE  IInv'
<1> USE DEF IInv, HasRow, Key, PreflightLoses, Goto, Answer, PersistCreate, TasksOfKey
<1>1. TypeOK'
  <2>1. pendingCreates' \in Int /\ storeFaults' \in 0 .. MaxStoreFaults
    BY AdmissionAssumption DEF TypeOK
  <2>2. req' \in [Reqs -> [body : Bodies, pc : PCs]]
    BY DEF TypeOK, PCs
  <2>3. reply' \in [Reqs -> Reqs \cup Errors]
    BY DEF TypeOK, Errors
  <2> QED BY <2>1, <2>2, <2>3 DEF TypeOK, Statuses
<1>2. Phases'
  BY DEF TypeOK, Phases, InFlight
<1>3. OneRowPerKey'
  BY DEF TypeOK, Phases, OneRowPerKey
<1>4. RepliesTrue'
  <2>1. Durable
    BY DEF TypeOK, Phases, Durable, InFlight
  <2>2. \A t \in Reqs : reply[t] = "none" => reply'[t] = "none" \/ Answered(t)
    BY DEF TypeOK, Phases, Answered
  <2> QED BY <2>1, <2>2, RepliesStayTrue
<1>5. FinalSettled'
  BY AdmissionAssumption DEF TypeOK, Phases, FinalSettled, InFlight
<1>6. SlotsAccounted'
  <2>1. Pending' = Pending \ {r} /\ r \in Pending /\ Refreed' = Refreed /\ Active' = Active
    BY DEF TypeOK, Pending, Refreed, Active
  <2> QED BY <2>1, SlotsMove
<1> QED BY <1>1, <1>2, <1>3, <1>4, <1>5, <1>6

\* An insert that fails frees the slot.
LEMMA PreflightStoreFailsPreserves ==
  ASSUME IInv, NEW r \in Reqs, PreflightStoreFails(r)
  PROVE  IInv'
<1> USE DEF IInv, HasRow, Key, PreflightStoreFails, Goto, Answer, StoreFails, Faults
<1>1. TypeOK'
  <2>1. pendingCreates' \in Int /\ storeFaults' \in 0 .. MaxStoreFaults
    BY AdmissionAssumption DEF TypeOK
  <2>2. req' \in [Reqs -> [body : Bodies, pc : PCs]]
    BY DEF TypeOK, PCs
  <2>3. reply' \in [Reqs -> Reqs \cup Errors]
    BY ClassifyType DEF TypeOK, Errors
  <2> QED BY <2>1, <2>2, <2>3 DEF TypeOK, Statuses
<1>2. Phases'
  BY DEF TypeOK, Phases, InFlight
<1>3. OneRowPerKey'
  BY DEF TypeOK, Phases, OneRowPerKey
<1>4. RepliesTrue'
  <2>1. Durable
    BY DEF TypeOK, Phases, Durable, InFlight
  <2>2. \A t \in Reqs : reply[t] = "none" => reply'[t] = "none" \/ Answered(t)
    BY ClassifyType DEF TypeOK, Phases, Answered
  <2> QED BY <2>1, <2>2, RepliesStayTrue
<1>5. FinalSettled'
  BY AdmissionAssumption DEF TypeOK, Phases, FinalSettled, InFlight
<1>6. SlotsAccounted'
  <2>1. Pending' = Pending \ {r} /\ r \in Pending /\ Refreed' = Refreed /\ Active' = Active
    BY DEF TypeOK, Pending, Refreed, Active
  <2> QED BY <2>1, SlotsMove
<1> QED BY <1>1, <1>2, <1>3, <1>4, <1>5, <1>6

\* A prompt file that cannot be written leaves the slot of a remote request held.
LEMMA PreflightPromptFailsPreserves ==
  ASSUME IInv, NEW r \in Reqs, PreflightPromptFails(r)
  PROVE  IInv'
<1> USE DEF IInv, HasRow, Key, PreflightPromptFails, Goto, Answer, StoreFails, Faults
<1>1. TypeOK'
  <2>1. pendingCreates' \in Int /\ storeFaults' \in 0 .. MaxStoreFaults
    BY AdmissionAssumption DEF TypeOK
  <2>2. req' \in [Reqs -> [body : Bodies, pc : PCs]]
    BY DEF TypeOK, PCs
  <2>3. reply' \in [Reqs -> Reqs \cup Errors]
    BY ClassifyType DEF TypeOK, Errors
  <2> QED BY <2>1, <2>2, <2>3 DEF TypeOK, Statuses
<1>2. Phases'
  BY DEF TypeOK, Phases, InFlight
<1>3. OneRowPerKey'
  BY DEF TypeOK, Phases, OneRowPerKey
<1>4. RepliesTrue'
  <2>1. Durable
    BY DEF TypeOK, Phases, Durable, InFlight
  <2>2. \A t \in Reqs : reply[t] = "none" => reply'[t] = "none" \/ Answered(t)
    BY ClassifyType DEF TypeOK, Phases, Answered
  <2> QED BY <2>1, <2>2, RepliesStayTrue
<1>5. FinalSettled'
  BY AdmissionAssumption DEF TypeOK, Phases, FinalSettled, InFlight
<1>6. SlotsAccounted'
  <2>1. Pending' = Pending /\ Refreed' = Refreed /\ Active' = Active
    BY DEF TypeOK, Pending, Refreed, Active
  <2> QED BY <2>1, SlotsStay
<1> QED BY <1>1, <1>2, <1>3, <1>4, <1>5, <1>6

\* And that of a local one.
LEMMA CreateLocalPromptFailsPreserves ==
  ASSUME IInv, NEW r \in Reqs, NEW b \in Bodies, CreateLocalPromptFails(r, b)
  PROVE  IInv'
<1> USE DEF IInv, HasRow, Key, CreateLocalPromptFails, Fresh, At, Answer, StoreFails, Faults
<1>1. TypeOK'
  <2>1. pendingCreates' \in Int /\ storeFaults' \in 0 .. MaxStoreFaults
    BY AdmissionAssumption DEF TypeOK
  <2>2. req' \in [Reqs -> [body : Bodies, pc : PCs]]
    BY DEF TypeOK, PCs
  <2>3. reply' \in [Reqs -> Reqs \cup Errors]
    BY ClassifyType DEF TypeOK, Errors
  <2> QED BY <2>1, <2>2, <2>3 DEF TypeOK, Statuses
<1>2. Phases'
  BY DEF TypeOK, Phases, InFlight
<1>3. OneRowPerKey'
  BY DEF TypeOK, Phases, OneRowPerKey
<1>4. RepliesTrue'
  <2>1. Durable
    BY DEF TypeOK, Phases, Durable, InFlight
  <2>2. \A t \in Reqs : reply[t] = "none" => reply'[t] = "none" \/ Answered(t)
    BY ClassifyType DEF TypeOK, Phases, Answered
  <2> QED BY <2>1, <2>2, RepliesStayTrue
<1>5. FinalSettled'
  BY AdmissionAssumption DEF TypeOK, Phases, FinalSettled, InFlight
<1>6. SlotsAccounted'
  <2>1. Pending' = Pending \cup {r} /\ r \notin Pending /\ Refreed' = Refreed /\ Active' = Active
    BY DEF TypeOK, Pending, Refreed, Active
  <2> QED BY <2>1, SlotsMove
<1> QED BY <1>1, <1>2, <1>3, <1>4, <1>5, <1>6

\* What may go wrong with a start is retryable unless the Node or the relay refused it.
LEMMA StartErrorsTransient ==
  ASSUME NEW r \in Reqs, start[r] # "refused", NEW e \in StartErrors(r)
  PROVE  Classify(RemoteApiError(e)) = "transient"
<1>1. e \in {"timeout_waiting", "closed_before", "econnrefused", "internal_error"}
  BY DEF StartErrors, TransportErrors
<1>2. RUN_ERROR_MAP["relay_unavailable"] = "service_unavailable" /\ RUN_ERROR_MAP["remote_error"] = "internal_error"
  BY DEF RUN_ERROR_MAP
<1>3. DOMAIN CODE_MAP = {"run_not_found", "already_terminal", "node_offline", "node_not_found", "agent_not_supported"}
  BY DEF CODE_MAP
<1>4. ClassifyRunError(e) \in {"relay_unavailable", "remote_error"}
  BY <1>1, <1>3 DEF ClassifyRunError, TransportErrors
<1>5. RemoteApiError(e) \in {"service_unavailable", "internal_error"}
  BY <1>1, <1>2, <1>4 DEF RemoteApiError
<1> QED BY <1>5 DEF Classify, RETRYABLE

\* The ack moves the slot from the handler to the task.
LEMMA StartAckedPreserves ==
  ASSUME IInv, NEW r \in Reqs, StartAcked(r)
  PROVE  IInv'
<1> USE DEF IInv, HasRow, Key, StartAcked, Goto, Answer, StoreWorks, StoreFails, Faults
<1>1. TypeOK'
  <2>1. pendingCreates' \in Int /\ storeFaults' \in 0 .. MaxStoreFaults
    BY AdmissionAssumption DEF TypeOK
  <2>2. req' \in [Reqs -> [body : Bodies, pc : PCs]]
    BY DEF TypeOK, PCs
  <2>3. reply' \in [Reqs -> Reqs \cup Errors]
    BY DEF TypeOK, Errors
  <2>4. row' \in [Reqs -> [status : {"none"} \cup Statuses, bound : BOOLEAN]]
    <3>1. row' = row \/ row' = [row EXCEPT ![r] = [status |-> "running", bound |-> TRUE]]
      BY DEF StartAcked
    <3>2. [status |-> "running", bound |-> TRUE] \in [status : {"none"} \cup Statuses, bound : BOOLEAN]
      BY DEF Statuses
    <3>3. row \in [Reqs -> [status : {"none"} \cup Statuses, bound : BOOLEAN]]
      BY DEF TypeOK
    <3> QED BY <3>1, <3>2, <3>3
  <2> QED BY <2>1, <2>2, <2>3, <2>4 DEF TypeOK, Statuses
<1>2. Phases'
  BY DEF TypeOK, Phases, InFlight
<1>3. OneRowPerKey'
  BY DEF TypeOK, Phases, OneRowPerKey
<1>4. RepliesTrue'
  <2>1. Durable
    BY DEF TypeOK, Phases, Durable, InFlight
  <2>2. \A t \in Reqs : reply[t] = "none" => reply'[t] = "none" \/ Answered(t)
    BY DEF TypeOK, Phases, Answered
  <2> QED BY <2>1, <2>2, RepliesStayTrue
<1>5. FinalSettled'
  BY AdmissionAssumption DEF TypeOK, Phases, FinalSettled, InFlight
<1>6. SlotsAccounted'
  <2>1. /\ Pending' = Pending \ {r} /\ r \in Pending /\ Refreed' = Refreed
        /\ Active' = Active \cup {r} /\ r \notin Active
    BY DEF TypeOK, Phases, Pending, Refreed, Active
  <2> QED BY <2>1, SlotsMove
<1> QED BY <1>1, <1>2, <1>3, <1>4, <1>5, <1>6

\* A failed start frees the slot; only a refusal is answered as final.
LEMMA StartFailsPreserves ==
  ASSUME IInv, NEW r \in Reqs, StartFails(r)
  PROVE  IInv'
<1>0. req' = [req EXCEPT ![r].pc = "answered"] /\ req \in [Reqs -> [body : Bodies, pc : PCs]]
  BY DEF IInv, TypeOK, StartFails, Goto
<1> USE DEF IInv, HasRow, Key, StartFails, Goto, Answer, StoreWorks, StoreFails, Faults, TerminalizeTask
<1>1. TypeOK'
  <2>1. pendingCreates' \in Int /\ storeFaults' \in 0 .. MaxStoreFaults
    BY AdmissionAssumption DEF TypeOK
  <2>2. req' \in [Reqs -> [body : Bodies, pc : PCs]]
    BY <1>0, Zenon DEF PCs
  <2>3. reply' \in [Reqs -> Reqs \cup Errors]
    BY ClassifyType DEF TypeOK, Errors
  <2>4. row' \in [Reqs -> [status : {"none"} \cup Statuses, bound : BOOLEAN]]
    BY ZenonT(40) DEF TypeOK, Statuses
  <2> QED BY <2>1, <2>2, <2>3, <2>4 DEF TypeOK, Statuses
<1>2. Phases'
  BY DEF TypeOK, Phases, InFlight
<1>3. OneRowPerKey'
  BY DEF TypeOK, Phases, OneRowPerKey
<1>4. RepliesTrue'
  <2>1. Durable
    BY DEF TypeOK, Phases, Durable, InFlight
  <2>2. \A t \in Reqs : reply[t] = "none" => reply'[t] = "none" \/ Answered(t)
    BY ClassifyType DEF TypeOK, Phases, Answered
  <2> QED BY <2>1, <2>2, RepliesStayTrue
<1>5. FinalSettled'
  BY AdmissionAssumption, StartErrorsTransient DEF TypeOK, Phases, FinalSettled
<1>6. SlotsAccounted'
  <2>1. Pending' = Pending \ {r} /\ r \in Pending /\ Refreed' = Refreed /\ Active' = Active
    BY DEF TypeOK, Pending, Refreed, Active
  <2> QED BY <2>1, SlotsMove
<1> QED BY <1>1, <1>2, <1>3, <1>4, <1>5, <1>6

-----------------------------------------------------------------------------
(* The Node, completion and shutdown *)

\* The Node makes at most one run of a start.
LEMMA NodeStartsPreserves ==
  ASSUME IInv, NEW r \in Reqs, NodeStarts(r)
  PROVE  IInv'
<1> USE DEF IInv, HasRow, Key, NodeStarts
<1>1. TypeOK'
  BY AdmissionAssumption DEF TypeOK, PCs, Errors, Statuses, InFlight
<1>2. Phases'
  BY DEF TypeOK, Phases, InFlight
<1>3. OneRowPerKey'
  BY DEF TypeOK, Phases, OneRowPerKey
<1>4. RepliesTrue'
  <2>1. Durable
    BY DEF TypeOK, Phases, Durable, InFlight
  <2>2. \A t \in Reqs : reply'[t] = reply[t]
    OBVIOUS
  <2> QED BY <2>1, <2>2, RepliesStayTrue
<1>5. FinalSettled'
  BY AdmissionAssumption DEF TypeOK, Phases, FinalSettled, InFlight
<1>6. SlotsAccounted'
  <2>1. Pending' = Pending /\ Refreed' = Refreed /\ Active' = Active
    BY DEF TypeOK, Pending, Refreed, Active
  <2> QED BY <2>1, SlotsStay
<1> QED BY <1>1, <1>2, <1>3, <1>4, <1>5, <1>6

\* A refused start makes no run.
LEMMA NodeRefusesPreserves ==
  ASSUME IInv, NEW r \in Reqs, NodeRefuses(r)
  PROVE  IInv'
<1> USE DEF IInv, HasRow, Key, NodeRefuses
<1>1. TypeOK'
  BY AdmissionAssumption DEF TypeOK, PCs, Errors, Statuses, InFlight
<1>2. Phases'
  BY DEF TypeOK, Phases, InFlight
<1>3. OneRowPerKey'
  BY DEF TypeOK, Phases, OneRowPerKey
<1>4. RepliesTrue'
  <2>1. Durable
    BY DEF TypeOK, Phases, Durable, InFlight
  <2>2. \A t \in Reqs : reply'[t] = reply[t]
    OBVIOUS
  <2> QED BY <2>1, <2>2, RepliesStayTrue
<1>5. FinalSettled'
  BY AdmissionAssumption DEF TypeOK, Phases, FinalSettled, InFlight
<1>6. SlotsAccounted'
  <2>1. Pending' = Pending /\ Refreed' = Refreed /\ Active' = Active
    BY DEF TypeOK, Pending, Refreed, Active
  <2> QED BY <2>1, SlotsStay
<1> QED BY <1>1, <1>2, <1>3, <1>4, <1>5, <1>6

\* A run that ends is not live.
LEMMA RunEndsPreserves ==
  ASSUME IInv, NEW r \in Reqs, RunEnds(r)
  PROVE  IInv'
<1> USE DEF IInv, HasRow, Key, RunEnds
<1>1. TypeOK'
  BY AdmissionAssumption DEF TypeOK, PCs, Errors, Statuses, InFlight
<1>2. Phases'
  BY DEF TypeOK, Phases, InFlight
<1>3. OneRowPerKey'
  BY DEF TypeOK, Phases, OneRowPerKey
<1>4. RepliesTrue'
  <2>1. Durable
    BY DEF TypeOK, Phases, Durable, InFlight
  <2>2. \A t \in Reqs : reply'[t] = reply[t]
    OBVIOUS
  <2> QED BY <2>1, <2>2, RepliesStayTrue
<1>5. FinalSettled'
  BY AdmissionAssumption DEF TypeOK, Phases, FinalSettled, InFlight
<1>6. SlotsAccounted'
  <2>1. Pending' = Pending /\ Refreed' = Refreed /\ Active' = Active
    BY DEF TypeOK, Pending, Refreed, Active
  <2> QED BY <2>1, SlotsStay
<1> QED BY <1>1, <1>2, <1>3, <1>4, <1>5, <1>6

\* A closing gateway takes no request.
LEMMA ClosePreserves ==
  ASSUME IInv, Close
  PROVE  IInv'
<1> USE DEF IInv, HasRow, Key, Close
<1>1. TypeOK'
  BY AdmissionAssumption DEF TypeOK, PCs, Errors, Statuses, InFlight
<1>2. Phases'
  BY DEF TypeOK, Phases, InFlight
<1>3. OneRowPerKey'
  BY DEF TypeOK, Phases, OneRowPerKey
<1>4. RepliesTrue'
  <2>1. Durable
    BY DEF TypeOK, Phases, Durable, InFlight
  <2>2. \A t \in Reqs : reply'[t] = reply[t]
    OBVIOUS
  <2> QED BY <2>1, <2>2, RepliesStayTrue
<1>5. FinalSettled'
  BY AdmissionAssumption DEF TypeOK, Phases, FinalSettled, InFlight
<1>6. SlotsAccounted'
  <2>1. Pending' = Pending /\ Refreed' = Refreed /\ Active' = Active
    BY DEF TypeOK, Pending, Refreed, Active
  <2> QED BY <2>1, SlotsStay
<1> QED BY <1>1, <1>2, <1>3, <1>4, <1>5, <1>6

\* Eviction drops terminal tasks only.
LEMMA EvictKeepsActive ==
  ASSUME NEW order \in Seq(Reqs), NEW m \in [Reqs -> {"absent", "active", "terminal"}]
  PROVE  LET e == EvictIfNeeded(order, m) IN
         /\ e[1] \in Seq(Reqs)
         /\ e[2] \in [Reqs -> {"absent", "active", "terminal"}]
         /\ \A t \in Reqs : /\ e[2][t] = "active" <=> m[t] = "active"
                            /\ e[2][t] # "absent" => m[t] # "absent"
<1> DEFINE out == IF Len(order) > MaxRetained THEN Len(order) - MaxRetained ELSE 0
           kept == [t \in Reqs |-> IF m[t] = "terminal" /\ \E i \in 1 .. out : order[i] = t
                                   THEN "absent" ELSE m[t]]
<1>1. EvictIfNeeded(order, m) = <<SubSeq(order, out + 1, Len(order)), kept>>
  BY DEF EvictIfNeeded
<1>2. out \in Nat /\ Len(order) \in Nat
  BY AdmissionAssumption
<1>3. SubSeq(order, out + 1, Len(order)) \in Seq(Reqs)
  BY <1>2
<1>4. /\ kept \in [Reqs -> {"absent", "active", "terminal"}]
      /\ \A t \in Reqs : /\ kept[t] = "active" <=> m[t] = "active"
                         /\ kept[t] # "absent" => m[t] # "absent"
  OBVIOUS
<1> HIDE DEF out, kept
<1> QED BY <1>1, <1>3, <1>4

\* A task leaves the active set once, when its run is over.
LEMMA CompletePreserves ==
  ASSUME IInv, NEW r \in Reqs, Complete(r)
  PROVE  IInv'
<1> USE DEF IInv, HasRow, Key
<1> DEFINE m == [mem EXCEPT ![r] = "terminal"]
           order == Append(completedOrder, r)
           e == EvictIfNeeded(order, m)
<1>1. order \in Seq(Reqs) /\ m \in [Reqs -> {"absent", "active", "terminal"}]
  BY DEF TypeOK
<1>2. completedOrder' = e[1] /\ mem' = e[2] /\ activeCount' = activeCount - 1
  BY DEF Complete, FinishTask
<1> HIDE DEF m, order
<1>3. /\ completedOrder' \in Seq(Reqs)
      /\ mem' \in [Reqs -> {"absent", "active", "terminal"}]
      /\ \A t \in Reqs : /\ mem'[t] = "active" <=> m[t] = "active"
                         /\ mem'[t] # "absent" => m[t] # "absent"
  BY <1>1, <1>2, EvictKeepsActive
<1>4. \A t \in Reqs : m[t] = IF t = r THEN "terminal" ELSE mem[t]
  BY DEF m, TypeOK
<1>5. /\ row' \in [Reqs -> [status : {"none"} \cup Statuses, bound : BOOLEAN]]
      /\ \A t \in Reqs : HasRow(t) <=> HasRow(t)'
  <2>1. row' = row \/ row' = [row EXCEPT ![r].status = "completed"]
    BY DEF Complete
  <2>2. HasRow(r)
    BY DEF Complete, Phases
  <2>3. row' \in [Reqs -> [status : {"none"} \cup Statuses, bound : BOOLEAN]]
    BY <2>1 DEF TypeOK, Statuses
  <2>4. \A t \in Reqs : t # r => row'[t] = row[t]
    BY <2>1 DEF TypeOK
  <2>5. row'[r].status # "none"
    BY <2>1, <2>2 DEF TypeOK
  <2> QED BY <2>2, <2>3, <2>4, <2>5
<1>6. TypeOK'
  <2>1. activeCount' \in Nat
    BY <1>2, Counted DEF Complete
  <2>2. storeFaults' \in 0 .. MaxStoreFaults
    BY AdmissionAssumption DEF TypeOK, Complete, StoreWorks, StoreFails, Faults
  <2> QED BY <1>3, <1>5, <2>1, <2>2 DEF TypeOK, Complete
<1>7. Phases'
  BY <1>3, <1>4, <1>5 DEF Phases, Complete, InFlight
<1>8. OneRowPerKey'
  BY <1>5 DEF OneRowPerKey, Complete
<1>9. RepliesTrue'
  <2>1. Durable
    BY <1>5 DEF Durable, Complete
  <2> QED BY <2>1, RepliesStayTrue DEF Complete
<1>10. FinalSettled'
  BY DEF FinalSettled, Complete
<1>11. SlotsAccounted'
  <2>1. Pending' = Pending /\ Refreed' = Refreed
    BY DEF Pending, Refreed, Complete
  <2>2. Active' = Active \ {r} /\ r \in Active
    BY <1>3, <1>4 DEF Active, Complete
  <2> QED BY <1>2, <2>1, <2>2, SlotsMove DEF Complete
<1> QED BY <1>6, <1>7, <1>8, <1>9, <1>10, <1>11

-----------------------------------------------------------------------------
(* Death and recovery of the process *)

\* When the process dies every handler in flight is lost, and a local create that was under way
\* leaves at most a run behind.
LEMMA GonePreserves ==
  ASSUME IInv, up' = "down", mem' = [t \in Reqs |-> "absent"],
         activeCount' = 0, pendingCreates' = 0, completedOrder' = <<>>,
         UNCHANGED <<reply, row, start>>,
         crashes' \in 0 .. MaxCrashes, storeFaults' \in 0 .. MaxStoreFaults,
         req' \in [Reqs -> [body : Bodies, pc : PCs]],
         run' \in [Reqs -> {"none", "live", "ended", "stopped", "unstopped"}],
         \A t \in Reqs :
           \/ /\ req'[t].body = req[t].body /\ run'[t] = run[t]
              /\ req'[t].pc = Dropped(req[t].pc)
           \/ req[t].pc = "idle" /\ req'[t].pc = "lost" /\ ~IsRemote(req'[t].body)
  PROVE  IInv'
<1> USE DEF IInv, HasRow, Key
<1>1. TypeOK'
  BY DEF TypeOK
<1>2. Phases'
  BY DEF Phases, InFlight, Dropped
<1>3. \A t \in Reqs : HasRow(t) \/ reply[t] # "none" => req'[t].body = req[t].body
  BY DEF Phases
<1>4. OneRowPerKey'
  BY <1>3 DEF OneRowPerKey
<1>5. RepliesTrue'
  <2>1. Durable
    BY <1>3 DEF Durable
  <2> QED BY <2>1, RepliesStayTrue
<1>6. FinalSettled'
  BY AdmissionAssumption DEF FinalSettled, Phases
<1>7. SlotsAccounted'
  <2>1. {r \in Reqs : req'[r].pc \in {"preflight", "starting", "leaked"}} = {}
        /\ {r \in Reqs : req'[r].pc = "refreed"} = {}
    BY DEF Dropped
  <2>2. {r \in Reqs : mem'[r] = "active"} = {}
    OBVIOUS
  <2>3. Cardinality({}) - Cardinality({}) = 0 /\ Cardinality({}) = 0
    BY FS_EmptySet
  <2> QED BY <2>1, <2>2, <2>3, Zenon DEF SlotsAccounted
<1> QED BY <1>1, <1>2, <1>4, <1>5, <1>6, <1>7

\* What a dead process leaves of its handlers.
LEMMA DropAllType ==
  ASSUME IInv
  PROVE  /\ DropAll \in [Reqs -> [body : Bodies, pc : PCs]]
         /\ \A t \in Reqs : DropAll[t].body = req[t].body /\ DropAll[t].pc = Dropped(req[t].pc)
<1>1. \A pc \in PCs : Dropped(pc) \in PCs
  BY DEF Dropped, PCs
<1>2. req \in [Reqs -> [body : Bodies, pc : PCs]]
  BY DEF IInv, TypeOK
<1> QED BY <1>1, <1>2 DEF DropAll

\* The process may die at any point.
LEMMA CrashPreserves ==
  ASSUME IInv, Crash
  PROVE  IInv'
<1>1. crashes' \in 0 .. MaxCrashes
  BY AdmissionAssumption DEF IInv, TypeOK, Crash
<1>2. req' \in [Reqs -> [body : Bodies, pc : PCs]]
      /\ \A t \in Reqs : /\ req'[t].body = req[t].body
                         /\ req'[t].pc = Dropped(req[t].pc)
  BY DropAllType DEF Crash
<1> QED BY <1>1, <1>2, GonePreserves DEF Crash, IInv, TypeOK

\* It may die inside a local create, which has a run and no row.
LEMMA CrashInLocalPreserves ==
  ASSUME IInv, NEW r \in Reqs, NEW b \in Bodies, CrashInLocal(r, b)
  PROVE  IInv'
<1>1. crashes' \in 0 .. MaxCrashes /\ storeFaults' \in 0 .. MaxStoreFaults
  BY AdmissionAssumption DEF IInv, TypeOK, CrashInLocal, PreCheckPasses, StoreWorks, StoreFails, Faults
<1>2. req' \in [Reqs -> [body : Bodies, pc : PCs]]
      /\ \A t \in Reqs :
           IF t = r THEN req'[t] = [body |-> b, pc |-> "lost"]
           ELSE /\ req'[t].body = req[t].body
                /\ req'[t].pc = Dropped(req[t].pc)
  BY DropAllType DEF CrashInLocal, PCs
<1>3. run' \in [Reqs -> {"none", "live", "ended", "stopped", "unstopped"}]
      /\ \A t \in Reqs : t # r => run'[t] = run[t]
  BY DEF IInv, TypeOK, CrashInLocal
<1>4. req[r].pc = "idle" /\ ~IsRemote(b)
  BY DEF CrashInLocal, Fresh
<1> QED BY <1>1, <1>2, <1>3, <1>4, GonePreserves DEF CrashInLocal

\* What the caller of r may be told of a request b that is over.
MayAnswer(b, a) ==
  \/ a \in {"transient", "fatal"}
  \/ \E u \in Reqs : /\ HasRow(u) /\ req[u].body.idempotency_key = b.idempotency_key
                     /\ b.idempotency_key # "absent"
                     /\ a = IF SameRequest(req[u].body, b) THEN u ELSE "conflict"

\* The compensation of a local create: the request is answered while the process lives, and its run
\* is over or could not be stopped.
LEMMA CompensatedPreserves ==
  ASSUME IInv, NEW r \in Reqs, NEW b \in Bodies, NEW a, NEW pc \in {"answered", "refreed"},
         MayAnswer(b, a), Fresh(r), ~IsRemote(b), CompensateLocal(r), UNCHANGED <<row, start>>,
         storeFaults' \in 0 .. MaxStoreFaults, up' = "up", At(r, b, pc), Answer(r, a),
         pendingCreates' = IF pc = "refreed" THEN pendingCreates - 1 ELSE pendingCreates,
         UNCHANGED <<activeCount, completedOrder>>
  PROVE  IInv'
<1>1. PICK over \in {"stopped", "unstopped"} : run' = [run EXCEPT ![r] = over] /\ UNCHANGED <<mem, up, crashes>>
  BY DEF CompensateLocal
<1>2. req[r].pc = "idle" /\ up = "up"
  BY DEF Fresh
<1>3. /\ req' = [req EXCEPT ![r] = [body |-> b, pc |-> pc]]
      /\ reply' = [reply EXCEPT ![r] = a]
  BY DEF At, Answer
<1>4. a \in Reqs \cup Errors
  BY DEF MayAnswer, Errors
<1> USE DEF IInv, HasRow, Key
<1>5. TypeOK'
  BY <1>1, <1>2, <1>3, <1>4 DEF TypeOK, PCs
<1>6. Phases'
  BY <1>1, <1>2, <1>3 DEF TypeOK, Phases, InFlight
<1>7. OneRowPerKey'
  BY <1>1, <1>2, <1>3 DEF TypeOK, Phases, OneRowPerKey
<1>8. RepliesTrue'
  <2>1. Durable
    BY <1>1, <1>2, <1>3 DEF TypeOK, Phases, Durable, InFlight
  <2>2. \A t \in Reqs : reply[t] = "none" => reply'[t] = "none" \/ Answered(t)
    BY <1>2, <1>3 DEF TypeOK, Answered, MayAnswer
  <2> QED BY <2>1, <2>2, RepliesStayTrue
<1>9. FinalSettled'
  BY <1>1, <1>2, <1>3 DEF TypeOK, Phases, FinalSettled
<1>10. SlotsAccounted'
  <2>1. Active' = Active /\ Pending' = Pending
    BY <1>1, <1>2, <1>3 DEF TypeOK, Pending, Active
  <2>2. pc = "answered" => Refreed' = Refreed
    BY <1>2, <1>3 DEF TypeOK, Refreed
  <2>3. pc = "refreed" => Refreed' = Refreed \cup {r} /\ r \notin Refreed
    BY <1>2, <1>3 DEF TypeOK, Refreed
  <2>4. CASE pc = "answered"
    BY <2>1, <2>2, <2>4, SlotsStay
  <2>5. CASE pc = "refreed"
    BY <2>1, <2>3, <2>5, SlotsMove
  <2> QED BY <2>4, <2>5
<1> QED BY <1>5, <1>6, <1>7, <1>8, <1>9, <1>10

\* Or the process exits, because the run had ended.
LEMMA CompensateExitPreserves ==
  ASSUME IInv, NEW r \in Reqs, NEW b \in Bodies,
         Fresh(r), ~IsRemote(b), CompensateLocal(r), UNCHANGED <<reply, row, start>>,
         storeFaults' \in 0 .. MaxStoreFaults, up' # "up",
         req' = [DropAll EXCEPT ![r] = [body |-> b, pc |-> "lost"]],
         activeCount' = 0, pendingCreates' = 0, completedOrder' = <<>>
  PROVE  IInv'
<1>1. /\ up' = "down" /\ mem' = [t \in Reqs |-> "absent"] /\ run' = [run EXCEPT ![r] = "ended"]
      /\ crashes < MaxCrashes /\ crashes' = crashes + 1 /\ req[r].pc = "idle"
  BY DEF Fresh, CompensateLocal
<1>2. crashes' \in 0 .. MaxCrashes
  BY <1>1, AdmissionAssumption DEF IInv, TypeOK
<1>3. req' \in [Reqs -> [body : Bodies, pc : PCs]]
      /\ \A t \in Reqs :
           IF t = r THEN req'[t] = [body |-> b, pc |-> "lost"]
           ELSE req'[t].body = req[t].body /\ req'[t].pc = Dropped(req[t].pc)
  BY DropAllType DEF PCs
<1>4. run' \in [Reqs -> {"none", "live", "ended", "stopped", "unstopped"}]
      /\ \A t \in Reqs : t # r => run'[t] = run[t]
  BY <1>1 DEF IInv, TypeOK
<1> QED BY <1>1, <1>2, <1>3, <1>4, GonePreserves

\* A local create that loses is answered from the store.
LEMMA CreateLocalLosesPreserves ==
  ASSUME IInv, NEW r \in Reqs, NEW b \in Bodies, CreateLocalLoses(r, b)
  PROVE  IInv'
<1>1. storeFaults' \in 0 .. MaxStoreFaults
  BY AdmissionAssumption DEF IInv, TypeOK, CreateLocalLoses, StoreFails, Faults
<1>2. Fresh(r) /\ ~IsRemote(b) /\ CompensateLocal(r) /\ UNCHANGED <<row, start>>
  BY DEF CreateLocalLoses
<1>3. CASE up' = "up"
  <2> DEFINE rivals == TasksOfKey(b.idempotency_key)
             winner == CHOOSE t \in rivals : TRUE
             a == IF rivals = {} THEN Classify("internal_error")
                  ELSE IF SameRequest(req[winner].body, b) THEN winner ELSE "conflict"
  <2>1. At(r, b, "answered") /\ Answer(r, a) /\ UNCHANGED <<activeCount, pendingCreates, completedOrder>>
    BY <1>3 DEF CreateLocalLoses
  <2>2. MayAnswer(b, a)
    <3>1. CASE rivals = {}
      BY <3>1, ClassifyType DEF MayAnswer
    <3>2. CASE rivals # {}
      <4>1. winner \in rivals
        BY <3>2
      <4> QED BY <3>2, <4>1 DEF TasksOfKey, HasRow, MayAnswer
    <3> QED BY <3>1, <3>2
  <2> HIDE DEF a
  <2> QED BY <1>1, <1>2, <1>3, <2>1, <2>2, CompensatedPreserves
<1>4. CASE up' # "up"
  BY <1>1, <1>2, <1>4, CompensateExitPreserves DEF CreateLocalLoses
<1> QED BY <1>3, <1>4

\* So is one whose store fails twice, and it may free its slot twice.
LEMMA CreateLocalLosesTwicePreserves ==
  ASSUME IInv, NEW r \in Reqs, NEW b \in Bodies, CreateLocalLosesTwice(r, b)
  PROVE  IInv'
<1>1. storeFaults' \in 0 .. MaxStoreFaults
  BY AdmissionAssumption DEF IInv, TypeOK, CreateLocalLosesTwice, Faults
<1>2. Fresh(r) /\ ~IsRemote(b) /\ CompensateLocal(r) /\ UNCHANGED <<row, start>>
  BY DEF CreateLocalLosesTwice
<1>3. CASE up' = "up"
  <2> DEFINE a == Classify("internal_error")
  <2>1. /\ Answer(r, a) /\ UNCHANGED <<activeCount, completedOrder>>
        /\ \/ At(r, b, "answered") /\ UNCHANGED pendingCreates
           \/ At(r, b, "refreed") /\ pendingCreates' = pendingCreates - 1
    BY <1>3 DEF CreateLocalLosesTwice
  <2>2. MayAnswer(b, a)
    BY ClassifyType DEF MayAnswer
  <2> HIDE DEF a
  <2>3. CASE At(r, b, "answered") /\ UNCHANGED pendingCreates
    BY <1>1, <1>2, <1>3, <2>1, <2>2, <2>3, CompensatedPreserves
  <2>4. CASE At(r, b, "refreed") /\ pendingCreates' = pendingCreates - 1
    BY <1>1, <1>2, <1>3, <2>1, <2>2, <2>4, CompensatedPreserves
  <2> QED BY <2>1, <2>3, <2>4
<1>4. CASE up' # "up"
  BY <1>1, <1>2, <1>4, CompensateExitPreserves DEF CreateLocalLosesTwice
<1> QED BY <1>3, <1>4

\* Recovery registers exactly the tasks whose rows are open; an ambiguous start fails at once.
LEMMA RecoverPreserves ==
  ASSUME IInv, Recover
  PROVE  IInv'
<1> USE DEF IInv, HasRow, Key
<1> DEFINE unknown == {r \in NonTerminalRows : Ambiguous(r)}
           m == [r \in Reqs |-> IF r \in unknown THEN "terminal"
                                ELSE IF r \in NonTerminalRows THEN "active" ELSE "absent"]
<1>1. PICK order \in [1 .. Cardinality(unknown) -> unknown] :
        LET e == EvictIfNeeded(order, m)
        IN  /\ row' = [r \in Reqs |-> IF r \in unknown THEN [row[r] EXCEPT !.status = "failed"] ELSE row[r]]
            /\ completedOrder' = e[1] /\ mem' = e[2]
            /\ activeCount' = Cardinality(NonTerminalRows \ unknown)
  BY DEF Recover
<1>2. unknown \subseteq Reqs /\ NonTerminalRows \subseteq Reqs
      /\ \A r \in NonTerminalRows : HasRow(r)
  BY DEF NonTerminalRows
<1>3. Cardinality(unknown) \in Nat /\ Cardinality(NonTerminalRows \ unknown) \in Nat
  BY <1>2, AdmissionAssumption, FS_Subset, FS_CardinalityType
<1>4. order \in Seq(Reqs) /\ m \in [Reqs -> {"absent", "active", "terminal"}]
  <2>1. order \in [1 .. Cardinality(unknown) -> Reqs]
    BY <1>2
  <2> QED BY <1>3, <2>1
<1>5. \A t \in Reqs : /\ m[t] = "active" <=> t \in NonTerminalRows \ unknown
                      /\ m[t] # "absent" => t \in NonTerminalRows
  BY <1>2
<1>6. /\ \A t \in Reqs : row'[t].bound = row[t].bound
                         /\ row'[t].status = IF t \in unknown THEN "failed" ELSE row[t].status
      /\ row' \in [Reqs -> [status : {"none"} \cup Statuses, bound : BOOLEAN]]
  <2>1. row' = [r \in Reqs |-> IF r \in unknown THEN [row[r] EXCEPT !.status = "failed"] ELSE row[r]]
    BY <1>1
  <2> HIDE DEF unknown
  <2> QED BY <2>1 DEF TypeOK, Statuses
<1>7. \A t \in Reqs : row'[t].status = "none" <=> row[t].status = "none"
  BY <1>2, <1>6
<1>8. activeCount' = Cardinality(NonTerminalRows \ unknown)
      /\ completedOrder' = EvictIfNeeded(order, m)[1] /\ mem' = EvictIfNeeded(order, m)[2]
  BY <1>1
<1> HIDE DEF m, unknown
<1>9. /\ completedOrder' \in Seq(Reqs)
      /\ mem' \in [Reqs -> {"absent", "active", "terminal"}]
      /\ \A t \in Reqs : /\ mem'[t] = "active" <=> m[t] = "active"
                         /\ mem'[t] # "absent" => m[t] # "absent"
  BY <1>4, <1>8, EvictKeepsActive
<1>10. up = "down" /\ up' = "up" /\ UNCHANGED <<req, reply, pendingCreates, start, run, crashes, storeFaults>>
  BY DEF Recover
<1>11. TypeOK'
  BY <1>3, <1>6, <1>8, <1>9, <1>10 DEF TypeOK
<1>12. Phases'
  BY <1>2, <1>5, <1>7, <1>9, <1>10 DEF Phases, InFlight
<1>13. OneRowPerKey'
  BY <1>7, <1>10 DEF OneRowPerKey
<1>14. RepliesTrue'
  <2>1. Durable
    BY <1>7, <1>10 DEF Durable
  <2> QED BY <1>10, <2>1, RepliesStayTrue
<1>15. FinalSettled'
  BY <1>10 DEF FinalSettled
<1>16. SlotsAccounted'
  <2>1. {r \in Reqs : mem'[r] = "active"} = NonTerminalRows \ unknown
    BY <1>2, <1>5, <1>9
  <2> QED BY <1>8, <1>10, <2>1 DEF SlotsAccounted
<1> QED BY <1>11, <1>12, <1>13, <1>14, <1>15, <1>16

-----------------------------------------------------------------------------
(* The theorems *)

\* No request has been read yet.
LEMMA InitIInv == Init => IInv
<1> SUFFICES ASSUME Init PROVE IInv
  OBVIOUS
<1>1. IdleReq \in [body : Bodies, pc : PCs] /\ IdleReq.pc = "idle"
  <2>1. (CHOOSE b \in Bodies : b.idempotency_key = "absent") \in Bodies
    BY AdmissionAssumption
  <2> QED BY <2>1 DEF IdleReq, PCs
<1>2. NoRow \in [status : {"none"} \cup Statuses, bound : BOOLEAN] /\ NoRow.status = "none"
  BY DEF NoRow
<1>3. TypeOK
  BY <1>1, <1>2, AdmissionAssumption DEF Init, TypeOK, Errors
<1>4. Phases /\ OneRowPerKey
  BY <1>1, <1>2 DEF Init, Phases, OneRowPerKey, HasRow, InFlight
<1>5. RepliesTrue /\ FinalSettled
  BY AdmissionAssumption DEF Init, RepliesTrue, FinalSettled
<1>6. SlotsAccounted
  <2>1. {r \in Reqs : req[r].pc \in {"preflight", "starting", "leaked"}} = {}
        /\ {r \in Reqs : req[r].pc = "refreed"} = {}
    BY <1>1 DEF Init
  <2>2. {r \in Reqs : mem[r] = "active"} = {}
    BY DEF Init
  <2>3. Cardinality({}) - Cardinality({}) = 0 /\ Cardinality({}) = 0
    BY FS_EmptySet
  <2> QED BY <2>1, <2>2, <2>3, Zenon DEF SlotsAccounted, Init
<1> QED BY <1>3, <1>4, <1>5, <1>6 DEF IInv

\* Every step of the gateway, the relay and the Node preserves the invariant.
LEMMA NextIInv == IInv /\ [Next]_vars => IInv'
<1> SUFFICES ASSUME IInv, [Next]_vars PROVE IInv'
  OBVIOUS
<1>1. Placed \subseteq Bodies
  BY DEF Placed
<1>2. ASSUME NEW r \in Reqs, NEW b \in Bodies,
             \/ CreateInvalid(r, b) \/ CreateReplayed(r, b) \/ CreateRefused(r, b) \/ CreateRemote(r, b)
             \/ CreateLocal(r, b) \/ CreateLocalFails(r, b) \/ CreateLocalLoses(r, b) \/ CrashInLocal(r, b)
             \/ CreateLocalLosesTwice(r, b) \/ CreateLocalPromptFails(r, b)
      PROVE  IInv'
  BY <1>2, CreateInvalidPreserves, CreateReplayedPreserves, CreateRefusedPreserves,
     CreateRemotePreserves, CreateLocalPreserves, CreateLocalFailsPreserves,
     CreateLocalLosesPreserves, CrashInLocalPreserves, CreateLocalLosesTwicePreserves,
     CreateLocalPromptFailsPreserves
<1>3. ASSUME NEW r \in Reqs,
             \/ PreflightFails(r) \/ PreflightOk(r) \/ PreflightLoses(r) \/ PreflightStoreFails(r)
             \/ StartAcked(r) \/ StartFails(r) \/ NodeStarts(r) \/ NodeRefuses(r)
             \/ RunEnds(r) \/ Complete(r) \/ PreflightPromptFails(r)
      PROVE  IInv'
  BY <1>3, PreflightFailsPreserves, PreflightOkPreserves, PreflightLosesPreserves,
     PreflightStoreFailsPreserves, StartAckedPreserves, StartFailsPreserves, NodeStartsPreserves,
     NodeRefusesPreserves, RunEndsPreserves, CompletePreserves, PreflightPromptFailsPreserves
<1>4. CASE Close \/ Crash \/ Recover
  BY <1>4, ClosePreserves, CrashPreserves, RecoverPreserves
<1>5. CASE UNCHANGED vars
  <2>1. TypeOK' /\ Phases' /\ OneRowPerKey'
    BY <1>5 DEF vars, IInv, TypeOK, Phases, OneRowPerKey, HasRow, Key
  <2>2. RepliesTrue' /\ FinalSettled' /\ SlotsAccounted'
    BY <1>5 DEF vars, IInv, RepliesTrue, FinalSettled, SlotsAccounted, HasRow, Key, SameRequest
  <2> QED BY <2>1, <2>2 DEF IInv
<1> QED BY <1>1, <1>2, <1>3, <1>4, <1>5 DEF Next

\* The inductive invariant holds in every state.
THEOREM Invariance == Spec => []IInv
BY InitIInv, NextIInv, PTL DEF Spec

\* The counters, the rows and the messages keep their types: activeCount never goes below zero.
THEOREM TypeCorrect == Spec => []TypeOK
<1>1. IInv => TypeOK
  BY DEF IInv
<1> QED BY <1>1, Invariance, PTL

\* createTaskIdempotently: a remote run has a start, a start has a row, and a key has one row; so a
\* key has at most one run on a Node, however many requests carry it.
THEOREM AtMostOneRun == Spec => []OneRunPerKey
<1>1. IInv => OneRunPerKey
  <2> SUFFICES ASSUME IInv, NEW r \in Reqs, NEW t \in Reqs, r # t, Key(r) = Key(t), Key(r) # "absent",
                      IsRemote(req[r].body), IsRemote(req[t].body),
                      run[r] # "none", run[t] # "none"
               PROVE  FALSE
    BY DEF OneRunPerKey
  <2>1. start[r] # "unsent" /\ start[t] # "unsent"
    BY DEF IInv, Phases
  <2>2. HasRow(r) /\ HasRow(t)
    BY <2>1 DEF IInv, Phases
  <2> QED BY <2>2 DEF IInv, OneRowPerKey
<1> QED BY <1>1, Invariance, PTL

\* The replay of a key: every answer of a task names the one row of the key, and a conflict is a
\* request that differs from that row's.
THEOREM IdempotentReplies == Spec => []RepliesAgree
<1>1. IInv => RepliesAgree
  <2> SUFFICES ASSUME IInv, NEW r \in Reqs, NEW t \in Reqs, Key(r) = Key(t), Key(r) # "absent",
                      reply[r] \in Reqs
               PROVE  /\ reply[t] \in Reqs => reply[r] = reply[t]
                      /\ reply[t] = "conflict" => ~SameRequest(req[reply[r]].body, req[t].body)
    BY DEF RepliesAgree
  <2>1. HasRow(reply[r]) /\ Key(reply[r]) = Key(r)
    BY DEF IInv, RepliesTrue
  <2>2. reply[t] \in Reqs => HasRow(reply[t]) /\ Key(reply[t]) = Key(t)
    BY DEF IInv, RepliesTrue
  <2>3. reply[t] = "conflict" => \E u \in Reqs : /\ HasRow(u) /\ Key(u) = Key(t)
                                                 /\ ~SameRequest(req[u].body, req[t].body)
    BY DEF IInv, RepliesTrue
  <2> QED BY <2>1, <2>2, <2>3 DEF IInv, OneRowPerKey
<1> QED BY <1>1, Invariance, PTL

\* activeCount and pendingCreates count exactly the active tasks and the handlers in flight, with the
\* slots of the two errors that keep one or free it twice.
THEOREM NoSlotLost == Spec => []SlotsAccounted
<1>1. IInv => SlotsAccounted
  BY DEF IInv
<1> QED BY <1>1, Invariance, PTL

\* An error that the workflow runtime takes for final leaves no live run behind.
THEOREM FinalIsFinal == Spec => []FinalAnswerHasNoRun
<1>1. IInv => FinalAnswerHasNoRun
  BY DEF IInv, FinalSettled, FinalAnswerHasNoRun
<1> QED BY <1>1, Invariance, PTL
=============================================================================
