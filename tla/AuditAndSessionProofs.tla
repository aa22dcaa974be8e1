------------------------ MODULE AuditAndSessionProofs -------------------------
(***************************************************************************)
(* What AuditCalls keeps for every number of turns and tries, and every    *)
(* timeout, budget and wait: a call's budget, and the run audit that posts *)
(* each write once.  And what EveSession keeps for every number of turns,  *)
(* events and faults: a restart between turns is unseen, and saves nobody  *)
(* awaits leave the row no older.                                          *)
(***************************************************************************)
EXTENDS AuditCalls, EveSession, TLAPS

-----------------------------------------------------------------------------
(* A call, and what becomes of it. *)

LEMMA DeadlineIsTime == Deadline \in Nat /\ Timeout <= Deadline
BY CallTimes DEF Deadline, Max

LEMMA TriesAreNumbers == 0 \in Tries /\ \A try \in Tries : try \in Nat /\ (try < MaxRetries => try + 1 \in Tries)
BY CallTimes DEF Tries

LEMMA SmallerOfTwo ==
  ASSUME NEW a \in Int, NEW b \in Int
  PROVE  Min({a, b}) \in Int /\ Min({a, b}) <= a /\ Min({a, b}) <= b
<1>1. \E x \in {a, b} : \A y \in {a, b} : x <= y
  <2>1. CASE a <= b
    BY <2>1
  <2>2. CASE b <= a
    BY <2>2
  <2>3. QED BY <2>1, <2>2
<1>2. QED BY <1>1 DEF Min

(* A call in flight stays within its budget by the time of a try. *)
LEMMA TryInBudget ==
  ASSUME NEW call \in Calls, call.phase = "flight", NEW time \in 0..TryTimeout(call)
  PROVE  /\ call \in [phase : {"flight", "answered", "failed", "timedout"}, try : Tries, spent : Int]
         /\ call.spent + time \in Int /\ call.spent + time <= Deadline
<1>1. /\ call \in [phase : {"flight", "answered", "failed", "timedout"}, try : Tries, spent : Int]
      /\ call.spent <= Deadline
  BY DEF Calls, NoCall
<1>2. Remaining(call) = Deadline - call.spent
  BY <1>1, DeadlineIsTime DEF Remaining
<1>3. time \in Int /\ time <= Remaining(call)
  <2>1. Remaining(call) \in Int /\ Timeout \in Int
    BY <1>1, <1>2, CallTimes, DeadlineIsTime
  <2>2. TryTimeout(call) \in Int /\ TryTimeout(call) <= Remaining(call)
    BY <2>1, SmallerOfTwo DEF TryTimeout
  <2>3. QED BY <2>1, <2>2
<1>4. QED BY <1>1, <1>2, <1>3, DeadlineIsTime

LEMMA EndedInCalls ==
  ASSUME NEW call \in [phase : {"flight", "answered", "failed", "timedout"}, try : Tries, spent : Int],
         call.spent <= Deadline, NEW how \in {"answered", "failed", "timedout"}
  PROVE  Ended(call, how) \in Calls \ {NoCall}
BY DEF Ended, Calls, NoCall

LEMMA AnswerInCalls ==
  ASSUME NEW call \in Calls, call.phase = "flight", NEW time \in 0..TryTimeout(call),
         NEW later \in AfterAnswer(call, time)
  PROVE  later \in Calls \ {NoCall}
<1> DEFINE spent == [call EXCEPT !.spent = @ + time]
<1>1. /\ spent \in [phase : {"flight", "answered", "failed", "timedout"}, try : Tries, spent : Int]
      /\ spent.spent <= Deadline
  BY TryInBudget
<1> HIDE DEF spent
<1>2. \A how \in {"answered", "failed"} : Ended(spent, how) \in Calls \ {NoCall}
  BY <1>1, EndedInCalls
<1>3. QED BY <1>2 DEF AfterAnswer, spent

(* A wait is cut to what is left, whatever the doubling came to. *)
LEMMA WaitInBudget ==
  ASSUME NEW call \in [phase : {"flight", "answered", "failed", "timedout"}, try : Tries, spent : Int],
         call.spent < Deadline, NEW wait \in Waits(call)
  PROVE  wait \in Int /\ call.spent + wait <= Deadline
<1> DEFINE base == Backoff * 2 ^ call.try
<1>1. Remaining(call) \in Int /\ Remaining(call) = Deadline - call.spent
  BY DeadlineIsTime DEF Remaining
<1> HIDE DEF base
<1>2. PICK n \in base..(base + base \div 4) : wait = Min({n, Remaining(call)})
  <2>1. wait \in {Min({n, Remaining(call)}) : n \in base..(base + base \div 4)}
    BY DEF Waits, base
  <2>2. QED BY <2>1
<1>3. wait \in Int /\ wait <= Remaining(call)
  <2>1. n \in Int
    OBVIOUS
  <2>2. QED BY <1>1, <1>2, <2>1, SmallerOfTwo
<1>4. QED BY <1>1, <1>3, DeadlineIsTime

LEMMA FaultInCalls ==
  ASSUME NEW call \in Calls, call.phase = "flight", NEW time \in 0..TryTimeout(call),
         NEW next \in AfterFault(call, time)
  PROVE  next \in Calls \ {NoCall}
<1> DEFINE Call == [phase : {"flight", "answered", "failed", "timedout"}, try : Tries, spent : Int]
           later == [call EXCEPT !.spent = @ + time]
<1>1. later \in Call /\ later.spent <= Deadline /\ later.phase = "flight" /\ later.try = call.try
  BY TryInBudget
<1> HIDE DEF later
<1>2. CASE call.try < MaxRetries /\ Remaining(later) > 0
  <2>1. later.spent < Deadline
    BY <1>1, <1>2 DEF Remaining
  <2>2. next \in NextTry(later)
    BY <1>2 DEF AfterFault, later
  <2>3. PICK wait \in Waits(later) :
          LET waited == [later EXCEPT !.spent = @ + wait]
          IN next = IF waited.spent < Deadline THEN [waited EXCEPT !.try = @ + 1]
                    ELSE Ended(waited, "timedout")
    BY <2>2 DEF NextTry
  <2> DEFINE waited == [later EXCEPT !.spent = @ + wait]
  <2>4. waited \in Call /\ waited.spent <= Deadline /\ waited.try = call.try
    BY <1>1, <2>1, WaitInBudget
  <2> HIDE DEF waited
  <2>5. waited.try + 1 \in Tries
    BY <1>2, <2>4, TriesAreNumbers
  <2>6. [waited EXCEPT !.try = @ + 1] \in Calls \ {NoCall}
    BY <2>4, <2>5 DEF Calls, NoCall
  <2>7. Ended(waited, "timedout") \in Calls \ {NoCall}
    BY <2>4, EndedInCalls
  <2>8. QED BY <2>3, <2>6, <2>7 DEF waited
<1>3. CASE ~(call.try < MaxRetries /\ Remaining(later) > 0)
  <2>1. next \in {Ended(later, "failed"), Ended(later, "timedout")}
    BY <1>3 DEF AfterFault, later
  <2>2. QED BY <1>1, <2>1, EndedInCalls
<1>4. QED BY <1>2, <1>3

-----------------------------------------------------------------------------
(* The inductive invariant. *)

LEMMA InitIInv == Init => IInv
BY DEF Init, IInv, TypeOK, KeysOK, Calls

(* The call of a post is opened, and its first try sent. *)
LEMMA RecordStep ==
  ASSUME IInv, NEW t \in Turns, Record(t)
  PROVE  IInv'
<1>1. PICK post \in Posts :
        /\ calls' = [calls EXCEPT ![t][post] = Opened]
        /\ copies' = copies \cup {Request(t, post, 0)}
        /\ keys' = keys /\ outcome' = outcome
  BY DEF Record, Becomes, Sends, Opened,
         Audit!Started, Audit!RecordRefusal, Audit!Threw, Audit!AcknowledgedStale, Audit!Returned
<1>2. Opened \in Calls \ {NoCall} /\ 0 \in Tries
  BY DeadlineIsTime, TriesAreNumbers DEF Opened, Calls, NoCall
<1>3. TypeOK'
  BY <1>1, <1>2 DEF IInv, TypeOK
<1>4. \A u \in Turns, p \in Posts : calls'[u][p] = calls[u][p] \/ (u = t /\ p = post /\ calls'[u][p] # NoCall)
  BY <1>1, <1>2 DEF IInv, TypeOK
<1>5. calls'[t][post] # NoCall
  BY <1>1, <1>2 DEF IInv, TypeOK
<1>6. KeysOK'
  BY <1>1, <1>2, <1>4, <1>5 DEF IInv, KeysOK, KeyOf, Request
<1>7. QED BY <1>3, <1>6 DEF IInv

(* A call goes on, and sends at most another try of its write. *)
LEMMA CallStep ==
  ASSUME IInv, NEW t \in Turns, NEW post \in Posts, NEW call \in Calls \ {NoCall},
         Becomes(t, post, call), Sends(t, post, call) \/ copies' = copies,
         UNCHANGED <<outcome, keys>>
  PROVE  IInv'
<1>1. TypeOK'
  BY DEF IInv, TypeOK, Becomes
<1>2. \A u \in Turns, p \in Posts : calls[u][p] # NoCall => calls'[u][p] # NoCall
  BY DEF IInv, TypeOK, Becomes
<1>3. calls'[t][post] # NoCall
  BY DEF IInv, TypeOK, Becomes
<1>4. call.try \in Tries
  BY DEF Calls
<1>5. \A request \in copies' : request \in copies \/ request = Request(t, post, call.try)
  BY DEF Sends
<1>6. KeysOK'
  BY <1>2, <1>3, <1>4, <1>5 DEF IInv, KeysOK
<1>7. QED BY <1>1, <1>6 DEF IInv

LEMMA ArrivesStep ==
  ASSUME IInv, NEW request \in copies, Arrives(request)
  PROVE  IInv'
<1>1. PICK t \in Turns, post \in Posts, try \in Tries : request = Request(t, post, try)
  BY DEF IInv, KeysOK
<1>2. request.turn = t /\ request.post = post /\ request.key = KeyOf(t, post, 0)
  BY <1>1 DEF Request, KeyOf
<1>3. Audit!Recorded(outcome[t], post) \in {"absent", "running", "completed", "failed", "cancelled"}
  BY DEF Audit!Recorded, Audit!Outcomes, Posts, IInv, TypeOK
<1>4. TypeOK'
  BY <1>2, <1>3 DEF IInv, TypeOK, Arrives
<1>5. KeysOK'
  BY <1>2 DEF IInv, KeysOK, Arrives
<1>6. QED BY <1>4, <1>5 DEF IInv

THEOREM Inductive == Spec => []IInv
<1>1. IInv /\ [Next]_vars => IInv'
  <2> SUFFICES ASSUME IInv, [Next]_vars
               PROVE  IInv'
    OBVIOUS
  <2>1. ASSUME NEW t \in Turns, Record(t)
        PROVE  IInv'
    BY <2>1, RecordStep
  <2>2. ASSUME NEW t \in Turns, Acknowledged(t)
        PROVE  IInv'
    BY <2>2 DEF Acknowledged, Audit!Acknowledged, IInv, TypeOK, KeysOK
  <2>3. ASSUME NEW request \in copies, Arrives(request)
        PROVE  IInv'
    BY <2>3, ArrivesStep
  <2>4. ASSUME NEW t \in Turns, NEW post \in Posts, Answered(t, post)
        PROVE  IInv'
    <3>1. calls[t][post] \in Calls /\ calls[t][post].phase = "flight"
      BY <2>4 DEF Answered, InFlight, IInv, TypeOK
    <3>2. PICK time \in 0..TryTimeout(calls[t][post]) : \E call \in AfterAnswer(calls[t][post], time) :
            Becomes(t, post, call)
      BY <2>4 DEF Answered
    <3>3. QED BY <2>4, <3>1, <3>2, AnswerInCalls, CallStep DEF Answered
  <2>5. ASSUME NEW t \in Turns, NEW post \in Posts, Faulted(t, post)
        PROVE  IInv'
    <3>1. calls[t][post] \in Calls /\ calls[t][post].phase = "flight"
      BY <2>5 DEF Faulted, InFlight, IInv, TypeOK
    <3>2. PICK time \in 0..TryTimeout(calls[t][post]) : \E call \in AfterFault(calls[t][post], time) :
            Becomes(t, post, call) /\ Sends(t, post, call)
      BY <2>5 DEF Faulted
    <3>3. QED BY <2>5, <3>1, <3>2, FaultInCalls, CallStep DEF Faulted
  <2>6. CASE UNCHANGED vars
    BY <2>6 DEF vars, IInv, TypeOK, KeysOK
  <2>7. QED BY <2>1, <2>2, <2>3, <2>4, <2>5, <2>6 DEF Next
<1>2. QED BY InitIInv, <1>1, PTL DEF Spec

-----------------------------------------------------------------------------
(***************************************************************************)
(* No call of the store client outlives its budget, with whatever faults,  *)
(* timeouts and waits between its tries (dakio.ts, request).               *)
(***************************************************************************)
THEOREM WithinBudget == Spec => []OverWithinBudget
<1>1. IInv => OverWithinBudget
  BY DEF IInv, TypeOK, OverWithinBudget, Calls
<1>2. QED BY Inductive, <1>1, PTL

-----------------------------------------------------------------------------
(* The refinement. *)

(* The writes of a turn the ledger has not applied. *)
LEMMA UnappliedWrites ==
  ASSUME IInv, NEW t \in Turns, NEW post \in Posts
  PROVE  post \in Unapplied(Posts)[t] <=> calls[t][post] # NoCall /\ KeyOf(t, post, 0) \notin keys
<1>1. (\A key \in keys : <<key.turn, key.post>> # <<t, post>>) <=> KeyOf(t, post, 0) \notin keys
  BY DEF IInv, KeysOK, KeyOf
<1>2. QED BY <1>1 DEF Unapplied

(* A request arrives for the first time, or is a repetition the ledger knows. *)
LEMMA ArrivalRefines ==
  ASSUME IInv, IInv', NEW request \in copies, Arrives(request)
  PROVE  [Audit!Next]_(Audit!vars)
<1>1. PICK t \in Turns, post \in Posts, try \in Tries :
        request = Request(t, post, try) /\ calls[t][post] # NoCall
  BY DEF IInv, KeysOK
<1>2. request.turn = t /\ request.post = post /\ request.key = KeyOf(t, post, 0)
  BY <1>1 DEF Request, KeyOf
<1>3. CASE request.key \in keys
  <2>1. UNCHANGED <<pc, outcome, calls, keys>>
    BY <1>3 DEF Arrives
  <2>2. QED BY <2>1 DEF Audit!vars, Unapplied
<1>4. CASE request.key \notin keys
  <2>1. post \in Unapplied(Posts)[t]
    BY <1>1, <1>2, <1>4, UnappliedWrites
  <2>2. outcome' = [outcome EXCEPT ![t] = Audit!Recorded(@, post)] /\ UNCHANGED pc
    BY <1>2, <1>4 DEF Arrives
  <2>3. Unapplied(Posts)' = [Unapplied(Posts) EXCEPT ![t] = @ \ {post}]
    <3>1. keys' = keys \cup {KeyOf(t, post, 0)} /\ calls' = calls
      BY <1>2 DEF Arrives
    <3>2. ASSUME NEW u \in Turns, NEW p \in Posts
          PROVE  (\A key \in keys' : <<key.turn, key.post>> # <<u, p>>)
                 <=> (\A key \in keys : <<key.turn, key.post>> # <<u, p>>) /\ <<u, p>> # <<t, post>>
      <4>1. KeyOf(t, post, 0).turn = t /\ KeyOf(t, post, 0).post = post
        BY DEF KeyOf
      <4>2. QED BY <3>1, <4>1
    <3>3. Unapplied(Posts)' = [u \in Turns |-> IF u = t THEN Unapplied(Posts)[u] \ {post} ELSE Unapplied(Posts)[u]]
      BY <3>1, <3>2 DEF Unapplied
    <3>4. QED BY <3>3 DEF Unapplied
  <2>4. Audit!Deliver(t, post)
    BY <2>1, <2>2, <2>3 DEF Audit!Deliver
  <2>5. post \in Audit!Posts
    BY DEF Posts, Audit!Posts, Audit!Outcomes
  <2>6. QED BY <2>4, <2>5 DEF Audit!Next
<1>5. QED BY <1>3, <1>4

(* What becomes of a call is not the ledger's concern. *)
LEMMA CallRefines ==
  ASSUME IInv, NEW t \in Turns, NEW post \in Posts, NEW call \in Calls \ {NoCall},
         calls[t][post] # NoCall, Becomes(t, post, call), UNCHANGED <<pc, outcome, keys>>
  PROVE  UNCHANGED Audit!vars
<1>1. \A u \in Turns, p \in Posts : calls'[u][p] = NoCall <=> calls[u][p] = NoCall
  BY DEF IInv, TypeOK, Becomes
<1>2. Unapplied(Posts)' = Unapplied(Posts)
  BY <1>1 DEF Unapplied
<1>3. QED BY <1>2 DEF Audit!vars

(***************************************************************************)
(* Each audit write, tried as often as its call may and delivered late or  *)
(* twice, is to the ledger one post that is delivered once or lost         *)
(* (runs.ts over dakio.ts, and the idempotency keys of backend.ts).        *)
(***************************************************************************)
THEOREM KeepsAudit == Spec => AuditSpec
<1>1. Init => Audit!Init
  BY DEF Init, Audit!Init, Unapplied
<1>2. IInv /\ IInv' /\ [Next]_vars => [Audit!Next]_(Audit!vars)
  <2> SUFFICES ASSUME IInv, IInv', [Next]_vars
               PROVE  [Audit!Next]_(Audit!vars)
    OBVIOUS
  <2>1. ASSUME NEW t \in Turns, Record(t) \/ Acknowledged(t)
        PROVE  Audit!Next
    BY <2>1 DEF Record, Acknowledged, Audit!Next
  <2>2. ASSUME NEW request \in copies, Arrives(request)
        PROVE  [Audit!Next]_(Audit!vars)
    BY <2>2, ArrivalRefines
  <2>3. ASSUME NEW t \in Turns, NEW post \in Posts, Answered(t, post) \/ Faulted(t, post)
        PROVE  UNCHANGED Audit!vars
    <3>1. calls[t][post] \in Calls /\ calls[t][post].phase = "flight" /\ calls[t][post] # NoCall
      BY <2>3 DEF Answered, Faulted, InFlight, IInv, TypeOK, NoCall
    <3>2. PICK time \in 0..TryTimeout(calls[t][post]) :
            \E call \in AfterAnswer(calls[t][post], time) \cup AfterFault(calls[t][post], time) :
              Becomes(t, post, call)
      BY <2>3 DEF Answered, Faulted
    <3>3. UNCHANGED <<pc, outcome, keys>>
      BY <2>3 DEF Answered, Faulted
    <3>4. QED BY <3>1, <3>2, <3>3, AnswerInCalls, FaultInCalls, CallRefines
  <2>4. CASE UNCHANGED vars
    BY <2>4 DEF vars, Audit!vars, Unapplied
  <2>5. QED BY <2>1, <2>2, <2>3, <2>4 DEF Next
<1>3. QED BY Inductive, <1>1, <1>2, PTL DEF Spec, AuditSpec, Audit!Spec

(***************************************************************************)
(* A run that was settled is never shown as running again, in whatever     *)
(* order the copies of its writes arrive (backend.ts, the run ledger).     *)
(***************************************************************************)
THEOREM StaysSettled == Spec => SettledStaysSettled
<1>1. IInv /\ [Next]_vars =>
        [\A t \in Turns : outcome[t] \in Audit!Outcomes => outcome'[t] \in Audit!Outcomes]_(Audit!vars)
  <2> SUFFICES ASSUME IInv, [Next]_vars, NEW t \in Turns, outcome[t] \in Audit!Outcomes
               PROVE  outcome'[t] \in Audit!Outcomes
    OBVIOUS
  <2>1. CASE outcome' = outcome
    BY <2>1
  <2>2. ASSUME NEW request \in copies, Arrives(request)
        PROVE  outcome'[t] \in Audit!Outcomes
    <3>1. request.post \in Posts
      BY DEF IInv, KeysOK, Request
    <3>2. Audit!Recorded(outcome[t], request.post) \in Audit!Outcomes
      BY <3>1 DEF Audit!Recorded, Audit!Outcomes, Posts
    <3>3. QED BY <2>2, <3>2 DEF Arrives, IInv, TypeOK
  <2>3. outcome' = outcome \/ \E request \in copies : Arrives(request)
    BY DEF Next, vars, Record, Acknowledged, Answered, Faulted,
           Audit!Started, Audit!RecordRefusal, Audit!Threw, Audit!AcknowledgedStale,
           Audit!Returned, Audit!Acknowledged
  <2>4. QED BY <2>1, <2>2, <2>3
<1>2. QED BY Inductive, <1>1, PTL DEF Spec, SettledStaysSettled, Audit!SettledStaysSettled

-----------------------------------------------------------------------------
(* EveSession. *)

(* Which turn a token belongs to: it is rotated when a turn is answered, never while one runs. *)
TokensInTurn ==
  /\ Live => session.token <= turns + (IF session.active THEN 0 ELSE 1)
  /\ row # NoRow => row.token <= turns + 1
  /\ \A i \in DOMAIN writes : writes[i] # Delete => writes[i].token <= turns + 1

(* No event that ends a turn stands between the two places of the log. *)
Running(log, from, to) == \A i \in (from + 1)..to : ~Settles(log[i])

(* What the app knows of a session that is in memory and of which nothing was lost. *)
InStep ==
  LET end == session.base + Len(session.log)
      read == app.cursor - session.base
  IN  /\ session.base <= app.cursor /\ app.cursor <= end
      /\ app.open => session.base + app.next = app.cursor
      /\ app.phase \in {"idle", "waiting"}
      /\ app.phase = "idle" => ~session.active /\ app.cursor = end /\ app.token = session.token
      /\ app.phase = "waiting" /\ session.active =>
           app.token = session.token /\ Running(session.log, read, Len(session.log))
      /\ app.phase = "waiting" /\ ~session.active =>
           /\ app.cursor < end
           /\ Running(session.log, read, Len(session.log) - 1)
           /\ Settles(session.log[Len(session.log)])
           /\ IF session.log[Len(session.log)].kind = "waiting"
              THEN session.log[Len(session.log)].token = session.token
              ELSE app.token = session.token

SessionIInv ==
  /\ SessionTypeOK /\ TokensInTurn
  /\ app.open => app.phase = "waiting"
  /\ app.phase = "new" => ~Live /\ row = NoRow /\ writes = <<>> /\ app.cursor = 0
  /\ ~Live => app.phase # "waiting" /\ writes \in {<<>>, <<Delete>>}
  /\ ~Live /\ ~lost /\ row # NoRow /\ app.phase = "idle" =>
       row.base = app.cursor /\ row.token = app.token
  /\ Live /\ ~lost => InStep

LEMMA NamesDiffer ==
  /\ NoSession \notin Session /\ NoRow \notin Snapshots /\ Delete \notin Snapshots
  /\ NoRow # Delete
BY DEF NoSession, NoRow, Delete, Session, Snapshots

(* What a save and an event make of a session. *)
LEMMA SnapshotIs ==
  ASSUME NEW s \in Session
  PROVE  /\ Snapshot(s) \in Snapshots /\ Snapshot(s) # NoRow /\ Snapshot(s) # Delete
         /\ Snapshot(s).token = s.token /\ Snapshot(s).base = s.base + Len(s.log)
<1>1. Len(s.log) \in Nat
  BY DEF Session
<1>2. Snapshot(s) \in Snapshots
  BY <1>1 DEF Snapshot, Session, Snapshots
<1>3. QED BY <1>2, NamesDiffer DEF Snapshot

LEMMA AppendedIs ==
  ASSUME NEW s \in Session, NEW e \in Event
  PROVE  LET t == Appended(s, <<e>>)
         IN  /\ t \in Session
             /\ t.token = s.token /\ t.base = s.base /\ t.answers = s.answers /\ t.active = s.active
             /\ Len(t.log) = Len(s.log) + 1 /\ t.log[Len(s.log) + 1] = e
             /\ \A i \in 1..Len(s.log) : t.log[i] = s.log[i]
<1>1. s.log \in Seq(Event) /\ <<e>> \in Seq(Event)
  BY DEF Session
<1> DEFINE l == s.log \o <<e>>
<1>2. /\ l \in Seq(Event) /\ Len(l) = Len(s.log) + 1 /\ l[Len(s.log) + 1] = e
      /\ \A i \in 1..Len(s.log) : l[i] = s.log[i]
  BY <1>1
<1>3. Appended(s, <<e>>) = [s EXCEPT !.log = l]
  BY DEF Appended
<1> HIDE DEF l
<1>4. QED BY <1>2, <1>3 DEF Session

LEMMA EventsAre ==
  /\ Part \in Event /\ Failed \in Event /\ \A t \in Tokens : Waiting(t) \in Event
  /\ ~Settles(Part) /\ Settles(Failed) /\ \A t : Settles(Waiting(t))
  /\ Failed.kind # "waiting" /\ \A t : Waiting(t).kind = "waiting" /\ Waiting(t).token = t
BY DEF Part, Failed, Waiting, Event, Kinds, Settles

LEMMA SessionStarts == SessionInit => SessionIInv
<1> SUFFICES ASSUME SessionInit PROVE SessionIInv
  OBVIOUS
<1>1. ~Live
  BY DEF SessionInit, Live
<1>2. SessionTypeOK
  <2>1. app \in [phase : {"new", "idle", "waiting", "refused"}, token : {0} \cup Tokens,
                cursor : Nat, open : BOOLEAN, next : Nat]
    BY DEF SessionInit
  <2>2. writes \in Seq({Delete} \cup Snapshots)
    BY DEF SessionInit
  <2>3. session = NoSession /\ row = NoRow /\ turns = 0 /\ faults = 0 /\ lost = FALSE
    BY DEF SessionInit
  <2>4. turns \in 0..MaxTurns /\ faults \in 0..MaxFaults
    BY <2>3, SessionAssumption
  <2>5. QED BY <2>1, <2>2, <2>3, <2>4 DEF SessionTypeOK
<1>3. TokensInTurn
  BY <1>1 DEF TokensInTurn, SessionInit
<1>4. QED BY <1>1, <1>2, <1>3 DEF SessionInit, SessionIInv

-----------------------------------------------------------------------------
(* The row and its writes. *)

LEMMA EnqueuedIs ==
  ASSUME NEW chain \in Seq({Delete} \cup Snapshots), NEW w \in {Delete} \cup Snapshots
  PROVE  /\ Enqueued(chain, w) \in Seq({Delete} \cup Snapshots)
         /\ \A i \in DOMAIN Enqueued(chain, w) :
              Enqueued(chain, w)[i] = w \/ \E j \in DOMAIN chain : Enqueued(chain, w)[i] = chain[j]
BY DEF Enqueued

LEMMA HeadTailAre ==
  ASSUME NEW chain \in Seq({Delete} \cup Snapshots), chain # <<>>
  PROVE  /\ Tail(chain) \in Seq({Delete} \cup Snapshots) /\ Head(chain) \in {Delete} \cup Snapshots
         /\ 1 \in DOMAIN chain /\ Head(chain) = chain[1]
         /\ \A i \in DOMAIN Tail(chain) : \E j \in DOMAIN chain : Tail(chain)[i] = chain[j]
         /\ chain = <<Delete>> => Tail(chain) = <<>> /\ Head(chain) = Delete
<1>1. /\ Tail(chain) \in Seq({Delete} \cup Snapshots) /\ Head(chain) \in {Delete} \cup Snapshots
      /\ 1 \in DOMAIN chain /\ Head(chain) = chain[1]
  OBVIOUS
<1>2. ASSUME NEW i \in DOMAIN Tail(chain)
      PROVE  i + 1 \in DOMAIN chain /\ Tail(chain)[i] = chain[i + 1]
  OBVIOUS
<1>3. chain = <<Delete>> => Tail(chain) = <<>> /\ Head(chain) = Delete
  OBVIOUS
<1>4. QED BY <1>1, <1>2, <1>3

LEMMA WriteStep ==
  ASSUME SessionIInv, WriteLands \/ WriteFails
  PROVE  SessionIInv'
<1> USE DEF SessionIInv
<1>1. /\ writes # <<>> /\ writes' = Tail(writes) /\ UNCHANGED <<session, app, turns, lost>>
      /\ row' = row \/ row' = (IF Head(writes) = Delete THEN NoRow ELSE Head(writes))
      /\ faults' \in 0..MaxFaults
  BY SessionAssumption DEF WriteLands, WriteFails, Faulty, SessionTypeOK
<1>2. /\ Tail(writes) \in Seq({Delete} \cup Snapshots) /\ Head(writes) \in {Delete} \cup Snapshots
      /\ 1 \in DOMAIN writes /\ Head(writes) = writes[1]
      /\ \A i \in DOMAIN Tail(writes) : \E j \in DOMAIN writes : Tail(writes)[i] = writes[j]
      /\ writes = <<Delete>> => Tail(writes) = <<>> /\ Head(writes) = Delete
  BY <1>1, HeadTailAre DEF SessionTypeOK
<1>3. SessionTypeOK'
  BY <1>1, <1>2 DEF SessionTypeOK
<1>4. TokensInTurn'
  BY <1>1, <1>2 DEF TokensInTurn, Live
<1>5. ~Live => writes' = <<>> /\ row' \in {row, NoRow}
  BY <1>1, <1>2
<1>6. Live' = Live /\ InStep' = InStep
  BY <1>1 DEF Live, InStep, Running
<1>7. QED BY <1>1, <1>3, <1>4, <1>5, <1>6

-----------------------------------------------------------------------------
(* Turns. *)

LEMMA CreateStep == SessionIInv /\ Create => SessionIInv'
<1> SUFFICES ASSUME SessionIInv, Create PROVE SessionIInv'
  OBVIOUS
<1> USE DEF SessionIInv
<1>1. /\ app.phase = "new" /\ turns < MaxTurns
      /\ session' = [token |-> 1, base |-> 0, log |-> <<>>, answers |-> 0, active |-> TRUE]
      /\ app' = [app EXCEPT !.phase = "waiting", !.token = 1]
      /\ turns' = turns + 1 /\ UNCHANGED <<row, writes, faults, lost>>
      /\ row = NoRow /\ writes = <<>> /\ app.cursor = 0 /\ ~app.open
  BY DEF Create
<1>2. turns \in 0..MaxTurns /\ 1 \in Tokens /\ MaxTurns \in Nat
  BY SessionAssumption DEF Tokens, SessionTypeOK
<1>3. session' \in Session /\ Live'
  <2>1. <<>> \in Seq(Event)
    OBVIOUS
  <2>2. session' \in Session
    BY <1>1, <1>2, <2>1 DEF Session
  <2>3. QED BY <2>2, NamesDiffer DEF Live
<1>4. app' \in [phase : {"new", "idle", "waiting", "refused"}, token : {0} \cup Tokens,
                cursor : Nat, open : BOOLEAN, next : Nat]
      /\ app'.phase = "waiting" /\ app'.token = 1 /\ app'.cursor = 0 /\ ~app'.open
  BY <1>1, <1>2 DEF SessionTypeOK
<1>5. SessionTypeOK'
  BY <1>1, <1>2, <1>3, <1>4 DEF SessionTypeOK
<1>6. TokensInTurn'
  BY <1>1, <1>2, <1>3 DEF TokensInTurn, Live
<1>7. session'.base = 0 /\ session'.token = 1 /\ session'.active /\ Len(session'.log) = 0
  BY <1>1
<1>8. InStep'
  BY <1>4, <1>7 DEF InStep, Running
<1>9. QED BY <1>3, <1>4, <1>5, <1>6, <1>8

LEMMA RestoreStep == SessionIInv /\ Restore => SessionIInv'
<1> SUFFICES ASSUME SessionIInv, Restore PROVE SessionIInv'
  OBVIOUS
<1> USE DEF SessionIInv
<1>1. /\ ~Live /\ row # NoRow /\ app.phase = "idle" /\ session' = RestoredFrom(row)
      /\ UNCHANGED <<row, writes, app, turns, faults, lost>>
  BY DEF Restore
<1>2. row \in Snapshots
  BY <1>1 DEF SessionTypeOK
<1>3. /\ session' \in Session /\ session'.token = row.token /\ session'.base = row.base
      /\ Len(session'.log) = 0 /\ ~session'.active
  <2>1. <<>> \in Seq(Event)
    OBVIOUS
  <2>2. QED BY <1>1, <1>2, <2>1 DEF RestoredFrom, Session, Snapshots
<1>4. Live'
  BY <1>3, NamesDiffer DEF Live
<1>5. SessionTypeOK'
  BY <1>1, <1>3 DEF SessionTypeOK
<1>6. TokensInTurn'
  BY <1>1, <1>3, <1>4 DEF TokensInTurn, Live
<1>7. ~lost => InStep'
  <2>1. SUFFICES ASSUME ~lost PROVE InStep'
    OBVIOUS
  <2>2. row.base = app.cursor /\ row.token = app.token /\ ~app.open /\ row.base \in Nat
    BY <1>1, <1>2, <2>1 DEF Snapshots
  <2>3. QED BY <1>1, <1>3, <2>2 DEF InStep
<1>8. QED BY <1>1, <1>4, <1>5, <1>6, <1>7

LEMMA AppIs ==
  ASSUME SessionTypeOK
  PROVE  /\ app.phase \in {"new", "idle", "waiting", "refused"} /\ app.token \in {0} \cup Tokens
         /\ app.cursor \in Nat /\ app.open \in BOOLEAN /\ app.next \in Nat
         /\ DOMAIN app = {"phase", "token", "cursor", "open", "next"}
BY DEF SessionTypeOK

LEMMA SessionIs ==
  ASSUME SessionTypeOK, Live
  PROVE  /\ session \in Session /\ session.token \in Nat /\ session.token \in Tokens
         /\ session.base \in Nat /\ Len(session.log) \in Nat
         /\ session.active \in BOOLEAN /\ session.log \in Seq(Event)
BY DEF SessionTypeOK, Live, Session, Tokens

LEMMA PostStep == SessionIInv /\ (Post \/ PostToNothing) => SessionIInv'
<1> SUFFICES ASSUME SessionIInv, Post \/ PostToNothing PROVE SessionIInv'
  OBVIOUS
<1> USE DEF SessionIInv
<1>1. ASSUME Post, app.token = session.token, ~session.active PROVE SessionIInv'
  <2>1. /\ app.phase = "idle" /\ Live /\ turns < MaxTurns
        /\ session' = [session EXCEPT !.active = TRUE] /\ app' = [app EXCEPT !.phase = "waiting"]
        /\ turns' = turns + 1 /\ UNCHANGED <<row, writes, faults, lost>>
    BY <1>1 DEF Post
  <2>2. session \in Session
    BY <2>1, SessionIs
  <2>3. /\ session' \in Session /\ session'.token = session.token /\ session'.base = session.base
        /\ session'.log = session.log /\ session'.active
    BY <2>1, <2>2 DEF Session
  <2>4. Live'
    BY <2>3, NamesDiffer DEF Live
  <2>5. /\ app'.phase = "waiting" /\ app'.token = app.token /\ app'.cursor = app.cursor
        /\ app'.open = app.open /\ app'.next = app.next
        /\ app' \in [phase : {"new", "idle", "waiting", "refused"}, token : {0} \cup Tokens,
                     cursor : Nat, open : BOOLEAN, next : Nat]
    BY <2>1 DEF SessionTypeOK
  <2>6. SessionTypeOK'
    BY <2>1, <2>3, <2>5, SessionAssumption DEF SessionTypeOK
  <2>7. TokensInTurn'
    <3>1. session.token <= turns + 1 /\ turns \in Nat /\ session.token \in Nat
      BY <1>1, <2>1, SessionIs DEF TokensInTurn, SessionTypeOK
    <3>2. \A s \in Snapshots : s.token \in Nat
      BY DEF Snapshots, Tokens
    <3>3. row # NoRow => row \in Snapshots
      BY DEF SessionTypeOK
    <3>4. \A i \in DOMAIN writes : writes[i] # Delete => writes[i] \in Snapshots
      BY DEF SessionTypeOK
    <3>5. QED BY <2>1, <2>3, <2>4, <3>1, <3>2, <3>3, <3>4 DEF TokensInTurn, Live
  <2>8. ~lost => InStep'
    <3>1. SUFFICES ASSUME ~lost PROVE InStep'
      OBVIOUS
    <3>2. InStep /\ Len(session.log) \in Nat /\ session.base \in Nat
      BY <2>1, <3>1, SessionIs
    <3>3. ~app.open
      BY <2>1
    <3>4. app.cursor = session.base + Len(session.log) /\ app.token = session.token
      BY <2>1, <3>2 DEF InStep
    <3>5. app'.cursor - session'.base = Len(session'.log)
      BY <2>3, <2>5, <3>2, <3>4
    <3>6. Running(session'.log, app'.cursor - session'.base, Len(session'.log))
      BY <3>2, <3>5, <2>3 DEF Running
    <3>7. QED BY <2>3, <2>5, <3>2, <3>3, <3>4, <3>5, <3>6 DEF InStep, Running
  <2>9. QED BY <2>1, <2>4, <2>5, <2>6, <2>7, <2>8
<1>2. ASSUME PostToNothing \/ (Post /\ (app.token # session.token \/ session.active)) PROVE SessionIInv'
  <2>1. /\ app.phase = "idle" /\ UNCHANGED <<session, row, writes, turns, lost>>
        /\ \E phase \in {"idle", "refused"} : app' = [app EXCEPT !.phase = phase]
        /\ ~(Live /\ ~lost)
    <3>1. Live /\ ~lost /\ app.phase = "idle" => app.token = session.token /\ ~session.active
      BY DEF InStep
    <3>2. QED BY <1>2, <3>1 DEF Post, PostToNothing, Live
  <2>2. /\ app'.phase \in {"idle", "refused"} /\ app'.token = app.token /\ app'.cursor = app.cursor
        /\ app'.open = app.open
        /\ app' \in [phase : {"new", "idle", "waiting", "refused"}, token : {0} \cup Tokens,
                     cursor : Nat, open : BOOLEAN, next : Nat]
    BY <2>1 DEF SessionTypeOK
  <2>3. faults' \in 0..MaxFaults
    BY <1>2, SessionAssumption DEF Post, PostToNothing, Faulty, SessionTypeOK
  <2>4. Live' = Live /\ SessionTypeOK' /\ TokensInTurn'
    BY <2>1, <2>2, <2>3 DEF Live, SessionTypeOK, TokensInTurn
  <2>5. QED BY <2>1, <2>2, <2>4
<1>3. QED BY <1>1, <1>2 DEF Post

LEMMA EmitStep == SessionIInv /\ Emit => SessionIInv'
<1> SUFFICES ASSUME SessionIInv, Emit PROVE SessionIInv'
  OBVIOUS
<1> USE DEF SessionIInv
<1>1. /\ Live /\ session.active /\ session' = Appended(session, <<Part>>)
      /\ UNCHANGED <<row, writes, app, turns, faults, lost>>
  BY DEF Emit
<1>2. session \in Session /\ Len(session.log) \in Nat /\ session.base \in Nat
  BY <1>1, SessionIs
<1>3. /\ session' \in Session /\ session'.token = session.token /\ session'.base = session.base
      /\ session'.active /\ Len(session'.log) = Len(session.log) + 1
      /\ session'.log[Len(session.log) + 1] = Part
      /\ \A i \in 1..Len(session.log) : session'.log[i] = session.log[i]
  BY <1>1, <1>2, AppendedIs, EventsAre
<1>4. Live'
  BY <1>3, NamesDiffer DEF Live
<1>5. SessionTypeOK' /\ TokensInTurn'
  BY <1>1, <1>3, <1>4 DEF SessionTypeOK, TokensInTurn, Live
<1>6. ~lost => InStep'
  <2>1. SUFFICES ASSUME ~lost PROVE InStep'
    OBVIOUS
  <2>2. InStep /\ app.phase = "waiting" /\ app.cursor \in Nat
    BY <1>1, <2>1, AppIs DEF InStep
  <2>3. Running(session.log, app.cursor - session.base, Len(session.log))
    BY <1>1, <2>2 DEF InStep
  <2>4. Running(session'.log, app.cursor - session.base, Len(session.log) + 1)
    <3>1. SUFFICES ASSUME NEW i \in (app.cursor - session.base + 1)..(Len(session.log) + 1)
                   PROVE  ~Settles(session'.log[i])
      BY DEF Running
    <3>2. CASE i = Len(session.log) + 1
      BY <1>3, <3>2, EventsAre
    <3>3. CASE i # Len(session.log) + 1
      <4>1. i \in (app.cursor - session.base + 1)..Len(session.log) /\ i \in 1..Len(session.log)
        BY <1>2, <2>2, <3>3 DEF InStep
      <4>2. QED BY <1>3, <2>3, <4>1 DEF Running
    <3>4. QED BY <3>2, <3>3
  <2>5. QED BY <1>1, <1>2, <1>3, <2>2, <2>4 DEF InStep
<1>7. QED BY <1>1, <1>4, <1>5, <1>6

(* A turn ends with its settling event, after others that do not settle. *)
LEMMA Settling ==
  ASSUME SessionIInv, Live, session.active, ~lost, session' \in Session, UNCHANGED <<app, lost>>,
         session'.base = session.base, ~session'.active,
         NEW e, NEW n \in Nat, n > Len(session.log), Len(session'.log) = n, session'.log[n] = e, Settles(e),
         e.kind = "waiting" => e.token = session'.token,
         e.kind # "waiting" => session'.token = session.token,
         \A i \in 1..Len(session.log) : session'.log[i] = session.log[i],
         \A i \in (Len(session.log) + 1)..(n - 1) : ~Settles(session'.log[i])
  PROVE  InStep'
<1>1. /\ InStep /\ app.phase = "waiting" /\ app.cursor \in Nat /\ session.base \in Nat
      /\ Len(session.log) \in Nat
  BY AppIs, SessionIs DEF SessionIInv, InStep
<1>2. /\ session.base <= app.cursor /\ app.cursor <= session.base + Len(session.log)
      /\ app.open => session.base + app.next = app.cursor
      /\ app.token = session.token
      /\ Running(session.log, app.cursor - session.base, Len(session.log))
  BY <1>1 DEF InStep
<1>3. Running(session'.log, app.cursor - session.base, n - 1)
  <2>1. SUFFICES ASSUME NEW i \in (app.cursor - session.base + 1)..(n - 1)
                 PROVE  ~Settles(session'.log[i])
    BY DEF Running
  <2>2. CASE i > Len(session.log)
    BY <1>1, <1>2, <2>2
  <2>3. CASE ~(i > Len(session.log))
    <3>1. i \in (app.cursor - session.base + 1)..Len(session.log) /\ i \in 1..Len(session.log)
      BY <1>1, <1>2, <2>3
    <3>2. QED BY <1>2, <3>1 DEF Running
  <2>4. QED BY <2>2, <2>3
<1>4. app.cursor < session.base + n
  BY <1>1, <1>2
<1>5. QED BY <1>1, <1>2, <1>3, <1>4 DEF InStep

LEMMA AnswerStep == SessionIInv /\ Answer => SessionIInv'
<1> SUFFICES ASSUME SessionIInv, Answer PROVE SessionIInv'
  OBVIOUS
<1> DEFINE said     == Appended(session, <<Part>>)
           complete == [said EXCEPT !.answers = @ + 1]
           rotated  == [complete EXCEPT !.token = NewToken(@)]
           waits    == Appended(rotated, <<Waiting(rotated.token)>>)
           settled  == [waits EXCEPT !.active = FALSE]
<1>1. /\ Live /\ session.active /\ session' = settled
      /\ writes' = Enqueued(Enqueued(writes, Snapshot(rotated)), Snapshot(settled))
      /\ UNCHANGED <<row, app, turns, faults, lost>>
  BY DEF Answer
<1>2. /\ session \in Session /\ Len(session.log) \in Nat /\ session.base \in Nat /\ session.token \in Nat
      /\ session.token \in Tokens
  BY <1>1, SessionIs DEF SessionIInv
<1>3. session.token <= turns /\ turns \in 0..MaxTurns /\ MaxTurns \in Nat
  BY <1>1, SessionAssumption DEF SessionIInv, TokensInTurn, SessionTypeOK
<1>4. /\ said \in Session /\ said.token = session.token /\ said.base = session.base
      /\ said.active /\ Len(said.log) = Len(session.log) + 1 /\ said.log[Len(session.log) + 1] = Part
      /\ \A i \in 1..Len(session.log) : said.log[i] = session.log[i]
  BY <1>1, <1>2, AppendedIs, EventsAre
<1> HIDE DEF said
<1>5. session.token + 1 \in Tokens
  BY <1>2, <1>3 DEF Tokens
<1>6. /\ rotated \in Session /\ rotated.token = session.token + 1 /\ rotated.base = session.base
      /\ rotated.log = said.log
  <2>1. complete \in Session /\ complete.token = said.token /\ complete.base = said.base
        /\ complete.log = said.log
    BY <1>4 DEF Session
  <2> HIDE DEF complete
  <2>2. rotated = [complete EXCEPT !.token = session.token + 1]
    BY <1>4, <2>1 DEF NewToken
  <2> HIDE DEF rotated
  <2>3. QED BY <1>4, <1>5, <2>1, <2>2 DEF Session
<1> HIDE DEF rotated
<1>7. Waiting(rotated.token) \in Event
  BY <1>5, <1>6, EventsAre
<1>8. /\ waits \in Session /\ waits.token = session.token + 1 /\ waits.base = session.base
      /\ Len(waits.log) = Len(session.log) + 2
      /\ waits.log[Len(session.log) + 2] = Waiting(session.token + 1)
      /\ \A i \in 1..(Len(session.log) + 1) : waits.log[i] = said.log[i]
  <2>1. /\ waits \in Session /\ waits.token = rotated.token /\ waits.base = rotated.base
        /\ Len(waits.log) = Len(rotated.log) + 1
        /\ waits.log[Len(rotated.log) + 1] = Waiting(rotated.token)
        /\ \A i \in 1..Len(rotated.log) : waits.log[i] = rotated.log[i]
    BY <1>6, <1>7, AppendedIs
  <2>2. Len(rotated.log) = Len(session.log) + 1 /\ Len(rotated.log) + 1 = Len(session.log) + 2
    BY <1>2, <1>4, <1>6
  <2> HIDE DEF waits
  <2>3. QED BY <1>6, <2>1, <2>2
<1> HIDE DEF waits
<1>9. /\ settled \in Session /\ settled.token = session.token + 1 /\ settled.base = session.base
      /\ settled.log = waits.log /\ ~settled.active
  BY <1>8 DEF Session
<1> HIDE DEF settled
<1>10. Live'
  BY <1>1, <1>9, NamesDiffer DEF Live
<1>11. /\ Snapshot(rotated) \in Snapshots /\ Snapshot(rotated).token = session.token + 1
       /\ Snapshot(settled) \in Snapshots /\ Snapshot(settled).token = session.token + 1
  BY <1>6, <1>9, SnapshotIs
<1>12. /\ writes' \in Seq({Delete} \cup Snapshots)
       /\ \A i \in DOMAIN writes' :
            writes'[i] \in {Snapshot(rotated), Snapshot(settled)} \/ \E j \in DOMAIN writes : writes'[i] = writes[j]
  <2> DEFINE once == Enqueued(writes, Snapshot(rotated))
  <2>1. /\ once \in Seq({Delete} \cup Snapshots)
        /\ \A i \in DOMAIN once : once[i] = Snapshot(rotated) \/ \E j \in DOMAIN writes : once[i] = writes[j]
    BY <1>11, EnqueuedIs DEF SessionIInv, SessionTypeOK
  <2> HIDE DEF once
  <2>2. /\ Enqueued(once, Snapshot(settled)) \in Seq({Delete} \cup Snapshots)
        /\ \A i \in DOMAIN Enqueued(once, Snapshot(settled)) :
             \/ Enqueued(once, Snapshot(settled))[i] = Snapshot(settled)
             \/ \E j \in DOMAIN once : Enqueued(once, Snapshot(settled))[i] = once[j]
    BY <1>11, <2>1, EnqueuedIs
  <2>3. writes' = Enqueued(once, Snapshot(settled))
    BY <1>1 DEF once
  <2>4. QED BY <2>1, <2>2, <2>3
<1>13. SessionTypeOK'
  BY <1>1, <1>9, <1>12 DEF SessionIInv, SessionTypeOK
<1>14. TokensInTurn'
  BY <1>1, <1>2, <1>3, <1>9, <1>10, <1>11, <1>12 DEF SessionIInv, TokensInTurn, Live
<1>15. ~lost => InStep'
  <2>1. SUFFICES ASSUME ~lost PROVE InStep'
    OBVIOUS
  <2> DEFINE n == Len(session.log) + 2
             e == Waiting(session.token + 1)
  <2>2. n \in Nat /\ n > Len(session.log) /\ Len(session'.log) = n /\ session'.log[n] = e
    BY <1>1, <1>2, <1>8, <1>9
  <2>3. Settles(e) /\ e.kind = "waiting" /\ e.token = session'.token
    BY <1>1, <1>9, EventsAre
  <2>4. \A i \in 1..Len(session.log) : session'.log[i] = session.log[i]
    BY <1>1, <1>2, <1>4, <1>8, <1>9
  <2>5. \A i \in (Len(session.log) + 1)..(n - 1) : ~Settles(session'.log[i])
    <3>1. TAKE i \in (Len(session.log) + 1)..(n - 1)
    <3>2. i = Len(session.log) + 1
      BY <1>2
    <3>3. session'.log[i] = Part
      BY <1>1, <1>2, <1>4, <1>8, <1>9, <3>2
    <3>4. QED BY <3>3, EventsAre
  <2>6. session' \in Session /\ session'.base = session.base /\ ~session'.active /\ UNCHANGED <<app, lost>>
    BY <1>1, <1>9
  <2> HIDE DEF n, e
  <2>7. QED BY <1>1, <2>1, <2>2, <2>3, <2>4, <2>5, <2>6, Settling
<1>16. QED BY <1>1, <1>10, <1>13, <1>14, <1>15 DEF SessionIInv

LEMMA FailStep == SessionIInv /\ Fail => SessionIInv'
<1> SUFFICES ASSUME SessionIInv, Fail PROVE SessionIInv'
  OBVIOUS
<1> DEFINE ended   == Appended(session, <<Failed>>)
           settled == [ended EXCEPT !.active = FALSE]
<1>1. /\ Live /\ session.active /\ session' = settled
      /\ writes' = Enqueued(writes, Snapshot(settled))
      /\ UNCHANGED <<row, app, turns, faults, lost>>
  BY DEF Fail
<1>2. /\ session \in Session /\ Len(session.log) \in Nat /\ session.base \in Nat /\ session.token \in Nat
  BY <1>1, SessionIs DEF SessionIInv
<1>3. session.token <= turns /\ turns \in 0..MaxTurns
  BY <1>1 DEF SessionIInv, TokensInTurn, SessionTypeOK
<1>4. /\ ended \in Session /\ ended.token = session.token /\ ended.base = session.base
      /\ Len(ended.log) = Len(session.log) + 1 /\ ended.log[Len(session.log) + 1] = Failed
      /\ \A i \in 1..Len(session.log) : ended.log[i] = session.log[i]
  BY <1>2, AppendedIs, EventsAre
<1> HIDE DEF ended
<1>5. /\ settled \in Session /\ settled.token = session.token /\ settled.base = session.base
      /\ settled.log = ended.log /\ ~settled.active
  BY <1>4 DEF Session
<1> HIDE DEF settled
<1>6. Live'
  BY <1>1, <1>5, NamesDiffer DEF Live
<1>7. Snapshot(settled) \in Snapshots /\ Snapshot(settled).token = session.token
  BY <1>5, SnapshotIs
<1>8. /\ writes' \in Seq({Delete} \cup Snapshots)
      /\ \A i \in DOMAIN writes' :
           writes'[i] = Snapshot(settled) \/ \E j \in DOMAIN writes : writes'[i] = writes[j]
  BY <1>1, <1>7, EnqueuedIs DEF SessionIInv, SessionTypeOK
<1>9. SessionTypeOK'
  BY <1>1, <1>5, <1>8 DEF SessionIInv, SessionTypeOK
<1>10. TokensInTurn'
  BY <1>1, <1>2, <1>3, <1>5, <1>6, <1>7, <1>8 DEF SessionIInv, TokensInTurn, Live
<1>11. ~lost => InStep'
  <2>1. SUFFICES ASSUME ~lost PROVE InStep'
    OBVIOUS
  <2> DEFINE n == Len(session.log) + 1
  <2>2. n \in Nat /\ n > Len(session.log) /\ Len(session'.log) = n /\ session'.log[n] = Failed
    BY <1>1, <1>2, <1>4, <1>5
  <2>3. Settles(Failed) /\ Failed.kind # "waiting" /\ session'.token = session.token
    BY <1>1, <1>5, EventsAre
  <2>4. \A i \in 1..Len(session.log) : session'.log[i] = session.log[i]
    BY <1>1, <1>4, <1>5
  <2>5. \A i \in (Len(session.log) + 1)..(n - 1) : ~Settles(session'.log[i])
    BY <1>2
  <2>6. session' \in Session /\ session'.base = session.base /\ ~session'.active /\ UNCHANGED <<app, lost>>
    BY <1>1, <1>5
  <2> HIDE DEF n
  <2>7. QED BY <1>1, <2>1, <2>2, <2>3, <2>4, <2>5, <2>6, Settling
<1>12. QED BY <1>1, <1>6, <1>9, <1>10, <1>11 DEF SessionIInv

-----------------------------------------------------------------------------
(* The stream. *)

Apps == [phase : {"new", "idle", "waiting", "refused"}, token : {0} \cup Tokens,
         cursor : Nat, open : BOOLEAN, next : Nat]

LEMMA StartOfIs ==
  ASSUME NEW cursor \in Nat, NEW base \in Nat
  PROVE  StartOf(cursor, base) \in Nat /\ (base <= cursor => base + StartOf(cursor, base) = cursor)
BY DEF StartOf

LEMMA OpenStep == SessionIInv /\ OpenStream => SessionIInv'
<1> SUFFICES ASSUME SessionIInv, OpenStream PROVE SessionIInv'
  OBVIOUS
<1> USE DEF SessionIInv
<1> DEFINE start == StartOf(app.cursor, session.base)
<1>1. /\ app.phase = "waiting" /\ ~app.open /\ Live
      /\ app' = [app EXCEPT !.open = TRUE, !.next = start]
      /\ UNCHANGED <<session, row, writes, turns, faults, lost>>
  BY DEF OpenStream
<1>2. start \in Nat /\ (session.base <= app.cursor => session.base + start = app.cursor)
  BY <1>1, AppIs, SessionIs, StartOfIs
<1> HIDE DEF start
<1>3. /\ app' \in Apps /\ app'.open /\ app'.next = start
      /\ app'.phase = app.phase /\ app'.token = app.token /\ app'.cursor = app.cursor
  BY <1>1, <1>2 DEF SessionTypeOK, Apps
<1>4. Live' = Live /\ SessionTypeOK' /\ TokensInTurn'
  BY <1>1, <1>3 DEF Live, SessionTypeOK, TokensInTurn, Apps
<1>5. ~lost => InStep'
  BY <1>1, <1>2, <1>3 DEF InStep, Running
<1>6. QED BY <1>1, <1>3, <1>4, <1>5

LEMMA ReadStep == SessionIInv /\ Read => SessionIInv'
<1> SUFFICES ASSUME SessionIInv, Read PROVE SessionIInv'
  OBVIOUS
<1> USE DEF SessionIInv
<1> DEFINE event == session.log[app.next + 1]
           moved == [app EXCEPT !.cursor = @ + 1, !.next = @ + 1]
<1>1. /\ app.open /\ Live /\ app.next < Len(session.log) /\ app.phase = "waiting"
      /\ UNCHANGED <<session, row, writes, turns, faults, lost>>
      /\ app' = IF Settles(event)
                THEN [moved EXCEPT !.open = FALSE, !.phase = "idle", !.next = 0,
                                   !.token = IF event.kind = "waiting" THEN event.token ELSE @]
                ELSE moved
  BY DEF Read
<1>2. /\ app \in Apps /\ app.next \in Nat /\ app.cursor \in Nat /\ Len(session.log) \in Nat
      /\ session.base \in Nat /\ session.log \in Seq(Event)
  BY <1>1, AppIs, SessionIs DEF SessionTypeOK, Apps
<1>3. event \in Event
  BY <1>1, <1>2
<1>4. event.token \in {0} \cup Tokens
  BY <1>3 DEF Event
<1>5. /\ moved \in Apps /\ moved.cursor = app.cursor + 1 /\ moved.next = app.next + 1
      /\ moved.phase = "waiting" /\ moved.open = app.open /\ moved.token = app.token
  <2>1. moved = [app EXCEPT !.cursor = app.cursor + 1, !.next = app.next + 1]
    BY <1>2 DEF Apps
  <2> HIDE DEF moved
  <2>2. app.cursor + 1 \in Nat /\ app.next + 1 \in Nat
    BY <1>2
  <2>3. QED BY <1>1, <1>2, <2>1, <2>2 DEF Apps
<1> HIDE DEF moved, event
<1>6. ASSUME Settles(event)
      PROVE  /\ app' \in Apps /\ app'.cursor = app.cursor + 1 /\ app'.phase = "idle" /\ ~app'.open
             /\ app'.token = IF event.kind = "waiting" THEN event.token ELSE app.token
  <2> DEFINE token == IF event.kind = "waiting" THEN event.token ELSE app.token
  <2>1. token \in {0} \cup Tokens
    BY <1>2, <1>4 DEF Apps
  <2>2. app' = [moved EXCEPT !.open = FALSE, !.phase = "idle", !.next = 0, !.token = token]
    BY <1>1, <1>5, <1>6 DEF Apps
  <2> HIDE DEF token
  <2>3. app' \in Apps /\ app'.cursor = app.cursor + 1 /\ app'.phase = "idle" /\ ~app'.open
        /\ app'.token = token
    BY <1>5, <2>1, <2>2 DEF Apps
  <2>4. QED BY <2>3 DEF token
<1>7. ~Settles(event) => app' = moved
  BY <1>1
<1>8. Live' = Live /\ SessionTypeOK' /\ TokensInTurn' /\ (app'.open => app'.phase = "waiting")
      /\ app'.phase \in {"idle", "waiting"}
  BY <1>1, <1>5, <1>6, <1>7 DEF Live, SessionTypeOK, TokensInTurn, Apps
<1>9. ~lost => InStep'
  <2>1. SUFFICES ASSUME ~lost PROVE InStep'
    OBVIOUS
  <2>2. /\ InStep /\ app.cursor - session.base = app.next
        /\ session.base <= app.cursor + 1 /\ app.cursor + 1 <= session.base + Len(session.log)
    BY <1>1, <1>2, <2>1 DEF InStep
  <2>3. CASE Settles(event)
    <3>1. ~Running(session.log, app.next, app.next + 1)
      BY <1>2, <2>3 DEF Running, event
    <3>2. ~session.active /\ app.next + 1 = Len(session.log)
      <4>1. ASSUME NEW n \in Nat, app.next + 1 <= n PROVE ~Running(session.log, app.next, n)
        BY <1>2, <2>3, <4>1 DEF Running, event
      <4>2. session.active \in BOOLEAN
        BY <1>1, SessionIs
      <4>3. ~session.active
        BY <1>1, <1>2, <2>2, <4>1, <4>2 DEF InStep
      <4>4. Running(session.log, app.next, Len(session.log) - 1)
        BY <1>1, <2>2, <4>3 DEF InStep
      <4>5. CASE app.next + 1 # Len(session.log)
        <5>1. Len(session.log) - 1 \in Nat /\ app.next + 1 <= Len(session.log) - 1
          BY <1>1, <1>2, <4>5
        <5>2. QED BY <4>1, <4>4, <5>1
      <4>6. QED BY <4>3, <4>5
    <3>3. app'.token = session.token
      <4>1. event = session.log[Len(session.log)]
        BY <3>2 DEF event
      <4>2. QED BY <1>1, <1>6, <2>2, <2>3, <3>2, <4>1 DEF InStep
    <3>4. app'.cursor = session.base + Len(session.log)
      BY <1>2, <1>6, <2>2, <2>3, <3>2
    <3>5. QED BY <1>1, <1>2, <1>6, <2>2, <2>3, <3>2, <3>3, <3>4 DEF InStep
  <2>4. CASE ~Settles(event)
    <3>1. app' = moved
      BY <1>7, <2>4
    <3>2. app'.cursor - session.base = app.next + 1
      BY <1>2, <1>5, <2>2, <3>1
    <3>3. ~session.active => app.next + 1 # Len(session.log)
      BY <1>1, <2>2, <2>4 DEF InStep, event
    <3>4. \A n : Running(session.log, app.next, n) => Running(session.log, app.next + 1, n)
      <4>1. SUFFICES ASSUME NEW n, Running(session.log, app.next, n), NEW i \in (app.next + 1 + 1)..n
                     PROVE  ~Settles(session.log[i])
        BY DEF Running
      <4>2. i \in (app.next + 1)..n
        BY <1>2
      <4>3. QED BY <4>1, <4>2 DEF Running
    <3>5. session.active \in BOOLEAN
      BY <1>1, SessionIs
    <3>6. /\ session'.base = session.base /\ session'.log = session.log /\ session'.active = session.active
          /\ session'.token = session.token /\ app'.phase = "waiting" /\ app'.token = app.token
          /\ app'.cursor = app.cursor + 1 /\ app'.next = app.next + 1 /\ app'.open = app.open
      BY <1>1, <1>5, <3>1
    <3>7. session.active => app.token = session.token /\ Running(session.log, app.next, Len(session.log))
      BY <1>1, <2>2 DEF InStep
    <3>8. ~session.active =>
            /\ app.cursor < session.base + Len(session.log)
            /\ Running(session.log, app.next, Len(session.log) - 1)
            /\ Settles(session.log[Len(session.log)])
            /\ IF session.log[Len(session.log)].kind = "waiting"
               THEN session.log[Len(session.log)].token = session.token
               ELSE app.token = session.token
      BY <1>1, <2>2 DEF InStep
    <3>9. session.base + app.next = app.cursor
      BY <1>1, <2>2 DEF InStep
    <3> DEFINE end == session.base + Len(session.log)
    <3>10. /\ session.base <= app.cursor + 1 /\ app.cursor + 1 <= end
           /\ session.base + (app.next + 1) = app.cursor + 1
           /\ ~session.active => app.cursor + 1 < end
      BY <1>2, <1>1, <2>2, <3>3, <3>9
    <3>11. InStep'
      BY <3>2, <3>4, <3>6, <3>7, <3>8, <3>10 DEF InStep
    <3>12. QED BY <3>11
  <2>5. QED BY <2>3, <2>4
<1>10. QED BY <1>1, <1>8, <1>9

LEMMA BreakStep == SessionIInv /\ StreamBreaks => SessionIInv'
<1> SUFFICES ASSUME SessionIInv, StreamBreaks PROVE SessionIInv'
  OBVIOUS
<1> USE DEF SessionIInv
<1>1. /\ app.open /\ app' = [app EXCEPT !.open = FALSE, !.next = 0]
      /\ faults' \in 0..MaxFaults
      /\ UNCHANGED <<session, row, writes, turns, lost>>
  BY SessionAssumption DEF StreamBreaks, Faulty, SessionTypeOK
<1>2. /\ app' \in Apps /\ ~app'.open
      /\ app'.phase = app.phase /\ app'.token = app.token /\ app'.cursor = app.cursor
  BY <1>1 DEF SessionTypeOK, Apps
<1>3. Live' = Live /\ SessionTypeOK' /\ TokensInTurn'
  BY <1>1, <1>2 DEF Live, SessionTypeOK, TokensInTurn, Apps
<1>4. Live /\ ~lost => InStep'
  BY <1>1, <1>2 DEF InStep, Running
<1>5. QED BY <1>1, <1>2, <1>3, <1>4

-----------------------------------------------------------------------------
(* Process death, and idle time. *)

LEMMA CrashStep == SessionIInv /\ Crash => SessionIInv'
<1> SUFFICES ASSUME SessionIInv, Crash PROVE SessionIInv'
  OBVIOUS
<1> USE DEF SessionIInv
<1>1. /\ lost' = (lost \/ (Live /\ Forgets)) /\ session' = NoSession /\ writes' = <<>>
      /\ app' = [app EXCEPT !.open = FALSE, !.next = 0,
                            !.phase = IF @ = "waiting" THEN "idle" ELSE @]
      /\ faults' \in 0..MaxFaults /\ UNCHANGED <<row, turns>>
      /\ Live \/ writes # <<>>
  BY SessionAssumption DEF Crash, Faulty, SessionTypeOK
<1>2. /\ app' \in Apps /\ ~app'.open /\ app'.token = app.token /\ app'.cursor = app.cursor
      /\ app'.phase = IF app.phase = "waiting" THEN "idle" ELSE app.phase
  BY <1>1 DEF SessionTypeOK, Apps
<1>3. ~Live'
  BY <1>1 DEF Live
<1>4. SessionTypeOK' /\ TokensInTurn'
  <2>1. lost \in BOOLEAN /\ lost' \in BOOLEAN
    BY <1>1 DEF SessionTypeOK
  <2>2. writes' \in Seq({Delete} \cup Snapshots) /\ DOMAIN writes' = {}
    BY <1>1
  <2>3. QED BY <1>1, <1>2, <1>3, <2>1, <2>2 DEF SessionTypeOK, TokensInTurn, Apps
<1>5. ~lost' /\ row' # NoRow /\ app'.phase = "idle" => row'.base = app'.cursor /\ row'.token = app'.token
  <2>1. SUFFICES ASSUME ~lost', row # NoRow, app'.phase = "idle"
                 PROVE  row.base = app.cursor /\ row.token = app.token
    BY <1>1, <1>2
  <2>2. ~lost
    BY <1>1, <2>1 DEF SessionTypeOK
  <2>3. CASE Live
    <3>1. ~session.active /\ row = Snapshot(session) /\ app.cursor = Snapshot(session).base
      BY <1>1, <2>1, <2>3 DEF Forgets
    <3>2. session \in Session /\ Len(session.log) \in Nat /\ session.base \in Nat
      BY <2>3, SessionIs
    <3>3. row.token = session.token /\ row.base = session.base + Len(session.log)
      BY <3>1, <3>2, SnapshotIs
    <3>4. InStep /\ app.cursor = session.base + Len(session.log)
      BY <2>2, <2>3, <3>1, <3>3
    <3>5. app.phase # "waiting"
      BY <3>1, <3>2, <3>4 DEF InStep
    <3>6. app.token = session.token
      BY <3>4, <3>5 DEF InStep
    <3>7. QED BY <3>1, <3>3, <3>6
  <2>4. CASE ~Live
    BY <1>1, <1>2, <2>1, <2>2, <2>4
  <2>5. QED BY <2>3, <2>4
<1>6. app'.phase # "new"
  BY <1>1, <1>2
<1>7. app'.phase # "waiting"
  BY <1>2
<1>8. QED BY <1>1, <1>2, <1>3, <1>4, <1>5, <1>6, <1>7

LEMMA CollectStep == SessionIInv /\ Collect => SessionIInv'
<1> SUFFICES ASSUME SessionIInv, Collect PROVE SessionIInv'
  OBVIOUS
<1> USE DEF SessionIInv
<1>1. /\ Live /\ ~session.active /\ writes = <<>> /\ app.phase # "waiting" /\ session' = NoSession
      /\ writes' = Enqueued(writes, Delete) /\ lost' = (lost \/ Forgets)
      /\ UNCHANGED <<row, app, turns, faults>>
  BY DEF Collect
<1>2. writes' = <<Delete>>
  BY <1>1 DEF Enqueued
<1>3. ~Live'
  BY <1>1 DEF Live
<1>4. SessionTypeOK' /\ TokensInTurn'
  <2>1. lost \in BOOLEAN /\ lost' \in BOOLEAN
    BY <1>1 DEF SessionTypeOK, Forgets
  <2>2. writes' \in Seq({Delete} \cup Snapshots) /\ \A i \in DOMAIN writes' : writes'[i] = Delete
    BY <1>2
  <2>3. QED BY <1>1, <1>3, <2>1, <2>2 DEF SessionTypeOK, TokensInTurn
<1>5. ~lost' /\ row' # NoRow /\ app'.phase = "idle" => row'.base = app'.cursor /\ row'.token = app'.token
  <2>1. SUFFICES ASSUME ~lost', row # NoRow, app.phase = "idle"
                 PROVE  row.base = app.cursor /\ row.token = app.token
    BY <1>1
  <2>2. ~lost /\ row = Snapshot(session) /\ app.cursor = Snapshot(session).base
    BY <1>1, <2>1 DEF Forgets
  <2>3. session \in Session
    BY <1>1, SessionIs
  <2>4. row.token = session.token
    BY <2>2, <2>3, SnapshotIs
  <2>5. app.token = session.token
    BY <1>1, <2>1, <2>2 DEF InStep
  <2>6. QED BY <2>2, <2>4, <2>5
<1>6. QED BY <1>1, <1>2, <1>3, <1>4, <1>5

(* Each step keeps it. *)
LEMMA SessionKept ==
  ASSUME SessionIInv, [SessionNext]_sessionVars
  PROVE  SessionIInv'
<1>1. CASE WriteLands \/ WriteFails
  BY <1>1, WriteStep
<1>2. CASE Create
  BY <1>2, CreateStep
<1>3. CASE Restore
  BY <1>3, RestoreStep
<1>4. CASE Post \/ PostToNothing
  BY <1>4, PostStep
<1>5. CASE Emit
  BY <1>5, EmitStep
<1>6. CASE Answer
  BY <1>6, AnswerStep
<1>7. CASE Fail
  BY <1>7, FailStep
<1>8. CASE OpenStream
  BY <1>8, OpenStep
<1>9. CASE Read
  BY <1>9, ReadStep
<1>10. CASE StreamBreaks
  BY <1>10, BreakStep
<1>11. CASE Crash
  BY <1>11, CrashStep
<1>12. CASE Collect
  BY <1>12, CollectStep
<1>13. CASE UNCHANGED sessionVars
  BY <1>13 DEF sessionVars, SessionIInv, SessionTypeOK, TokensInTurn, InStep, Running, Live
<1>14. QED BY <1>1, <1>2, <1>3, <1>4, <1>5, <1>6, <1>7, <1>8, <1>9, <1>10, <1>11, <1>12, <1>13
          DEF SessionNext

(* Turns, restarts, streams and the collector: each keeps app, session and row in step. *)
THEOREM SessionInductive == SessionSpec => []SessionIInv
<1>1. SessionIInv /\ [SessionNext]_sessionVars => SessionIInv'
  BY SessionKept
<1>2. QED BY <1>1, SessionStarts, PTL DEF SessionSpec

(***************************************************************************)
(* A restart between turns, once saves and reads are done, is unseen: the  *)
(* cursor names the log's next event, the token is the session's.          *)
(***************************************************************************)
THEOREM RestartSeamless == SessionSpec => []RestartIsSeamless
<1>1. SessionIInv => RestartIsSeamless
  BY DEF SessionIInv, InStep, RestartIsSeamless
<1>2. QED BY <1>1, SessionInductive, PTL

-----------------------------------------------------------------------------
(* The row, the writes under way and the session: each no older than the one before. *)

After(new, old) == old.base <= new.base /\ old.answers <= new.answers

InOrder(chain) ==
  \A i, j \in DOMAIN chain :
    i <= j /\ chain[i] # Delete /\ chain[j] # Delete => After(chain[j], chain[i])

NoneBefore(chain, s) == \A i \in DOMAIN chain : chain[i] # Delete => After(chain[i], s)
NoneAfter(chain, s) == \A i \in DOMAIN chain : chain[i] # Delete => After(s, chain[i])

RowIInv ==
  /\ InOrder(writes)
  /\ row # NoRow => NoneBefore(writes, row)
  /\ Live => NoneAfter(writes, Snapshot(session))
  /\ Live /\ row # NoRow => After(Snapshot(session), row)

LEMMA AfterIsOrder ==
  /\ \A s \in Snapshots : After(s, s)
  /\ \A s, t, u \in Snapshots : After(s, t) /\ After(t, u) => After(s, u)
BY DEF After, Snapshots

(* A save that is no older than the chain goes behind it. *)
LEMMA BehindTheChain ==
  ASSUME NEW chain \in Seq({Delete} \cup Snapshots), InOrder(chain),
         NEW s \in Snapshots, NoneAfter(chain, s)
  PROVE  /\ Enqueued(chain, s) \in Seq({Delete} \cup Snapshots)
         /\ InOrder(Enqueued(chain, s)) /\ NoneAfter(Enqueued(chain, s), s)
         /\ \A r : NoneBefore(chain, r) /\ After(s, r) => NoneBefore(Enqueued(chain, s), r)
<1> DEFINE longer == Enqueued(chain, s)
<1>1. /\ longer \in Seq({Delete} \cup Snapshots) /\ DOMAIN longer = 1..(Len(chain) + 1)
      /\ DOMAIN chain = 1..Len(chain) /\ Len(chain) \in Nat
      /\ longer[Len(chain) + 1] = s /\ \A i \in 1..Len(chain) : longer[i] = chain[i]
  BY DEF Enqueued
<1> HIDE DEF longer
<1>2. \A i \in DOMAIN longer : i = Len(chain) + 1 \/ i \in DOMAIN chain
  BY <1>1
<1>3. NoneAfter(longer, s)
  BY <1>1, <1>2, AfterIsOrder DEF NoneAfter
<1>4. InOrder(longer)
  <2>1. SUFFICES ASSUME NEW i \in DOMAIN longer, NEW j \in DOMAIN longer,
                        i <= j, longer[i] # Delete, longer[j] # Delete
                 PROVE  After(longer[j], longer[i])
    BY DEF InOrder
  <2>2. CASE j = Len(chain) + 1
    BY <1>1, <1>3, <2>1, <2>2 DEF NoneAfter
  <2>3. CASE j \in DOMAIN chain
    <3>1. i \in DOMAIN chain
      BY <1>1, <2>1, <2>3
    <3>2. QED BY <1>1, <2>1, <2>3, <3>1 DEF InOrder
  <2>4. QED BY <1>2, <2>2, <2>3
<1>5. ASSUME NEW r, NoneBefore(chain, r), After(s, r) PROVE NoneBefore(longer, r)
  BY <1>1, <1>2, <1>5 DEF NoneBefore
<1>6. QED BY <1>1, <1>3, <1>4, <1>5 DEF longer

LEMMA LaterSession ==
  ASSUME NEW chain \in Seq({Delete} \cup Snapshots),
         NEW s \in Snapshots, NEW t \in Snapshots, After(t, s), NoneAfter(chain, s)
  PROVE  NoneAfter(chain, t)
<1>1. SUFFICES ASSUME NEW i \in DOMAIN chain, chain[i] # Delete PROVE After(t, chain[i])
  BY DEF NoneAfter
<1>2. chain[i] \in Snapshots /\ After(s, chain[i])
  BY <1>1 DEF NoneAfter
<1>3. QED BY <1>2, AfterIsOrder

LEMMA ChainGoesOn ==
  ASSUME SessionIInv, RowIInv, WriteLands \/ WriteFails
  PROVE  RowIInv' /\ (row # NoRow /\ row' # NoRow => After(row', row))
<1>1. /\ writes # <<>> /\ writes' = Tail(writes) /\ UNCHANGED session
      /\ writes \in Seq({Delete} \cup Snapshots) /\ (row # NoRow => row \in Snapshots)
      /\ row' = row \/ row' = (IF Head(writes) = Delete THEN NoRow ELSE Head(writes))
  BY DEF WriteLands, WriteFails, SessionIInv, SessionTypeOK
<1>2. /\ DOMAIN writes = 1..Len(writes) /\ Len(writes) \in Nat \ {0} /\ Head(writes) = writes[1]
      /\ DOMAIN writes' = 1..(Len(writes) - 1)
      /\ \A i \in DOMAIN writes' : writes'[i] = writes[i + 1]
      /\ \A i \in DOMAIN writes : writes[i] \in {Delete} \cup Snapshots
  BY <1>1
<1>3. \A i \in DOMAIN writes' : i + 1 \in DOMAIN writes
  BY <1>2
<1>4. Live' = Live /\ 1 \in DOMAIN writes
  BY <1>1, <1>2 DEF Live
<1>5. InOrder(writes')
  <2>1. SUFFICES ASSUME NEW i \in DOMAIN writes', NEW j \in DOMAIN writes',
                        i <= j, writes'[i] # Delete, writes'[j] # Delete
                 PROVE  After(writes'[j], writes'[i])
    BY DEF InOrder
  <2>2. i + 1 <= j + 1
    BY <1>2, <2>1
  <2>3. QED BY <1>2, <1>3, <2>1, <2>2 DEF InOrder, RowIInv
<1>6. ASSUME row' # NoRow PROVE NoneBefore(writes', row')
  <2>1. CASE row' = row
    BY <1>2, <1>3, <1>6, <2>1 DEF NoneBefore, RowIInv
  <2>2. CASE row' # row
    <3>1. row' = writes[1] /\ writes[1] # Delete
      BY <1>1, <1>2, <1>6, <2>2
    <3>2. ASSUME NEW i \in DOMAIN writes', writes'[i] # Delete PROVE After(writes'[i], row')
      <4>1. 1 <= i + 1
        BY <1>2
      <4>2. QED BY <1>2, <1>3, <1>4, <3>1, <3>2, <4>1 DEF InOrder, RowIInv
    <3>3. QED BY <3>2 DEF NoneBefore
  <2>3. QED BY <2>1, <2>2
<1>7. ASSUME Live
      PROVE  NoneAfter(writes', Snapshot(session)) /\ (row' # NoRow => After(Snapshot(session), row'))
  BY <1>1, <1>2, <1>3, <1>4, <1>7 DEF NoneAfter, RowIInv
<1>8. row # NoRow /\ row' # NoRow => After(row', row)
  BY <1>1, <1>2, <1>4, AfterIsOrder DEF NoneBefore, RowIInv
<1>9. QED BY <1>1, <1>4, <1>5, <1>6, <1>7, <1>8 DEF RowIInv

(* The session grows, and its saves with it. *)
LEMMA SessionGoesOn ==
  ASSUME SessionIInv, RowIInv, Live, session' \in Session, UNCHANGED <<row, writes>>,
         After(Snapshot(session'), Snapshot(session))
  PROVE  RowIInv'
<1>1. /\ Snapshot(session) \in Snapshots /\ Snapshot(session') \in Snapshots
      /\ writes \in Seq({Delete} \cup Snapshots) /\ (row # NoRow => row \in Snapshots)
  BY SnapshotIs, SessionIs DEF SessionIInv, SessionTypeOK
<1>2. NoneAfter(writes, Snapshot(session'))
  BY <1>1, LaterSession DEF RowIInv
<1>3. row # NoRow => After(Snapshot(session'), row)
  BY <1>1, AfterIsOrder DEF RowIInv
<1>4. Live' /\ Snapshot(session)' = Snapshot(session')
  BY NamesDiffer DEF Live, Snapshot
<1>5. QED BY <1>2, <1>3, <1>4 DEF RowIInv

LEMMA TurnGoesOn == SessionIInv /\ RowIInv /\ (Post \/ Emit) => RowIInv'
<1> SUFFICES ASSUME SessionIInv, RowIInv, Post \/ Emit PROVE RowIInv'
  OBVIOUS
<1>1. Live /\ UNCHANGED <<row, writes>>
  BY DEF Post, Emit
<1>2. session \in Session /\ session.base \in Nat /\ Len(session.log) \in Nat /\ session.answers \in Nat
  BY <1>1, SessionIs DEF SessionIInv, Session
<1>3. session' \in Session /\ After(Snapshot(session'), Snapshot(session))
  <2>1. CASE session' = session
    BY <1>2, <2>1 DEF After, Snapshot
  <2>2. CASE session' = [session EXCEPT !.active = TRUE]
    <3>1. /\ session' \in Session /\ session'.base = session.base /\ session'.answers = session.answers
          /\ session'.log = session.log
      BY <1>2, <2>2 DEF Session
    <3>2. QED BY <1>2, <3>1 DEF After, Snapshot
  <2>3. CASE session' = Appended(session, <<Part>>)
    <3>1. /\ session' \in Session /\ session'.base = session.base /\ session'.answers = session.answers
          /\ Len(session'.log) = Len(session.log) + 1
      BY <1>2, <2>3, AppendedIs, EventsAre
    <3>2. QED BY <1>2, <3>1 DEF After, Snapshot
  <2>4. QED BY <2>1, <2>2, <2>3 DEF Post, Emit
<1>4. QED BY <1>1, <1>3, SessionGoesOn

(* Each save of a turn that ends is no older than the session it started from. *)
LEMMA SavesGoBehind ==
  ASSUME SessionIInv, RowIInv, Live, UNCHANGED row, session' \in Session,
         NEW saved \in Snapshots, After(saved, Snapshot(session)), After(Snapshot(session'), saved),
         \/ writes' = Enqueued(writes, Snapshot(session')) /\ saved = Snapshot(session')
         \/ writes' = Enqueued(Enqueued(writes, saved), Snapshot(session'))
  PROVE  RowIInv'
<1> DEFINE now == Snapshot(session')
           once == Enqueued(writes, saved)
<1>1. /\ Snapshot(session) \in Snapshots /\ now \in Snapshots
      /\ writes \in Seq({Delete} \cup Snapshots) /\ (row # NoRow => row \in Snapshots)
  BY SnapshotIs, SessionIs DEF SessionIInv, SessionTypeOK
<1>2. Live' /\ Snapshot(session)' = now
  BY NamesDiffer DEF Live, Snapshot
<1> HIDE DEF now
<1>3. NoneAfter(writes, saved) /\ InOrder(writes)
  BY <1>1, LaterSession DEF RowIInv
<1>4. /\ once \in Seq({Delete} \cup Snapshots) /\ InOrder(once) /\ NoneAfter(once, saved)
      /\ row # NoRow => NoneBefore(once, row)
  <2>1. row # NoRow => After(saved, row) /\ NoneBefore(writes, row)
    BY <1>1, AfterIsOrder DEF RowIInv
  <2>2. QED BY <1>1, <1>3, <2>1, BehindTheChain
<1> HIDE DEF once
<1>5. After(now, saved) /\ (row # NoRow => After(now, row))
  BY <1>1, AfterIsOrder DEF RowIInv, now
<1>6. /\ InOrder(Enqueued(once, now)) /\ NoneAfter(Enqueued(once, now), now)
      /\ row # NoRow => NoneBefore(Enqueued(once, now), row)
  <2>1. NoneAfter(once, now)
    BY <1>1, <1>4, <1>5, LaterSession
  <2>2. QED BY <1>1, <1>4, <1>5, <2>1, BehindTheChain
<1>7. (writes' = once /\ saved = now) \/ writes' = Enqueued(once, now)
  BY DEF once, now
<1>8. InOrder(writes') /\ NoneAfter(writes', now) /\ (row # NoRow => NoneBefore(writes', row))
  BY <1>4, <1>6, <1>7
<1>9. QED BY <1>2, <1>5, <1>8 DEF RowIInv

LEMMA EndGoesOn == SessionIInv /\ RowIInv /\ (Answer \/ Fail) => RowIInv'
<1> SUFFICES ASSUME SessionIInv, RowIInv, Answer \/ Fail PROVE RowIInv'
  OBVIOUS
<1>1. Live /\ UNCHANGED row
  BY DEF Answer, Fail
<1>2. /\ session \in Session /\ session.base \in Nat /\ Len(session.log) \in Nat
      /\ session.answers \in Nat /\ session.token \in Nat
  BY <1>1, SessionIs DEF SessionIInv, Session
<1>3. ASSUME Fail PROVE RowIInv'
  <2> DEFINE ended   == Appended(session, <<Failed>>)
             settled == [ended EXCEPT !.active = FALSE]
  <2>1. session' = settled /\ writes' = Enqueued(writes, Snapshot(settled))
    BY <1>3 DEF Fail
  <2>2. /\ ended \in Session /\ ended.base = session.base /\ ended.answers = session.answers
        /\ Len(ended.log) = Len(session.log) + 1
    BY <1>2, AppendedIs, EventsAre
  <2> HIDE DEF ended
  <2>3. /\ settled \in Session /\ settled.base = session.base /\ settled.answers = session.answers
        /\ Len(settled.log) = Len(session.log) + 1
    BY <2>2 DEF Session
  <2> HIDE DEF settled
  <2>4. Snapshot(settled) \in Snapshots
    BY <2>3, SnapshotIs
  <2>5. After(Snapshot(settled), Snapshot(session)) /\ After(Snapshot(settled), Snapshot(settled))
    BY <1>2, <2>3, <2>4, AfterIsOrder DEF After, Snapshot
  <2>6. QED BY <1>1, <2>1, <2>3, <2>4, <2>5, SavesGoBehind
<1>4. ASSUME Answer PROVE RowIInv'
  <2> DEFINE said     == Appended(session, <<Part>>)
             complete == [said EXCEPT !.answers = @ + 1]
             rotated  == [complete EXCEPT !.token = NewToken(@)]
             waits    == Appended(rotated, <<Waiting(rotated.token)>>)
             settled  == [waits EXCEPT !.active = FALSE]
  <2>1. session' = settled /\ writes' = Enqueued(Enqueued(writes, Snapshot(rotated)), Snapshot(settled))
    BY <1>4 DEF Answer
  <2>2. session.token + 1 \in Tokens
    <3>1. session.active
      BY <1>4 DEF Answer
    <3>2. session.token <= turns /\ turns \in 0..MaxTurns /\ MaxTurns \in Nat
      BY <1>1, <3>1, SessionAssumption DEF SessionIInv, TokensInTurn, SessionTypeOK
    <3>3. QED BY <1>2, <3>2 DEF Tokens
  <2>3. /\ said \in Session /\ said.base = session.base /\ said.answers = session.answers
        /\ said.token = session.token /\ Len(said.log) = Len(session.log) + 1
    BY <1>2, AppendedIs, EventsAre
  <2> HIDE DEF said
  <2>4. /\ rotated \in Session /\ rotated.token = session.token + 1 /\ rotated.base = session.base
        /\ rotated.log = said.log /\ rotated.answers = session.answers + 1
    <3>1. complete \in Session /\ complete.token = said.token /\ complete.base = said.base
          /\ complete.log = said.log /\ complete.answers = session.answers + 1
      BY <1>2, <2>3 DEF Session
    <3> HIDE DEF complete
    <3>2. rotated = [complete EXCEPT !.token = session.token + 1]
      BY <2>3, <3>1 DEF NewToken
    <3> HIDE DEF rotated
    <3>3. QED BY <2>2, <2>3, <3>1, <3>2 DEF Session
  <2> HIDE DEF rotated
  <2>5. Waiting(rotated.token) \in Event
    BY <2>2, <2>4, EventsAre
  <2>6. /\ waits \in Session /\ waits.base = session.base /\ waits.answers = session.answers + 1
        /\ Len(waits.log) = Len(session.log) + 2
    <3>1. /\ waits \in Session /\ waits.base = rotated.base /\ waits.answers = rotated.answers
          /\ Len(waits.log) = Len(rotated.log) + 1
      BY <2>4, <2>5, AppendedIs
    <3> HIDE DEF waits
    <3>2. QED BY <1>2, <2>3, <2>4, <3>1
  <2> HIDE DEF waits
  <2>7. /\ settled \in Session /\ settled.base = session.base /\ settled.answers = session.answers + 1
        /\ Len(settled.log) = Len(session.log) + 2
    BY <2>6 DEF Session
  <2> HIDE DEF settled
  <2>8. Snapshot(rotated) \in Snapshots
    BY <2>4, SnapshotIs
  <2>9. After(Snapshot(rotated), Snapshot(session)) /\ After(Snapshot(settled), Snapshot(rotated))
    BY <1>2, <2>3, <2>4, <2>7 DEF After, Snapshot
  <2>10. QED BY <1>1, <2>1, <2>7, <2>8, <2>9, SavesGoBehind
<1>5. QED BY <1>3, <1>4

LEMMA RowStays ==
  ASSUME SessionIInv, RowIInv, [SessionNext]_sessionVars
  PROVE  RowIInv' /\ (row # NoRow /\ row' # NoRow => After(row', row))
<1>1. CASE WriteLands \/ WriteFails
  BY <1>1, ChainGoesOn
<1>2. ASSUME ~(WriteLands \/ WriteFails) PROVE row' = row
  BY <1>2 DEF SessionNext, sessionVars, Create, Restore, Post, PostToNothing, Emit, Answer, Fail,
              OpenStream, Read, StreamBreaks, Crash, Collect
<1>3. row # NoRow => After(row, row)
  BY AfterIsOrder DEF SessionIInv, SessionTypeOK
<1>4. CASE Create
  <2>1. row' = NoRow /\ writes' = <<>>
    BY <1>4 DEF Create, SessionIInv
  <2>2. RowIInv'
    BY <2>1 DEF RowIInv, InOrder, NoneBefore, NoneAfter
  <2>3. QED BY <2>1, <2>2
<1>5. CASE Restore
  <2>1. /\ row # NoRow /\ row' = row /\ writes' = writes /\ session' = RestoredFrom(row) /\ ~Live
        /\ writes \in {<<>>, <<Delete>>} /\ row \in Snapshots
    BY <1>5 DEF Restore, SessionIInv, SessionTypeOK
  <2>2. \A i \in DOMAIN writes' : writes'[i] = Delete
    BY <2>1
  <2>3. Snapshot(session') = row
    BY <2>1 DEF Snapshot, RestoredFrom, Snapshots
  <2>4. Snapshot(session)' = row
    BY <2>3 DEF Snapshot
  <2>5. QED BY <1>3, <2>1, <2>2, <2>4 DEF RowIInv, InOrder, NoneBefore, NoneAfter
<1>6. CASE Post \/ Emit
  BY <1>2, <1>3, <1>6, TurnGoesOn DEF Post, Emit
<1>7. CASE Answer \/ Fail
  BY <1>2, <1>3, <1>7, EndGoesOn DEF Answer, Fail
<1>8. CASE PostToNothing \/ OpenStream \/ Read \/ StreamBreaks \/ UNCHANGED sessionVars
  <2>1. UNCHANGED <<session, row, writes>>
    BY <1>8 DEF PostToNothing, OpenStream, Read, StreamBreaks, sessionVars
  <2>2. QED BY <1>3, <2>1 DEF RowIInv, InOrder, NoneBefore, NoneAfter, Live, Snapshot
<1>9. CASE Crash \/ Collect
  <2>0. Append(<<>>, Delete) = <<Delete>>
    OBVIOUS
  <2>1. row' = row /\ session' = NoSession /\ writes' \in {<<>>, <<Delete>>}
    BY <1>9, <2>0 DEF Crash, Collect, Enqueued
  <2>2. \A i \in DOMAIN writes' : writes'[i] = Delete
    BY <2>1
  <2>3. QED BY <1>3, <2>1, <2>2 DEF RowIInv, InOrder, NoneBefore, NoneAfter, Live
<1>10. QED BY <1>1, <1>4, <1>5, <1>6, <1>7, <1>8, <1>9 DEF SessionNext

(***************************************************************************)
(* The saves of createSession's write chain are never awaited, yet the row *)
(* they leave never goes back to fewer events or answers.                  *)
(***************************************************************************)
THEOREM SavesInOrder == SessionSpec => RowNeverGoesBack
<1>1. SessionInit => RowIInv
  BY DEF SessionInit, RowIInv, InOrder, NoneBefore, NoneAfter, Live
<1>2. SessionIInv /\ RowIInv /\ [SessionNext]_sessionVars =>
        RowIInv' /\ [row # NoRow /\ row' # NoRow => row'.base >= row.base /\ row'.answers >= row.answers]_sessionVars
  <2>1. SUFFICES ASSUME SessionIInv, RowIInv, [SessionNext]_sessionVars
                 PROVE  /\ RowIInv'
                        /\ row # NoRow /\ row' # NoRow => row'.base >= row.base /\ row'.answers >= row.answers
    OBVIOUS
  <2>2. SessionIInv'
    BY <2>1, SessionKept
  <2>3. /\ row # NoRow => row.base \in Nat /\ row.answers \in Nat
        /\ row' # NoRow => row'.base \in Nat /\ row'.answers \in Nat
    BY <2>1, <2>2 DEF SessionIInv, SessionTypeOK, Snapshots
  <2>4. QED BY <2>1, <2>3, RowStays DEF After
<1>3. QED BY <1>1, <1>2, SessionInductive, PTL DEF SessionSpec, RowNeverGoesBack
===============================================================================
