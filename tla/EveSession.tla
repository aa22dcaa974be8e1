----------------------------- MODULE EveSession -----------------------------
(***************************************************************************)
(* One founder chat session (src/eve-compat): the session in memory, its   *)
(* row in Postgres behind a chain of fire-and-forget writes, and the       *)
(* merchant app that posts turns with a continuation token and reads the   *)
(* event log from a cursor.  The process crashes, writes fail, streams     *)
(* break, and the idle collector runs.                                     *)
(*                                                                         *)
(* Events are told apart by whether they settle the turn; tokens are the   *)
(* ordinals of a random draw; of the history only the number of answers is *)
(* kept.                                                                   *)
(***************************************************************************)
EXTENDS Integers, Sequences

CONSTANTS
  MaxTurns,   \* bound: how many turns the app starts
  MaxEvents,  \* bound: how many events one process appends to the log
  MaxFaults   \* bound: crashes, failed writes and broken streams together

ASSUME SessionAssumption == MaxTurns \in Nat /\ MaxEvents \in Nat /\ MaxFaults \in Nat

VARIABLES
  session,  \* the entry of the sessions map, or NoSession
  row,      \* the row of nova_eve_sessions, or NoRow
  writes,   \* the session's write chain: snapshots, and Delete
  app,      \* the merchant app
  turns,    \* how many turns were started
  faults,   \* how many faults there have been
  lost       \* history: the session left memory with something unsaved or unread

sessionVars == <<session, row, writes, app, turns, faults, lost>>

NoSession == [kind |-> "no session"]
NoRow == [kind |-> "no row"]
Delete == [kind |-> "delete"]

Tokens == 1..(MaxTurns + 1)
Kinds == {"part", "waiting", "failed"}
Event == [kind : Kinds, token : {0} \cup Tokens]
Settles(event) == event.kind \in {"waiting", "failed"}   \* SETTLE_TYPES

Session == [token : Tokens, base : Nat, log : Seq(Event), answers : Nat, active : BOOLEAN]
Snapshots == [token : Tokens, base : Nat, answers : Nat]

SessionTypeOK ==
  /\ session = NoSession \/ session \in Session
  /\ row = NoRow \/ row \in Snapshots
  /\ writes \in Seq({Delete} \cup Snapshots)
  /\ app \in [phase : {"new", "idle", "waiting", "refused"}, token : {0} \cup Tokens,
              cursor : Nat, open : BOOLEAN, next : Nat]
  /\ turns \in 0..MaxTurns /\ faults \in 0..MaxFaults
  /\ lost \in BOOLEAN

SessionInit ==
  /\ session = NoSession /\ row = NoRow /\ writes = <<>>
  /\ app = [phase |-> "new", token |-> 0, cursor |-> 0, open |-> FALSE, next |-> 0]
  /\ turns = 0 /\ faults = 0
  /\ lost = FALSE

Live == session # NoSession
Faulty == faults < MaxFaults /\ faults' = faults + 1

-----------------------------------------------------------------------------
(* Persistence. *)

Snapshot(s) == [token |-> s.token, base |-> s.base + Len(s.log), answers |-> s.answers]

Appended(s, events) == [s EXCEPT !.log = @ \o events]

Part == [kind |-> "part", token |-> 0]
Failed == [kind |-> "failed", token |-> 0]
Waiting(token) == [kind |-> "waiting", token |-> token]

(* The writes of one session land in the order they were made. *)
Enqueued(chain, write) == Append(chain, write)

WriteLands ==
  /\ writes # <<>>
  /\ row' = IF Head(writes) = Delete THEN NoRow ELSE Head(writes)
  /\ writes' = Tail(writes)
  /\ UNCHANGED <<session, app, turns, faults, lost>>

(* A failed write is logged; the next one goes ahead. *)
WriteFails ==
  /\ writes # <<>>
  /\ writes' = Tail(writes)
  /\ Faulty
  /\ UNCHANGED <<session, row, app, turns, lost>>

-----------------------------------------------------------------------------
(* Turns. *)

Create ==
  /\ app.phase = "new" /\ turns < MaxTurns
  /\ session' = [token |-> 1, base |-> 0, log |-> <<>>, answers |-> 0, active |-> TRUE]
  /\ app' = [app EXCEPT !.phase = "waiting", !.token = 1]
  /\ turns' = turns + 1
  /\ UNCHANGED <<row, writes, faults, lost>>

(* Both the post and the stream find the session in memory, or restore it from its row. *)
RestoredFrom(r) ==
  [token |-> r.token, base |-> r.base, log |-> <<>>, answers |-> r.answers, active |-> FALSE]

Restore ==
  /\ ~Live /\ row # NoRow
  /\ app.phase = "idle"
  /\ session' = RestoredFrom(row)
  /\ UNCHANGED <<row, writes, app, turns, faults, lost>>

Post ==
  /\ app.phase = "idle" /\ Live /\ turns < MaxTurns
  /\ \/ /\ app.token = session.token /\ ~session.active
        /\ session' = [session EXCEPT !.active = TRUE]
        /\ app' = [app EXCEPT !.phase = "waiting"]
        /\ turns' = turns + 1
     \/ /\ app.token # session.token \/ session.active
        /\ app' = [app EXCEPT !.phase = IF app.token # session.token THEN "refused" ELSE "idle"]
        /\ UNCHANGED <<session, turns>>
  /\ UNCHANGED <<row, writes, faults, lost>>

(* No session in memory, and no row or one that could not be loaded: 404. *)
PostToNothing ==
  /\ app.phase = "idle" /\ ~Live
  /\ (row # NoRow /\ Faulty) \/ (row = NoRow /\ UNCHANGED faults)
  /\ app' = [app EXCEPT !.phase = "refused"]
  /\ UNCHANGED <<session, row, writes, turns, lost>>

Emit ==
  /\ Live /\ session.active /\ Len(session.log) < MaxEvents
  /\ session' = Appended(session, <<Part>>)
  /\ UNCHANGED <<row, writes, app, turns, faults, lost>>

NewToken(token) == token + 1

(***************************************************************************)
(* The answer: message.completed, then the token is rotated and saved,     *)
(* then session.waiting carries it out and is saved.                       *)
(***************************************************************************)
Answer ==
  /\ Live /\ session.active
  /\ LET complete == [Appended(session, <<Part>>) EXCEPT !.answers = @ + 1]
         rotated  == [complete EXCEPT !.token = NewToken(@)]
         settled  == [Appended(rotated, <<Waiting(rotated.token)>>) EXCEPT !.active = FALSE]
     IN /\ session' = settled
        /\ writes' = Enqueued(Enqueued(writes, Snapshot(rotated)), Snapshot(settled))
  /\ UNCHANGED <<row, app, turns, faults, lost>>

(* Mutant: a throw ends the turn without an event. *)
FailSilently ==
  /\ Live /\ session.active
  /\ session' = [session EXCEPT !.active = FALSE]
  /\ UNCHANGED <<row, writes, app, turns, faults, lost>>

(* The turn throws: turn.failed, under the token the app already has. *)
Fail ==
  /\ Live /\ session.active
  /\ LET settled == [Appended(session, <<Failed>>) EXCEPT !.active = FALSE]
     IN /\ session' = settled
        /\ writes' = Enqueued(writes, Snapshot(settled))
  /\ UNCHANGED <<row, app, turns, faults, lost>>

-----------------------------------------------------------------------------
(* The stream. *)

(* Mutant: the cursor is taken as an index of this process's log. *)
RawCursor(cursor, base) == cursor

StartOf(cursor, base) == IF cursor > base THEN cursor - base ELSE 0

OpenStream ==
  /\ app.phase = "waiting" /\ ~app.open /\ Live
  /\ app' = [app EXCEPT !.open = TRUE, !.next = StartOf(app.cursor, session.base)]
  /\ UNCHANGED <<session, row, writes, turns, faults, lost>>

(* Every line moves the app's cursor; a settling event ends the read. *)
Read ==
  /\ app.open /\ Live /\ app.next < Len(session.log)
  /\ LET event == session.log[app.next + 1]
         moved == [app EXCEPT !.cursor = @ + 1, !.next = @ + 1]
     IN app' = IF Settles(event)
               THEN [moved EXCEPT !.open = FALSE, !.phase = "idle", !.next = 0,
                                  !.token = IF event.kind = "waiting" THEN event.token ELSE @]
               ELSE moved
  /\ UNCHANGED <<session, row, writes, turns, faults, lost>>

StreamBreaks ==
  /\ app.open
  /\ app' = [app EXCEPT !.open = FALSE, !.next = 0]
  /\ Faulty
  /\ UNCHANGED <<session, row, writes, turns, lost>>

-----------------------------------------------------------------------------
(* Process death, and idle time. *)

(* What leaves memory is not all in the row, or not all read. *)
Forgets == session.active \/ row # Snapshot(session) \/ app.cursor # Snapshot(session).base

(* Memory, pending writes and streams go; a waiting founder sends again from where the app is. *)
Crash ==
  /\ Live \/ writes # <<>>
  /\ lost' = (lost \/ (Live /\ Forgets))
  /\ session' = NoSession /\ writes' = <<>>
  /\ app' = [app EXCEPT !.open = FALSE, !.next = 0,
                        !.phase = IF @ = "waiting" THEN "idle" ELSE @]
  /\ Faulty
  /\ UNCHANGED <<row, turns>>

(* Two idle hours: by then every write has landed and every stream has been read. *)
Collect ==
  /\ Live /\ ~session.active /\ writes = <<>> /\ app.phase # "waiting"
  /\ session' = NoSession
  /\ writes' = Enqueued(writes, Delete)
  /\ lost' = (lost \/ Forgets)
  /\ UNCHANGED <<row, app, turns, faults>>

SessionNext ==
  \/ WriteLands \/ WriteFails
  \/ Create \/ Restore \/ Post \/ PostToNothing \/ Emit \/ Answer \/ Fail
  \/ OpenStream \/ Read \/ StreamBreaks
  \/ Crash \/ Collect

SessionSpec == SessionInit /\ [][SessionNext]_sessionVars

(* The model call ends, the database answers, and the app asks for and reads what it awaits. *)
FairSpec ==
  /\ SessionSpec
  /\ WF_sessionVars(WriteLands) /\ WF_sessionVars(Answer \/ Fail)
  /\ WF_sessionVars(Restore) /\ WF_sessionVars(OpenStream) /\ WF_sessionVars(Read)

-----------------------------------------------------------------------------
(* Properties. *)

(***************************************************************************)
(* Saves are never awaited, yet a row that stays never goes back: neither  *)
(* to fewer answers nor to fewer events than it already recorded.          *)
(***************************************************************************)
RowNeverGoesBack ==
  [][row # NoRow /\ row' # NoRow => row'.base >= row.base /\ row'.answers >= row.answers]_sessionVars

(***************************************************************************)
(* A restart between turns, once saves and reads are done, is unseen: the  *)
(* app's cursor still names the next event of the log, and once the app    *)
(* has heard its turn out it holds the session's token.                    *)
(***************************************************************************)
RestartIsSeamless ==
  Live /\ ~lost =>
    /\ app.open => session.base + app.next = app.cursor
    /\ app.cursor <= session.base + Len(session.log)
    /\ app.phase = "idle" => app.token = session.token

(* The app hears how every turn it started ended, short of a loss. *)
TurnIsHeard == app.phase = "waiting" ~> (app.phase # "waiting" \/ lost)

(***************************************************************************)
(* sessions.ts: after a restore "an old cursor lands on the fresh (empty)  *)
(* array's origin instead of waiting forever for indexes that will never   *)
(* fill in".  Once the faults are over, a turn that settled is read.       *)
(***************************************************************************)
SettledTurnIsRead ==
  (faults = MaxFaults /\ app.phase = "waiting" /\ Live /\ session.log # <<>> /\ ~session.active)
    ~> app.phase # "waiting"
=============================================================================
