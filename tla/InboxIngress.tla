---------------------------- MODULE InboxIngress ----------------------------
(***************************************************************************)
(* The door the customers' messages come through (src/inbox/ingress.ts).   *)
(* Whether the store may be served is the registry's answer (FleetTick): a *)
(* handler waits for it, and it may have changed by the time it is read.   *)
(*                                                                         *)
(* dakio-api holds the customer's messages and delivers them: it signs a   *)
(* time stamp and the body, stamps the messages processed on a 202 it      *)
(* hears, and otherwise sends them again under a fresh stamp.  The network *)
(* keeps copies of a delivery as long as it likes, and may lose an answer. *)
(* An answer is heard while its request is served or not at all.           *)
(***************************************************************************)
EXTENDS Integers, SequencesExt

CONSTANTS
    Conversations,
    Stamps,          \* deliveries that may be on the wire at once: a signature each
    Skew,            \* TIMESTAMP_SKEW_MS
    SenderAhead,     \* how far the sender's clock may be ahead of this one
    SeenMax,         \* SEEN_MAX
    Nobody

ASSUME IngressLimits ==
    /\ Skew \in Nat /\ SenderAhead \in 0..Skew /\ SeenMax \in Nat \ {0}
    /\ Nobody \notin Conversations

Expired == -(Skew + 1)

VARIABLES
    inbox,     \* dakio-api: the last message of a conversation is "new" or "taken"
    wire,      \* per signature: whose delivery, with the last message or without, how
               \* far its stamp is from now
    seen,      \* seenSignatures, oldest first, with the time each is kept
    request,   \* where the handler of a delivery is
    busy,      \* inFlightDispatch
    turns,     \* turns of a conversation that are running
    last,      \* history: the last message waits, is running, has its row, or that was lost
    ran,       \* history: signatures that were accepted
    forgot     \* history: signatures this process no longer remembers

vars == <<inbox, wire, seen, request, busy, turns, last, ran, forgot>>

NoDelivery == [of |-> Nobody, whole |-> FALSE, offset |-> 0]

Init ==
    /\ inbox = [c \in Conversations |-> "new"]
    /\ wire = [d \in Stamps |-> NoDelivery]
    /\ seen = <<>>
    /\ request = [d \in Stamps |-> "none"]
    /\ busy = {}
    /\ turns = [c \in Conversations |-> 0]
    /\ last = [c \in Conversations |-> "waits"]
    /\ ran = {} /\ forgot = {}

-----------------------------------------------------------------------------
(* dakio-api and the network. *)

Remembered(d) == \E i \in DOMAIN seen : seen[i].sig = d

\* The sender stamps now, by its own clock.
Send(c) ==
    /\ inbox[c] = "new"
    /\ \E d \in Stamps, ahead \in 0..SenderAhead :
         /\ wire[d] = NoDelivery /\ ~Remembered(d) /\ request[d] = "none"
         /\ wire' = [wire EXCEPT ![d] = [of |-> c, whole |-> TRUE, offset |-> ahead]]
         /\ ran' = ran \ {d} /\ forgot' = forgot \ {d}
    /\ UNCHANGED <<inbox, seen, request, busy, turns, last>>

\* The last copy of a delivery is gone.
Vanish(d) ==
    /\ wire[d] # NoDelivery /\ request[d] = "none"
    /\ wire' = [wire EXCEPT ![d] = NoDelivery]
    /\ UNCHANGED <<inbox, seen, request, busy, turns, last, ran, forgot>>

\* The customer writes again: what is on the wire does not name the new message.
CustomerWrites(c) ==
    /\ last[c] # "waits"
    /\ inbox' = [inbox EXCEPT ![c] = "new"]
    /\ last' = [last EXCEPT ![c] = "waits"]
    /\ wire' = [d \in Stamps |-> IF wire[d].of = c THEN [wire[d] EXCEPT !.whole = FALSE] ELSE wire[d]]
    /\ UNCHANGED <<seen, request, busy, turns, ran, forgot>>

-----------------------------------------------------------------------------
(* The replay guard. *)

TimestampFresh(d) == wire[d].offset \in -Skew..Skew

\* What could go wrong: the guard keeps a signature for one window only.
RememberedForOneWindow(s, d) == Append(s, [sig |-> d, left |-> Skew])

Remember(s, d) == Append(s, [sig |-> d, left |-> 2 * Skew])

\* Every signature is kept equally long: the expired ones are the oldest.
FirstKept == Min({i \in DOMAIN seen : seen[i].left > 0} \cup {Len(seen) + 1})

Unexpired == SubSeq(seen, FirstKept, Len(seen))

\* replaySeen of a signature that is not in the map: at the limit the oldest makes room.
Recorded(d) ==
    LET kept == Unexpired IN
    Remember(IF Len(kept) >= SeenMax THEN Tail(kept) ELSE kept, d)

MadeRoom == IF Len(Unexpired) >= SeenMax THEN {Head(Unexpired).sig} ELSE {}

-----------------------------------------------------------------------------
(***************************************************************************)
(* POST /customer/message.  Up to the first await: the signature and its   *)
(* freshness, the replay guard, then the body; a refused body leaves its   *)
(* signature behind.  After ensureTenant answered: the kill switch, the    *)
(* busy conversation, and the dispatch off the request path, before the    *)
(* 202 is on its way.                                                      *)
(***************************************************************************)
Deliver(d) ==
    /\ wire[d] # NoDelivery /\ request[d] = "none"
    /\ TimestampFresh(d)
    /\ d \notin {r.sig : r \in ToSet(Unexpired)}
    /\ seen' = Recorded(d)
    /\ forgot' = forgot \cup MadeRoom
    /\ \E phase \in {"none", "waiting"} : request' = [request EXCEPT ![d] = phase]
    /\ UNCHANGED <<inbox, wire, busy, turns, last, ran>>

Ready(d) == request[d] = "ready"
Answer(d) == request' = [request EXCEPT ![d] = "none"]

\* dakio-api stamps what the delivery named when it hears a 202.
Stamped(d) == IF wire[d].whole THEN [inbox EXCEPT ![wire[d].of] = "taken"] ELSE inbox

\* What could go wrong: a busy conversation is answered like one that was dispatched.
BusyIsStamped(d) == IF wire[d].of \in busy THEN Stamped(d) ELSE inbox

\* A 409 leaves the messages unprocessed.
AfterRefusal(d) == inbox

Refuse(d, isTenantActive) ==
    /\ Ready(d)
    /\ ~isTenantActive \/ wire[d].of \in busy
    /\ Answer(d)
    /\ inbox' = AfterRefusal(d)
    /\ UNCHANGED <<wire, seen, busy, turns, last, ran, forgot>>

NotBusy(c) == c \notin busy

\* The store is active; the 202 may not be heard.
Accept(d) ==
    LET c == wire[d].of IN
    /\ Ready(d)
    /\ NotBusy(c)
    /\ Answer(d)
    /\ busy' = busy \cup {c}
    /\ turns' = [turns EXCEPT ![c] = @ + 1]
    /\ ran' = ran \cup {d}
    /\ last' = IF wire[d].whole THEN [last EXCEPT ![c] = "running"] ELSE last
    /\ inbox' \in {inbox, Stamped(d)}
    /\ UNCHANGED <<wire, seen, forgot>>

\* recordShadowTurn never throws: without a database, or with one that refuses, the row is lost.
RowWritten == {"recorded", "lost"}

(***************************************************************************)
(* runShadowTurn: every path, a thread that could not be read or holds no  *)
(* text and a turn that threw included, ends in one call of                *)
(* recordShadowTurn, which writes the row or only says that it could not.  *)
(***************************************************************************)
RunShadowTurn(c) ==
    /\ turns[c] > 0
    /\ turns' = [turns EXCEPT ![c] = @ - 1]
    /\ busy' = busy \ {c}
    /\ \E end \in RowWritten :
         last' = IF last[c] = "running" THEN [last EXCEPT ![c] = end] ELSE last
    /\ UNCHANGED <<inbox, wire, seen, request, ran, forgot>>

-----------------------------------------------------------------------------
\* ensureTenant answers whoever waited for it.
ProfileAnswers ==
    /\ \E d \in Stamps : request[d] = "waiting"
    /\ request' = [d \in Stamps |-> IF request[d] = "waiting" THEN "ready" ELSE request[d]]
    /\ UNCHANGED <<inbox, wire, seen, busy, turns, last, ran, forgot>>

\* No clock moves while a handler has only code to run.
CodeRuns == \E d \in Stamps : Ready(d)

Tick ==
    /\ ~CodeRuns
    /\ wire' = [d \in Stamps |-> IF wire[d] = NoDelivery \/ wire[d].offset = Expired THEN wire[d]
                                  ELSE [wire[d] EXCEPT !.offset = @ - 1]]
    /\ seen' = [i \in DOMAIN seen |-> [seen[i] EXCEPT !.left = IF @ = 0 THEN 0 ELSE @ - 1]]
    /\ UNCHANGED <<inbox, request, busy, turns, last, ran, forgot>>

Crash ==
    /\ seen' = <<>>
    /\ forgot' = forgot \cup ran
    /\ request' = [d \in Stamps |-> "none"]
    /\ busy' = {}
    /\ turns' = [c \in Conversations |-> 0]
    /\ last' = [c \in Conversations |-> IF last[c] = "running" THEN "lost" ELSE last[c]]
    /\ UNCHANGED <<inbox, wire, ran>>

Next ==
    \/ \E c \in Conversations : Send(c) \/ CustomerWrites(c) \/ RunShadowTurn(c)
    \/ \E d \in Stamps : Vanish(d) \/ Deliver(d) \/ Accept(d)
    \/ \E d \in Stamps, isTenantActive \in BOOLEAN : Refuse(d, isTenantActive)
    \/ ProfileAnswers \/ Tick \/ Crash

Spec == Init /\ [][Next]_vars

-----------------------------------------------------------------------------
(* What the properties rest on. *)

TypeOK ==
    /\ inbox \in [Conversations -> {"new", "taken"}]
    /\ wire \in [Stamps -> [of : Conversations, whole : BOOLEAN, offset : Expired..SenderAhead]
                           \cup {NoDelivery}]
    /\ seen \in Seq([sig : Stamps, left : 0..2 * Skew])
    /\ request \in [Stamps -> {"none", "waiting", "ready"}]
    /\ busy \subseteq Conversations
    /\ turns \in [Conversations -> Nat]
    /\ last \in [Conversations -> {"waits", "running"} \cup RowWritten]
    /\ ran \subseteq Stamps /\ forgot \subseteq Stamps
    /\ \A d \in Stamps : request[d] # "none" => wire[d] # NoDelivery

\* So the first that is kept is followed by none that has expired.
OldestFirst == \A i, j \in DOMAIN seen : i < j => seen[i].left <= seen[j].left

\* The guard outlives the stamp: a delivery that is fresh is in it, and stays until it is stale.
Guarded(d) ==
    \/ wire[d] = NoDelivery \/ wire[d].offset = Expired
    \/ \E i \in DOMAIN seen : seen[i].sig = d /\ seen[i].left > wire[d].offset + Skew

GuardOK ==
    \A d \in Stamps : d \notin forgot =>
        /\ d \in ran \/ request[d] # "none" => Guarded(d)
        /\ d \notin ran \/ request[d] = "none"

-----------------------------------------------------------------------------
(***************************************************************************)
(* A copy of a delivery that was accepted is refused for as long as its    *)
(* stamp passes, whatever the clocks say, unless the process restarted or  *)
(* the guard was full and dropped it (ingress.ts, replaySeen).             *)
(***************************************************************************)
CopyRunsOnlyIfForgotten ==
    [][\A d \in Stamps : Accept(d) /\ d \in ran => d \in forgot]_vars

(***************************************************************************)
(* A message dakio-api holds for processed has its row, or the turn that   *)
(* will write it, or that was lost with the process or by the log: no      *)
(* refusal, no duplicate and no busy conversation loses a message written  *)
(* meanwhile (ingress.ts, the 202 and the 409s).                           *)
(***************************************************************************)
MessageLostOnlyWithTheProcess ==
    \A c \in Conversations : inbox[c] = "taken" => last[c] # "waits"

IInv == TypeOK /\ OldestFirst /\ MessageLostOnlyWithTheProcess
=============================================================================
