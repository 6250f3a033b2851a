------------------------------ MODULE AgentTurn ------------------------------
(* Turns of the assistant (logo-admin/routes_agent.py, agent.py): a chat     *)
(* request takes a permit of the process and the lease of its session, asks  *)
(* the provider as often as its tool calls need, each time under a token     *)
(* reservation of Quota, stores its answer, and gives lease and permit back. *)
(* The lease and the messages are rows of the database, so they outlive the  *)
(* process; a lease that is not renewed in time can be taken over.           *)
EXTENDS Quota

CONSTANTS
    Turns,          \* one chat request each
    SessionOf, UserOf,
    MaxTurns,       \* agent_max_concurrent_turns
    MaxCalls,       \* provider requests of a turn, by agent_max_tool_calls
    MaxRequests,    \* bound: provider requests of the run
    Sizes,          \* the token estimates of requests
    Crashes         \* bound: deaths of the process

Sessions == {SessionOf[t] : t \in Turns}

ASSUME TurnAssumption ==
    /\ Resv = Turns \X (1..MaxCalls)
    /\ UserOf \in [Turns -> Users]
    /\ Sizes \subseteq Nat \ {0}
    /\ None \notin [turn : Turns, expired : BOOLEAN]
    /\ MaxTurns \in Nat \ {0} /\ MaxCalls \in Nat \ {0} /\ MaxRequests \in Nat /\ Crashes \in Nat

VARIABLES
    turn,     \* what the request of each turn holds in memory, see Turn
    permits,  \* _turn_semaphore
    lease,    \* active_turn_id and turn_lease_expires_at of each session
    answer,   \* the assistant's message of each turn: its status
    crashes,
    billed    \* history: what the provider charged for each request, see Bill

turns == <<turn, permits, lease, answer, crashes, billed>>
vars == <<turns, quota>>

Leased == {"running", "reserved", "marked", "streaming", "settle", "replied", "finish"}
Labels == Leased \cup {"idle", "permit", "replay", "compensate", "release", "cleanup", "ended", "done"}
(* "failed" stands for cancelled too: the two differ in the word stored.     *)
Outcomes == {"none", "complete", "failed", "lost"}

Turn == [at : Labels,
         call : 0..MaxCalls,                \* provider requests it has begun
         open : BOOLEAN,                    \* the current one holds a reservation,
         started : BOOLEAN,                 \* request_started,
         known : BOOLEAN,                   \* usage_known
         outcome : Outcomes,                \* what it is about to store
         lost : BOOLEAN,                    \* lease_lost, set by the heartbeat
         cleaned : BOOLEAN,                 \* _TurnCleanup._released
         replay : SUBSET Turns,             \* the answered turns it started with
         since : SUBSET Turns]              \* history: those answered at its lease
(* The client sends a request at most twice (max_retries=1): "last" is the   *)
(* bill of the attempt it waits for, "lost" of one it gave up waiting for.   *)
Bill == [last : Nat, lost : Nat]
NewTurn == [at |-> "idle", call |-> 0, open |-> FALSE, started |-> FALSE, known |-> FALSE,
            outcome |-> "none", lost |-> FALSE, cleaned |-> FALSE, replay |-> {}, since |-> {}]

Of(t) == SessionOf[t]
At(t, label) == turn[t].at = label
Reservable(t) == <<t, turn[t].call>>
Answered(s) == {u \in Turns : SessionOf[u] = s /\ answer[u] = "complete"}

Init ==
    /\ QuotaInit
    /\ turn = [t \in Turns |-> NewTurn]
    /\ permits = MaxTurns /\ lease = [s \in Sessions |-> None]
    /\ answer = [t \in Turns |-> "none"] /\ crashes = 0
    /\ billed = [r \in Resv |-> [last |-> 0, lost |-> 0]]

Goto(t, label) == turn' = [turn EXCEPT ![t].at = label]
Over(t) == turn' = [turn EXCEPT ![t] = [NewTurn EXCEPT !.at = "done"]]

-----------------------------------------------------------------------------
(* The request before its turn: a permit within a second or 503, then one    *)
(* transaction that reads the replay and takes the lease (_prepare_turn).    *)

AcquirePermit(t) ==
    /\ At(t, "idle")
    /\ IF permits > 0 THEN Goto(t, "permit") /\ permits' = permits - 1
                      ELSE Over(t) /\ UNCHANGED permits
    /\ UNCHANGED <<lease, answer, crashes, billed, quota>>

(* The SELECT sees what is committed when it runs.                           *)
GetReplayItems(t) ==
    /\ At(t, "permit")
    /\ turn' = [turn EXCEPT ![t].at = "replay", ![t].replay = Answered(Of(t))]
    /\ UNCHANGED <<permits, lease, answer, crashes, billed, quota>>

AnyTurn(t, l) == l # None                  \* fault: the lease's owner is not compared
HoldsLease(t, l) == l # None /\ l.turn = t
Owned(t) == HoldsLease(t, lease[Of(t)]) /\ ~lease[Of(t)].expired
Takeable(t) == lease[Of(t)] # None => lease[Of(t)].expired

Take(t) ==
    /\ At(t, "replay") /\ Takeable(t)
    /\ lease' = [lease EXCEPT ![Of(t)] = [turn |-> t, expired |-> FALSE]]
    /\ UNCHANGED <<answer, crashes, billed, quota>>
AcquireTurn(t) ==
    /\ Take(t) /\ UNCHANGED permits
    /\ turn' = [turn EXCEPT ![t].at = "running", ![t].since = Answered(Of(t))]

(* Any failure gives the permit back: the session is busy, the transaction   *)
(* was rolled back, or it was committed and only the connection broke.       *)
PrepareFails(t) ==
    /\ At(t, "permit") \/ At(t, "replay")
    /\ Over(t) /\ permits' = permits + 1
    /\ UNCHANGED <<lease, answer, crashes, billed, quota>>
PrepareUnheard(t) == Take(t) /\ Over(t) /\ permits' = permits + 1
(* Cancelled while it was committing: the turn is closed in its name.        *)
PrepareCancelled(t) ==
    /\ Take(t) /\ UNCHANGED permits
    /\ turn' = [turn EXCEPT ![t].at = "compensate", ![t].outcome = "failed"]

(* The screen's names cannot be read, or the response ends before its body   *)
(* begins: the cleanup alone runs.                                           *)
NeverStreams(t) ==
    /\ At(t, "running") /\ turn[t].call = 0 /\ Goto(t, "ended")
    /\ UNCHANGED <<permits, lease, answer, crashes, billed, quota>>

-----------------------------------------------------------------------------
(* run_turn: reserve, mark, send, and settle whatever happened.              *)

ReserveTokens(t) ==
    /\ At(t, "running") /\ Cardinality({r \in Resv : resv[r] # None}) < MaxRequests
    /\ \E n \in Sizes, newMinute \in BOOLEAN :
          IF CanReserve(UserOf[t], n, newMinute)
          THEN /\ Reserve(<<t, turn[t].call + 1>>, UserOf[t], n, newMinute)
               /\ turn' = [turn EXCEPT ![t].at = "reserved", ![t].open = TRUE, ![t].call = @ + 1]
          ELSE /\ turn' = [turn EXCEPT ![t].at = "finish", ![t].outcome = "failed"]
               /\ UNCHANGED quota
    /\ UNCHANGED <<permits, lease, answer, crashes, billed>>

MarkerWritten(r) == IsReserved(r)

MarkProviderStarted(t) ==
    /\ At(t, "reserved") /\ Mark(Reservable(t))
    /\ turn' = [turn EXCEPT ![t] = IF MarkerWritten(Reservable(t))
                                    THEN [@ EXCEPT !.at = "marked", !.started = TRUE]
                                    ELSE [@ EXCEPT !.at = "settle", !.outcome = "failed"]]
    /\ UNCHANGED <<permits, lease, answer, crashes, billed>>

(* The request is cancelled, or the connection breaks, while it is written.  *)
MarkUnheard(t) ==
    /\ At(t, "reserved") /\ Mark(Reservable(t))
    /\ turn' = [turn EXCEPT ![t].at = "settle", ![t].outcome = "failed"]
    /\ UNCHANGED <<permits, lease, answer, crashes, billed>>

(* responses.create.  The provider charges an attempt at most a token for    *)
(* each byte sent and asked for.  The first attempt may time out or break    *)
(* after it was served and billed; the client then sends the request again.  *)
Bills(t) == 0..resv[Reservable(t)].amount
AttemptLost(t) ==
    /\ At(t, "marked") /\ billed[Reservable(t)].lost = 0
    /\ \E n \in Bills(t) : billed' = [billed EXCEPT ![Reservable(t)].lost = n]
    /\ UNCHANGED <<turn, permits, lease, answer, crashes, quota>>
Create(t) ==
    /\ At(t, "marked") /\ Goto(t, "streaming")
    /\ \E n \in Bills(t) : billed' = [billed EXCEPT ![Reservable(t)].last = n]
    /\ UNCHANGED <<permits, lease, answer, crashes, quota>>

(* response.completed carries the usage, or it is not known.                 *)
Completed(t) ==
    /\ At(t, "streaming")
    /\ \E known \in BOOLEAN : turn' = [turn EXCEPT ![t].at = "settle", ![t].known = known]
    /\ UNCHANGED <<permits, lease, answer, crashes, billed, quota>>

(* An error, the end of the time, a cancelled request, or the lost lease;    *)
(* the cancellation may come first though the lease is lost.                 *)
Stop(t) ==
    /\ turn[t].at \in {"running", "reserved", "marked", "streaming", "replied"}
    /\ \E why \in {"failed", IF turn[t].lost THEN "lost" ELSE "failed"} :
          turn' = [turn EXCEPT ![t].outcome = why,
                               ![t].at = IF turn[t].open THEN "settle" ELSE "finish"]
    /\ UNCHANGED <<permits, lease, answer, crashes, billed, quota>>

(* The finally of the request: the usage is that of the last attempt.        *)
SettleRequest(t) ==
    LET r == Reservable(t) IN
    IF turn[t].known THEN Reconcile(r, billed[r].last)
    ELSE IF turn[t].started THEN Retain(r) ELSE Reconcile(r, 0)
Settled(t, label) ==
    [turn[t] EXCEPT !.open = FALSE, !.started = FALSE, !.known = FALSE, !.at = label]
SettleTurn(t) ==
    /\ At(t, "settle") /\ SettleRequest(t)
    /\ turn' = [turn EXCEPT ![t] =
          Settled(t, IF @.outcome = "none" THEN "replied" ELSE "finish")]
    /\ UNCHANGED <<permits, lease, answer, crashes, billed>>
(* The database fails: the reservation stays as it is.                       *)
SettleFails(t) ==
    /\ At(t, "settle")
    /\ turn' = [turn EXCEPT ![t] =
          [Settled(t, "finish") EXCEPT !.outcome = IF @ = "none" THEN "failed" ELSE @]]
    /\ UNCHANGED <<permits, lease, answer, crashes, billed, quota>>

(* The reply calls tools and the loop goes on, or it is the answer.          *)
CallTools(t) ==
    /\ At(t, "replied")
    /\ turn' = [turn EXCEPT ![t] = IF @.call < MaxCalls THEN [@ EXCEPT !.at = "running"]
                                   ELSE [@ EXCEPT !.at = "finish", !.outcome = "failed"]]
    /\ UNCHANGED <<permits, lease, answer, crashes, billed, quota>>
Done(t) ==
    /\ At(t, "replied") /\ ~turn[t].lost
    /\ turn' = [turn EXCEPT ![t].at = "finish", ![t].outcome = "complete"]
    /\ UNCHANGED <<permits, lease, answer, crashes, billed, quota>>

-----------------------------------------------------------------------------
(* _finish_turn: the answer is stored by the owner of the lease only, and    *)
(* once; a turn whose lease was lost stores nothing.                         *)

StoresAnyway(t) == turn[t].outcome # "lost"   \* fault: the lease is not checked again
Stores(t) == turn[t].outcome # "lost" /\ (Owned(t) \/ answer[t] # "none")
Store(t) ==
    /\ answer' = [answer EXCEPT ![t] = IF @ = "none" THEN turn[t].outcome ELSE @]
    /\ lease' = [lease EXCEPT ![Of(t)] = IF Owned(t) THEN None ELSE @]
AfterFinish(t) == Goto(t, IF At(t, "compensate") THEN "release" ELSE "cleanup")

Finish(t) ==
    /\ At(t, "finish") \/ At(t, "compensate")
    /\ AfterFinish(t)
    /\ IF Stores(t) THEN Store(t) ELSE UNCHANGED <<answer, lease>>
    /\ UNCHANGED <<permits, crashes, billed, quota>>
(* The call raises, committed or not: a complete turn is stored again, as    *)
(* failed, if nothing has been stored.                                       *)
FinishFails(t) ==
    /\ At(t, "finish") \/ At(t, "compensate")
    /\ turn[t].outcome # "lost"
    /\ \/ Stores(t) /\ Store(t)
       \/ UNCHANGED <<answer, lease>>
    /\ IF turn[t].outcome = "complete" THEN turn' = [turn EXCEPT ![t].outcome = "failed"]
                                       ELSE AfterFinish(t)
    /\ UNCHANGED <<permits, crashes, billed, quota>>

(* _TurnCleanup: called when the stream ends and again by the response.      *)
Twice(t) == TRUE                           \* fault: the second call is not told apart
Once(t) == ~turn[t].cleaned

Clean(t) ==
    IF Once(t)
    THEN /\ permits' = permits + 1
         /\ \/ lease' = [lease EXCEPT ![Of(t)] = IF HoldsLease(t, @) THEN None ELSE @]
            \/ UNCHANGED lease               \* the database fails, the permit goes back
    ELSE UNCHANGED <<permits, lease>>
StreamEnds(t) ==
    /\ At(t, "cleanup") /\ Clean(t)
    /\ turn' = [turn EXCEPT ![t].at = "ended", ![t].cleaned = TRUE]
    /\ UNCHANGED <<answer, crashes, billed, quota>>
ResponseEnds(t) ==
    /\ At(t, "ended") /\ Clean(t) /\ Over(t)
    /\ UNCHANGED <<answer, crashes, billed, quota>>
ReleasePermit(t) ==
    /\ At(t, "release") /\ Over(t) /\ permits' = permits + 1
    /\ UNCHANGED <<lease, answer, crashes, billed, quota>>

-----------------------------------------------------------------------------
(* Beside the turn: the heartbeat renews the lease, expired or not, as long  *)
(* as it is its own; time passes; the process dies.                          *)

Renew(t) ==
    /\ turn[t].at \in Leased /\ ~turn[t].lost
    /\ HoldsLease(t, lease[Of(t)]) /\ lease[Of(t)].expired
    /\ lease' = [lease EXCEPT ![Of(t)].expired = FALSE]
    /\ UNCHANGED <<turn, permits, answer, crashes, billed, quota>>
(* renew_turn found another owner, or the database did not answer.           *)
LoseLease(t) ==
    /\ turn[t].at \in Leased /\ ~turn[t].lost
    /\ turn' = [turn EXCEPT ![t].lost = TRUE]
    /\ UNCHANGED <<permits, lease, answer, crashes, billed, quota>>
LeaseExpires(s) ==
    /\ lease[s] # None /\ ~lease[s].expired
    /\ lease' = [lease EXCEPT ![s].expired = TRUE]
    /\ UNCHANGED <<turn, permits, answer, crashes, billed, quota>>
Crash ==
    /\ crashes < Crashes /\ crashes' = crashes + 1 /\ permits' = MaxTurns
    /\ turn' = [t \in Turns |-> IF At(t, "idle") THEN turn[t] ELSE [NewTurn EXCEPT !.at = "done"]]
    /\ UNCHANGED <<lease, answer, billed, quota>>

TurnStep(t) ==
    \/ GetReplayItems(t) \/ AcquireTurn(t) \/ PrepareFails(t) \/ PrepareUnheard(t)
    \/ PrepareCancelled(t) \/ NeverStreams(t)
    \/ ReserveTokens(t) \/ MarkProviderStarted(t) \/ MarkUnheard(t)
    \/ AttemptLost(t) \/ Create(t)
    \/ Completed(t) \/ Stop(t) \/ SettleTurn(t) \/ SettleFails(t) \/ CallTools(t) \/ Done(t)
    \/ Finish(t) \/ FinishFails(t) \/ StreamEnds(t) \/ ResponseEnds(t) \/ ReleasePermit(t)
Quotas == (Sweep \/ NewDay) /\ UNCHANGED turns

Next ==
    \/ \E t \in Turns : AcquirePermit(t) \/ TurnStep(t) \/ Renew(t) \/ LoseLease(t)
    \/ \E s \in Sessions : LeaseExpires(s)
    \/ Quotas \/ Crash

Spec == Init /\ [][Next]_vars

-----------------------------------------------------------------------------
(* Properties.                                                               *)

AgentTypeOK ==
    /\ turn \in [Turns -> Turn]
    /\ permits \in 0..MaxTurns
    /\ \A s \in Sessions :
          lease[s] \in [turn : {t \in Turns : Of(t) = s}, expired : BOOLEAN] \cup {None}
    /\ answer \in [Turns -> {"none", "complete", "failed"}]
    /\ billed \in [Resv -> Bill] /\ crashes \in 0..Crashes

(* What the provider may have charged for the last attempt of a request is   *)
(* charged to the day and the month: by the reservation while it is held or  *)
(* retained, by the usage once it is reconciled, whoever settled it, the     *)
(* turn, its cancellation or the sweeper after a crash (agent.py: "the local *)
(* daily/monthly ceilings" stay "fail-closed").  The attempt the client gave *)
(* up on is in no book of its own: a reservation covers either of the two,   *)
(* never both, and the usage of the second takes its place; but a request    *)
(* that was ever sent is not given back as one that never started.           *)
Charge(r) ==
    IF resv[r] = None THEN 0
    ELSE IF resv[r].status = "reconciled" THEN resv[r].used ELSE resv[r].amount
ChargesCoverBills == \A r \in Resv :
    /\ billed[r].last <= Charge(r)
    /\ billed[r].lost > 0 =>
          /\ resv[r] # None /\ resv[r].started
          /\ resv[r].status # "reconciled" => billed[r].lost <= Charge(r)

(* The permits that are not free are those of requests at work: none leaks   *)
(* when a request fails, is cancelled or loses its lease, none is given back *)
(* twice.                                                                    *)
AtWork == {t \in Turns : ~At(t, "idle") /\ ~At(t, "done") /\ ~turn[t].cleaned}
PermitsBalance ==
    AgentTypeOK /\ permits + Cardinality(AtWork) = MaxTurns

(* Turns of a session that are answered are answered one after another:      *)
(* between the lease and the answer of one, no other is.                     *)
AnsweredAlone ==
    [][\A t \in Turns : answer'[t] = "complete" /\ answer[t] # "complete"
                           => Answered(Of(t)) = turn[t].since]_vars

(* A lease that has not expired is ended by its own turn only.               *)
LeaseIsKept ==
    [][\A s \in Sessions :
          LET l == lease[s] IN
          l # None /\ ~l.expired /\ (lease'[s] = None \/ lease'[s].turn # l.turn)
          => turn'[l.turn] # turn[l.turn]]_vars

==============================================================================
