--------------------------------- MODULE Quota --------------------------------
(* Token reservations of the assistant (logo-admin/quotas.py): before each   *)
(* provider request a row is reserved against the day of its user and the    *)
(* month of everybody; afterwards it is reconciled with what was used, or    *)
(* retained when the usage is not known.  What a crash leaves is swept.      *)
(* Each operation is one transaction.  One month; input and output tokens    *)
(* are counted together.                                                     *)
EXTENDS Naturals, FiniteSetsExt

CONSTANTS
    Users, Resv, None,
    Days,          \* bound: the last day of the run
    DailyCap, MonthlyCap, RateLimit

ASSUME QuotaAssumption ==
    Days \in Nat \ {0} /\ DailyCap \in Nat /\ MonthlyCap \in Nat /\ RateLimit \in Nat \ {0}

VARIABLES
    resv,     \* logo.agent_quota_reservation, None before it is inserted
    daily,    \* logo.agent_usage_daily of each user and day, None until inserted
    monthly,  \* logo.agent_usage_monthly
    rate,     \* logo.agent_rate_window of the last minute with a request
    today

quota == <<resv, daily, monthly, rate, today>>

Reservation == [status : {"reserved", "reconciled", "retained"}, user : Users,
                day : 1..Days, amount : Nat, used : Nat, started : BOOLEAN]
Book == [reserved : Nat, used : Nat]
ASSUME NullAssumption == None \notin Reservation \cup Book
Empty == [reserved |-> 0, used |-> 0]

QuotaInit ==
    /\ resv = [r \in Resv |-> None]
    /\ daily = [u \in Users |-> [d \in 1..Days |-> None]]
    /\ monthly = None
    /\ rate = [u \in Users |-> 0]
    /\ today = 1

IsReserved(r) == resv[r] # None /\ resv[r].status = "reserved"

(* The row is inserted unchecked; only its later updates compare with the    *)
(* cap.  The request alone has been compared with it before.                 *)
Admits(book, n, cap) == book # None => book.reserved + book.used + n <= cap
SizeFits(n) == n <= DailyCap /\ n <= MonthlyCap
Add(book, n) == [(IF book = None THEN Empty ELSE book) EXCEPT !.reserved = @ + n]
KeepHeld(book, n, used) == [book EXCEPT !.used = @ + used]  \* fault: the reservation stays held
Settle(book, n, used) == [reserved |-> book.reserved - n, used |-> book.used + used]

(* The window of the request's minute: a new one, or the last one's.         *)
Window(u, newMinute) == IF newMinute THEN 0 ELSE rate[u]

CanReserve(u, n, newMinute) ==
    /\ SizeFits(n) /\ Window(u, newMinute) < RateLimit
    /\ Admits(daily[u][today], n, DailyCap) /\ Admits(monthly, n, MonthlyCap)

Reserve(r, u, n, newMinute) ==
    /\ resv[r] = None /\ n > 0 /\ CanReserve(u, n, newMinute)
    /\ rate' = [rate EXCEPT ![u] = Window(u, newMinute) + 1]
    /\ daily' = [daily EXCEPT ![u][today] = Add(@, n)]
    /\ monthly' = Add(monthly, n)
    /\ resv' = [resv EXCEPT ![r] = [status |-> "reserved", user |-> u, day |-> today,
                   amount |-> n, used |-> 0, started |-> FALSE]]
    /\ UNCHANGED today

(* mark_provider_started: it tells whether the row was still reserved.       *)
Mark(r) ==
    /\ resv' = IF IsReserved(r) THEN [resv EXCEPT ![r].started = TRUE] ELSE resv
    /\ UNCHANGED <<daily, monthly, rate, today>>

Unsettled(r) == IsReserved(r)

Reconcile(r, n) ==
    /\ IF Unsettled(r)
       THEN /\ resv' = [resv EXCEPT ![r].status = "reconciled", ![r].used = n]
            /\ daily' = [daily EXCEPT ![resv[r].user][resv[r].day] = Settle(@, resv[r].amount, n)]
            /\ monthly' = Settle(monthly, resv[r].amount, n)
       ELSE UNCHANGED <<resv, daily, monthly>>
    /\ UNCHANGED <<rate, today>>

Retain(r) ==
    /\ resv' = IF IsReserved(r) THEN [resv EXCEPT ![r].status = "retained"] ELSE resv
    /\ UNCHANGED <<daily, monthly, rate, today>>

(* sweep_stale_reservations: a row whose request may have gone out stays     *)
(* charged, any other is given back.                                         *)
AllReleased(r) == TRUE                     \* fault: provider_started_at is not read
Released(r) == ~resv[r].started
Amount(S) == SumFunction([r \in S |-> resv[r].amount])

SweepRows(S) ==
    LET free == {r \in S : Released(r)}
        Of(u, d) == {r \in free : resv[r].user = u /\ resv[r].day = d}
    IN /\ resv' = [r \in Resv |-> IF r \in free THEN [resv[r] EXCEPT !.status = "reconciled"]
                                  ELSE IF r \in S THEN [resv[r] EXCEPT !.status = "retained"]
                                  ELSE resv[r]]
       /\ daily' = [u \in Users |-> [d \in 1..Days |->
             IF Of(u, d) = {} THEN daily[u][d] ELSE Settle(daily[u][d], Amount(Of(u, d)), 0)]]
       /\ monthly' = IF free = {} THEN monthly ELSE Settle(monthly, Amount(free), 0)
       /\ UNCHANGED <<rate, today>>
(* The rows past expires_at that nobody locks (SKIP LOCKED): any of them.    *)
Stale == {r \in Resv : IsReserved(r)}
Sweep == \E S \in SUBSET Stale : S # {} /\ SweepRows(S)

(* Midnight.                                                                 *)
NewDay ==
    /\ today < Days /\ today' = today + 1
    /\ UNCHANGED <<resv, daily, monthly, rate>>

-----------------------------------------------------------------------------
(* Properties.                                                               *)

QuotaTypeOK ==
    /\ resv \in [Resv -> Reservation \cup {None}]
    /\ daily \in [Users -> [1..Days -> Book \cup {None}]]
    /\ monthly \in Book \cup {None}
    /\ rate \in [Users -> 0..RateLimit] /\ today \in 1..Days

(* The books say what the reservations say, whatever was settled late, twice *)
(* or by the sweeper: reserved and retained rows stay in "reserved", a       *)
(* reconciled one counts what it used, on the day it was reserved; and no    *)
(* day and no month is charged past its cap, by several requests at the cap, *)
(* the first of a day, or one on either side of midnight.                    *)
Held(S) == Amount({r \in S : resv[r].status # "reconciled"})
Used(S) == SumFunction([r \in S |-> resv[r].used])
Says(book, S) ==
    IF book = None THEN S = {} ELSE book.reserved = Held(S) /\ book.used = Used(S)
Total(book) == IF book = None THEN 0 ELSE book.reserved + book.used
BooksBalance ==
    LET All == {r \in Resv : resv[r] # None}
    IN /\ QuotaTypeOK
       /\ Total(monthly) <= MonthlyCap
       /\ \A u \in Users, d \in 1..Days : Total(daily[u][d]) <= DailyCap
       /\ Says(monthly, All)
       /\ \A u \in Users, d \in 1..Days :
             Says(daily[u][d], {r \in All : resv[r].user = u /\ resv[r].day = d})

==============================================================================
