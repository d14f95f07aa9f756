------------------------------- MODULE Visits -------------------------------
(***************************************************************************)
(* Page visits as the server records them (analytics.service.ts): a ping   *)
(* within ten seconds of the last accepted one of the same client, app and *)
(* path is dropped; an accepted one is located by a remote service and     *)
(* then saved, and what fails on the way is lost without an answer that    *)
(* says so.  Time is counted in units of which the throttle has Window.    *)
(***************************************************************************)
EXTENDS Integers, FiniteSets

CONSTANTS
    App,        \* the applications that are visited
    Visitor,    \* addresses and paths: what the throttle tells apart
    AppOf,      \* the application each of them visits
    Window,     \* how long a ping drops others like it
    Keep,       \* how long the periodic cleanup keeps a ping
    MaxTime, MaxVisit, MaxBoot   \* bounds: time, accepted visits, restarts

ASSUME VisitsConstants ==
    /\ AppOf \in [Visitor -> App]
    /\ Window \in Nat /\ Keep \in Nat /\ Window <= Keep
    /\ {MaxTime, MaxVisit, MaxBoot} \subseteq Nat /\ MaxBoot > 0

Never == MaxTime + Keep + 1   \* no ping is remembered

VARIABLES
    now,
    boot,         \* the starts of the server: its memory does not survive one
    recentPings,  \* when each visitor was last accepted
    accepted,     \* the number of visits accepted so far
    visiting,     \* accepted visits that are not saved yet
    saved,        \* the number of rows saved so far
    visits        \* the table: for each row, in the order they were saved, its visit

visitVars == <<now, boot, recentPings, accepted, visiting, saved, visits>>

Visit == [id : 1..MaxVisit, from : Visitor, at : 0..MaxTime, boot : 1..MaxBoot]

VisitsInit ==
    /\ now = 0
    /\ boot = 1
    /\ recentPings = [v \in Visitor |-> Never]
    /\ accepted = 0
    /\ visiting = {}
    /\ saved = 0
    /\ visits = [n \in {} |-> {}]

Rows == DOMAIN visits
KnownVisits == visiting \cup {visits[n] : n \in Rows}

Later ==
    /\ now < MaxTime
    /\ now' = now + 1
    /\ UNCHANGED <<boot, recentPings, accepted, visiting, saved, visits>>

\* lastPing && now - lastPing < 10000
Throttled(v) == recentPings[v] # Never /\ now - recentPings[v] < Window

NewVisit(v) == [id |-> accepted + 1, from |-> v, at |-> now, boot |-> boot]

\* The visit is located first and marked when it is saved.
PingUnmarked(v) ==
    /\ accepted < MaxVisit
    /\ ~Throttled(v)
    /\ accepted' = accepted + 1
    /\ visiting' = visiting \cup {NewVisit(v)}
    /\ UNCHANGED <<now, boot, recentPings, saved, visits>>

\* recordVisit up to the lookup of the location: the mark is set at once.
Ping(v) ==
    /\ accepted < MaxVisit
    /\ ~Throttled(v)
    /\ accepted' = accepted + 1
    /\ visiting' = visiting \cup {NewVisit(v)}
    /\ recentPings' = [recentPings EXCEPT ![v] = now]
    /\ UNCHANGED <<now, boot, saved, visits>>

\* Visits may be saved in another order than they came.
SaveVisit(visit) ==
    /\ visiting' = visiting \ {visit}
    /\ saved' = saved + 1
    /\ visits' = [n \in Rows \cup {saved + 1} |-> IF n \in Rows THEN visits[n] ELSE visit]
    /\ UNCHANGED <<now, boot, recentPings, accepted>>

VisitFails(visit) ==
    /\ visiting' = visiting \ {visit}
    /\ UNCHANGED <<now, boot, recentPings, accepted, saved, visits>>

\* The interval of the constructor.
Cleanup ==
    /\ \E v \in Visitor : recentPings[v] # Never /\ now - recentPings[v] > Keep
    /\ recentPings' = [v \in Visitor |->
         IF recentPings[v] # Never /\ now - recentPings[v] > Keep THEN Never
                                                            ELSE recentPings[v]]
    /\ UNCHANGED <<now, boot, accepted, visiting, saved, visits>>

Restart ==
    /\ boot < MaxBoot
    /\ boot' = boot + 1
    /\ recentPings' = [v \in Visitor |-> Never]
    /\ visiting' = {}
    /\ UNCHANGED <<now, accepted, saved, visits>>

\* deleteTrafficLogs
DeleteVisits(ids) ==
    /\ visits' = [n \in {r \in Rows : visits[r].id \notin ids} |-> visits[n]]
    /\ UNCHANGED <<now, boot, recentPings, accepted, visiting, saved>>

---------------------------------------------------------------------------
VisitsTypeOK ==
    /\ now \in 0..MaxTime
    /\ boot \in 1..MaxBoot
    /\ recentPings \in [Visitor -> 0..MaxTime \cup {Never}]
    /\ accepted \in 0..MaxVisit
    /\ visiting \subseteq Visit
    /\ saved \in Nat /\ Rows \subseteq 1..saved /\ \A n \in Rows : visits[n] \in Visit

\* Two pings of one visitor are both counted only when the second came a
\* window after the first or after a restart, however long the lookups of
\* their locations take and in whatever order they are saved
\* (analytics.service.ts:97-105, 72-82).
OneVisitPerWindow ==
    \A x, y \in KnownVisits :
        x.id # y.id /\ x.from = y.from /\ x.boot = y.boot
            => x.at + Window <= y.at \/ y.at + Window <= x.at
=============================================================================
