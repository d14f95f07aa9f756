------------------------------ MODULE Traffic ------------------------------
(***************************************************************************)
(* The traffic view of the administrator (TrafficView.jsx) over the visits *)
(* the server records.  Every change of the controls asks for a page of    *)
(* the list; answers arrive in any order and requestGate.js drops those    *)
(* that are not of the latest request.  Deleting rows asks for the list    *)
(* again when the server has answered, with the controls the handler was   *)
(* made with.  An export reads the pages one after the other.              *)
(***************************************************************************)
EXTENDS Visits

CONSTANTS
    PageSize,   \* rows of a page
    MaxPage,    \* bound: pages the administrator turns to
    MaxRequest, \* bound: numbers the gate hands out
    ExportTime, \* bound: time that passes beside an export
    TrafficScenes  \* what a behaviour is about: "pings", "view", "export"

ASSUME TrafficConstants ==
    {PageSize, MaxPage} \subseteq Nat \ {0} /\ {MaxRequest, ExportTime} \subseteq Nat

VARIABLES
    trafficScene,
    mounted,    \* the view is on the screen
    controls,   \* the selected application and page
    latest,     \* latestRequest of the gate
    loads,      \* requests for the list that are under way
    loading,    \* the spinner
    failed,     \* the last load that was not dropped has failed
    shown,      \* ids of the rows shown, and the controls they were asked with
    deletion,   \* the deletion under way
    deleted,    \* ids the administrator was told are deleted
    overtaken,  \* history: the controls changed during a deletion
    export,     \* the export under way or finished: its rows by their ids, and how many it has
    listed      \* history: the ids listed when the export began, none after a deletion

viewVars == <<mounted, controls, latest, loads, loading, failed, shown, deletion,
              deleted, overtaken>>
exportVars == <<export, listed>>
trafficVars == <<visitVars, viewVars, exportVars, trafficScene>>

Filter == App \cup {"all"}
Controls == [app : Filter, page : 1..MaxPage]
FirstControls == [app |-> "all", page |-> 1]
NoDeletion == [ids |-> {}, controls |-> FirstControls, done |-> FALSE, mine |-> TRUE]
NothingShown == [rows |-> {}, controls |-> FirstControls]
NoExport == [pc |-> "idle", app |-> "all", page |-> 1, total |-> 0, rows |-> {}, count |-> 0]

TrafficInit ==
    /\ VisitsInit
    /\ trafficScene \in TrafficScenes
    /\ mounted = FALSE
    /\ controls = FirstControls
    /\ latest = 0
    /\ loads = {}
    /\ loading = FALSE
    /\ failed = FALSE
    /\ shown = NothingShown
    /\ deletion = NoDeletion
    /\ deleted = {}
    /\ overtaken = FALSE
    /\ export = NoExport
    /\ listed = {}

\* getTrafficLogs: rows of an application; a page skips the newest ones of the
\* pages before it.
Matching(app) == {n \in Rows : app = "all" \/ AppOf[visits[n].from] = app}
Newer(app, n) == Cardinality({m \in Matching(app) : m > n})
Ids(ns) == {visits[n].id : n \in ns}
Page(app, page) ==
    Ids({n \in Matching(app) :
           (page - 1) * PageSize <= Newer(app, n) /\ Newer(app, n) < page * PageSize})

---------------------------------------------------------------------------
(* loadTraffic                                                             *)

\* begin(): the request is the latest one from now on.
Begin(c, number) ==
    /\ latest' = number
    /\ loads' = loads \cup {[id |-> number, controls |-> c, rows |-> {},
                             answered |-> FALSE]}
    /\ loading' = TRUE

Mount ==
    /\ ~mounted
    /\ latest < MaxRequest
    /\ mounted' = TRUE
    /\ Begin(FirstControls, latest + 1)
    /\ UNCHANGED <<visitVars, controls, failed, shown, deletion, deleted,
                   overtaken, exportVars>>

\* The effect's cleanup invalidates the requests under way; a view that is
\* opened again starts from nothing, and an older view's deletion is not its.
Unmount ==
    /\ mounted
    /\ mounted' = FALSE
    /\ latest' = latest + 1
    /\ loading' = FALSE
    /\ failed' = FALSE
    /\ overtaken' = FALSE
    /\ controls' = FirstControls
    /\ shown' = NothingShown
    /\ deletion' = [deletion EXCEPT !.mine = (deletion = NoDeletion)]
    /\ UNCHANGED <<visitVars, loads, deleted, exportVars>>

\* A filter goes back to the first page.  The cleanup takes a number and the
\* effect the next.
Choose(c) ==
    /\ mounted
    /\ c # controls
    /\ c.app # controls.app => c.page = 1
    /\ latest + 1 < MaxRequest
    /\ controls' = c
    /\ overtaken' = (overtaken \/ deletion # NoDeletion)
    /\ Begin(c, latest + 2)
    /\ UNCHANGED <<visitVars, mounted, failed, shown, deletion, deleted,
                   exportVars>>

Refresh ==
    /\ mounted
    /\ latest < MaxRequest
    /\ Begin(controls, latest + 1)
    /\ overtaken' = (overtaken /\ deletion # NoDeletion)
    /\ UNCHANGED <<visitVars, mounted, controls, failed, shown, deletion, deleted,
                   exportVars>>

\* The server reads the page; the answer is on its way.
Answer(l) ==
    /\ l \in loads
    /\ ~l.answered
    /\ loads' = (loads \ {l}) \cup
                  {[l EXCEPT !.answered = TRUE,
                             !.rows = Page(l.controls.app, l.controls.page)]}
    /\ UNCHANGED <<visitVars, mounted, controls, latest, loading, failed, shown,
                   deletion, deleted, overtaken, exportVars>>

IsAnyRequest(l) == TRUE
\* isCurrent
IsCurrent(l) == l.id = latest

\* The answer is shown and the spinner stops, or it is dropped.
Receive(l) ==
    /\ l \in loads
    /\ l.answered
    /\ loads' = loads \ {l}
    /\ IF IsCurrent(l)
         THEN /\ shown' = [rows |-> l.rows, controls |-> l.controls]
              /\ failed' = FALSE
              /\ loading' = FALSE
         ELSE UNCHANGED <<shown, failed, loading>>
    /\ UNCHANGED <<visitVars, mounted, controls, latest, deletion, deleted,
                   overtaken, exportVars>>

\* The spinner of a view that handles errors without a finally.
LoadFailsSpinning(l) ==
    /\ l \in loads
    /\ loads' = loads \ {l}
    /\ failed' = IF IsCurrent(l) THEN TRUE ELSE failed
    /\ UNCHANGED <<visitVars, mounted, controls, latest, loading, shown, deletion,
                   deleted, overtaken, exportVars>>

LoadFails(l) ==
    /\ l \in loads
    /\ loads' = loads \ {l}
    /\ IF IsCurrent(l) THEN failed' = TRUE /\ loading' = FALSE
                       ELSE UNCHANGED <<failed, loading>>
    /\ UNCHANGED <<visitVars, mounted, controls, latest, shown, deletion, deleted,
                   overtaken, exportVars>>

---------------------------------------------------------------------------
(* handleBatchDeleteTrafficLogs                                            *)

AskDeletion(ids) ==
    /\ mounted
    /\ deletion = NoDeletion
    /\ ids # {}
    /\ ids \subseteq shown.rows
    /\ deletion' = [ids |-> ids, controls |-> controls, done |-> FALSE, mine |-> TRUE]
    /\ UNCHANGED <<visitVars, mounted, controls, latest, loads, loading, failed,
                   shown, deleted, overtaken, exportVars>>

DoDeletion ==
    /\ deletion # NoDeletion
    /\ ~deletion.done
    /\ deletion' = [deletion EXCEPT !.done = TRUE]
    /\ DeleteVisits(deletion.ids)
    /\ listed' = {}
    /\ UNCHANGED <<mounted, controls, latest, loads, loading, failed, shown,
                   deleted, overtaken, export>>

\* An error, before the server did anything or after.
DeletionFails ==
    /\ deletion # NoDeletion
    /\ deletion' = NoDeletion
    /\ UNCHANGED <<visitVars, mounted, controls, latest, loads, loading, failed,
                   shown, deleted, overtaken, exportVars>>

\* The list is not asked for again.
DeletedOnce ==
    /\ deletion.done
    /\ deletion.mine => latest < MaxRequest
    /\ deletion' = NoDeletion
    /\ deleted' = IF deletion.mine THEN deleted \cup deletion.ids ELSE deleted
    /\ UNCHANGED <<visitVars, mounted, controls, latest, loads, loading, failed,
                   shown, overtaken, exportVars>>

\* The list is asked for again by the loadTraffic the handler was made with,
\* which does nothing once its view is gone.
Deleted ==
    /\ deletion.done
    /\ deletion.mine => latest < MaxRequest
    /\ deletion' = NoDeletion
    /\ IF deletion.mine
         THEN /\ deleted' = deleted \cup deletion.ids
              /\ Begin(deletion.controls, latest + 1)
         ELSE UNCHANGED <<deleted, latest, loads, loading>>
    /\ UNCHANGED <<visitVars, mounted, controls, failed, shown, overtaken,
                   exportVars>>

\* Rows deleted from another browser.
DeletedElsewhere(ids) ==
    /\ DeleteVisits(ids)
    /\ listed' = {}
    /\ UNCHANGED <<viewVars, export>>

---------------------------------------------------------------------------
(* exportTrafficLogs: collectPaginatedRows of csv.js                       *)

BeginExport ==
    /\ mounted
    /\ export.pc = "idle"
    /\ export' = [NoExport EXCEPT !.pc = "first", !.app = controls.app]
    /\ UNCHANGED <<visitVars, viewVars, listed>>

\* Every row of the page, also one that a new visit has moved there again.
AllOf(page) == page

\* Rows whose id was seen are left out.
NewOf(page) == page \ export.rows

FetchPage ==
    LET page == Page(export.app, export.page)
        count == export.count + Cardinality(NewOf(page))
        all == Matching(export.app)
        total == IF export.pc = "first" THEN Cardinality(all) ELSE export.total
    IN /\ export.pc \in {"first", "more"}
       /\ listed' = IF export.pc = "first" THEN Ids(all) ELSE listed
       /\ export' = [export EXCEPT
            !.rows = @ \cup page, !.count = count, !.total = total, !.page = @ + 1,
            !.pc = IF page = {} \/ count >= total THEN "done" ELSE "more"]
       /\ UNCHANGED <<visitVars, viewVars>>

ExportFails ==
    /\ export.pc \in {"first", "more"}
    /\ export' = NoExport
    /\ listed' = {}
    /\ UNCHANGED <<visitVars, viewVars>>

---------------------------------------------------------------------------
Unseen == UNCHANGED <<viewVars, exportVars>>
In(scenes) == trafficScene \in scenes /\ UNCHANGED trafficScene

TrafficNext ==
    \/ Later /\ Unseen /\ In({"pings"})
    \/ Later /\ now < ExportTime /\ Unseen /\ In({"export"})
    \/ (\E v \in Visitor : Ping(v)) /\ Unseen /\ In(TrafficScenes)
    \/ (\E visit \in visiting : SaveVisit(visit)) /\ Unseen /\ In(TrafficScenes)
    \/ (\E visit \in visiting : VisitFails(visit)) /\ Unseen /\ In({"pings"})
    \/ Cleanup /\ Unseen /\ In({"pings"})
    \/ Restart /\ Unseen /\ In({"pings"})
    \/ Mount /\ In({"view", "export"})
    \/ Unmount /\ In({"view"})
    \/ (\E c \in Controls : Choose(c)) /\ In({"view"})
    \/ (\E c \in Controls : Choose(c) /\ c.page = 1) /\ In({"export"})
    \/ Refresh /\ In({"view"})
    \/ (\E l \in loads : Answer(l)) /\ In({"view"})
    \/ (\E l \in loads : Receive(l)) /\ In({"view"})
    \/ (\E l \in loads : LoadFails(l)) /\ In({"view"})
    \/ (\E ids \in SUBSET shown.rows : AskDeletion(ids)) /\ In({"view"})
    \/ DoDeletion /\ In({"view"})
    \/ DeletionFails /\ In({"view"})
    \/ Deleted /\ In({"view"})
    \/ (\E id \in Ids(Rows) : DeletedElsewhere({id})) /\ In({"export"})
    \/ BeginExport /\ In({"export"})
    \/ FetchPage /\ In({"export"})
    \/ ExportFails /\ In({"export"})

TrafficSpec == TrafficInit /\ [][TrafficNext]_trafficVars

---------------------------------------------------------------------------
ViewTypeOK ==
    /\ {mounted, loading, failed, overtaken} \subseteq BOOLEAN
    /\ controls \in Controls
    /\ latest \in Nat
    /\ loads \subseteq [id : 1..latest, controls : Controls, rows : SUBSET (1..accepted),
                      answered : BOOLEAN]
    /\ shown \in [rows : SUBSET (1..accepted), controls : Controls]
    /\ deletion \in [ids : SUBSET (1..accepted), controls : Controls, done : BOOLEAN,
                     mine : BOOLEAN]
    /\ deleted \subseteq 1..accepted

ExportTypeOK ==
    /\ listed \subseteq 1..accepted
    /\ export \in [pc : {"idle", "first", "more", "done"}, app : Filter, page : Nat \ {0},
                   total : Nat, rows : SUBSET (1..accepted), count : Nat]

TrafficTypeOK == VisitsTypeOK /\ ViewTypeOK /\ ExportTypeOK

\* When nothing is loading and nothing failed, the list is the one of the
\* controls on the screen, in whatever order answers came
\* (TrafficView.jsx:35-68), unless the controls were changed while a deletion
\* was under way: its handler asks for the list of the older controls.
ListMatchesControls ==
    mounted /\ ~loading /\ ~failed /\ ~overtaken => shown.controls = controls

\* A row the administrator was told is deleted is not on the screen once the
\* list has loaded, whichever answers were under way (TrafficView.jsx:113-133).
DeletedRowsAreGone ==
    mounted /\ ~loading /\ ~failed => shown.rows \cap deleted = {}

\* The spinner never outlives its request: while it turns, the answer to the
\* latest request is still to come.
SpinnersEnd == loading => \E l \in loads : IsCurrent(l)

\* The list that has loaded is the latest one (TrafficView.jsx:35-133).
ListIsCurrent == ListMatchesControls /\ DeletedRowsAreGone /\ SpinnersEnd

\* A finished export holds no row twice, and every row that was listed when it
\* began, while visits arrive and shift the pages; when more arrive between two
\* pages than a page has, it ends early, with newer rows in place of those it
\* misses (csv.js:19-52).  Deletions shift the pages back past rows: after one
\* nothing is promised.
ExportsAreComplete ==
    export.pc = "done" =>
        /\ export.count = Cardinality(export.rows)
        /\ Cardinality(listed \ export.rows) <= Cardinality(export.rows \ listed)
=============================================================================
