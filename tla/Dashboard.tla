----------------------------- MODULE Dashboard -----------------------------
(***************************************************************************)
(* The history of games as it is read: the queries of the store, the       *)
(* aggregate, the REST and gRPC handlers over them, and the web page, which *)
(* fetches the list page by page, while the daemon saves games, and keeps  *)
(* what it fetched.  Archive has the writing of the store in detail.       *)
(*                                                                         *)
(* A function of the page runs until it awaits a request; the handling of  *)
(* the request and the code after the await are one step: what this        *)
(* changes is the refresh's own until it is done.  The mode "compare" shows *)
(* what "all" does; the filters by date and number are taken to be off, and *)
(* two requests for the same turns to be one.                              *)
(***************************************************************************)
EXTENDS Integers, Sequences, SequencesExt, FiniteSetsExt

CONSTANTS
  MaxGames,      \* bound on the games saved
  MaxLoads,      \* bound on the refreshes of the page in flight
  PageSize,      \* games the page asks for at a time; the source's 200
  DefaultLimit,  \* games ListGames gives a gRPC client that names no limit; the source's 50
  Viewed,        \* the games whose page is opened
  Results        \* [place, duos] of the games; place 0 if it has none

ASSUME DashboardAssumption ==
  /\ MaxGames \in Nat /\ PageSize \in Nat \ {0} /\ DefaultLimit \in Nat \ {0}
  /\ Results \subseteq [place : Nat, duos : BOOLEAN]

Modes   == {"all", "solo", "duos"}
IDsUsed == 1..MaxGames
Loads   == 1..MaxLoads
None    == 0
Unknown == MaxGames + 1   \* Infinity

VARIABLES
  \* The store and the daemon's event loop.
  metas,     \* the metadata of the games in game:list, oldest first
  saved,     \* the games with a game:turns key
  saving,    \* the game between its SaveFullGame and its SaveTurnSnapshots
  \* The page.
  view,      \* State.mode
  loads,     \* its refreshes: idle, fetching or with all pages fetched
  games,     \* State.games, newest first
  selected,  \* State.selectedGameID
  asked,     \* requests for turns in flight
  turnData   \* State.turnData: whose turns are kept under an ID

historyVars   == <<metas, saved, saving>>
pageVars      == <<view, loads, games, selected, asked, turnData>>
dashboardVars == <<historyVars, pageVars>>

Idle == [step |-> "idle", mode |-> "all", offset |-> 0, total |-> 0, all |-> <<>>, began |-> 0]

Meta == [id : IDsUsed, place : Nat, duos : BOOLEAN]
Load == [step : {"idle", "fetch", "done"}, mode : Modes, offset : 0..MaxGames,
         total : 0..Unknown, all : Seq(IDsUsed), began : 0..MaxGames]

PageTypeOK ==
  /\ metas \in Seq(Meta) /\ Len(metas) <= MaxGames
  /\ saved \subseteq IDsUsed /\ saving \in IDsUsed \cup {None}
  /\ view \in Modes /\ loads \in [Loads -> Load]
  /\ games \in Seq(IDsUsed) /\ selected \in IDsUsed \cup {None}
  /\ asked \subseteq IDsUsed /\ turnData \in [IDsUsed -> (SUBSET IDsUsed) \cup {{None}}]

PageInit ==
  /\ metas = <<>> /\ saved = {} /\ saving = None
  /\ view = "all" /\ loads = [l \in Loads |-> Idle] /\ games = <<>>
  /\ selected = None /\ asked = {} /\ turnData = [g \in IDsUsed |-> {None}]

----------------------------------------------------------------------------
(* The queries *)

LoadAllMetas == metas
ListGames    == Reverse(LoadAllMetas)

\* The entries of ms with an index in S, in their order.
Nth(S, k)     == CHOOSE i \in S : Cardinality({j \in S : j < i}) = k - 1
Chosen(ms, S) == [k \in 1..Cardinality(S) |-> ms[Nth(S, k)]]

FilterCompleteGames(ms) == Chosen(ms, {i \in DOMAIN ms : ms[i].place > 0})

FilterByMode(ms, mode) ==
  IF mode \in {"solo", "duos"}
  THEN Chosen(ms, {i \in DOMAIN ms : ms[i].duos = (mode = "duos")}) ELSE ms

\* A limit of 0 asks for all.
Paginate(ms, limit, offset) ==
  SubSeq(ms, offset + 1, IF limit = 0 THEN Len(ms) ELSE Min({Len(ms), offset + limit}))

RestGames(mode) == FilterByMode(FilterCompleteGames(ListGames), mode)

RestListGames_pageTotal(mode, limit, offset) == \* mutant: total counts the page
  LET page == Paginate(RestGames(mode), limit, offset) IN [games |-> page, total |-> Len(page)]
RestListGames(mode, limit, offset) ==
  [games |-> Paginate(RestGames(mode), limit, offset), total |-> Len(RestGames(mode))]

GrpcListGames(limit, offset) ==
  LET complete == FilterCompleteGames(ListGames)
  IN  [games |-> Paginate(complete, IF limit <= 0 THEN DefaultLimit ELSE limit, offset),
       total |-> Len(complete)]

\* stats.Compute, which skips games without a placement.  The average is by the sum of
\* the placements, here as many pairs as they add up to.
Won(m) == m.place <= IF m.duos THEN 2 ELSE 4
Compute(ms) ==
  LET counted == {i \in DOMAIN ms : ms[i].place > 0}
      places  == {ms[i].place : i \in counted}
  IN  [played |-> Cardinality(counted),
       wins   |-> Cardinality({i \in counted : Won(ms[i])}),
       losses |-> Cardinality({i \in counted : ~Won(ms[i])}),
       sum    |-> Cardinality(UNION {{i} \X (1..ms[i].place) : i \in counted}),
       best   |-> IF places = {} THEN 0 ELSE Min(places),
       worst  |-> IF places = {} THEN 0 ELSE Max(places)]

RestGetAggregate(mode) == Compute(RestGames(mode))
GetAggregate           == Compute(LoadAllMetas)

\* GetTurnSnapshots: the game the turns are of, or nothing when there are none.
GetTurnSnapshots(g) == {g} \cap saved
RestGetTurns(g)     == GetTurnSnapshots(g)

\* GetGame of the store: the state saved under an ID, or none; and of the REST handler,
\* whose answer to none is "not found".
GetGame(g)     == {m \in ToSet(metas) : m.id = g}
RestGetGame(g) == GetGame(g)

----------------------------------------------------------------------------
(* The daemon *)

\* SaveFullGame of a game of its own ID, the metadata with it.
GameSaved(result) ==
  /\ saving = None /\ Len(metas) < MaxGames
  /\ saving' = Len(metas) + 1
  /\ metas' = Append(metas, [id |-> saving', place |-> result.place, duos |-> result.duos])
  /\ UNCHANGED <<saved, pageVars>>

\* SaveTurnSnapshots, the transaction after it.
TurnsSaved ==
  /\ saving # None
  /\ saved' = saved \cup {saving} /\ saving' = None
  /\ UNCHANGED <<metas, pageVars>>

----------------------------------------------------------------------------
(* The page *)

\* refreshDashboard: the mode is read once, before the first request.  In a mode of its
\* own it first fetches all games for its time axis, which only takes time.
Begin(l, mode) ==
  loads' = [loads EXCEPT ![l] = [step |-> "fetch", mode |-> mode, offset |-> 0,
                                 total |-> Unknown, all |-> <<>>, began |-> Len(metas)]]

\* initModeToggle: a button goes to the overview and refreshes the page.
SetMode(l, mode) ==
  /\ loads[l] = Idle
  /\ view' = mode /\ selected' = None
  /\ Begin(l, mode)
  /\ UNCHANGED <<historyVars, games, asked, turnData>>

\* A filter's button, or the page being opened.
Refresh(l) ==
  /\ loads[l] = Idle
  /\ Begin(l, view)
  /\ UNCHANGED <<historyVars, view, games, selected, asked, turnData>>

\* getAllGames: the next page, at an offset of as many games as it has.
Fetch(l) ==
  LET load == loads[l]
      data == RestListGames(load.mode, PageSize, load.offset)
      next == load.offset + Len(data.games)
      more == data.games # <<>> /\ next < data.total
  IN  /\ load.step = "fetch"
      /\ loads' = [loads EXCEPT ![l].step = IF more THEN "fetch" ELSE "done",
                                ![l].offset = next, ![l].total = data.total,
                                ![l].all = @ \o [i \in DOMAIN data.games |-> data.games[i].id]]
      /\ UNCHANGED <<historyVars, view, games, selected, asked, turnData>>

\* A request fails: the refresh ends and the page stays as it is.
Fail(l) ==
  /\ loads[l].step = "fetch"
  /\ loads' = [loads EXCEPT ![l] = Idle]
  /\ UNCHANGED <<historyVars, view, games, selected, asked, turnData>>

Show(l) ==
  /\ loads[l].step = "done"
  /\ games' = loads[l].all
  /\ loads' = [loads EXCEPT ![l] = Idle]
  /\ UNCHANGED <<historyVars, view, selected, asked, turnData>>

\* drillToGame and renderLevel2, which fetches the turns it has not kept yet, the
\* game itself being there from the overview.
DrillToGame(g) ==
  /\ g \in ToSet(games) /\ g # selected
  /\ selected' = g
  /\ asked' = IF turnData[g] = {None} THEN asked \cup {g} ELSE asked
  /\ UNCHANGED <<historyVars, view, loads, games, turnData>>

\* navigateTo the overview.
Back ==
  /\ selected # None
  /\ selected' = None
  /\ UNCHANGED <<historyVars, view, loads, games, asked, turnData>>

\* The answer is kept under the ID selected by now; a failure is kept under none.
KeepTurns(g) ==
  /\ g \in asked
  /\ asked' = asked \ {g}
  /\ \/ selected # None /\ turnData' = [turnData EXCEPT ![selected] = RestGetTurns(g)]
     \/ UNCHANGED turnData
  /\ UNCHANGED <<historyVars, view, loads, games, selected>>

Daemon == TurnsSaved \/ \E result \in Results : GameSaved(result)
Page   == \/ Back
          \/ \E l \in Loads : \/ Refresh(l) \/ Fetch(l) \/ Fail(l) \/ Show(l)
                              \/ \E mode \in Modes : SetMode(l, mode)
          \/ \E g \in Viewed : DrillToGame(g) \/ KeepTurns(g)
PageNext == Daemon \/ Page

PageSpec == PageInit /\ [][PageNext]_dashboardVars

----------------------------------------------------------------------------
(* What a reader of the history may rely on *)

IDsIn(ms) == [i \in DOMAIN ms |-> ms[i].id]
NewestFirst(s) == \A i, j \in DOMAIN s : i < j => s[i] >= s[j]

\* The list of complete games of a mode as it was with the first n games saved.
ListWith(n, mode) == IDsIn(FilterByMode(FilterCompleteGames(Reverse(SubSeq(metas, 1, n))), mode))

\* Fetching page by page while games are saved misses none of the games there were when
\* the refresh began, though the offsets of all of them move; it gets none twice unless
\* a game of the list was saved meanwhile, and the newest first unless two were.
\* (getAllGames, handleListGames)
PagesWhole ==
  \A l \in Loads : loads[l].step = "done" =>
    LET load == loads[l]
        old  == ListWith(load.began, load.mode)
        new  == ListWith(Len(metas), load.mode)
    IN  /\ ToSet(old) \subseteq ToSet(load.all) /\ ToSet(load.all) \subseteq ToSet(new)
        /\ Len(new) = Len(old) => load.all = old
        /\ Len(new) <= Len(old) + 1 => NewestFirst(load.all)

\* The APIs count the same games: the totals of REST and of gRPC, the aggregate of each,
\* and the two modes together; a game listed can be fetched.
AnswersAgree ==
  LET rest == RestListGames("all", 0, 0)
      grpc == GrpcListGames(0, 0)
      all  == RestGetAggregate("all")
      solo == RestGetAggregate("solo")
      duos == RestGetAggregate("duos")
  IN  /\ rest.total = grpc.total /\ rest.total = all.played /\ GetAggregate = all
      /\ IsPrefix(grpc.games, rest.games)
      /\ \A f \in {"played", "wins", "losses", "sum"} : all[f] = solo[f] + duos[f]
      /\ \A m \in ToSet(rest.games) : RestGetGame(m.id) = {m}

\* What is read of the history is what was saved, page by page and counted in any way.
HistoryExact == PagesWhole /\ AnswersAgree

----------------------------------------------------------------------------
(* What the page does not keep to *)

\* The games shown are of the mode chosen, once no refresh is in flight.  (refreshDashboard)
GamesOfMode ==
  (\A l \in Loads : loads[l] = Idle) =>
    \A g \in ToSet(games) : view = "all" \/ metas[g].duos = (view = "duos")

\* The turns kept for a game are its own.  (renderLevel2)
TurnsOfTheGame == \A g \in IDsUsed : turnData[g] \subseteq {None, g}
\* Once no save and no request is under way, a game that has turns in the store is not kept
\* as one without.  (SaveTurnSnapshots, renderLevel2)
TurnsComeInTheEnd ==
  asked = {} /\ saving = None => \A g \in IDsUsed : turnData[g] # {} \/ g \notin saved
=============================================================================
