----------------------------- MODULE HistoryPages -----------------------------
(***************************************************************************)
(* The two pages of the web that show the history: a member's profile with *)
(* the list of games (app/profile, GameHistory.tsx) and the ranking        *)
(* (app/leaderboard, LeaderboardTable.tsx), in one tab.                    *)
(*                                                                         *)
(* A request is answered from the database at one moment and its answer    *)
(* reaches the page at a later one; answers overtake each other and games  *)
(* are saved in between.  An effect that runs again numbers its requests   *)
(* anew and cancels the earlier ones.                                      *)
(*                                                                         *)
(* Operators named ..._Faulty hold a plausible mistake; see module Room.   *)
(***************************************************************************)
EXTENDS History

CONSTANTS
  Viewed,      \* the member whose profile is opened
  Me,          \* the member who is logged in
  MaxClicks    \* bound of the model: choices of a sort and reloads per visit

ASSUME ViewedAssumption == {Viewed, Me} \subseteq User
ASSUME MaxClicksAssumption == MaxClicks \in Nat

VARIABLES
  page,        \* "profile", "ranking", "lobby" or "room"
  profile,     \* state of ProfilePage that concerns the games
  ranking,     \* state of LeaderboardPage
  requests     \* requests of the page under way

pageVars == <<page, profile, ranking, requests>>
historyVars == <<dbVars, pageVars>>

\* `first' is a history: what had been saved when the first page was read.
NoProfile ==
  [games |-> <<>>, nextCursor |-> Null, loading |-> TRUE, error |-> FALSE, first |-> {}]

\* `run' numbers the runs of the effects, and `since' is a history: what had
\* been saved when the latest one began.
NoRanking ==
  [sort |-> "totalScore", run |-> 0, entries |-> <<>>, loading |-> TRUE, error |-> FALSE,
   me |-> Null, session |-> Null, since |-> {}]

PagesInit ==
  /\ page = "lobby" /\ requests = {}
  /\ profile = NoProfile /\ ranking = NoRanking

FetchGames(cursor) ==
  [what |-> "games", cursor |-> cursor, answered |-> FALSE, data |-> Null]
FetchLeaderboard(sort, run) ==
  [what |-> "leaderboard", sort |-> sort, run |-> run, answered |-> FALSE, data |-> Null]
FetchRank(sort, run) ==
  [what |-> "rank", sort |-> sort, run |-> run, answered |-> FALSE, data |-> Null]

-----------------------------------------------------------------------------
(* Any moment of a request on its way: the BFF and the user service.       *)

SaveGame(g) == SaveGameResult(g) /\ UNCHANGED pageVars

Results(r) ==
  CASE r.what = "games" -> ListGames(Viewed, r.cursor)
    [] r.what = "leaderboard" -> {Top(r.sort)}
    [] r.what = "rank" -> {RankOf(Me, r.sort)}

Serve(r) ==
  /\ ~r.answered
  /\ \E data \in Results(r) :
       requests' = (requests \ {r}) \cup {[r EXCEPT !.answered = TRUE, !.data = data]}
  /\ profile' = IF r.what = "games" /\ r.cursor = Null THEN [profile EXCEPT !.first = games]
                ELSE profile
  /\ UNCHANGED <<dbVars, page, ranking>>

\* No network, no user service, or an error of it, before it has answered or after.
Outcomes(r) == IF r.answered THEN {"ok", "failed"} ELSE {"failed"}

\* getJson returns or throws.
Arrive(r, outcome) ==
  outcome \in Outcomes(r) /\ requests' = requests \ {r} /\ UNCHANGED <<dbVars, page>>

-----------------------------------------------------------------------------
(* The profile page.                                                       *)

\* A line of the ranking that can be clicked.
Listed(u) ==
  /\ ~ranking.loading /\ ~ranking.error
  /\ \/ \E i \in DOMAIN ranking.entries : ranking.entries[i].user = u
     \/ ranking.me # Null /\ u = Me

\* One's own name in the lobby, an address, or a line of the ranking.
OpenProfile ==
  /\ page = "lobby" \/ (page = "ranking" /\ Listed(Viewed))
  /\ page' = "profile"
  /\ requests' = {FetchGames(Null)} /\ ranking' = NoRanking
  /\ UNCHANGED <<dbVars, profile>>

\* The button is there and enabled.
HasMore == profile.nextCursor # Null /\ ~profile.error /\ ~profile.loading

\* loadGames from the button.
LoadMore ==
  /\ page = "profile" /\ HasMore
  /\ profile' = [profile EXCEPT !.loading = TRUE, !.error = FALSE]
  /\ requests' = requests \cup {FetchGames(profile.nextCursor)}
  /\ UNCHANGED <<dbVars, page, ranking>>

GamesArrive(r, outcome) ==
  /\ r.what = "games" /\ Arrive(r, outcome) /\ UNCHANGED ranking
  /\ profile' =
       IF outcome = "failed" THEN [profile EXCEPT !.error = TRUE, !.loading = FALSE]
       ELSE [profile EXCEPT
               !.games = IF r.cursor = Null THEN r.data.rows ELSE @ \o r.data.rows,
               !.nextCursor = r.data.nextCursor, !.loading = FALSE]

-----------------------------------------------------------------------------
(* The ranking page.                                                       *)

\* The two effects: the list, and the place of the member who is logged in. React
\* 19 runs the effects of a click, and renders what they set, before the browser
\* paints: no picture has the new sort with the entries of the old one.
RunEffects(sort, run, session) ==
  /\ ranking' = [ranking EXCEPT !.sort = sort, !.run = run, !.loading = TRUE,
                                !.error = FALSE, !.me = Null, !.since = games]
  /\ requests' = requests \cup {FetchLeaderboard(sort, run)}
                   \cup IF session = Null THEN {} ELSE {FetchRank(sort, run)}

OpenRanking ==
  /\ page = "lobby" /\ page' = "ranking"
  /\ RunEffects(ranking.sort, 0, Null)
  /\ UNCHANGED <<dbVars, profile>>

\* useSession has learnt who is logged in: only the second effect runs again.
SessionKnown ==
  /\ page = "ranking" /\ ranking.session = Null
  /\ ranking' = [ranking EXCEPT !.session = Me, !.me = Null]
  /\ requests' = requests \cup {FetchRank(ranking.sort, ranking.run)}
  /\ UNCHANGED <<dbVars, page, profile>>

Rerun(sort) ==
  /\ page = "ranking" /\ ranking.run < MaxClicks
  /\ RunEffects(sort, ranking.run + 1, ranking.session)
  /\ UNCHANGED <<dbVars, page, profile>>

ChooseSort(sort) == sort # ranking.sort /\ Rerun(sort)
Reload == ~ranking.loading /\ Rerun(ranking.sort)

Cancelled_Faulty(r) == FALSE
\* The clean-up of the effect that made the request has run.
Cancelled(r) == r.run # ranking.run

RankingArrives(r, outcome) ==
  /\ r.what \in {"leaderboard", "rank"} /\ Arrive(r, outcome) /\ UNCHANGED profile
  /\ \/ Cancelled(r) /\ UNCHANGED ranking
     \/ /\ ~Cancelled(r) /\ r.what = "leaderboard"
        /\ ranking' = [ranking EXCEPT !.loading = FALSE, !.error = (outcome = "failed"),
                                      !.entries = IF outcome = "failed" THEN <<>> ELSE r.data]
     \/ /\ ~Cancelled(r) /\ r.what = "rank"
        /\ ranking' = [ranking EXCEPT !.me = IF outcome = "failed" THEN @ ELSE r.data]

\* A page that is left is unmounted; what it waited for changes nothing.
ToLobby ==
  /\ page \in {"profile", "ranking"} /\ page' = "lobby"
  /\ requests' = {} /\ profile' = NoProfile /\ ranking' = NoRanking
  /\ UNCHANGED dbVars

PagesNext ==
  \/ \E g \in Game : SaveGame(g)
  \/ \E r \in requests :
       \/ Serve(r)
       \/ \E outcome \in {"ok", "failed"} : GamesArrive(r, outcome) \/ RankingArrives(r, outcome)
  \/ OpenProfile \/ LoadMore
  \/ OpenRanking \/ SessionKnown \/ Reload \/ \E s \in LeaderboardSort : ChooseSort(s)
  \/ ToLobby

-----------------------------------------------------------------------------
(* Properties.                                                             *)

\* While a reader pages through the list and games come in, late ones among
\* them, no line appears twice and no game is passed over: of what was there
\* when the first page was read, the list has every game down to its last
\* line, and all of them when it says that there are no more
\* (history.service.ts:139).
ListIsWhole ==
  /\ IsInjective(profile.games)
  /\ \A x \in Rows(profile.first, Viewed) :
       LET shown == {y[1] : y \in Range(profile.games)}
           past == profile.games # <<>> /\ Before(x, Last(profile.games))
           complete == ~profile.loading /\ ~profile.error /\ profile.nextCursor = Null
       IN  past \/ complete => x[1] \in shown

\* The ranking by sort after the games G, and the entry of u in it.
Value(G, u, sort) == Aggregate(G, u)[sort]
RankedIn(G) == {u \in User : Rows(G, u) # {}}
EntryIn(G, u, sort) ==
  LET value == Value(G, u, sort)
  IN  [user |-> u, value |-> value,
       rank |-> Cardinality({v \in RankedIn(G) : Value(G, v, sort) > value}) + 1]

ShowsRanking(entries, G, sort) ==
  /\ Len(entries) = IF Cardinality(RankedIn(G)) > Limit THEN Limit ELSE Cardinality(RankedIn(G))
  /\ \A i \in DOMAIN entries :
       /\ entries[i].user \in RankedIn(G)
       /\ entries[i] = EntryIn(G, entries[i].user, sort)
       /\ entries[i].rank <= i
       /\ i > 1 => entries[i - 1].value >= entries[i].value
       /\ \A j \in DOMAIN entries : i # j => entries[i].user # entries[j].user

\* What the ranking page shows as loaded is the ranking by the sort that is
\* selected, no older than the click that asked for it, and so is one's own
\* place, whichever of the requests are answered first, late or not at all.
RankingIsCurrent ==
  page = "ranking" =>
    LET Since == {ranking.since \cup G : G \in SUBSET (games \ ranking.since)}
    IN  /\ ~ranking.loading /\ ~ranking.error =>
             \E G \in Since : ShowsRanking(ranking.entries, G, ranking.sort)
        /\ ranking.me # Null =>
             \E G \in Since : Me \in RankedIn(G) /\ ranking.me = EntryIn(G, Me, ranking.sort)
=============================================================================
