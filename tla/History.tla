------------------------------- MODULE History -------------------------------
(***************************************************************************)
(* The game history of the user service (apps/user/src/history): the       *)
(* tables games, game_players and user_stats, and the queries of pages and *)
(* rankings.  Results are saved one transaction at a time, in any order;   *)
(* that they are saved at most once and wholly is what modules Results and *)
(* Recording are about.                                                    *)
(*                                                                         *)
(* Operators named ..._Faulty hold a plausible mistake; see module Room.   *)
(***************************************************************************)
EXTENDS Naturals, SequencesExt

CONSTANTS
  Game,        \* the games there will be, numbered in the order of their ids
  User,        \* members, numbered in the order of their ids
  FinishedAt,  \* finishedAt of a game's event
  Players,     \* players of a game's event
  Name,        \* the names players go by
  Null,        \* no row, no cursor; as a user: a guest
  Migrated,    \* games that were there before table user_stats
  PageSize,    \* PLAYER_GAMES_PAGE_SIZE
  Limit        \* LEADERBOARD_LIMIT

ASSUME IdsAssumption == Game \subseteq Nat /\ User \subseteq Nat
ASSUME MigratedAssumption == Migrated \subseteq Game /\ IsFiniteSet(Migrated)
ASSUME LimitsAssumption == PageSize \in Nat \ {0} /\ Limit \in Nat \ {0}

\* A player in an event and in game_players, and a row of user_stats.
PlayerType ==
  [user : User \cup {Null}, nickname : Name, score : Nat, rank : Nat \ {0}]
StatsType ==
  [nickname : Name, gamesPlayed : Nat, wins : Nat, totalScore : Nat,
   bestScore : Nat, lastPlayedAt : Nat]

ASSUME EventsAssumption ==
  FinishedAt \in [Game -> Nat] /\ Players \in [Game -> Seq(PlayerType)]
ASSUME NullAssumption ==
  Null \notin User /\ Null \notin StatsType /\ Null \notin Game \X Nat

VARIABLES
  games,       \* saved games; their players are the rows of game_players
  stats        \* the row of a member in user_stats, or Null

dbVars == <<games, stats>>

LeaderboardSort == {"totalScore", "wins", "bestScore"}

-----------------------------------------------------------------------------
(* game_players: a row is a game and a seat in it.                         *)

Rows(G, u) ==
  UNION {{<<g, i>> : i \in {j \in DOMAIN Players[g] : Players[g][j].user = u}} : g \in G}

Row(x) == Players[x[1]][x[2]]
At(x) == FinishedAt[x[1]]

Win(p) == IF p.rank = 1 THEN 1 ELSE 0

\* ORDER BY finished_at DESC, id DESC.  The two rows of a member who played
\* one game in two tabs come in either order.
Before(x, y) ==
  \/ At(x) > At(y)
  \/ At(x) = At(y) /\ x[1] > y[1]

Newest(R) == CHOOSE x \in R : \A y \in R : ~Before(y, x)

\* The SELECT of the migration: what user_stats says of u after the games G.
Aggregate(G, u) ==
  LET R == Rows(G, u)
  IN  IF R = {} THEN Null
      ELSE [nickname |-> Row(Newest(R)).nickname,
            gamesPlayed |-> Cardinality(R),
            wins |-> MapThenSumSet(LAMBDA x : Win(Row(x)), R),
            totalScore |-> MapThenSumSet(LAMBDA x : Row(x).score, R),
            bestScore |-> Max({Row(x).score : x \in R}),
            lastPlayedAt |-> Max({At(x) : x \in R})]

DbInit ==
  /\ games = Migrated
  /\ stats = [u \in User |-> Aggregate(Migrated, u)]

-----------------------------------------------------------------------------
(* saveGameResult.                                                         *)

Greatest(a, b) == IF a >= b THEN a ELSE b

Nickname_Faulty(old, p, at) == p.nickname      \* of the game saved last
Nickname(old, p, at) == IF at >= old.lastPlayedAt THEN p.nickname ELSE old.nickname

\* INSERT INTO user_stats ... ON CONFLICT (user_id) DO UPDATE
Upsert(old, p, at) ==
  IF old = Null
  THEN [nickname |-> p.nickname, gamesPlayed |-> 1, wins |-> Win(p),
        totalScore |-> p.score, bestScore |-> p.score, lastPlayedAt |-> at]
  ELSE [nickname |-> Nickname(old, p, at),
        gamesPlayed |-> old.gamesPlayed + 1,
        wins |-> old.wins + Win(p),
        totalScore |-> old.totalScore + p.score,
        bestScore |-> Greatest(old.bestScore, p.score),
        lastPlayedAt |-> Greatest(old.lastPlayedAt, at)]

\* The loop over the players; guests have no row.  An event that comes again
\* changes nothing.
SaveGameResult(g) ==
  /\ g \notin games
  /\ games' = games \cup {g}
  /\ stats' = [u \in User |->
       FoldLeft(LAMBDA row, p : IF p.user = u THEN Upsert(row, p, FinishedAt[g]) ELSE row,
                stats[u], Players[g])]

-----------------------------------------------------------------------------
(* The queries.                                                            *)

CursorOf_Faulty(rows) == rows[PageSize + 1]    \* the first row not shown
\* encodeCursor of the last row of the page.
CursorOf(rows) == rows[PageSize]

\* The orders an ORDER BY leaves open for the rows R.
InOrder(R) == {q \in SetToSeqs(R) : \A i, j \in DOMAIN q : i < j => ~Before(q[j], q[i])}

\* listGames: the page of u after a cursor, from PageSize + 1 rows.
ListGames(u, cursor) ==
  {[rows |-> SubSeq(q, 1, IF Len(q) > PageSize THEN PageSize ELSE Len(q)),
    nextCursor |-> IF Len(q) > PageSize THEN CursorOf(q) ELSE Null]
   : q \in InOrder({x \in Rows(games, u) : cursor = Null \/ Before(cursor, x)})}

Ranked == {u \in User : stats[u] # Null}

Entry(rank, u, sort) == [rank |-> rank, user |-> u, value |-> stats[u][sort]]

\* ORDER BY the column DESC, user_id.
Precedes(u, v, sort) ==
  \/ stats[u][sort] > stats[v][sort]
  \/ stats[u][sort] = stats[v][sort] /\ u < v

\* LeaderboardService.top: RANK() is the place of the first row with the same
\* value.
Top(sort) ==
  LET value(u) == stats[u][sort]
      users == CHOOSE q \in SetToSeqs(Ranked) :
                 \A i, j \in DOMAIN q : i < j => Precedes(q[i], q[j], sort)
  IN  [i \in 1 .. (IF Len(users) > Limit THEN Limit ELSE Len(users)) |->
         Entry(SelectInSeq(users, LAMBDA v : value(v) = value(users[i])), users[i], sort)]

\* LeaderboardService.rankOf: one more than the members with a greater value.
RankOf(u, sort) ==
  IF u \notin Ranked THEN Null
  ELSE Entry(Cardinality({v \in Ranked : stats[v][sort] > stats[u][sort]}) + 1, u, sort)

-----------------------------------------------------------------------------
(* Properties.                                                             *)

\* In whatever order results arrive, the running totals are those that a query
\* over all the rows would give, and the nickname is that of the latest game
\* (user-stats.entity.ts:4: always agrees with game_players).  Of two games
\* that end in the same millisecond either nickname will do.
StatsMatchGames ==
  \A u \in User :
    LET total == Aggregate(games, u)
    IN  IF total = Null THEN stats[u] = Null
        ELSE /\ stats[u] = [total EXCEPT !.nickname = stats[u].nickname]
             /\ \E x \in Rows(games, u) : /\ At(x) = total.lastPlayedAt
                                          /\ stats[u].nickname = Row(x).nickname
=============================================================================
