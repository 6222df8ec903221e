----------------------------- MODULE Room_proofs -----------------------------
(***************************************************************************)
(* Safety of a room for every set of players and words, every capacity and *)
(* every value of the rules of the game, as proofs checked by TLAPS.       *)
(***************************************************************************)
EXTENDS Room, FiniteSetTheorems, SequenceTheorems, TLAPS

-----------------------------------------------------------------------------
(* The operators of the room.                                              *)

\* A segment of any look.
Draws(p) == \E m \in Mark : Draw(p, m)

\* Removing a player from a queue without repetitions leaves a queue without
\* repetitions of everybody else (Room.removePlayer).
LEMMA WithoutProperties ==
  ASSUME NEW q \in Seq(Player), NEW p \in Player, IsInjective(q)
  PROVE  /\ Without(q, p) \in Seq(Player)
         /\ IsInjective(Without(q, p))
         /\ Range(Without(q, p)) = Range(q) \ {p}
<1>1. CASE p \notin Range(q)
  BY <1>1 DEF Without, Range
<1>2. CASE p \in Range(q)
  <2> DEFINE k == CHOOSE i \in DOMAIN q : q[i] = p
             n == Len(q) - 1
             s == [i \in 1 .. n |-> IF i < k THEN q[i] ELSE q[i + 1]]
  <2>1. Len(q) \in Nat /\ DOMAIN q = 1 .. Len(q)
    OBVIOUS
  <2>2. k \in 1 .. Len(q) /\ q[k] = p
    BY <1>2, <2>1 DEF Range
  <2>3. Without(q, p) = s
    BY <1>2 DEF Without
  <2> HIDE DEF k
  <2>4. n \in Nat
    BY <2>1, <2>2
  <2>5. \A i \in 1 .. n : s[i] \in Player
    BY <2>1, <2>2
  <2>6. s \in Seq(Player) /\ DOMAIN s = 1 .. n
    BY <2>4, <2>5, IsASeq
  <2>7. IsInjective(s)
    BY <2>1, <2>2, <2>4 DEF IsInjective
  <2>8. Range(s) \subseteq Range(q) \ {p}
    BY <2>1, <2>2, <2>4, <2>6 DEF IsInjective, Range
  <2>9. ASSUME NEW e \in Range(q) \ {p}
        PROVE  e \in Range(s)
    <3>1. PICK i \in 1 .. Len(q) : q[i] = e
      BY <2>1 DEF Range
    <3>2. i # k
      BY <2>2, <3>1
    <3>3. CASE i < k
      <4>1. i \in 1 .. n /\ s[i] = q[i]
        BY <2>1, <2>2, <3>1, <3>3
      <4> QED
        BY <4>1, <2>6, <3>1 DEF Range
    <3>4. CASE i > k
      <4>1. i - 1 \in 1 .. n /\ s[i - 1] = q[i]
        BY <2>1, <2>2, <3>1, <3>4
      <4> QED
        BY <4>1, <2>6, <3>1 DEF Range
    <3> QED
      BY <2>2, <3>2, <3>3, <3>4
  <2> QED
    BY <2>3, <2>6, <2>7, <2>8, <2>9
<1> QED
  BY <1>1, <1>2

\* Taking the next drawer off the queue (drawerQueue.shift()).
LEMMA TailProperties ==
  ASSUME NEW q \in Seq(Player), q # <<>>, IsInjective(q)
  PROVE  /\ Tail(q) \in Seq(Player)
         /\ IsInjective(Tail(q))
         /\ Head(q) \in Range(q)
         /\ Range(Tail(q)) = Range(q) \ {Head(q)}
<1>1. /\ Len(q) \in Nat /\ Len(q) >= 1
      /\ DOMAIN q = 1 .. Len(q)
      /\ Head(q) = q[1]
  OBVIOUS
<1>2. /\ Tail(q) \in Seq(Player)
      /\ DOMAIN Tail(q) = 1 .. Len(q) - 1
      /\ \A i \in 1 .. Len(q) - 1 : Tail(q)[i] = q[i + 1]
  OBVIOUS
<1>3. IsInjective(Tail(q))
  BY <1>1, <1>2 DEF IsInjective
<1>4. Head(q) \in Range(q)
  BY <1>1 DEF Range
<1>5. Range(Tail(q)) \subseteq Range(q) \ {Head(q)}
  BY <1>1, <1>2 DEF Range, IsInjective
<1>6. ASSUME NEW e \in Range(q) \ {Head(q)}
      PROVE  e \in Range(Tail(q))
  <2>1. PICK i \in 1 .. Len(q) : q[i] = e
    BY <1>1 DEF Range
  <2>2. i - 1 \in 1 .. Len(q) - 1 /\ Tail(q)[i - 1] = e
    BY <1>1, <1>2, <2>1
  <2> QED
    BY <1>2, <2>2 DEF Range
<1> QED
  BY <1>2, <1>3, <1>4, <1>5, <1>6

\* A newcomer who is not queued is appended (drawerQueue.push()).
LEMMA PushProperties ==
  ASSUME NEW q \in Seq(Player), NEW p \in Player, IsInjective(q),
         p \notin Range(q)
  PROVE  /\ Append(q, p) \in Seq(Player)
         /\ IsInjective(Append(q, p))
         /\ Range(Append(q, p)) = Range(q) \cup {p}
<1>1. /\ Len(q) \in Nat /\ DOMAIN q = 1 .. Len(q)
      /\ Append(q, p) \in Seq(Player)
      /\ DOMAIN Append(q, p) = 1 .. Len(q) + 1
      /\ \A i \in 1 .. Len(q) : Append(q, p)[i] = q[i]
      /\ Append(q, p)[Len(q) + 1] = p
  BY AppendProperties
<1>2. IsInjective(Append(q, p))
  BY <1>1 DEF IsInjective, Range
<1>3. Range(Append(q, p)) = Range(q) \cup {p}
  BY <1>1 DEF Range
<1> QED
  BY <1>1, <1>2, <1>3

\* With enough players to start, the drawer is never alone.
LEMMA SomebodyElse ==
  ASSUME NEW S, IsFiniteSet(S), Cardinality(S) >= MinPlayersToStart, NEW d
  PROVE  S \ {d} # {}
<1>1. Cardinality(S) >= 2
  BY RulesAssumption, FS_CardinalityType
<1>2. SUFFICES ASSUME S \subseteq {d} PROVE FALSE
  OBVIOUS
<1>3. IsFiniteSet({d}) /\ Cardinality({d}) = 1
  BY FS_Singleton
<1>4. Cardinality(S) <= 1
  BY <1>2, <1>3, FS_Subset
<1> QED
  BY <1>1, <1>4, FS_CardinalityType

\* The score of an answer is a natural number.
LEMMA AnswerScoreType ==
  ASSUME NEW ms \in 0 .. RoundDuration
  PROVE  AnswerScore(ms) \in Nat
<1> DEFINE a == 2 * SpeedBonusScore * ms + RoundDuration
           b == 2 * RoundDuration
<1>1. SpeedBonusScore * ms \in Nat
  BY RulesAssumption
<1>2. a \in Nat /\ b \in Nat /\ b > 0
  BY <1>1, RulesAssumption
<1>3. \A x, y \in Nat : y > 0 => x \div y \in Nat
  OBVIOUS
<1>4. a \div b \in Nat
  <2> HIDE DEF a, b
  <2> QED
    BY <1>2, <1>3
<1> QED
  BY <1>4, RulesAssumption DEF AnswerScore
-----------------------------------------------------------------------------
(* The inductive invariant. The properties of Room are not inductive one   *)
(* by one: a round finds its next drawer because the queue names players   *)
(* of the room, a game stays playable because a timer never fires without  *)
(* enough players, and a result is complete because a running game has an  *)
(* id and at least one round.                                              *)

\* Who is in the room, and what is kept about them.
MembersOK ==
  /\ players \in SUBSET Player /\ IsFiniteSet(players)
  /\ score \in [Player -> Nat]
  /\ solved \in SUBSET Player
  /\ drawn \subseteq players
  /\ gone \in SUBSET Player

QueueOK ==
  /\ drawerQueue \in Seq(Player)
  /\ IsInjective(drawerQueue)
  /\ Range(drawerQueue) \subseteq players \ drawn

RoundCounted == phase = "playing" => round >= 1

IInv ==
  /\ TypeOK
  /\ GameNeverStuck
  /\ RoundFieldsAgree
  /\ OpenRoundHasGuesser
  /\ TurnsAreUnique
  /\ EveryGamePublishedOnce
  /\ ResultsAreMeaningful
  /\ drawn \subseteq players
  /\ RoundCounted

LEMMA InitIInv == Init => IInv
<1> SUFFICES ASSUME Init PROVE IInv
  OBVIOUS
<1> USE DEF Init, FreshRoom
<1>1. IsFiniteSet({})
  BY FS_EmptySet
<1>2. TypeOK
  BY <1>1 DEF TypeOK
<1>3. GameNeverStuck /\ RoundFieldsAgree /\ OpenRoundHasGuesser
  BY DEF GameNeverStuck, RoundFieldsAgree, OpenRoundHasGuesser
<1>4. TurnsAreUnique
  BY DEF TurnsAreUnique, IsInjective, Range
<1>5. EveryGamePublishedOnce /\ ResultsAreMeaningful
  BY DEF EveryGamePublishedOnce, ResultsAreMeaningful
<1> QED
  BY <1>2, <1>3, <1>4, <1>5 DEF IInv, RoundCounted

\* endRound, whoever calls it: the members and the queue the caller leaves
\* behind are in order and enough players remain.
LEMMA EndRoundIInv ==
  ASSUME IInv, phase = "playing", EndRound, MembersOK', QueueOK',
         Cardinality(players') >= MinPlayersToStart
  PROVE  IInv'
<1> USE DEF EndRound, Reveal, ArmIntermission, MembersOK, QueueOK
<1>1. players' # {}
  BY FS_EmptySet, RulesAssumption
<1>2. roundTimer' = "intermission"
  BY <1>1
<1>3. TypeOK'
  <2>1. /\ phase' \in {"waiting", "playing", "ended"}
        /\ gameId' \in Nat \cup {Null}
        /\ round' \in Nat /\ totalRounds' \in Nat /\ games' \in Nat
        /\ usedWords' \in SUBSET Word
        /\ strokes' \in Seq(Segment)
        /\ results' \in Seq([gameId : Nat, roundsPlayed : Nat,
                             players : SUBSET Player, score : [Player -> Nat]])
    BY DEF IInv, TypeOK
  <2>2. reveals' \in Seq([round : Nat, word : Word \cup {Null}])
    BY DEF IInv, TypeOK
  <2> QED
    BY <1>2, <2>1, <2>2 DEF TypeOK
<1>4. GameNeverStuck' /\ RoundFieldsAgree' /\ OpenRoundHasGuesser'
  BY <1>2 DEF IInv, GameNeverStuck, RoundFieldsAgree, OpenRoundHasGuesser
<1>5. TurnsAreUnique'
  BY DEF TurnsAreUnique
<1>6. EveryGamePublishedOnce' /\ ResultsAreMeaningful' /\ RoundCounted'
  BY DEF IInv, EveryGamePublishedOnce, ResultsAreMeaningful, RoundCounted
<1> QED
  BY <1>3, <1>4, <1>5, <1>6 DEF IInv

\* A change of members that leaves the course of the round alone.
LEMMA SameRoundIInv ==
  ASSUME IInv, MembersOK', QueueOK',
         UNCHANGED <<phase, gameId, round, totalRounds, drawerId, word,
                     roundEndsAt, usedWords, roundTimer, results, reveals,
                     games>>,
         strokes' \in Seq(Segment),
         phase = "playing" => Cardinality(players') >= MinPlayersToStart,
         drawerId # Null => drawerId \in (players' \ solved') \cap drawn',
         OpenRoundHasGuesser'
  PROVE  IInv'
<1> USE DEF MembersOK, QueueOK
<1>1. TypeOK'
  BY DEF IInv, TypeOK
<1>2. GameNeverStuck' /\ RoundFieldsAgree'
  BY DEF IInv, GameNeverStuck, RoundFieldsAgree
<1>3. TurnsAreUnique'
  BY DEF TurnsAreUnique
<1>4. EveryGamePublishedOnce' /\ ResultsAreMeaningful' /\ RoundCounted'
  BY DEF IInv, EveryGamePublishedOnce, ResultsAreMeaningful, RoundCounted
<1> QED
  BY <1>1, <1>2, <1>3, <1>4 DEF IInv

\* The results after one more game was published.
LEMMA PublishProperties ==
  ASSUME TypeOK, EveryGamePublishedOnce, ResultsAreMeaningful, RoundCounted,
         phase = "playing", gameId # Null,
         MembersOK', players' # {},
         results' = Append(results, GameFinished(gameId, round))
  PROVE  /\ results' \in Seq([gameId : Nat, roundsPlayed : Nat,
                              players : SUBSET Player, score : [Player -> Nat]])
         /\ Len(results') = games
         /\ \A i \in DOMAIN results' : results'[i].gameId = i
         /\ ResultsAreMeaningful'
<1> DEFINE R == [gameId : Nat, roundsPlayed : Nat,
                 players : SUBSET Player, score : [Player -> Nat]]
           e == GameFinished(gameId, round)
<1>1. /\ e \in R /\ e.gameId = games
      /\ e.roundsPlayed >= 1 /\ e.players # {}
  BY DEF TypeOK, EveryGamePublishedOnce, RoundCounted, MembersOK, GameFinished
<1>2. results \in Seq(R) /\ Len(results) = games - 1 /\ games \in Nat
  BY DEF TypeOK, EveryGamePublishedOnce
<1> HIDE DEF e, R
<1>3. /\ results' \in Seq(R)
      /\ Len(results') = games /\ DOMAIN results' = 1 .. games
      /\ results'[games] = e
      /\ \A i \in 1 .. games - 1 : results'[i] = results[i]
  BY <1>1, <1>2, AppendProperties DEF e
<1>4. DOMAIN results = 1 .. games - 1
  BY <1>2
<1>5. \A i \in 1 .. games : i = games \/ i \in 1 .. games - 1
  BY <1>2
<1>6. \A i \in DOMAIN results' : results'[i].gameId = i
  BY <1>1, <1>3, <1>4, <1>5 DEF EveryGamePublishedOnce
<1>7. ResultsAreMeaningful'
  BY <1>1, <1>3, <1>4, <1>5 DEF ResultsAreMeaningful
<1> QED
  BY <1>3, <1>6, <1>7 DEF R

\* endGame, while somebody is still in the room.
LEMMA EndGameIInv ==
  ASSUME IInv, phase = "playing", EndGame(gameId, round), MembersOK',
         players' # {},
         UNCHANGED <<round, totalRounds, reveals, games>>,
         strokes' = strokes, usedWords' = usedWords
  PROVE  IInv'
<1> USE DEF EndGame, Publish
<1>1. gameId # Null
  BY DEF IInv, RoundFieldsAgree
<1>2. /\ results' \in Seq([gameId : Nat, roundsPlayed : Nat,
                           players : SUBSET Player, score : [Player -> Nat]])
      /\ Len(results') = games
      /\ \A i \in DOMAIN results' : results'[i].gameId = i
      /\ ResultsAreMeaningful'
  BY <1>1, PublishProperties DEF IInv
<1>3. TypeOK'
  BY <1>2, SMTT(30) DEF IInv, TypeOK, MembersOK
<1>4. GameNeverStuck' /\ RoundFieldsAgree' /\ OpenRoundHasGuesser'
  BY DEF GameNeverStuck, RoundFieldsAgree, OpenRoundHasGuesser
<1>5. TurnsAreUnique'
  BY DEF TurnsAreUnique, IsInjective, Range
<1>6. EveryGamePublishedOnce'
  BY <1>2, <1>3 DEF EveryGamePublishedOnce, TypeOK
<1> QED
  BY <1>2, <1>3, <1>4, <1>5, <1>6 DEF IInv, MembersOK, RoundCounted

\* startRound with a queue that names players who have not drawn yet.
LEMMA StartRoundIInv ==
  ASSUME NEW id \in Nat, NEW queue, NEW started \in Nat, NEW used \in SUBSET Word,
         queue \in Seq(Player), queue # <<>>, IsInjective(queue),
         Range(queue) \subseteq players \ (IF started = 0 THEN {} ELSE drawn),
         TypeOK, drawn \subseteq players, ResultsAreMeaningful,
         \A i \in DOMAIN results : results[i].gameId = i,
         Cardinality(players) >= MinPlayersToStart,
         Len(results) = id - 1,
         StartRound(id, queue, started, used),
         UNCHANGED <<players, gone>>,
         score' \in [Player -> Nat], totalRounds' \in Nat, games' = id,
         reveals' \in Seq([round : Nat, word : Word \cup {Null}])
  PROVE  IInv'
<1>1. /\ Tail(queue) \in Seq(Player)
      /\ IsInjective(Tail(queue))
      /\ Head(queue) \in Range(queue)
      /\ Range(Tail(queue)) = Range(queue) \ {Head(queue)}
  BY TailProperties
<1>2. Head(queue) \in players
  BY <1>1
<1>3. PICK w \in PickWord(used) : word' = w /\ usedWords' = used \cup {w}
  BY <1>2 DEF StartRound, ClearStrokes
<1>4. w \in Word
  BY <1>3 DEF PickWord
<1>5. /\ round' = started + 1
      /\ drawerId' = Head(queue) /\ drawerQueue' = Tail(queue)
      /\ roundEndsAt' = "set" /\ solved' = {} /\ strokes' = <<>>
      /\ roundTimer' = "round" /\ phase' = "playing" /\ gameId' = id
      /\ drawn' = (IF started = 0 THEN {} ELSE drawn) \cup {Head(queue)}
      /\ results' = results
  BY <1>2 DEF StartRound, ClearStrokes
<1>6. drawn' \subseteq players'
  BY <1>2, <1>5
<1>7. TypeOK'
  <2>1. word' \in Word /\ usedWords' \in SUBSET Word
    BY <1>3, <1>4
  <2>2. drawerId' \in Player
    BY <1>2, <1>5 DEF TypeOK
  <2>3. drawn' \in SUBSET Player
    BY <1>6 DEF TypeOK
  <2>4. /\ players' \in SUBSET Player /\ IsFiniteSet(players') /\ gone' \in SUBSET Player
        /\ strokes' \in Seq(Segment) /\ results' = results
    BY <1>5 DEF TypeOK
  <2>5. results' \in Seq([gameId : Nat, roundsPlayed : Nat,
                           players : SUBSET Player, score : [Player -> Nat]])
    BY <2>4 DEF TypeOK
  <2>6. /\ phase' \in {"waiting", "playing", "ended"} /\ gameId' \in Nat
        /\ round' \in Nat /\ roundEndsAt' \in {"set", Null} /\ solved' \in SUBSET Player
        /\ drawerQueue' \in Seq(Player) /\ roundTimer' \in {"none", "round", "intermission"}
        /\ games' \in Nat
    BY <1>1, <1>5
  <2> QED
    BY <2>1, <2>2, <2>3, <2>4, <2>5, <2>6 DEF TypeOK
<1>8. GameNeverStuck'
  BY <1>5 DEF GameNeverStuck
<1>9. RoundFieldsAgree'
  <2>1. word' # Null /\ gameId' # Null /\ drawerId' # Null
    BY <1>2, <1>3, <1>4, <1>5, NullAssumption DEF TypeOK
  <2>2. roundEndsAt' # Null
    BY <1>5, NullAssumption
  <2> QED
    BY <1>2, <1>5, <2>1, <2>2 DEF RoundFieldsAgree
<1>10. OpenRoundHasGuesser'
  <2>1. players \ {Head(queue)} # {}
    BY SomebodyElse DEF TypeOK
  <2> QED
    BY <1>5, <2>1 DEF OpenRoundHasGuesser, UnsolvedGuessers
<1>11. TurnsAreUnique'
  BY <1>1, <1>5 DEF TurnsAreUnique
<1>12. EveryGamePublishedOnce' /\ ResultsAreMeaningful' /\ RoundCounted'
  <2>1. EveryGamePublishedOnce'
    BY <1>5 DEF EveryGamePublishedOnce
  <2>2. ResultsAreMeaningful'
    BY <1>5 DEF ResultsAreMeaningful
  <2>3. RoundCounted'
    BY <1>5 DEF RoundCounted
  <2> QED
    BY <2>1, <2>2, <2>3
<1> QED
  BY <1>6, <1>7, <1>8, <1>9, <1>10, <1>11, <1>12 DEF IInv

-----------------------------------------------------------------------------
(* One lemma per action.                                                   *)

LEMMA MembersAndQueue == IInv => MembersOK /\ QueueOK
BY DEF IInv, TypeOK, TurnsAreUnique, MembersOK, QueueOK

LEMMA JoinIInv ==
  ASSUME IInv, NEW p \in Player, Join(p)
  PROVE  IInv'
<1> USE DEF Join, PushDrawer
<1>1. p \notin Range(drawerQueue)
  BY DEF IInv, TurnsAreUnique
<1>2. /\ IsFiniteSet(players')
      /\ Cardinality(players') = Cardinality(players) + 1
      /\ Cardinality(players) \in Nat
  BY FS_AddElement, FS_CardinalityType DEF IInv, TypeOK
<1>3. MembersOK'
  BY <1>2, MembersAndQueue DEF MembersOK
<1>4. QueueOK'
  <2>1. CASE phase = "playing"
    BY <1>1, <2>1, PushProperties, MembersAndQueue DEF QueueOK, MembersOK
  <2>2. CASE phase # "playing"
    BY <2>2, MembersAndQueue DEF QueueOK
  <2> QED
    BY <2>1, <2>2
<1>5. phase = "playing" => Cardinality(players') >= MinPlayersToStart
  BY <1>2, RulesAssumption DEF IInv, GameNeverStuck
<1>6. drawerId # Null => drawerId \in (players' \ solved') \cap drawn'
  BY DEF IInv, RoundFieldsAgree, TurnsAreUnique
<1>7. OpenRoundHasGuesser'
  BY DEF IInv, OpenRoundHasGuesser, UnsolvedGuessers
<1>8. strokes' \in Seq(Segment)
  BY DEF IInv, TypeOK
<1> QED
  BY <1>3, <1>4, <1>5, <1>6, <1>7, <1>8, SameRoundIInv

LEMMA StartGameIInv ==
  ASSUME IInv, StartGame
  PROVE  IInv'
<1> DEFINE n == totalRounds'
<1>1. n \in Nat /\ n >= 1
  BY RulesAssumption, FS_CardinalityType DEF StartGame, IInv, TypeOK
<1>2. PICK q \in DrawOrders(players, n) : StartRound(games', q, 0, {})
  BY DEF StartGame
<1>3. /\ q \in Seq(Player) /\ q # <<>> /\ IsInjective(q)
      /\ Range(q) \subseteq players
  <2>1. q \in [1 .. n -> players] /\ IsInjective(q)
    BY <1>2 DEF DrawOrders
  <2>2. q \in Seq(Player) /\ Len(q) = n
    <3>1. q = [i \in 1 .. n |-> q[i]] /\ \A i \in 1 .. n : q[i] \in Player
      BY <2>1 DEF IInv, TypeOK
    <3> QED
      BY <1>1, <3>1, IsASeq, LenProperties
  <2> QED
    BY <1>1, <2>1, <2>2 DEF Range
<1>4. games' \in Nat /\ games' = games + 1
  BY DEF StartGame, IInv, TypeOK
<1>5. Len(results) = games' - 1 /\ (\A i \in DOMAIN results : results[i].gameId = i)
  BY <1>4 DEF StartGame, IInv, EveryGamePublishedOnce, TypeOK
<1>6. /\ UNCHANGED <<players, gone>>
      /\ score' \in [Player -> Nat]
      /\ reveals' \in Seq([round : Nat, word : Word \cup {Null}])
      /\ Cardinality(players) >= MinPlayersToStart
  BY DEF StartGame
<1>7. TypeOK /\ drawn \subseteq players /\ ResultsAreMeaningful
  BY DEF IInv
<1>8. /\ Range(q) \subseteq players \ (IF 0 = 0 THEN {} ELSE drawn)
      /\ 0 \in Nat /\ {} \in SUBSET Word /\ totalRounds' \in Nat
  BY <1>1, <1>3
<1> HIDE DEF n
<1> QED
  BY <1>2, <1>3, <1>4, <1>5, <1>6, <1>7, <1>8, StartRoundIInv

LEMMA CorrectGuessIInv ==
  ASSUME IInv, NEW p \in Player, CorrectGuess(p)
  PROVE  IInv'
<1> USE DEF CorrectGuess
<1>1. PICK ms \in 0 .. RoundDuration : Award(p, ms)
  OBVIOUS
<1>2. score' \in [Player -> Nat]
  <2>1. AnswerScore(ms) \in Nat /\ DrawerScorePerSolver \in Nat
    BY AnswerScoreType, RulesAssumption
  <2>2. \A q \in Player : score[q] \in Nat
    BY DEF IInv, TypeOK
  <2> QED
    BY <1>1, <2>1, <2>2 DEF Award
<1>3. MembersOK' /\ QueueOK'
  BY <1>2, MembersAndQueue DEF MembersOK, QueueOK
<1>4. Cardinality(players') >= MinPlayersToStart
  BY DEF IInv, GameNeverStuck
<1>5. CASE UnsolvedGuessers(players, drawerId, solved') = {}
  BY <1>3, <1>4, <1>5, EndRoundIInv
<1>6. CASE UnsolvedGuessers(players, drawerId, solved') # {}
  <2>1. drawerId # Null => drawerId \in (players' \ solved') \cap drawn'
    BY DEF IInv, RoundFieldsAgree, TurnsAreUnique, UnsolvedGuessers
  <2>2. OpenRoundHasGuesser'
    BY <1>6 DEF OpenRoundHasGuesser, UnsolvedGuessers
  <2>3. strokes' \in Seq(Segment)
    BY <1>6 DEF IInv, TypeOK
  <2> QED
    BY <1>3, <1>4, <1>6, <2>1, <2>2, <2>3, SameRoundIInv
<1> QED
  BY <1>5, <1>6

LEMMA DrawIInv ==
  ASSUME IInv, NEW p \in Player, Draws(p) \/ DrawClear(p)
  PROVE  IInv'
<1>1. UNCHANGED <<players, score, phase, gameId, round, totalRounds, drawerId,
                 word, roundEndsAt, solved, drawerQueue, usedWords,
                 roundTimer, results, reveals, games, drawn, gone>>
  BY DEF Draws, Draw, DrawClear
<1>2. strokes' \in Seq(Segment)
  <2>1. CASE Draws(p)
    <3> PICK m \in Mark : Draw(p, m)
      BY <2>1 DEF Draws
    <3>1. [game |-> gameId, round |-> round, by |-> p, mark |-> m]
            \in Segment
      BY DEF Draw, IInv, TypeOK, RoundFieldsAgree, Segment
    <3> QED
      BY <3>1, AppendProperties DEF Draw, IInv, TypeOK, Segment
  <2>2. CASE DrawClear(p)
    BY <2>2 DEF DrawClear, ClearStrokes
  <2> QED
    BY <2>1, <2>2
<1>3. MembersOK' /\ QueueOK'
  BY <1>1, MembersAndQueue DEF MembersOK, QueueOK
<1>4. /\ phase = "playing" => Cardinality(players') >= MinPlayersToStart
      /\ drawerId # Null => drawerId \in (players' \ solved') \cap drawn'
  BY <1>1 DEF IInv, GameNeverStuck, RoundFieldsAgree, TurnsAreUnique
<1>5. OpenRoundHasGuesser'
  BY <1>1 DEF IInv, OpenRoundHasGuesser, UnsolvedGuessers
<1> QED
  BY <1>1, <1>2, <1>3, <1>4, <1>5, SameRoundIInv

LEMMA RoundTimeoutIInv ==
  ASSUME IInv, RoundTimeout
  PROVE  IInv'
<1> USE DEF RoundTimeout
<1>1. MembersOK' /\ QueueOK'
  BY MembersAndQueue DEF MembersOK, QueueOK
<1>2. Cardinality(players') >= MinPlayersToStart
  BY DEF IInv, GameNeverStuck
<1> QED
  BY <1>1, <1>2, EndRoundIInv

LEMMA IntermissionTimeoutIInv ==
  ASSUME IInv, IntermissionTimeout
  PROVE  IInv'
<1> USE DEF IntermissionTimeout, NobodyLeftToDraw
<1>1. Cardinality(players) >= MinPlayersToStart
  BY DEF IInv, GameNeverStuck
<1>2. CASE drawerQueue = <<>>
  <2>1. /\ EndGame(gameId, round)
        /\ UNCHANGED <<round, usedWords, solved, strokes, drawn, players,
                       score, totalRounds, reveals, games, gone>>
    BY <1>2
  <2>2. MembersOK'
    BY <2>1, MembersAndQueue DEF MembersOK
  <2>3. players' # {}
    BY <1>1, <2>1, FS_EmptySet, RulesAssumption
  <2> QED
    BY <2>1, <2>2, <2>3, EndGameIInv
<1>3. CASE drawerQueue # <<>>
  <2>1. /\ StartRound(gameId, drawerQueue, round, usedWords)
        /\ UNCHANGED <<players, score, totalRounds, reveals, games, gone>>
    BY <1>1, <1>3, RulesAssumption, FS_CardinalityType DEF IInv, TypeOK
  <2>2. gameId \in Nat /\ games = gameId /\ Len(results) = gameId - 1
    BY DEF IInv, TypeOK, RoundFieldsAgree, EveryGamePublishedOnce
  <2>3. /\ drawerQueue \in Seq(Player) /\ IsInjective(drawerQueue)
        /\ Range(drawerQueue)
             \subseteq players \ (IF round = 0 THEN {} ELSE drawn)
    BY MembersAndQueue DEF QueueOK
  <2>4. /\ round \in Nat /\ usedWords \in SUBSET Word
        /\ score' \in [Player -> Nat] /\ totalRounds' \in Nat
        /\ reveals' \in Seq([round : Nat, word : Word \cup {Null}])
    BY <2>1 DEF IInv, TypeOK
  <2>5. /\ TypeOK /\ drawn \subseteq players /\ ResultsAreMeaningful
        /\ \A i \in DOMAIN results : results[i].gameId = i
    BY DEF IInv, EveryGamePublishedOnce
  <2> QED
    BY <1>1, <1>3, <2>1, <2>2, <2>3, <2>4, <2>5, StartRoundIInv
<1> QED
  BY <1>2, <1>3

\* removePlayer leaves the members and the filtered queue in order.
LEMMA RemovePlayerProperties ==
  ASSUME IInv, NEW p \in Player, RemovePlayer(p)
  PROVE  /\ players' \in SUBSET Player /\ IsFiniteSet(players')
         /\ score' \in [Player -> Nat]
         /\ drawn' \subseteq players' /\ gone' \in SUBSET Player
         /\ Without(drawerQueue, p) \in Seq(Player)
         /\ IsInjective(Without(drawerQueue, p))
         /\ Range(Without(drawerQueue, p)) \subseteq players' \ drawn'
<1> USE DEF RemovePlayer
<1>1. IsFiniteSet(players')
  BY FS_RemoveElement DEF IInv, TypeOK
<1>2. /\ Without(drawerQueue, p) \in Seq(Player)
      /\ IsInjective(Without(drawerQueue, p))
      /\ Range(Without(drawerQueue, p)) = Range(drawerQueue) \ {p}
  BY WithoutProperties, MembersAndQueue DEF QueueOK
<1> QED
  BY <1>1, <1>2, MembersAndQueue DEF MembersOK, QueueOK

LEMMA LeaveIInv ==
  ASSUME IInv, NEW p \in Player, Leave(p)
  PROVE  IInv'
<1>1. CASE LeaveIdleRoom(p)
  <2> USE <1>1 DEF LeaveIdleRoom
  <2>1. MembersOK' /\ QueueOK'
    BY RemovePlayerProperties DEF MembersOK, QueueOK, IInv, TypeOK
  <2>2. word = Null /\ drawerId = Null
    BY DEF IInv, GameNeverStuck, RoundFieldsAgree
  <2>3. strokes' \in Seq(Segment)
    BY DEF IInv, TypeOK
  <2> QED
    BY <2>1, <2>2, <2>3, SameRoundIInv DEF OpenRoundHasGuesser
<1>2. CASE LeaveTooFew(p)
  <2> USE <1>2 DEF LeaveTooFew
  <2>1. MembersOK'
    BY RemovePlayerProperties DEF MembersOK, IInv, TypeOK
  <2> QED
    BY <2>1, EndGameIInv
<1>3. CASE LeaveRound(p)
  <2> USE <1>3 DEF LeaveRound
  <2>1. MembersOK' /\ QueueOK'
    BY RemovePlayerProperties DEF MembersOK, QueueOK, IInv, TypeOK
  <2>2. CASE EndRound
    BY <2>1, <2>2, EndRoundIInv
  <2>3. CASE ~EndRound
    <3>1. drawerId # p /\ UnsolvedGuessers(players', drawerId, solved') # {}
      BY <2>3 DEF RoundIsOver
    <3>2. UNCHANGED <<phase, gameId, round, totalRounds, drawerId, word,
                      roundEndsAt, strokes, usedWords, roundTimer, results,
                      reveals, games>>
      BY <2>3
    <3>3. drawerId # Null => drawerId \in (players' \ solved') \cap drawn'
      BY <3>1 DEF RemovePlayer, IInv, RoundFieldsAgree, TurnsAreUnique
    <3>4. OpenRoundHasGuesser'
      BY <3>1, <3>2 DEF OpenRoundHasGuesser
    <3>5. strokes' \in Seq(Segment)
      BY <3>2 DEF IInv, TypeOK
    <3> QED
      BY <2>1, <3>2, <3>3, <3>4, <3>5, SameRoundIInv
  <2> QED
    BY <2>2, <2>3
<1>4. CASE LeaveLast(p)
  <2> USE <1>4 DEF LeaveLast, Publish
  <2>1. phase # "playing"
    <3>1. players = {p}
      BY DEF RemovePlayer
    <3>2. ~(Cardinality(players) >= MinPlayersToStart)
      BY <3>1, SomebodyElse, ZenonT(30) DEF IInv, TypeOK
    <3> QED
      BY <3>2 DEF IInv, GameNeverStuck
  <2>2. results' = results
    BY <2>1
  <2>3. TypeOK'
    BY <2>2, RemovePlayerProperties DEF IInv, TypeOK
  <2>4. GameNeverStuck' /\ RoundFieldsAgree' /\ OpenRoundHasGuesser'
    BY DEF GameNeverStuck, RoundFieldsAgree, OpenRoundHasGuesser
  <2>5. TurnsAreUnique'
    BY DEF TurnsAreUnique, IsInjective, Range
  <2>6. EveryGamePublishedOnce' /\ ResultsAreMeaningful'
    BY <2>1, <2>2 DEF IInv, EveryGamePublishedOnce, ResultsAreMeaningful
  <2>7. drawn' \subseteq players' /\ RoundCounted'
    BY RemovePlayerProperties DEF RoundCounted
  <2> QED
    BY <2>3, <2>4, <2>5, <2>6, <2>7 DEF IInv
<1> QED
  BY <1>1, <1>2, <1>3, <1>4 DEF Leave

-----------------------------------------------------------------------------
(* The theorems.                                                           *)

\* The invariant holds in every reachable state of every room.
THEOREM Inductive == Spec => []IInv
<1>1. IInv /\ [Next]_vars => IInv'
  <2> SUFFICES ASSUME IInv, [Next]_vars PROVE IInv'
    OBVIOUS
  <2>1. CASE UNCHANGED vars
    BY <2>1 DEF vars, roomVars, IInv, TypeOK, GameNeverStuck,
       RoundFieldsAgree, OpenRoundHasGuesser, UnsolvedGuessers,
       TurnsAreUnique, IsInjective, Range, EveryGamePublishedOnce,
       ResultsAreMeaningful, RoundCounted
  <2>2. CASE \E p \in Player : Join(p)
    BY <2>2, JoinIInv
  <2>3. CASE \E p \in Player : CorrectGuess(p)
    BY <2>3, CorrectGuessIInv
  <2>4. CASE \E p \in Player : Draws(p) \/ DrawClear(p)
    BY <2>4, DrawIInv
  <2>5. CASE \E p \in Player : Leave(p)
    BY <2>5, LeaveIInv
  <2>6. CASE StartGame
    BY <2>6, StartGameIInv
  <2>7. CASE RoundTimeout
    BY <2>7, RoundTimeoutIInv
  <2>8. CASE IntermissionTimeout
    BY <2>8, IntermissionTimeoutIInv
  <2> QED
    BY <2>1, <2>2, <2>3, <2>4, <2>5, <2>6, <2>7, <2>8 DEF Next, Draws
<1> QED
  BY InitIInv, <1>1, PTL DEF Spec

\* Type correctness of the room.
THEOREM TypeCorrect == Spec => []TypeOK
<1>1. IInv => TypeOK
  BY DEF IInv
<1> QED
  BY <1>1, Inductive, PTL

\* A running game always has an armed timer and enough players.
THEOREM NeverStuck == Spec => []GameNeverStuck
<1>1. IInv => GameNeverStuck
  BY DEF IInv
<1> QED
  BY <1>1, Inductive, PTL

\* The drawer, the word and the clock come and go together, and the drawer is
\* in the room.
THEOREM FieldsAgree == Spec => []RoundFieldsAgree
<1>1. IInv => RoundFieldsAgree
  BY DEF IInv
<1> QED
  BY <1>1, Inductive, PTL

\* No round stays open once everybody else has solved it or left.
THEOREM OpenRounds == Spec => []OpenRoundHasGuesser
<1>1. IInv => OpenRoundHasGuesser
  BY DEF IInv
<1> QED
  BY <1>1, Inductive, PTL

\* Nobody draws twice in a game.
THEOREM UniqueTurns == Spec => []TurnsAreUnique
<1>1. IInv => TurnsAreUnique
  BY DEF IInv
<1> QED
  BY <1>1, Inductive, PTL

\* Each game that ended was published once, under its own id.
THEOREM PublishedOnce == Spec => []EveryGamePublishedOnce
<1>1. IInv => EveryGamePublishedOnce
  BY DEF IInv
<1> QED
  BY <1>1, Inductive, PTL

\* No published result is without a round or without a player.
THEOREM MeaningfulResults == Spec => []ResultsAreMeaningful
<1>1. IInv => ResultsAreMeaningful
  BY DEF IInv
<1> QED
  BY <1>1, Inductive, PTL

-----------------------------------------------------------------------------
(* The course of a game: who has had a turn, which words were shown, what  *)
(* is on the canvas.  Nothing in it is needed for the invariant above, so  *)
(* it is a second invariant, relative to the first.                        *)

\* The reveals of round r, without those of a round that is ended again.
Revealed(r) == {i \in DOMAIN reveals : reveals[i].round = r /\ reveals[i].word # Null}

\* FinishedRoundsRevealed without counting: no broadcast is about a round that
\* is yet to come, and the finished ones have one that names the word.
RevealedOnce ==
  /\ \A i \in DOMAIN reveals : reveals[i].round <= round
  /\ phase = "playing" =>
       \A r \in 1 .. round :
         IF r = round /\ word # Null THEN Revealed(r) = {} ELSE \E k : Revealed(r) = {k}

\* What newcomers can rely on.
SolversArePresent == solved \subseteq players
FirstGameIsFresh == games = 0 => drawn = {} /\ \A p \in Player : score[p] = 0

\* TurnsAreComplete without the excuse for a game that has had, or has queued,
\* MAX_ROUNDS rounds: that game goes on and its newcomers draw as well.
EveryoneQueued ==
  phase = "playing" /\ totalRounds < MaxRounds =>
    players \subseteq drawn \cup Range(drawerQueue)

Course ==
  /\ EveryoneQueued /\ StrokesOfThisRound /\ RevealedOnce
  /\ SolversArePresent /\ FirstGameIsFresh

\* The queue of a new game that is not cut names everybody.
LEMMA EverybodyQueued ==
  ASSUME NEW S, IsFiniteSet(S), NEW q \in DrawOrders(S, Cardinality(S))
  PROVE  Range(q) = S
<1> DEFINE n == Cardinality(S)
<1>1. n \in Nat /\ IsFiniteSet(1 .. n) /\ Cardinality(1 .. n) = n
  BY FS_CardinalityType, FS_Interval
<1>2. q \in Injection(1 .. n, S)
  BY DEF DrawOrders, Injection
<1>3. q \in Surjection(1 .. n, S)
  BY <1>1, <1>2, FS_Injection
<1> QED
  BY <1>3 DEF Surjection, Range

\* startRound, when it is called with a queue that names players of the room.
LEMMA StartRoundDoes ==
  ASSUME NEW id, NEW queue \in Seq(Player), NEW started, NEW used,
         queue # <<>>, Range(queue) \subseteq players,
         StartRound(id, queue, started, used)
  PROVE  /\ round' = started + 1 /\ phase' = "playing" /\ strokes' = <<>>
         /\ drawerId' = Head(queue) /\ drawerQueue' = Tail(queue)
         /\ drawn' = (IF started = 0 THEN {} ELSE drawn) \cup {Head(queue)}
         /\ word' \in PickWord(used) /\ solved' = {} /\ roundEndsAt' = "set"
         /\ roundTimer' = "round" /\ results' = results
<1>1. Head(queue) \in Range(queue)
  BY DEF Range
<1> QED
  BY <1>1 DEF StartRound, ClearStrokes

\* The two callers of startRound.
LEMMA StartGameDoes ==
  ASSUME IInv, StartGame
  PROVE  /\ phase # "playing" /\ phase' = "playing"
         /\ round' = 1 /\ strokes' = <<>> /\ solved' = {} /\ reveals' = <<>>
         /\ word' \in Word /\ roundTimer' = "round" /\ roundEndsAt' = "set"
         /\ drawerId' \in players
         /\ UNCHANGED <<players, results, gone>>
         /\ games' = games + 1 /\ score' = [p \in Player |-> 0]
         /\ totalRounds' < MaxRounds =>
              players = {drawerId'} \cup Range(drawerQueue') /\ drawn' = {drawerId'}
<1> DEFINE n == totalRounds'
<1>1. n \in Nat /\ n >= 1 /\ (n < MaxRounds => n = Cardinality(players))
  BY RulesAssumption, FS_CardinalityType DEF StartGame, IInv, TypeOK
<1>2. PICK q \in DrawOrders(players, n) : StartRound(games', q, 0, {})
  BY DEF StartGame
<1>3. q \in Seq(Player) /\ q # <<>> /\ IsInjective(q) /\ Range(q) \subseteq players
  <2>1. q \in [1 .. n -> players] /\ IsInjective(q)
    BY <1>2 DEF DrawOrders
  <2>2. q = [i \in 1 .. n |-> q[i]] /\ \A i \in 1 .. n : q[i] \in Player
    BY <2>1 DEF IInv, TypeOK
  <2>3. q \in Seq(Player) /\ Len(q) = n
    BY <1>1, <2>2, IsASeq, LenProperties
  <2> QED
    BY <1>1, <2>1, <2>3 DEF Range
<1>4. n < MaxRounds => Range(q) = players
  BY <1>1, <1>2, EverybodyQueued DEF IInv, TypeOK
<1>5. /\ round' = 1 /\ phase' = "playing" /\ strokes' = <<>>
      /\ drawerId' = Head(q) /\ drawerQueue' = Tail(q) /\ drawn' = {Head(q)}
      /\ word' \in PickWord({}) /\ solved' = {} /\ roundEndsAt' = "set"
      /\ roundTimer' = "round" /\ results' = results
  <2>1. /\ round' = 0 + 1 /\ phase' = "playing" /\ strokes' = <<>>
        /\ drawerId' = Head(q) /\ drawerQueue' = Tail(q)
        /\ drawn' = (IF 0 = 0 THEN {} ELSE drawn) \cup {Head(q)}
        /\ word' \in PickWord({}) /\ solved' = {} /\ roundEndsAt' = "set"
        /\ roundTimer' = "round" /\ results' = results
    BY <1>2, <1>3, StartRoundDoes, Zenon
  <2> QED
    BY <2>1
<1>6. Head(q) \in Range(q) /\ Range(Tail(q)) = Range(q) \ {Head(q)}
  BY <1>3, TailProperties
<1>7. word' \in Word
  BY <1>5 DEF PickWord
<1> QED
  BY <1>3, <1>4, <1>5, <1>6, <1>7 DEF StartGame

LEMMA NextRoundDoes ==
  ASSUME IInv, IntermissionTimeout
  PROVE  /\ phase = "playing" /\ word = Null /\ roundTimer = "intermission"
         /\ UNCHANGED <<players, score, totalRounds, reveals, games, gone>>
         /\ \/ /\ drawerQueue = <<>> /\ EndGame(gameId, round)
               /\ UNCHANGED <<round, usedWords, solved, strokes, drawn>>
            \/ /\ drawerQueue # <<>>
               /\ phase' = "playing" /\ round' = round + 1
               /\ strokes' = <<>> /\ solved' = {} /\ word' \in Word
               /\ roundTimer' = "round" /\ roundEndsAt' = "set" /\ results' = results
               /\ drawerId' \in players /\ drawn' = drawn \cup {drawerId'}
               /\ Range(drawerQueue) = {drawerId'} \cup Range(drawerQueue')
<1>1. /\ phase = "playing" /\ word = Null /\ roundTimer = "intermission"
      /\ UNCHANGED <<players, score, totalRounds, reveals, games, gone>>
  BY DEF IntermissionTimeout, IInv, RoundFieldsAgree
<1>2. Cardinality(players) >= MinPlayersToStart /\ ~(Cardinality(players) < MinPlayersToStart)
  BY <1>1, RulesAssumption, FS_CardinalityType DEF IInv, TypeOK, GameNeverStuck
<1>3. CASE drawerQueue = <<>>
  BY <1>1, <1>2, <1>3 DEF IntermissionTimeout, NobodyLeftToDraw
<1>4. CASE drawerQueue # <<>>
  <2>1. StartRound(gameId, drawerQueue, round, usedWords)
    BY <1>2, <1>4 DEF IntermissionTimeout, NobodyLeftToDraw
  <2>2. /\ drawerQueue \in Seq(Player) /\ IsInjective(drawerQueue)
        /\ Range(drawerQueue) \subseteq players
    BY MembersAndQueue DEF QueueOK
  <2>3. round # 0
    BY <1>1 DEF IInv, RoundCounted
  <2>4. /\ round' = round + 1 /\ phase' = "playing" /\ strokes' = <<>>
        /\ drawerId' = Head(drawerQueue) /\ drawerQueue' = Tail(drawerQueue)
        /\ drawn' = drawn \cup {Head(drawerQueue)}
        /\ word' \in PickWord(usedWords) /\ solved' = {} /\ roundEndsAt' = "set"
        /\ roundTimer' = "round" /\ results' = results
    <3>1. /\ round' = round + 1 /\ phase' = "playing" /\ strokes' = <<>>
          /\ drawerId' = Head(drawerQueue) /\ drawerQueue' = Tail(drawerQueue)
          /\ drawn' = (IF round = 0 THEN {} ELSE drawn) \cup {Head(drawerQueue)}
          /\ word' \in PickWord(usedWords) /\ solved' = {} /\ roundEndsAt' = "set"
          /\ roundTimer' = "round" /\ results' = results
      BY <1>4, <2>1, <2>2, StartRoundDoes, Zenon
    <3> QED
      BY <2>3, <3>1
  <2>5. /\ Head(drawerQueue) \in Range(drawerQueue)
        /\ Range(Tail(drawerQueue)) = Range(drawerQueue) \ {Head(drawerQueue)}
    BY <1>4, <2>2, TailProperties
  <2>6. word' \in Word
    BY <2>4 DEF PickWord
  <2> QED
    BY <1>1, <1>4, <2>2, <2>4, <2>5, <2>6
<1> QED
  BY <1>3, <1>4

LEMMA InitCourse == Init => Course
BY DEF Init, FreshRoom, Course, EveryoneQueued, StrokesOfThisRound, RevealedOnce,
   SolversArePresent, FirstGameIsFresh

LEMMA RevealedSame ==
  ASSUME RevealedOnce, UNCHANGED <<round, reveals, word>>,
         phase' = "playing" => phase = "playing"
  PROVE  RevealedOnce'
BY DEF RevealedOnce, Revealed

LEMMA EndRoundReveals ==
  ASSUME IInv, RevealedOnce, phase = "playing", EndRound
  PROVE  RevealedOnce'
<1> DEFINE e == [round |-> round, word |-> word]
           n == Len(reveals) + 1
<1>1. /\ reveals \in Seq([round : Nat, word : Word \cup {Null}])
      /\ e \in [round : Nat, word : Word \cup {Null}]
      /\ round \in Nat
  BY DEF IInv, TypeOK
<1>2. reveals' = Append(reveals, e) /\ word' = Null /\ UNCHANGED <<round, phase>>
  BY DEF EndRound, Reveal
<1>3. /\ n \in Nat /\ DOMAIN reveals' = 1 .. n /\ DOMAIN reveals = 1 .. n - 1
      /\ \A i \in 1 .. n - 1 : reveals'[i] = reveals[i]
      /\ reveals'[n] = e
  BY <1>1, <1>2, AppendProperties
<1>4. e.round = round /\ e.word = word
  OBVIOUS
<1> HIDE DEF e, n
<1>5. \A i \in DOMAIN reveals' : reveals'[i].round <= round'
  BY <1>1, <1>2, <1>3, <1>4 DEF RevealedOnce
<1>6. \A r : Revealed(r)' = IF r = round /\ word # Null THEN Revealed(r) \cup {n}
                            ELSE Revealed(r)
  BY <1>2, <1>3, <1>4 DEF Revealed
<1>7. ASSUME NEW r \in 1 .. round
      PROVE  \E k : Revealed(r)' = {k}
  BY <1>6, <1>7 DEF RevealedOnce
<1> QED
  BY <1>2, <1>5, <1>7 DEF RevealedOnce

LEMMA StepReveals == ASSUME IInv, RevealedOnce, [Next]_vars PROVE RevealedOnce'
<1>1. CASE \E p \in Player : Join(p) \/ Draws(p) \/ DrawClear(p)
  BY <1>1, RevealedSame DEF Join, Draws, Draw, DrawClear
<1>2. CASE \E p \in Player : CorrectGuess(p) \/ Leave(p)
  <2> PICK p \in Player : CorrectGuess(p) \/ Leave(p)
    BY <1>2
  <2>1. CASE phase = "playing" /\ EndRound
    BY <2>1, EndRoundReveals
  <2>2. CASE CorrectGuess(p) /\ ~EndRound
    BY <2>2, RevealedSame DEF CorrectGuess
  <2>3. CASE LeaveIdleRoom(p)
    BY <2>3, RevealedSame DEF LeaveIdleRoom
  <2>4. CASE LeaveTooFew(p)
    BY <2>4 DEF LeaveTooFew, EndGame, RevealedOnce
  <2>5. CASE LeaveRound(p) /\ ~EndRound
    BY <2>5, RevealedSame DEF LeaveRound
  <2>6. CASE LeaveLast(p)
    BY <2>6 DEF LeaveLast, RevealedOnce
  <2> QED
    BY <2>1, <2>2, <2>3, <2>4, <2>5, <2>6 DEF Leave, CorrectGuess, LeaveRound
<1>3. CASE StartGame
  <2>1. round' = 1 /\ reveals' = <<>> /\ word' # Null
    BY <1>3, StartGameDoes, NullAssumption
  <2>2. \A r : Revealed(r)' = {}
    BY <2>1 DEF Revealed
  <2> QED
    BY <2>1, <2>2 DEF RevealedOnce
<1>4. CASE RoundTimeout
  BY <1>4, EndRoundReveals DEF RoundTimeout
<1>5. CASE IntermissionTimeout
  <2>1. phase = "playing" /\ word = Null /\ reveals' = reveals /\ round \in Nat
    BY <1>5, NextRoundDoes DEF IInv, TypeOK
  <2>2. CASE EndGame(gameId, round) /\ round' = round
    BY <2>1, <2>2 DEF RevealedOnce, EndGame
  <2>3. CASE round' = round + 1 /\ word' \in Word
    <3>1. \A i \in DOMAIN reveals' : reveals'[i].round <= round
      BY <2>1 DEF RevealedOnce
    <3>2. \A i \in DOMAIN reveals' : reveals'[i].round \in Nat
      <4> DEFINE R == [round : Nat, word : Word \cup {Null}]
      <4>1. reveals \in Seq(R) /\ \A e \in R : e.round \in Nat
        BY DEF IInv, TypeOK
      <4> HIDE DEF R
      <4> QED
        BY <2>1, <4>1, ElementOfSeq
    <3>3. \A r : Revealed(r)' = Revealed(r)
      BY <2>1 DEF Revealed
    <3>4. Revealed(round + 1) = {}
      BY <2>1, <3>1, <3>2 DEF Revealed
    <3>5. word' # Null
      BY <2>3, NullAssumption
    <3>6. \A i \in DOMAIN reveals' : reveals'[i].round <= round'
      BY <2>1, <2>3, <3>1, <3>2
    <3>7. \A r \in 1 .. round : \E k : Revealed(r) = {k}
      BY <2>1 DEF RevealedOnce
    <3>8. \A r \in 1 .. round + 1 : r = round + 1 \/ r \in 1 .. round
      BY <2>1
    <3> QED
      BY <2>3, <3>3, <3>4, <3>5, <3>6, <3>7, <3>8 DEF RevealedOnce
  <2> QED
    BY <1>5, <2>2, <2>3, NextRoundDoes
<1>6. CASE UNCHANGED vars
  BY <1>6, RevealedSame DEF vars, roomVars
<1> QED
  BY <1>1, <1>2, <1>3, <1>4, <1>5, <1>6 DEF Next, Draws

LEMMA StepStrokes ==
  ASSUME IInv, IInv', StrokesOfThisRound, [Next]_vars PROVE StrokesOfThisRound'
<1>1. CASE \E p \in Player : Draws(p)
  <2> PICK p \in Player, m \in Mark : Draw(p, m)
    BY <1>1 DEF Draws
  <2> DEFINE e == [game |-> gameId, round |-> round, by |-> p, mark |-> m]
  <2>1. /\ phase = "playing" /\ drawerId = p /\ strokes' = Append(strokes, e)
        /\ UNCHANGED <<round, games, drawerId>>
    BY DEF Draws, Draw
  <2>2. gameId = games /\ e \in Segment /\ strokes \in Seq(Segment)
    BY <2>1 DEF IInv, EveryGamePublishedOnce, TypeOK, Segment
  <2>4. e.round = round /\ e.game = games /\ e.by = drawerId
    BY <2>1, <2>2
  <2> HIDE DEF e
  <2>3. /\ DOMAIN strokes' = 1 .. Len(strokes) + 1 /\ DOMAIN strokes = 1 .. Len(strokes)
        /\ \A i \in DOMAIN strokes : strokes'[i] = strokes[i]
        /\ strokes'[Len(strokes) + 1] = e
        /\ Len(strokes) \in Nat
    BY <2>1, <2>2, AppendProperties
  <2>5. \A i \in DOMAIN strokes' : i \in DOMAIN strokes \/ strokes'[i] = e
    BY <2>3
  <2> QED
    BY <2>1, <2>3, <2>4, <2>5 DEF StrokesOfThisRound
<1>2. CASE strokes' = <<>>
  BY <1>2 DEF StrokesOfThisRound
<1>3. CASE UNCHANGED <<strokes, round, games>> /\ (drawerId' = Null \/ drawerId' = drawerId)
  BY <1>3 DEF StrokesOfThisRound
<1>4. CASE \E p \in Player : Join(p) \/ CorrectGuess(p) \/ DrawClear(p)
  BY <1>2, <1>3, <1>4 DEF Join, CorrectGuess, DrawClear, EndRound, ClearStrokes
<1>5. CASE \E p \in Player : Leave(p)
  BY <1>2, <1>3, <1>5 DEF Leave, LeaveIdleRoom, LeaveTooFew, LeaveRound, LeaveLast,
     EndRound, EndGame
<1>6. CASE StartGame
  BY <1>2, <1>6, StartGameDoes
<1>7. CASE RoundTimeout
  BY <1>3, <1>7 DEF RoundTimeout, EndRound
<1>8. CASE IntermissionTimeout
  BY <1>2, <1>3, <1>8, NextRoundDoes DEF EndGame
<1>9. CASE UNCHANGED vars
  BY <1>3, <1>9 DEF vars, roomVars
<1> QED
  BY <1>1, <1>4, <1>5, <1>6, <1>7, <1>8, <1>9 DEF Next, Draws

\* A player who leaves takes nobody else's turn away.
LEMMA LeaveTurns ==
  ASSUME IInv, EveryoneQueued, NEW p \in Player, Leave(p) PROVE EveryoneQueued'
<1>1. CASE LeaveRound(p)
  <2>1. /\ players' = players \ {p} /\ drawn' = drawn \ {p}
        /\ drawerQueue' = Without(drawerQueue, p)
        /\ UNCHANGED <<phase, totalRounds>>
    BY <1>1 DEF LeaveRound, RemovePlayer, EndRound
  <2>2. Range(drawerQueue') = Range(drawerQueue) \ {p}
    BY <2>1, WithoutProperties, MembersAndQueue DEF QueueOK
  <2> QED
    BY <2>1, <2>2 DEF EveryoneQueued
<1>2. CASE ~LeaveRound(p)
  BY <1>2 DEF Leave, LeaveIdleRoom, LeaveTooFew, LeaveLast, EndGame, EveryoneQueued
<1> QED
  BY <1>1, <1>2

LEMMA StepTurns ==
  ASSUME IInv, EveryoneQueued, [Next]_vars PROVE EveryoneQueued'
<1>1. CASE \E p \in Player : Join(p)
  <2> PICK p \in Player : Join(p)
    BY <1>1
  <2>1. CASE phase = "playing"
    <3>1. /\ players' = players \cup {p} /\ drawerQueue' = Append(drawerQueue, p)
          /\ p \notin players /\ UNCHANGED <<phase, totalRounds, drawn>>
      BY <2>1 DEF Join, PushDrawer
    <3>2. Range(drawerQueue') = Range(drawerQueue) \cup {p}
      BY <3>1, PushProperties, MembersAndQueue DEF QueueOK
    <3> QED
      BY <3>1, <3>2 DEF EveryoneQueued
  <2>2. CASE phase # "playing"
    BY <2>2 DEF Join, EveryoneQueued
  <2> QED
    BY <2>1, <2>2
<1>2. CASE \E p \in Player : CorrectGuess(p) \/ Draws(p) \/ DrawClear(p)
  BY <1>2 DEF CorrectGuess, Draws, Draw, DrawClear, EndRound, EveryoneQueued
<1>3. CASE \E p \in Player : Leave(p)
  BY <1>3, LeaveTurns
<1>4. CASE StartGame
  BY <1>4, StartGameDoes DEF EveryoneQueued
<1>5. CASE RoundTimeout \/ UNCHANGED vars
  BY <1>5 DEF RoundTimeout, EndRound, vars, roomVars, EveryoneQueued
<1>6. CASE IntermissionTimeout
  BY <1>6, NextRoundDoes DEF EveryoneQueued, EndGame
<1> QED
  BY <1>1, <1>2, <1>3, <1>4, <1>5, <1>6 DEF Next, Draws

LEMMA StepMembers ==
  ASSUME IInv, IInv', SolversArePresent, FirstGameIsFresh, [Next]_vars
  PROVE  SolversArePresent' /\ FirstGameIsFresh'
<1> USE DEF SolversArePresent, FirstGameIsFresh
<1>1. CASE \E p \in Player : Join(p) \/ Draws(p) \/ DrawClear(p)
  <2>1. CASE \E p \in Player : Join(p)
    BY <2>1 DEF Join, IInv, TypeOK
  <2>2. CASE \E p \in Player : Draws(p) \/ DrawClear(p)
    <3>1. UNCHANGED <<players, solved, games, drawn, score>>
      BY <2>2 DEF Draws, Draw, DrawClear
    <3> QED
      BY <3>1
  <2> QED
    BY <1>1, <2>1, <2>2
<1>2. CASE \E p \in Player : CorrectGuess(p)
  <2>1. games # 0 /\ games' = games
    BY <1>2 DEF CorrectGuess, EndRound, IInv, EveryGamePublishedOnce, TypeOK
  <2> QED
    BY <1>2, <2>1 DEF CorrectGuess, EndRound, UnsolvedGuessers
<1>3. CASE \E p \in Player : Leave(p)
  <2> PICK p \in Player : Leave(p)
    BY <1>3
  <2>1. RemovePlayer(p) /\ games' = games
    BY DEF Leave, LeaveIdleRoom, LeaveTooFew, LeaveRound, LeaveLast, EndRound
  <2>2. solved' \subseteq solved \ {p}
    BY DEF Leave, LeaveIdleRoom, LeaveTooFew, LeaveRound, LeaveLast
  <2> QED
    BY <2>1, <2>2 DEF RemovePlayer, IInv, TypeOK
<1>4. CASE StartGame
  <2>1. games' = games + 1 /\ games \in Nat /\ solved' = {}
    BY <1>4, StartGameDoes DEF IInv, TypeOK
  <2> QED
    BY <2>1
<1>5. CASE RoundTimeout \/ UNCHANGED vars
  BY <1>5 DEF RoundTimeout, EndRound, vars, roomVars
<1>6. CASE IntermissionTimeout
  <2>1. /\ phase = "playing" /\ UNCHANGED <<players, score, games>>
        /\ solved' = solved \/ solved' = {}
    BY <1>6, NextRoundDoes
  <2>2. Len(results) = games - 1 /\ Len(results) \in Nat /\ games \in Nat
    BY <2>1, LenProperties DEF IInv, EveryGamePublishedOnce, TypeOK
  <2>3. games # 0
    BY <2>2
  <2> QED
    BY <2>1, <2>3
<1> QED
  BY <1>1, <1>2, <1>3, <1>4, <1>5, <1>6 DEF Next, Draws

\* The second invariant holds in every reachable state of every room.
THEOREM CourseOfGames == Spec => []Course
<1>1. IInv /\ IInv' /\ Course /\ [Next]_vars => Course'
  BY StepTurns, StepStrokes, StepReveals, StepMembers DEF Course
<1> QED
  BY <1>1, InitCourse, Inductive, PTL DEF Spec

\* Newcomers and departures included, whoever is in a running game has drawn or
\* will, as long as the game is within MAX_ROUNDS.
THEOREM CompleteTurns == Spec => []TurnsAreComplete
<1>1. Course => TurnsAreComplete
  BY DEF Course, EveryoneQueued, TurnsAreComplete
<1> QED
  BY <1>1, CourseOfGames, PTL

\* The buffer of strokes is of the round and the drawer a newcomer is told.
THEOREM RoundStrokes == Spec => []StrokesOfThisRound
<1>1. Course => StrokesOfThisRound
  BY DEF Course
<1> QED
  BY <1>1, CourseOfGames, PTL

\* Each finished round has shown its word once.
THEOREM RoundsRevealed == Spec => []FinishedRoundsRevealed
<1>1. Course => FinishedRoundsRevealed
  <2> SUFFICES ASSUME RevealedOnce, phase = "playing", NEW r \in 1 .. round
               PROVE  Cardinality(Revealed(r)) = IF r = round /\ word # Null THEN 0 ELSE 1
    BY DEF Course, FinishedRoundsRevealed, Revealed
  <2>1. CASE r = round /\ word # Null
    BY <2>1, FS_EmptySet DEF RevealedOnce
  <2>2. CASE ~(r = round /\ word # Null)
    BY <2>2, FS_Singleton DEF RevealedOnce
  <2> QED
    BY <2>1, <2>2
<1> QED
  BY <1>1, CourseOfGames, PTL

\* No handler replaces a word or a drawer by another: endRound comes between.
THEOREM Intermissions == Spec => NoRoundSkipsIntermission
<1>1. IInv /\ [Next]_vars => [word # Null /\ word' # Null => UNCHANGED <<word, drawerId, round>>]_vars
  <2> SUFFICES ASSUME IInv, Next, word # Null, word' # Null
               PROVE  UNCHANGED <<word, drawerId, round>>
    BY DEF vars, roomVars
  <2>1. roundTimer = "round" /\ phase = "playing"
    BY DEF IInv, RoundFieldsAgree, GameNeverStuck
  <2>2. ~StartGame /\ ~IntermissionTimeout
    BY <2>1 DEF StartGame, IntermissionTimeout
  <2> QED
    BY <2>2 DEF Next, Join, CorrectGuess, Draws, Draw, DrawClear, RoundTimeout, EndRound, EndGame,
       Leave, LeaveIdleRoom, LeaveTooFew, LeaveRound, LeaveLast
<1> QED
  BY <1>1, Inductive, PTL DEF Spec, NoRoundSkipsIntermission

\* A game that ends with enough players before MAX_ROUNDS rounds has given each
\* of them a turn.
THEOREM EndsAfterEveryTurn == Spec => GameEndsAfterEveryTurn
<1> DEFINE A == /\ phase = "playing" /\ phase' = "ended"
                /\ Cardinality(players') >= MinPlayersToStart
                /\ totalRounds < MaxRounds /\ round < MaxRounds
                => players' \subseteq drawn
<1>1. IInv /\ IInv' /\ Course /\ [Next]_vars => [A]_vars
  <2> SUFFICES ASSUME IInv, IInv', Course, Next, phase = "playing", phase' = "ended",
                      Cardinality(players') >= MinPlayersToStart, totalRounds < MaxRounds
               PROVE  players' \subseteq drawn
    OBVIOUS
  <2>1. ~(Cardinality(players') < MinPlayersToStart)
    BY RulesAssumption, FS_CardinalityType DEF IInv, TypeOK
  <2>2. IntermissionTimeout
    BY <2>1 DEF Next, Join, CorrectGuess, Draws, Draw, DrawClear, StartGame, RoundTimeout, EndRound,
       Leave, LeaveIdleRoom, LeaveTooFew, LeaveRound, LeaveLast
  <2>3. drawerQueue = <<>> /\ players' = players
    BY <2>2, NextRoundDoes
  <2> QED
    BY <2>3 DEF Course, EveryoneQueued, Range
<1> QED
  BY <1>1, Inductive, CourseOfGames, PTL DEF Spec, GameEndsAfterEveryTurn

-----------------------------------------------------------------------------
(* The room implements Turns.                                              *)

\* The operators of the standard modules are the same in both modules.
LEMMA SameOperators ==
  /\ \A S : Turn!Cardinality(S) = Cardinality(S)
  /\ \A f : Turn!IsInjective(f) = IsInjective(f)
  /\ \A f : Turn!Range(f) = Range(f)
<1>1. ASSUME NEW S PROVE Turn!Cardinality(S) = Cardinality(S)
  BY DEF Turn!Cardinality, Cardinality
<1>2. ASSUME NEW f PROVE Turn!IsInjective(f) = IsInjective(f)
  BY DEF Turn!IsInjective, IsInjective
<1>3. ASSUME NEW f PROVE Turn!Range(f) = Range(f)
  BY DEF Turn!Range, Range
<1> QED
  BY <1>1, <1>2, <1>3

\* A step that Turns does not see.
LEMMA SameTurns ==
  ASSUME UNCHANGED <<players, drawerId, drawerQueue, roundTimer, reveals>>
  PROVE  UNCHANGED Turn!vars
BY DEF Turn!vars

\* endRound arms another intermission.
LEMMA EndRoundTurns ==
  ASSUME IInv, phase = "playing", EndRound, players' # {}
  PROVE  Turn!EndRound
<1>1. roundTimer # "none" /\ Len(reveals) \in Nat
  BY DEF IInv, GameNeverStuck, TypeOK
<1>2. drawerId' = Null /\ roundTimer' = "intermission" /\ Len(reveals') = Len(reveals) + 1
  BY AppendProperties DEF EndRound, ArmIntermission, Reveal, IInv, TypeOK
<1>3. \A n \in Nat : (n + 1) % 2 = 1 - (n % 2)
  OBVIOUS
<1> QED
  BY <1>1, <1>2, <1>3 DEF Turn!EndRound

LEMMA StartGameTurns == ASSUME IInv, StartGame PROVE Turn!StartGame
<1> DEFINE n == IF Cardinality(players) < MaxRounds THEN Cardinality(players) ELSE MaxRounds
<1>1. totalRounds' = n /\ n \in Nat /\ n >= 1
  BY RulesAssumption, FS_CardinalityType DEF StartGame, IInv, TypeOK
<1>2. PICK q \in DrawOrders(players, n) : StartRound(games', q, 0, {})
  BY <1>1 DEF StartGame
<1>3. q \in Turn!DrawOrders(players, n)
  BY <1>2, SameOperators DEF DrawOrders, Turn!DrawOrders
<1>4. q \in Seq(Player) /\ q # <<>> /\ Range(q) \subseteq players
  <2>1. q \in [1 .. n -> players]
    BY <1>2 DEF DrawOrders
  <2>2. q = [i \in 1 .. n |-> q[i]] /\ \A i \in 1 .. n : q[i] \in Player
    BY <2>1 DEF IInv, TypeOK
  <2> HIDE DEF n
  <2>3. q \in Seq(Player) /\ Len(q) = n
    BY <1>1, <2>2, IsASeq, LenProperties
  <2> QED
    BY <1>1, <2>1, <2>3 DEF Range
<1>5. drawerId' = Head(q) /\ drawerQueue' = Tail(q) /\ roundTimer' = "round"
  BY <1>2, <1>4, StartRoundDoes
<1>6. /\ roundTimer = "none" /\ Cardinality(players) >= MinPlayersToStart
      /\ players' = players /\ reveals' = <<>>
  BY DEF StartGame, IInv, GameNeverStuck
<1>7. Len(reveals') % 2 = 0
  BY <1>6
<1> HIDE DEF n
<1>8. Turn!TakeTurn(q)
  BY <1>5, <1>6 DEF Turn!TakeTurn, Turn!QueueAfterHead
<1>9. UNCHANGED (IF roundTimer = "none" THEN 0 ELSE Len(reveals) % 2)
  BY <1>5, <1>6, <1>7
<1> QED
  BY <1>3, <1>6, <1>8, <1>9, SameOperators DEF Turn!StartGame, n

LEMMA EndGameTurns ==
  ASSUME IInv, EndGame(gameId, round) PROVE Turn!EndGame
BY DEF EndGame, Turn!EndGame

LEMMA IntermissionTurns == ASSUME IInv, IntermissionTimeout PROVE Turn!IntermissionOver
<1>1. /\ phase = "playing" /\ roundTimer = "intermission"
      /\ UNCHANGED <<players, reveals>>
  BY NextRoundDoes
<1>2. Cardinality(players) >= MinPlayersToStart /\ ~(Cardinality(players) < MinPlayersToStart)
  BY <1>1, RulesAssumption, FS_CardinalityType DEF IInv, TypeOK, GameNeverStuck
<1>3. CASE drawerQueue = <<>>
  <2>1. EndGame(gameId, round)
    BY <1>3, NextRoundDoes
  <2> QED
    BY <1>1, <1>3, <2>1, EndGameTurns DEF Turn!IntermissionOver, Turn!SomebodyDraws
<1>4. CASE drawerQueue # <<>>
  <2>1. /\ drawerQueue \in Seq(Player) /\ IsInjective(drawerQueue)
        /\ Range(drawerQueue) \subseteq players
    BY MembersAndQueue DEF QueueOK
  <2>2. Head(drawerQueue) \in players
    BY <1>4, <2>1, TailProperties
  <2>3. StartRound(gameId, drawerQueue, round, usedWords)
    BY <1>2, <1>4 DEF IntermissionTimeout, NobodyLeftToDraw
  <2>4. drawerId' = Head(drawerQueue) /\ drawerQueue' = Tail(drawerQueue) /\ roundTimer' = "round"
    BY <1>4, <2>1, <2>3, StartRoundDoes
  <2>5. Turn!SomebodyDraws
    BY <1>2, <1>4, <2>2, SameOperators DEF Turn!SomebodyDraws
  <2>6. Turn!TakeTurn(drawerQueue)
    BY <1>1, <2>4 DEF Turn!TakeTurn, Turn!QueueAfterHead
  <2>7. UNCHANGED (IF roundTimer = "none" THEN 0 ELSE Len(reveals) % 2)
    BY <1>1, <2>4
  <2> QED
    BY <1>1, <2>5, <2>6, <2>7 DEF Turn!IntermissionOver
<1> QED
  BY <1>3, <1>4

LEMMA LeaveTurn ==
  ASSUME IInv, NEW p \in Player, Leave(p)
  PROVE  Turn!LeaveIdleRoom(p) \/ Turn!LeaveTooFew(p) \/ Turn!LeaveGame(p)
<1>1. p \in players /\ players' = players \ {p}
  BY DEF Leave, LeaveIdleRoom, LeaveTooFew, LeaveRound, LeaveLast, RemovePlayer
<1>2. phase # "playing" <=> roundTimer = "none"
  BY DEF IInv, GameNeverStuck
<1>3. Turn!Without(drawerQueue, p) = Without(drawerQueue, p)
  BY SameOperators DEF Without, Turn!Without
<1>4. CASE LeaveIdleRoom(p)
  BY <1>1, <1>2, <1>3, <1>4 DEF LeaveIdleRoom, Turn!LeaveIdleRoom
<1>5. CASE LeaveTooFew(p)
  BY <1>1, <1>2, <1>5, EndGameTurns, SameOperators DEF LeaveTooFew, Turn!LeaveTooFew
<1>6. CASE LeaveRound(p)
  <2>1. players' # {} /\ roundTimer # "none" /\ Cardinality(players') >= MinPlayersToStart
    BY <1>2, <1>6, FS_EmptySet, RulesAssumption DEF LeaveRound
  <2>2. drawerQueue' = Turn!Without(drawerQueue, p)
    BY <1>3, <1>6 DEF LeaveRound
  <2>3. CASE EndRound
    <3>1. phase = "playing"
      BY <1>6 DEF LeaveRound
    <3>2. Turn!EndRound
      BY <2>1, <2>3, <3>1, EndRoundTurns
    <3> QED
      BY <1>1, <2>1, <2>2, <3>2, SameOperators DEF Turn!LeaveGame
  <2>4. CASE ~EndRound
    <3>1. drawerId # p /\ UNCHANGED <<drawerId, roundTimer, reveals>>
      BY <1>6, <2>4 DEF LeaveRound, RoundIsOver
    <3> QED
      BY <1>1, <2>1, <2>2, <3>1, SameOperators DEF Turn!LeaveGame
  <2> QED
    BY <2>3, <2>4
<1>7. CASE LeaveLast(p)
  <2>1. players = {p}
    BY <1>1, <1>7 DEF LeaveLast
  <2>2. ~(Cardinality(players) >= MinPlayersToStart)
    BY <2>1, SomebodyElse, ZenonT(30) DEF IInv, TypeOK
  <2>3. roundTimer = "none"
    BY <1>2, <2>2 DEF IInv, GameNeverStuck
  <2>4. drawerId = Null
    BY <2>3 DEF IInv, RoundFieldsAgree
  <2>5. Without(drawerQueue, p) = <<>>
    <3>1. /\ Without(drawerQueue, p) \in Seq(Player)
          /\ Range(Without(drawerQueue, p)) = Range(drawerQueue) \ {p}
      BY WithoutProperties, MembersAndQueue DEF QueueOK
    <3>2. Range(drawerQueue) \subseteq {p}
      BY <2>1, MembersAndQueue DEF QueueOK
    <3>3. Range(Without(drawerQueue, p)) = {}
      BY <3>1, <3>2
    <3> HIDE DEF Without
    <3> QED
      BY <3>1, <3>3, EmptySeq DEF Range
  <2> QED
    BY <1>1, <1>3, <1>7, <2>3, <2>4, <2>5 DEF LeaveLast, Turn!LeaveIdleRoom
<1> QED
  BY <1>4, <1>5, <1>6, <1>7 DEF Leave

\* A room of any size takes turns as Turns says: no other field decides who
\* draws next, and the size checks of endRound never matter.
THEOREM TakesTurns == Spec => ImplementsTurns
<1>1. Init => Turn!Init
  BY DEF Init, FreshRoom, Turn!Init
<1>2. IInv /\ [Next]_vars => [Turn!Next]_(Turn!vars)
  <2> SUFFICES ASSUME IInv, [Next]_vars PROVE Turn!Next \/ UNCHANGED Turn!vars
    OBVIOUS
  <2>1. CASE UNCHANGED vars
    BY <2>1, SameTurns DEF vars, roomVars
  <2>2. CASE \E p \in Player : Join(p)
    <3> PICK p \in Player : Join(p)
      BY <2>2
    <3>1. Turn!Join(p)
      BY SameOperators DEF Join, PushDrawer, Turn!Join, Turn!PushDrawer, IInv, GameNeverStuck
    <3> QED
      BY <3>1 DEF Turn!Next
  <2>3. CASE \E p \in Player : CorrectGuess(p)
    <3> PICK p \in Player : CorrectGuess(p)
      BY <2>3
    <3>1. /\ phase = "playing" /\ word # Null
          /\ UNCHANGED <<players, drawerQueue>>
      BY DEF CorrectGuess
    <3>2. CASE EndRound
      <4>1. players' # {} /\ roundTimer = "round"
        BY <3>1, FS_EmptySet, RulesAssumption DEF IInv, GameNeverStuck, RoundFieldsAgree
      <4>2. Turn!EndRound
        BY <3>1, <3>2, <4>1, EndRoundTurns
      <4> QED
        BY <3>1, <4>1, <4>2 DEF Turn!Next, Turn!RoundOver
    <3>3. CASE ~EndRound
      BY <3>1, <3>3, SameTurns DEF CorrectGuess
    <3> QED
      BY <3>2, <3>3
  <2>4. CASE \E p \in Player : Draws(p) \/ DrawClear(p)
    BY <2>4, SameTurns DEF Draws, Draw, DrawClear
  <2>5. CASE \E p \in Player : Leave(p)
    BY <2>5, LeaveTurn DEF Turn!Next
  <2>6. CASE StartGame
    BY <2>6, StartGameTurns DEF Turn!Next
  <2>7. CASE RoundTimeout
    <3>1. /\ phase = "playing" /\ roundTimer = "round" /\ EndRound
          /\ UNCHANGED <<players, drawerQueue>>
      BY <2>7 DEF RoundTimeout
    <3>2. players' # {}
      BY <3>1, FS_EmptySet, RulesAssumption DEF IInv, GameNeverStuck
    <3>3. Turn!EndRound
      BY <3>1, <3>2, EndRoundTurns
    <3> QED
      BY <3>1, <3>3 DEF Turn!Next, Turn!RoundOver
  <2>8. CASE IntermissionTimeout
    BY <2>8, IntermissionTurns DEF Turn!Next
  <2> QED
    BY <2>1, <2>2, <2>3, <2>4, <2>5, <2>6, <2>7, <2>8 DEF Next, Draws
<1> QED
  BY <1>1, <1>2, Inductive, PTL DEF Spec, ImplementsTurns, Turn!Spec
=============================================================================
