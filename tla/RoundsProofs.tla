---------------------------- MODULE RoundsProofs ----------------------------
(***************************************************************************)
(* Proofs about Pairings and Rounds, for any numbers of players and games: *)
(* the pairings of round robins and gauntlets, the rounds of Swiss         *)
(* tournaments, the brackets of knockouts, and for every format the types  *)
(* of the rows, their unique constraints and the order of the rounds.      *)
(***************************************************************************)
EXTENDS Rounds, FiniteSetTheorems, WellFoundedInduction, TLAPS

-----------------------------------------------------------------------------
(* The circle method: m seats, an even number, and m - 1 rounds.           *)
LEMMA SeatIs ==
    ASSUME NEW m \in Nat, m >= 2, NEW r \in 0..(m - 2), NEW k \in 0..(m - 1)
    PROVE  Seat(m, r, k) = IF k = 0 THEN 1 ELSE IF k > r THEN k + 1 - r ELSE k - r + m
<1>1. CASE k = 0
  BY <1>1 DEF Seat
<1>2. CASE k # 0
  <2> DEFINE d == m - 1
             x == k - 1 - r
  <2>1. d \in Nat \ {0} /\ x \in Int /\ -d <= x /\ x < d
    BY <1>2
  <2>3. x % d = IF k > r THEN x ELSE x + d
    <3> HIDE DEF d, x
    <3>1. x % d = IF x >= 0 THEN x ELSE x + d
      BY <2>1
    <3> QED BY <3>1 DEF x
  <2>4. Seat(m, r, k) = (x % d) + 2
    BY <1>2 DEF Seat
  <2> QED BY <1>2, <2>3, <2>4
<1> QED BY <1>1, <1>2

LEMMA SeatsDiffer ==
    ASSUME NEW m \in Nat, m >= 2, NEW r \in 0..(m - 2)
    PROVE  /\ \A k \in 0..(m - 1) : Seat(m, r, k) \in 1..m
           /\ \A k, l \in 0..(m - 1) : Seat(m, r, k) = Seat(m, r, l) => k = l
<1>1. ASSUME NEW k \in 0..(m - 1) PROVE Seat(m, r, k) \in 1..m
  BY SeatIs
<1>2. ASSUME NEW k \in 0..(m - 1), NEW l \in 0..(m - 1), Seat(m, r, k) = Seat(m, r, l)
      PROVE  k = l
  <2>1. Seat(m, r, k) = IF k = 0 THEN 1 ELSE IF k > r THEN k + 1 - r ELSE k - r + m
    BY SeatIs
  <2>2. Seat(m, r, l) = IF l = 0 THEN 1 ELSE IF l > r THEN l + 1 - r ELSE l - r + m
    BY SeatIs
  <2> DEFINE x == IF k = 0 THEN 1 ELSE IF k > r THEN k + 1 - r ELSE k - r + m
             y == IF l = 0 THEN 1 ELSE IF l > r THEN l + 1 - r ELSE l - r + m
  <2>3. x = y
    BY <1>2, <2>1, <2>2
  <2>4. r \in Nat /\ r <= m - 2 /\ k \in Nat /\ l \in Nat /\ k < m /\ l < m
    OBVIOUS
  <2>5. x = y => k = l
    BY <2>4
  <2> QED BY <2>3, <2>5
<1> QED BY <1>1, <1>2

LEMMA SeatSum ==
    ASSUME NEW m \in Nat, m >= 2, NEW r \in 0..(m - 2), NEW k \in 1..(m - 2)
    PROVE  Seat(m, r, k) + Seat(m, r, m - 1 - k)
               \in {m + 1 - 2 * r, 2 * m - 2 * r, 3 * m - 1 - 2 * r}
BY SeatIs

(* Who sit opposite each other.                                            *)
Opposite(m, r, k, p, q) == {Seat(m, r, k), Seat(m, r, m - 1 - k)} = {p, q}

(* Two players sit opposite each other in one round only, and at one table.*)
LEMMA OppositeOnce ==
    ASSUME NEW h \in Nat \ {0}, NEW m, m = 2 * h,
           NEW r \in 0..(m - 2), NEW s \in 0..(m - 2),
           NEW k \in 0..(h - 1), NEW l \in 0..(h - 1), NEW p, NEW q,
           Opposite(m, r, k, p, q), Opposite(m, s, l, p, q)
    PROVE  r = s /\ k = l
<1>0. /\ m \in Nat /\ m >= 2
      /\ k \in 0..(m - 1) /\ l \in 0..(m - 1) /\ m - 1 - k \in 0..(m - 1) /\ m - 1 - l \in 0..(m - 1)
  OBVIOUS
<1>1. \/ Seat(m, r, k) = Seat(m, s, l) /\ Seat(m, r, m - 1 - k) = Seat(m, s, m - 1 - l)
      \/ Seat(m, r, k) = Seat(m, s, m - 1 - l) /\ Seat(m, r, m - 1 - k) = Seat(m, s, l)
  BY DEF Opposite
<1>a. \A t \in 0..(m - 2), j \in 0..(m - 1) : Seat(m, t, j) = 1 <=> j = 0
  BY <1>0, SeatIs
<1>b. m - 1 - k # 0 /\ m - 1 - l # 0
  OBVIOUS
<1>2. r = s
  <2>1. CASE k = 0
    <3>1. Seat(m, r, k) = 1 /\ Seat(m, r, m - 1 - k) = m - r
      BY <1>0, <2>1, SeatIs
    <3>2. l = 0
      BY <1>0, <1>1, <1>a, <1>b, <3>1
    <3>3. Seat(m, s, l) = 1 /\ Seat(m, s, m - 1 - l) = m - s
      BY <1>0, <3>2, SeatIs
    <3> QED BY <1>0, <1>1, <3>1, <3>3
  <2>2. CASE k # 0
    <3>1. l # 0
      BY <1>0, <1>1, <1>a, <1>b, <2>2
    <3>2. Seat(m, r, k) + Seat(m, r, m - 1 - k) = Seat(m, s, l) + Seat(m, s, m - 1 - l)
      BY <1>0, <1>1, SeatsDiffer
    <3>3. Seat(m, r, k) + Seat(m, r, m - 1 - k) \in {m + 1 - 2 * r, 2 * m - 2 * r, 3 * m - 1 - 2 * r}
      BY <1>0, <2>2, SeatSum
    <3>4. Seat(m, s, l) + Seat(m, s, m - 1 - l) \in {m + 1 - 2 * s, 2 * m - 2 * s, 3 * m - 1 - 2 * s}
      BY <1>0, <3>1, SeatSum
    <3>5. \A a, b, c \in Int : a \in {2*h + 1 - 2 * b, 4*h - 2 * b, 6*h - 1 - 2 * b}
                  /\ a \in {2*h + 1 - 2 * c, 4*h - 2 * c, 6*h - 1 - 2 * c}
                  /\ b \in 0..(2*h - 2) /\ c \in 0..(2*h - 2) => b = c
      OBVIOUS
    <3>6. Seat(m, s, l) + Seat(m, s, m - 1 - l) \in Int
      BY <1>0, SeatsDiffer
    <3> QED BY <3>2, <3>3, <3>4, <3>5, <3>6
  <2> QED BY <2>1, <2>2
<1>3. k = l \/ k = m - 1 - l
  BY <1>0, <1>1, <1>2, SeatsDiffer
<1> QED BY <1>2, <1>3

(* And they do sit opposite each other.                                    *)
LEMMA OppositeSomewhere ==
    ASSUME NEW h \in Nat \ {0}, NEW m, m = 2 * h,
           NEW p \in 1..m, NEW q \in 1..m, p < q
    PROVE  \E r \in 0..(m - 2), k \in 0..(h - 1) : Opposite(m, r, k, p, q)
<1>0. m \in Nat /\ m >= 2
  OBVIOUS
<1>1. \E r \in 0..(m - 2), k, l \in 0..(m - 1) :
          k + l = m - 1 /\ Seat(m, r, k) = p /\ Seat(m, r, l) = q
  <2>1. CASE p = 1
    <3>1. m - q \in 0..(m - 2) /\ m - 1 > m - q
      BY <2>1
    <3>2. Seat(m, m - q, 0) = 1 /\ Seat(m, m - q, m - 1) = (m - 1) + 1 - (m - q)
      BY <1>0, <3>1, SeatIs
    <3>3. 0 \in 0..(m - 1) /\ m - 1 \in 0..(m - 1) /\ 0 + (m - 1) = m - 1 /\ (m - 1) + 1 - (m - q) = q
      BY <1>0
    <3> QED BY <2>1, <3>1, <3>2, <3>3
  <2>2. CASE p # 1
    <3>1. \E r \in 0..(m - 2) : \/ p + q = m + 1 - 2 * r
                                \/ p + q = 2 * m - 2 * r
                                \/ p + q = 3 * m - 1 - 2 * r
      <4>1. PICK x \in Nat : p + q = 2 * x \/ p + q = 2 * x + 1
        <5>1. (p + q) \div 2 \in Nat /\ (p + q = 2 * ((p + q) \div 2)
                                       \/ p + q = 2 * ((p + q) \div 2) + 1)
          OBVIOUS
        <5> QED BY <5>1
      <4>2. CASE p + q = 2 * x
        BY <2>2, <4>1, <4>2
      <4>3. CASE p + q = 2 * x + 1 /\ p + q <= m + 1
        <5>1. h - x \in 0..(m - 2)
          BY <2>2, <4>1, <4>3
        <5> QED BY <4>1, <4>3, <5>1
      <4>4. CASE p + q = 2 * x + 1 /\ p + q > m + 1
        <5>1. 3 * h - 1 - x \in 0..(m - 2)
          BY <2>2, <4>1, <4>4
        <5>2. p + q = 3 * m - 1 - 2 * (3 * h - 1 - x)
          BY <4>1, <4>4
        <5> QED BY <5>1, <5>2
      <4> QED BY <4>1, <4>2, <4>3, <4>4
    <3>2. PICK r \in 0..(m - 2) : \/ p + q = m + 1 - 2 * r
                                  \/ p + q = 2 * m - 2 * r
                                  \/ p + q = 3 * m - 1 - 2 * r
      BY <3>1
    <3> DEFINE seat(x) == IF x - 1 + r <= m - 1 THEN x - 1 + r ELSE x + r - m
    <3>3. \A x \in 2..m : seat(x) \in 1..(m - 1) /\ Seat(m, r, seat(x)) = x
      BY <1>0, SeatIs
    <3>4. seat(p) + seat(q) = m - 1
      BY <2>2, <3>2
    <3>5. p \in 2..m /\ q \in 2..m
      BY <2>2
    <3> HIDE DEF seat
    <3> QED BY <3>3, <3>4, <3>5
  <2> QED BY <2>1, <2>2
<1>2. PICK r \in 0..(m - 2), k \in 0..(m - 1), l \in 0..(m - 1) :
          k + l = m - 1 /\ Seat(m, r, k) = p /\ Seat(m, r, l) = q
  BY <1>1
<1>3. CASE k \in 0..(h - 1)
  BY <1>2, <1>3 DEF Opposite
<1>4. CASE l \in 0..(h - 1)
  BY <1>2, <1>4 DEF Opposite
<1>5. k \in 0..(h - 1) \/ l \in 0..(h - 1)
  BY <1>2
<1> QED BY <1>3, <1>4, <1>5

-----------------------------------------------------------------------------
(* A bijection carries the number of elements over.                        *)
LEMMA AsMany ==
    ASSUME NEW S, IsFiniteSet(S), NEW T, NEW f \in [S -> T],
           \A x, y \in S : f[x] = f[y] => x = y, \A z \in T : \E x \in S : f[x] = z
    PROVE  IsFiniteSet(T) /\ Cardinality(T) = Cardinality(S)
BY FS_Bijection DEF Bijection, Injection, Surjection, IsInjective, ExistsBijection

LEMMA AtMostOne ==
    ASSUME NEW S, \A x, y \in S : x = y
    PROVE  Cardinality(S) <= 1
<1>1. CASE S = {}
  BY <1>1, FS_EmptySet
<1>2. CASE S # {}
  <2>1. PICK x \in S : TRUE
    BY <1>2
  <2>2. S = {x}
    BY <2>1
  <2> QED BY <2>2, FS_Singleton
<1> QED BY <1>1, <1>2

-----------------------------------------------------------------------------
(* What EverybodyMeets says of the games, of any set S of games.           *)
Between(S, p, q) == {g \in S : {g.white, g.black} = {p, q}}
Whites(S, p) == {g \in S : g.white = p}

-----------------------------------------------------------------------------
LEMMA GameFields ==
    ASSUME NEW round, NEW pair, NEW a, NEW b, NEW match, NEW number, NEW kind,
           NEW g, g = Game(round, pair, a, b, match, number, kind)
    PROVE  /\ g.round = round /\ g.white = a /\ g.black = b /\ g.number = number
           /\ g.kind = kind /\ g.result = Unplayed
           /\ g = [g EXCEPT !.result = Unplayed]
BY DEF Game

LEMMA SeatsAre ==
    ASSUME NEW n \in Nat \ {0, 1}
    PROVE  \E h \in Nat \ {0} : Seats(n) = 2 * h /\ Seats(n) \div 2 = h /\ n <= 2 * h
<1>1. n % 2 \in {0, 1} /\ n = 2 * (n \div 2) + (n % 2) /\ n \div 2 \in Nat \ {0}
  OBVIOUS
<1>2. CASE n % 2 = 0
  BY <1>1, <1>2 DEF Seats
<1>3. CASE n % 2 = 1
  BY <1>1, <1>3 DEF Seats
<1> QED BY <1>1, <1>2, <1>3

(* The game at table k of round r in a cycle.                              *)
LEMMA TableGame ==
    ASSUME NEW n \in Nat \ {0, 1}, NEW h \in Nat \ {0}, NEW m, m = Seats(n), m = 2 * h,
           NEW c \in Nat, NEW r \in 0..(m - 2), NEW k \in 0..(h - 1), NEW g,
           g = RoundRobinGame(n, c, r, k)
    PROVE  /\ g.round = r + 1 + c * (m - 1) /\ g.number = c + 1
           /\ Opposite(m, r, k, g.white, g.black) /\ g.white # g.black
           /\ g.white = Seat(m, r, k) <=> (r + k) % 2 = c % 2
           /\ g = [g EXCEPT !.result = Unplayed]
<1>0. /\ k \in 0..(m - 1) /\ m - 1 - k \in 0..(m - 1) /\ m - 1 - k # k /\ m >= 2 /\ m \in Nat
  OBVIOUS
<1>1. Seat(m, r, k) # Seat(m, r, m - 1 - k)
  BY <1>0, SeatsDiffer
<1> DEFINE x == Seat(m, r, k)
           y == Seat(m, r, m - 1 - k)
<1>2. Table(n, r, k) = IF (r + k) % 2 = 0 THEN <<x, y>> ELSE <<y, x>>
  BY DEF Table, Swapped
<1> HIDE DEF x, y
<1>3. /\ g.white = IF (r + k) % 2 = c % 2 THEN x ELSE y
      /\ g.black = IF (r + k) % 2 = c % 2 THEN y ELSE x
  <2>1. (r + k) % 2 \in {0, 1} /\ c % 2 \in {0, 1}
    OBVIOUS
  <2> QED BY <1>2, <2>1 DEF RoundRobinGame, Game, Swapped
<1>4. /\ g.round = r + 1 + c * (m - 1) /\ g.number = c + 1
      /\ g = [g EXCEPT !.result = Unplayed]
  <2>1. \E pair, a, b : g = Game(r + 1 + c * (m - 1), pair, a, b, 0, c + 1, "base")
    BY DEF RoundRobinGame
  <2> QED BY <2>1, GameFields
<1> QED BY <1>1, <1>3, <1>4 DEF Opposite, x, y

LEMMA TablesAre ==
    ASSUME NEW n \in Nat \ {0, 1}, NEW h \in Nat \ {0}, NEW m, m = Seats(n), m = 2 * h,
           NEW r \in 0..(m - 2), NEW k
    PROVE  k \in Tables(n, r) <=> /\ k \in 0..(h - 1)
                                  /\ Seat(m, r, k) <= n /\ Seat(m, r, m - 1 - k) <= n
<1>1. m \div 2 = h
  OBVIOUS
<1>2. Table(n, r, k) \in {<<Seat(m, r, k), Seat(m, r, m - 1 - k)>>,
                          <<Seat(m, r, m - 1 - k), Seat(m, r, k)>>}
  BY DEF Table, Swapped
<1>3. (\A i \in 1..2 : Table(n, r, k)[i] <= n)
          <=> Seat(m, r, k) <= n /\ Seat(m, r, m - 1 - k) <= n
  BY <1>2
<1> QED BY <1>1, <1>3 DEF Tables

LEMMA RoundRobinGames ==
    ASSUME NEW n \in Nat \ {0, 1}, NEW per \in Nat, NEW g
    PROVE  g \in RoundRobin(n, per) <=>
               \E c \in 0..(per - 1), r \in 0..(Seats(n) - 2) : \E k \in Tables(n, r) :
                   g = RoundRobinGame(n, c, r, k)
<1> DEFINE T == UNION {{<<c, r, k>> : k \in Tables(n, r)} :
                          c \in 0..(per - 1), r \in 0..(Seats(n) - 2)}
<1>1. RoundRobin(n, per) = {RoundRobinGame(n, t[1], t[2], t[3]) : t \in T}
  BY DEF RoundRobin
<1>2. ASSUME NEW t \in T
      PROVE  \E c \in 0..(per - 1), r \in 0..(Seats(n) - 2) : \E k \in Tables(n, r) : t = <<c, r, k>>
  OBVIOUS
<1>3. ASSUME NEW c \in 0..(per - 1), NEW r \in 0..(Seats(n) - 2), NEW k \in Tables(n, r)
      PROVE  <<c, r, k>> \in T
  <2> DEFINE row(d, s) == {<<d, s, j>> : j \in Tables(n, s)}
             rows == {row(d, s) : d \in 0..(per - 1), s \in 0..(Seats(n) - 2)}
  <2>1. <<c, r, k>> \in row(c, r)
    OBVIOUS
  <2>2. row(c, r) \in rows
    OBVIOUS
  <2> HIDE DEF row, rows
  <2>3. <<c, r, k>> \in UNION rows
    BY <2>1, <2>2
  <2> QED BY <2>3 DEF row, rows
<1> HIDE DEF T
<1>4. g \in RoundRobin(n, per) <=> \E t \in T : g = RoundRobinGame(n, t[1], t[2], t[3])
  BY <1>1
<1>5. ASSUME NEW t \in T, g = RoundRobinGame(n, t[1], t[2], t[3])
      PROVE  \E c \in 0..(per - 1), r \in 0..(Seats(n) - 2) : \E k \in Tables(n, r) :
                 g = RoundRobinGame(n, c, r, k)
  <2>1. PICK c \in 0..(per - 1), r \in 0..(Seats(n) - 2) : \E k \in Tables(n, r) : t = <<c, r, k>>
    BY <1>2
  <2>2. PICK k \in Tables(n, r) : t = <<c, r, k>>
    BY <2>1
  <2>3. t[1] = c /\ t[2] = r /\ t[3] = k
    BY <2>2
  <2> QED BY <1>5, <2>3
<1>6. ASSUME NEW c \in 0..(per - 1), NEW r \in 0..(Seats(n) - 2), NEW k \in Tables(n, r),
             g = RoundRobinGame(n, c, r, k)
      PROVE  \E t \in T : g = RoundRobinGame(n, t[1], t[2], t[3])
  BY <1>3, <1>6
<1> QED BY <1>4, <1>5, <1>6

(* A round robin: every pairing has its table in one round of each cycle.  *)
LEMMA RoundRobinMeets ==
    ASSUME NEW n \in Nat \ {0, 1}, NEW per \in Nat, NEW S, S = RoundRobin(n, per)
    PROVE  /\ \A p, q \in 1..n :
                 /\ Cardinality(Between(S, p, q)) = IF p # q THEN per ELSE 0
                 /\ \A g, l \in Between(S, p, q) :
                       l.number = g.number + 1 => l.round > g.round /\ l.white # g.white
           /\ \A p \in 1..n : \A g, l \in S :
                 p \in {g.white, g.black} /\ p \in {l.white, l.black} /\ g.round = l.round => g = l
<1> DEFINE m == Seats(n)
<1>1. PICK h \in Nat \ {0} : m = 2 * h /\ n <= 2 * h
  BY SeatsAre
<1>n. n \in Nat \ {0, 1} /\ m \in Nat /\ m >= 2
  BY <1>1
<1> DEFINE game(a, r, k) == RoundRobinGame(n, a, r, k)
<1>2. ASSUME NEW g \in S
      PROVE  \E a \in 0..(per - 1), r \in 0..(m - 2), k \in 0..(h - 1) :
                 g = game(a, r, k)
  <2>1. PICK a \in 0..(per - 1), r \in 0..(m - 2) : \E k \in Tables(n, r) : g = game(a, r, k)
    BY RoundRobinGames
  <2> QED BY <1>1, <2>1, TablesAre
<1>3. ASSUME NEW a \in 0..(per - 1), NEW r \in 0..(m - 2), NEW k \in 0..(h - 1),
             NEW p \in 1..n, NEW q \in 1..n, Opposite(m, r, k, p, q)
      PROVE  game(a, r, k) \in S
  <2>1. k \in Tables(n, r)
    BY <1>3, <1>1, TablesAre DEF Opposite
  <2> QED BY <2>1, RoundRobinGames
<1>4. ASSUME NEW a \in Nat, NEW r \in 0..(m - 2), NEW k \in 0..(h - 1), NEW g, g = game(a, r, k)
      PROVE  /\ g.round = r + 1 + a * (m - 1) /\ g.number = a + 1
             /\ Opposite(m, r, k, g.white, g.black) /\ g.white # g.black
             /\ g.white = Seat(m, r, k) <=> (r + k) % 2 = a % 2
  BY <1>1, <1>4, TableGame
<1> HIDE DEF game, m
<1>w. ASSUME NEW d \in Nat, NEW r \in 0..(m - 2), NEW k \in 0..(h - 1), NEW g, g = game(d, r, k)
      PROVE  g.white = Seat(m, r, k) <=> (r + k) % 2 = d % 2
  BY <1>4, <1>w
<1>5. ASSUME NEW p \in 1..n, NEW q \in 1..n
      PROVE  /\ Cardinality(Between(S, p, q)) = IF p # q THEN per ELSE 0
             /\ \A g, l \in Between(S, p, q) :
                    l.number = g.number + 1 => l.round > g.round /\ l.white # g.white
  <2>1. CASE p = q
    <3>1. Between(S, p, q) = {}
      <4> SUFFICES ASSUME NEW g \in Between(S, p, q) PROVE FALSE
        OBVIOUS
      <4>1. g \in S /\ {g.white, g.black} = {p, q}
        BY DEF Between
      <4>2. g.white # g.black
        BY <1>2, <1>4, <4>1
      <4> QED BY <2>1, <4>1, <4>2
    <3> QED BY <2>1, <3>1, FS_EmptySet
  <2>2. CASE p # q
    <3>1. PICK r \in 0..(m - 2), k \in 0..(h - 1) : Opposite(m, r, k, p, q)
      <4>1. p \in 1..m /\ q \in 1..m /\ (p < q \/ q < p)
        BY <1>1, <1>n, <2>2
      <4>2. \A r, k : Opposite(m, r, k, q, p) = Opposite(m, r, k, p, q)
        BY DEF Opposite
      <4>3. CASE p < q
        BY <1>1, <4>1, <4>3, OppositeSomewhere
      <4>4. CASE q < p
        BY <1>1, <4>1, <4>2, <4>4, OppositeSomewhere
      <4> QED BY <4>1, <4>3, <4>4
    <3>2. ASSUME NEW a \in 0..(per - 1) PROVE game(a, r, k) \in Between(S, p, q)
      <4>1. game(a, r, k) \in S
        BY <1>3, <3>1
      <4>2. Opposite(m, r, k, game(a, r, k).white, game(a, r, k).black)
        BY <1>4
      <4> QED BY <3>1, <4>1, <4>2 DEF Between, Opposite
    <3>3. ASSUME NEW g \in Between(S, p, q) PROVE \E a \in 0..(per - 1) : g = game(a, r, k)
      <4>1. g \in S /\ {g.white, g.black} = {p, q}
        BY DEF Between
      <4>2. PICK a \in 0..(per - 1), s \in 0..(m - 2), l \in 0..(h - 1) : g = game(a, s, l)
        BY <1>2, <4>1
      <4>3. Opposite(m, s, l, p, q)
        <5>1. Opposite(m, s, l, g.white, g.black)
          BY <1>4, <4>2
        <5> QED BY <4>1, <5>1 DEF Opposite
      <4>4. s = r /\ l = k
        BY <1>1, <3>1, <4>3, OppositeOnce
      <4> QED BY <4>2, <4>4
    <3>4. Cardinality(Between(S, p, q)) = per
      <4> DEFINE f == [a \in 0..(per - 1) |-> game(a, r, k)]
      <4>1. f \in [0..(per - 1) -> Between(S, p, q)]
        BY <3>2
      <4>2. \A x, y \in 0..(per - 1) : f[x] = f[y] => x = y
        BY <1>4
      <4>3. \A z \in Between(S, p, q) : \E x \in 0..(per - 1) : f[x] = z
        BY <3>3
      <4>4. IsFiniteSet(0..(per - 1)) /\ Cardinality(0..(per - 1)) = per
        <5>1. 0 \in Int /\ per - 1 \in Int /\ (IF 0 > per - 1 THEN 0 ELSE (per - 1) - 0 + 1) = per
          OBVIOUS
        <5> QED BY <5>1, FS_Interval
      <4> HIDE DEF f
      <4> QED BY <4>1, <4>2, <4>3, <4>4, AsMany
    <3>5. ASSUME NEW g \in Between(S, p, q), NEW l \in Between(S, p, q), l.number = g.number + 1
          PROVE  l.round > g.round /\ l.white # g.white
      <4>1. PICK a \in 0..(per - 1) : g = game(a, r, k)
        BY <3>3
      <4>2. PICK b \in 0..(per - 1) : l = game(b, r, k)
        BY <3>3
      <4>3. b = a + 1
        BY <1>4, <3>5, <4>1, <4>2
      <4>4. l.round > g.round
        <5>1. g.round = r + 1 + a * (m - 1) /\ l.round = r + 1 + (a + 1) * (m - 1)
          BY <1>4, <4>1, <4>2, <4>3
        <5>2. m - 1 \in Nat \ {0} /\ r \in Nat /\ a \in Nat
          BY <1>n
        <5>3. \A x, y, z \in Nat : y # 0 => z + 1 + (x + 1) * y > z + 1 + x * y
          OBVIOUS
        <5> QED BY <5>1, <5>2, <5>3
      <4>5. l.white # g.white
        <5>1. a % 2 # b % 2 /\ a % 2 \in {0, 1} /\ b % 2 \in {0, 1}
          BY <4>3
        <5>2. (r + k) % 2 \in {0, 1}
          OBVIOUS
        <5>3. g.white = Seat(m, r, k) <=> (r + k) % 2 = a % 2
          BY <1>4, <4>1
        <5>4. l.white = Seat(m, r, k) <=> (r + k) % 2 = b % 2
          BY <4>2, <1>w
        <5> QED BY <5>1, <5>2, <5>3, <5>4
      <4> QED BY <4>4, <4>5
    <3> QED BY <2>2, <3>4, <3>5
  <2> QED BY <2>1, <2>2
<1>7. \A p \in 1..n : \A g, l \in S :
          p \in {g.white, g.black} /\ p \in {l.white, l.black} /\ g.round = l.round => g = l
  <2> SUFFICES ASSUME NEW p \in 1..n, NEW g \in S, NEW l \in S, p \in {g.white, g.black},
                      p \in {l.white, l.black}, g.round = l.round
               PROVE  g = l
    OBVIOUS
  <2>1. PICK a \in 0..(per - 1), r \in 0..(m - 2), k \in 0..(h - 1) : g = game(a, r, k)
    BY <1>2
  <2>2. PICK b \in 0..(per - 1), s \in 0..(m - 2), j \in 0..(h - 1) : l = game(b, s, j)
    BY <1>2
  <2>3. a = b /\ r = s
    <3>1. r + 1 + a * (m - 1) = s + 1 + b * (m - 1)
      BY <1>4, <2>1, <2>2
    <3>2. \A x, y, z, w \in Nat, d \in Nat \ {0} :
              z < d /\ w < d /\ z + 1 + x * d = w + 1 + y * d => x = y /\ z = w
      OBVIOUS
    <3>3. m - 1 \in Nat \ {0} /\ r < m - 1 /\ s < m - 1
      BY <1>n
    <3> QED BY <3>1, <3>2, <3>3
  <2>4. Opposite(m, r, k, g.white, g.black) /\ Opposite(m, r, j, l.white, l.black)
    BY <1>4, <2>1, <2>2, <2>3
  <2>5. \E x \in {k, m - 1 - k}, y \in {j, m - 1 - j} : Seat(m, r, x) = Seat(m, r, y)
    BY <2>4 DEF Opposite
  <2>6. \A x \in {k, m - 1 - k, j, m - 1 - j} : x \in 0..(m - 1)
    BY <1>1
  <2>7. k = j \/ k = m - 1 - j
    BY <1>n, <2>5, <2>6, SeatsDiffer
  <2>8. k = j
    BY <1>1, <2>7
  <2> QED BY <2>1, <2>2, <2>3, <2>8
<1> QED BY <1>5, <1>7

Pairs(g, p, q) == {g.white, g.black} = {p, q}

LEMMA HeroGame ==
    ASSUME NEW n \in Nat \ {0, 1}, NEW hero \in 1..n, NEW number \in Nat \ {0}, NEW i \in 1..(n - 1)
    PROVE  /\ GauntletGame(n, hero, number, i).round = (number - 1) * (n - 1) + i
           /\ GauntletGame(n, hero, number, i).number = number
           /\ Pairs(GauntletGame(n, hero, number, i), hero, IF i < hero THEN i ELSE i + 1)
           /\ GauntletGame(n, hero, number, i).white # GauntletGame(n, hero, number, i).black
           /\ GauntletGame(n, hero, number, i).white = hero <=> (number + i) % 2 = 0
<1> DEFINE o == IF i < hero THEN i ELSE i + 1
           colours == IF (number + i) % 2 = 0 THEN <<hero, o>> ELSE <<o, hero>>
           g == Game((number - 1) * (n - 1) + i, 1, colours[1], colours[2], 0, number, "base")
<1>1. o # hero
  OBVIOUS
<1>2. GauntletGame(n, hero, number, i) = g
  BY DEF GauntletGame
<1> HIDE DEF o
<1>3. /\ g.round = (number - 1) * (n - 1) + i /\ g.number = number
      /\ g.white = colours[1] /\ g.black = colours[2]
  BY GameFields
<1> HIDE DEF g
<1>4. CASE (number + i) % 2 = 0
  BY <1>1, <1>2, <1>3, <1>4 DEF Pairs, o
<1>5. CASE (number + i) % 2 # 0
  BY <1>1, <1>2, <1>3, <1>5 DEF Pairs, o
<1> QED BY <1>4, <1>5

LEMMA GauntletGames ==
    ASSUME NEW n \in Nat \ {0, 1}, NEW hero, NEW per \in Nat, NEW g
    PROVE  g \in Gauntlet(n, hero, per) <=>
               \E number \in 1..per, i \in 1..(n - 1) : g = GauntletGame(n, hero, number, i)
<1>1. ASSUME NEW t \in (1..per) \X (1..(n - 1))
      PROVE  \E number \in 1..per, i \in 1..(n - 1) : t[1] = number /\ t[2] = i
  OBVIOUS
<1>2. ASSUME NEW number \in 1..per, NEW i \in 1..(n - 1)
      PROVE  \E t \in (1..per) \X (1..(n - 1)) : t[1] = number /\ t[2] = i
  <2>1. <<number, i>> \in (1..per) \X (1..(n - 1)) /\ <<number, i>>[1] = number /\ <<number, i>>[2] = i
    OBVIOUS
  <2> QED BY <2>1
<1> QED BY <1>1, <1>2 DEF Gauntlet

LEMMA GauntletMeets ==
    ASSUME NEW n \in Nat \ {0, 1}, NEW hero \in 1..n, NEW per \in Nat, NEW S, S = Gauntlet(n, hero, per)
    PROVE  /\ \A p, q \in 1..n :
                 /\ Cardinality(Between(S, p, q)) = IF p # q /\ hero \in {p, q} THEN per ELSE 0
                 /\ \A g, l \in Between(S, p, q) :
                       l.number = g.number + 1 => l.round > g.round /\ l.white # g.white
           /\ \A g, l \in S : g.round = l.round => g = l
<1> DEFINE game(number, i) == GauntletGame(n, hero, number, i)
           other(i) == IF i < hero THEN i ELSE i + 1
<1>1. \A g : g \in S <=> \E number \in 1..per, i \in 1..(n - 1) : g = game(number, i)
  BY GauntletGames
<1>2. ASSUME NEW number \in 1..per, NEW i \in 1..(n - 1)
      PROVE  /\ game(number, i).round = (number - 1) * (n - 1) + i /\ game(number, i).number = number
             /\ {game(number, i).white, game(number, i).black} = {hero, other(i)}
             /\ game(number, i).white # game(number, i).black
             /\ game(number, i).white = hero <=> (number + i) % 2 = 0
  <2>1. number \in Nat \ {0}
    OBVIOUS
  <2>2. Pairs(game(number, i), hero, other(i))
    BY <2>1, HeroGame
  <2>3. /\ game(number, i).round = (number - 1) * (n - 1) + i /\ game(number, i).number = number
        /\ game(number, i).white # game(number, i).black
        /\ game(number, i).white = hero <=> (number + i) % 2 = 0
    BY <2>1, HeroGame
  <2> HIDE DEF game, other
  <2> QED BY <2>2, <2>3 DEF Pairs
<1>3. ASSUME NEW g \in S, NEW l \in S, g.round = l.round PROVE g = l
  <2>1. PICK a \in 1..per, i \in 1..(n - 1) : g = game(a, i)
    BY <1>1
  <2>2. PICK b \in 1..per, j \in 1..(n - 1) : l = game(b, j)
    BY <1>1
  <2> HIDE DEF game
  <2>3. (a - 1) * (n - 1) + i = (b - 1) * (n - 1) + j
    BY <1>2, <1>3, <2>1, <2>2
  <2>4. \A x, y, z, w \in Nat, d \in Nat \ {0} :
            z < d /\ w < d /\ x * d + z + 1 = y * d + w + 1 => x = y /\ z = w
    OBVIOUS
  <2>5. /\ a - 1 \in Nat /\ b - 1 \in Nat /\ i - 1 \in Nat /\ j - 1 \in Nat /\ n - 1 \in Nat \ {0}
        /\ i - 1 < n - 1 /\ j - 1 < n - 1 /\ (i - 1) + 1 = i /\ (j - 1) + 1 = j
    OBVIOUS
  <2>6. (a - 1) * (n - 1) + (i - 1) + 1 = (b - 1) * (n - 1) + (j - 1) + 1
    BY <2>3, <2>5
  <2>7. a - 1 = b - 1 /\ i - 1 = j - 1
    BY <2>4, <2>5, <2>6
  <2>8. a = b /\ i = j
    BY <2>7
  <2> QED BY <2>1, <2>2, <2>8
<1>4. ASSUME NEW p \in 1..n, NEW q \in 1..n
      PROVE  /\ Cardinality(Between(S, p, q)) = IF p # q /\ hero \in {p, q} THEN per ELSE 0
             /\ \A g, l \in Between(S, p, q) :
                    l.number = g.number + 1 => l.round > g.round /\ l.white # g.white
  <2> HIDE DEF game, other
  <2>1. CASE ~ (p # q /\ hero \in {p, q})
    <3>1. Between(S, p, q) = {}
      <4> SUFFICES ASSUME NEW g \in Between(S, p, q) PROVE FALSE
        OBVIOUS
      <4>1. g \in S /\ {g.white, g.black} = {p, q}
        BY DEF Between
      <4>2. g.white # g.black /\ hero \in {g.white, g.black}
        <5>1. PICK number \in 1..per, i \in 1..(n - 1) : g = game(number, i)
          BY <1>1, <4>1
        <5>2. /\ {g.white, g.black} = {hero, other(i)}
              /\ g.white # g.black
          BY <1>2, <5>1
        <5> QED BY <5>2
      <4> QED BY <2>1, <4>1, <4>2
    <3> QED BY <2>1, <3>1, FS_EmptySet
  <2>2. CASE p # q /\ hero \in {p, q}
    <3>1. PICK i \in 1..(n - 1) : {p, q} = {hero, other(i)}
      <4>1. PICK o \in 1..n : {p, q} = {hero, o} /\ o # hero
        BY <2>2
      <4>2. \E i \in 1..(n - 1) : other(i) = o
        <5>1. CASE o < hero
          BY <5>1 DEF other
        <5>2. CASE o > hero
          BY <5>2 DEF other
        <5> QED BY <4>1, <5>1, <5>2
      <4> QED BY <4>1, <4>2
    <3>2. ASSUME NEW a \in 1..per PROVE game(a, i) \in Between(S, p, q)
      BY <1>1, <1>2, <3>1 DEF Between
    <3>3. ASSUME NEW g \in Between(S, p, q) PROVE \E a \in 1..per : g = game(a, i)
      <4>1. g \in S /\ {g.white, g.black} = {p, q}
        BY DEF Between
      <4>2. PICK a \in 1..per, j \in 1..(n - 1) : g = game(a, j)
        BY <1>1, <4>1
      <4>3. {hero, other(j)} = {hero, other(i)} /\ other(j) # hero /\ other(i) # hero
        <5>1. {hero, other(j)} = {hero, other(i)}
          BY <1>2, <3>1, <4>1, <4>2
        <5> QED BY <5>1, <2>2, <3>1
      <4>4. other(j) = other(i)
        BY <4>3
      <4>5. i = j
        BY <4>4 DEF other
      <4> QED BY <4>2, <4>5
    <3>4. Cardinality(Between(S, p, q)) = per
      <4> DEFINE f == [a \in 1..per |-> game(a, i)]
      <4>1. f \in [1..per -> Between(S, p, q)]
        BY <3>2
      <4>2. \A x, y \in 1..per : f[x] = f[y] => x = y
        BY <1>2
      <4>3. \A z \in Between(S, p, q) : \E x \in 1..per : f[x] = z
        BY <3>3
      <4>4. IsFiniteSet(1..per) /\ Cardinality(1..per) = per
        BY FS_Interval
      <4> HIDE DEF f
      <4> QED BY <4>1, <4>2, <4>3, <4>4, AsMany
    <3>5. ASSUME NEW g \in Between(S, p, q), NEW l \in Between(S, p, q), l.number = g.number + 1
          PROVE  l.round > g.round /\ l.white # g.white
      <4>1. PICK a \in 1..per : g = game(a, i)
        BY <3>3
      <4>2. PICK b \in 1..per : l = game(b, i)
        BY <3>3
      <4>3. b = a + 1
        BY <1>2, <3>5, <4>1, <4>2
      <4>4. l.round > g.round
        BY <1>2, <4>1, <4>2, <4>3
      <4>5. l.white # g.white
        BY <1>2, <4>1, <4>2, <4>3
      <4> QED BY <4>4, <4>5
    <3> QED BY <2>2, <3>4, <3>5
  <2> QED BY <2>1, <2>2
<1> QED BY <1>3, <1>4

(* With an even number of opponents as many games as not are played with   *)
(* White, with an odd one those of every other round.                      *)
LEMMA GauntletColours ==
    ASSUME NEW n \in Nat \ {0, 1}, NEW hero \in 1..n, NEW per \in Nat, NEW S, S = Gauntlet(n, hero, per)
    PROVE  /\ IsFiniteSet(S)
           /\ 2 * Cardinality(Whites(S, hero)) - Cardinality(S) \in {-1, 0, 1}
<1> DEFINE game(number, i) == GauntletGame(n, hero, number, i)
           L == n - 1
           P == (1..per) \X (1..L)
           W == Whites(S, hero)
<1>L. L \in Nat \ {0}
  OBVIOUS
<1>1. \A g : g \in S <=> \E number \in 1..per, i \in 1..L : g = game(number, i)
  BY GauntletGames
<1>2. ASSUME NEW number \in 1..per, NEW i \in 1..L
      PROVE  /\ game(number, i) \in S
             /\ game(number, i).round = (number - 1) * L + i
             /\ game(number, i).white = hero <=> (number + i) % 2 = 0
  BY <1>1, HeroGame
<1>3. \A g, l \in S : g.round = l.round => g = l
  BY GauntletMeets
<1>4. ASSUME NEW a \in 1..per, NEW b \in 1..per, NEW i \in 1..L, NEW j \in 1..L,
             game(a, i).round = game(b, j).round
      PROVE  a = b /\ i = j
  <2> HIDE DEF game
  <2>1. (a - 1) * L + i = (b - 1) * L + j
    BY <1>2, <1>4
  <2>2. \A x, y, z, w \in Nat, d \in Nat \ {0} :
            z < d /\ w < d /\ x * d + z + 1 = y * d + w + 1 => x = y /\ z = w
    OBVIOUS
  <2> HIDE DEF L
  <2>3. /\ a - 1 \in Nat /\ b - 1 \in Nat /\ i - 1 \in Nat /\ j - 1 \in Nat
        /\ i - 1 < L /\ j - 1 < L /\ (i - 1) + 1 = i /\ (j - 1) + 1 = j
    BY <1>L
  <2>4. (a - 1) * L + (i - 1) + 1 = (b - 1) * L + (j - 1) + 1
    BY <1>L, <2>1, <2>3
  <2>5. a - 1 = b - 1 /\ i - 1 = j - 1
    BY <1>L, <2>2, <2>3, <2>4
  <2> QED BY <2>5
<1> HIDE DEF game, L
<1>5. /\ IsFiniteSet(P) /\ IsFiniteSet(S)
  <2>1. IsFiniteSet(1..per) /\ IsFiniteSet(1..L)
    BY <1>L, FS_Interval
  <2>2. IsFiniteSet(P)
    BY <2>1, FS_Product
  <2> DEFINE f == [t \in P |-> game(t[1], t[2])]
  <2>3. f \in [P -> S] /\ \A z \in S : \E t \in P : f[t] = z
    <3>1. \A t \in P : t[1] \in 1..per /\ t[2] \in 1..L /\ f[t] = game(t[1], t[2])
      OBVIOUS
    <3>2. ASSUME NEW z \in S PROVE \E t \in P : f[t] = z
      <4>1. PICK a \in 1..per, i \in 1..L : z = game(a, i)
        BY <1>1
      <4>2. <<a, i>> \in P /\ f[<<a, i>>] = game(a, i)
        OBVIOUS
      <4> QED BY <4>1, <4>2
    <3>3. f \in [P -> S]
      BY <1>2, <3>1
    <3> QED BY <3>2, <3>3
  <2> HIDE DEF f
  <2>4. f \in Surjection(P, S)
    BY <2>3 DEF Surjection
  <2> QED BY <2>2, <2>4, FS_Surjection
<1>W. W \in SUBSET S
  BY DEF Whites
<1>6. CASE L % 2 = 0
  <2> DEFINE partner(i) == IF i % 2 = 0 THEN i - 1 ELSE i + 1
             B == S \ W
  <2>1. \A i \in 1..L : /\ partner(i) \in 1..L /\ partner(partner(i)) = i
                        /\ \A a \in 1..per : (a + partner(i)) % 2 = 0 <=> (a + i) % 2 # 0
    BY <1>L, <1>6
  <2> HIDE DEF partner
  <2> DEFINE f == [g \in W |-> LET t == CHOOSE t \in P : g = game(t[1], t[2])
                               IN  game(t[1], partner(t[2]))]
  <2>2. ASSUME NEW g \in S
        PROVE  \E a \in 1..per, i \in 1..L :
                   g = game(a, i) /\ (g \in W => f[g] = game(a, partner(i)))
    <3>1. PICK a \in 1..per, i \in 1..L : g = game(a, i)
      BY <1>1
    <3> DEFINE t == CHOOSE t \in P : g = game(t[1], t[2])
    <3>2. t \in P /\ g = game(t[1], t[2])
      <4>1. <<a, i>> \in P /\ <<a, i>>[1] = a /\ <<a, i>>[2] = i
        OBVIOUS
      <4> QED BY <3>1, <4>1
    <3>4. g \in W => f[g] = game(t[1], partner(t[2]))
      OBVIOUS
    <3> HIDE DEF t, f
    <3>3. t[1] \in 1..per /\ t[2] \in 1..L
      BY <3>2
    <3> QED BY <3>2, <3>3, <3>4
  <2>3. IsFiniteSet(W) /\ IsFiniteSet(B) /\ Cardinality(S) = Cardinality(W) + Cardinality(B)
    <3> HIDE DEF W
    <3>1. W \in SUBSET S /\ S \cap W = W
      BY <1>W
    <3>2. IsFiniteSet(W)
      BY <1>5, <3>1, FS_Subset
    <3>3. IsFiniteSet(B) /\ Cardinality(B) = Cardinality(S) - Cardinality(W)
      <4>1. IsFiniteSet(S)
        BY <1>5
      <4>2. IsFiniteSet(S \ W) /\ Cardinality(S \ W) = Cardinality(S) - Cardinality(S \cap W)
        BY <4>1, FS_Difference
      <4> QED BY <3>1, <4>2
    <3> QED BY <1>5, <3>2, <3>3, FS_CardinalityType
  <2>4. ASSUME NEW a \in 1..per, NEW i \in 1..L
        PROVE  game(a, i) \in W <=> (a + i) % 2 = 0
    BY <1>2 DEF Whites
  <2>5. f \in [W -> B]
    <3>1. ASSUME NEW g \in W PROVE f[g] \in B
      <4>1. g \in S
        BY DEF Whites
      <4>2. PICK a \in 1..per, i \in 1..L : g = game(a, i) /\ f[g] = game(a, partner(i))
        BY <2>2, <4>1
      <4> QED BY <1>2, <2>1, <2>4, <4>2
    <3> QED BY <3>1
  <2> HIDE DEF f
  <2>6. \A x, y \in W : f[x] = f[y] => x = y
    <3> SUFFICES ASSUME NEW x \in W, NEW y \in W, f[x] = f[y] PROVE x = y
      OBVIOUS
    <3>1. PICK a \in 1..per, i \in 1..L : x = game(a, i) /\ f[x] = game(a, partner(i))
      BY <1>W, <2>2
    <3>2. PICK b \in 1..per, j \in 1..L : y = game(b, j) /\ f[y] = game(b, partner(j))
      BY <1>W, <2>2
    <3>3. a = b /\ partner(i) = partner(j)
      <4>1. /\ game(a, partner(i)).round = game(b, partner(j)).round
            /\ partner(i) \in 1..L /\ partner(j) \in 1..L
        BY <2>1, <3>1, <3>2
      <4> QED BY <1>4, <4>1
    <3> QED BY <2>1, <3>1, <3>2, <3>3
  <2>7. ASSUME NEW z \in B PROVE \E x \in W : f[x] = z
    <3>1. PICK a \in 1..per, i \in 1..L : z = game(a, i)
      BY <1>1
    <3>2. game(a, partner(i)) \in W
      BY <2>1, <2>4, <3>1
    <3>3. PICK b \in 1..per, j \in 1..L :
              game(a, partner(i)) = game(b, j) /\ f[game(a, partner(i))] = game(b, partner(j))
      BY <1>W, <2>2, <3>2
    <3>4. b = a /\ j = partner(i)
      <4>1. game(a, partner(i)).round = game(b, j).round /\ partner(i) \in 1..L
        BY <2>1, <3>3
      <4> QED BY <1>4, <4>1
    <3> QED BY <2>1, <3>1, <3>2, <3>3, <3>4
  <2> HIDE DEF f, W, B
  <2>8. Cardinality(B) = Cardinality(W)
    BY <2>3, <2>5, <2>6, <2>7, AsMany
  <2>9. \A x \in Nat : 2 * x - (x + x) = 0
    OBVIOUS
  <2> QED BY <1>5, <2>3, <2>8, <2>9, FS_CardinalityType DEF W
<1>7. CASE L % 2 = 1
  <2> DEFINE N == per * L
             half == (N + 1) \div 2
  <2>1. N \in Nat /\ half \in Nat /\ 2 * half - N \in {0, 1}
    <3>1. N \in Nat
      BY <1>L
    <3> HIDE DEF N
    <3> QED BY <3>1
  <2>2. ASSUME NEW x \in 1..N
        PROVE  \E a \in 1..per, i \in 1..L : (a - 1) * L + i = x
    <3> DEFINE a == (x - 1) \div L
               i == (x - 1) % L
    <3>1. x - 1 \in Nat /\ x - 1 < per * L
      BY <2>1
    <3>2. \A y \in Nat, d \in Nat \ {0} : /\ y \div d \in Nat /\ y % d \in Nat /\ y % d < d
                                          /\ y = (y \div d) * d + (y % d)
      OBVIOUS
    <3>3. a \in Nat /\ i \in Nat /\ i < L /\ x - 1 = a * L + i
      BY <1>L, <3>1, <3>2
    <3>4. \A y, z, d \in Nat : y * d < z * d => y < z
      OBVIOUS
    <3> HIDE DEF a, i
    <3>5. a * L < per * L
      BY <1>L, <3>1, <3>3
    <3>6. a < per
      BY <1>L, <3>3, <3>4, <3>5
    <3>7. a + 1 \in 1..per /\ i + 1 \in 1..L /\ (a + 1) - 1 = a
      BY <1>L, <3>3, <3>6
    <3>8. ((a + 1) - 1) * L + (i + 1) = x
      BY <1>L, <3>1, <3>3, <3>7
    <3> QED BY <3>7, <3>8
  <2>3. ASSUME NEW a \in 1..per, NEW i \in 1..L
        PROVE  /\ (a - 1) * L + i \in 1..N
               /\ (a + i) % 2 = 0 <=> ((a - 1) * L + i) % 2 = 1
    <3>1. PICK e \in Nat : L = 2 * e + 1
      BY <1>L, <1>7
    <3>2. PICK y \in Nat : y = (a - 1) * e
      OBVIOUS
    <3>3. (a - 1) * L = 2 * y + (a - 1)
      BY <3>1, <3>2
    <3>4. (a + i) % 2 = 0 <=> (2 * y + (a - 1) + i) % 2 = 1
      BY <1>L
    <3>5. (a - 1) * L + i \in 1..N
      BY <1>L
    <3> QED BY <3>3, <3>4, <3>5
  <2> HIDE DEF N, half
  <2>4. Cardinality(S) = N
    <3> DEFINE f == [g \in S |-> g.round]
    <3>1. f \in [S -> 1..N]
      <4> SUFFICES ASSUME NEW g \in S PROVE g.round \in 1..N
        OBVIOUS
      <4>1. PICK a \in 1..per, i \in 1..L : g = game(a, i)
        BY <1>1
      <4>2. g.round = (a - 1) * L + i
        BY <1>2, <4>1
      <4> QED BY <2>3, <4>2
    <3>2. \A z \in 1..N : \E g \in S : f[g] = z
      BY <1>2, <2>2
    <3>3. \A g, l \in S : f[g] = f[l] => g = l
      BY <1>3
    <3> HIDE DEF f, P
    <3>4. Cardinality(1..N) = Cardinality(S)
      <4>1. IsFiniteSet(S)
        BY <1>5
      <4> DEFINE T == 1..N
      <4>2. f \in [S -> T] /\ \A z \in T : \E g \in S : f[g] = z
        BY <3>1, <3>2
      <4> HIDE DEF T
      <4>3. Cardinality(T) = Cardinality(S)
        BY <3>3, <4>1, <4>2, AsMany
      <4> QED BY <4>3 DEF T
    <3>5. Cardinality(1..N) = N
      BY <2>1, FS_Interval
    <3> QED BY <3>4, <3>5
  <2>5. Cardinality(W) = half
    <3> DEFINE f == [g \in W |-> (g.round + 1) \div 2]
    <3>1. \A g \in W : g \in S /\ g.round \in 1..N /\ g.round % 2 = 1
      <4> SUFFICES ASSUME NEW g \in W PROVE g \in S /\ g.round \in 1..N /\ g.round % 2 = 1
        OBVIOUS
      <4>1. g \in S /\ g.white = hero
        BY DEF Whites
      <4>2. PICK a \in 1..per, i \in 1..L : g = game(a, i)
        BY <1>1, <4>1
      <4>3. (a + i) % 2 = 0 /\ g.round = (a - 1) * L + i
        BY <1>2, <4>1, <4>2
      <4> QED BY <2>3, <4>1, <4>3
    <3>2. f \in [W -> 1..half]
      BY <2>1, <3>1 DEF half
    <3>3. \A g, l \in W : f[g] = f[l] => g = l
      BY <1>3, <3>1
    <3>4. ASSUME NEW z \in 1..half PROVE \E g \in W : f[g] = z
      <4>1. 2 * z - 1 \in 1..N /\ (2 * z - 1) % 2 = 1 /\ ((2 * z - 1) + 1) \div 2 = z
        BY <2>1
      <4>2. PICK a \in 1..per, i \in 1..L : (a - 1) * L + i = 2 * z - 1
        BY <2>2, <4>1
      <4>3. game(a, i) \in W /\ game(a, i).round = 2 * z - 1
        BY <1>2, <2>3, <4>1, <4>2 DEF Whites
      <4> QED BY <4>1, <4>3
    <3>5. IsFiniteSet(W)
      BY <1>5, FS_Subset DEF Whites
    <3> HIDE DEF f, W
    <3>6. Cardinality(1..half) = Cardinality(W)
      BY <3>2, <3>3, <3>4, <3>5, AsMany
    <3>7. Cardinality(1..half) = half
      BY <2>1, FS_Interval
    <3> QED BY <3>6, <3>7
  <2> QED BY <1>5, <2>1, <2>4, <2>5
<1> QED
  BY <1>L, <1>6, <1>7

LEMMA RoundRobinFinite ==
    ASSUME NEW n \in Nat \ {0, 1}, NEW per \in Nat
    PROVE  IsFiniteSet(RoundRobin(n, per))
<1> DEFINE S == RoundRobin(n, per)
           m == Seats(n)
           P == (0..(per - 1)) \X ((0..(m - 2)) \X (0..(m \div 2 - 1)))
           f == [t \in P |-> RoundRobinGame(n, t[1], t[2][1], t[2][2])]
           T == {f[t] : t \in P}
<1>1. m \in Nat
  BY SeatsAre
<1>2. IsFiniteSet(P)
  <2>1. m \div 2 - 1 \in Int /\ m - 2 \in Int /\ per - 1 \in Int
    BY <1>1
  <2>2. IsFiniteSet(0..(per - 1)) /\ IsFiniteSet(0..(m - 2)) /\ IsFiniteSet(0..(m \div 2 - 1))
    BY <2>1, FS_Interval
  <2> QED BY <2>2, FS_Product
<1>3. IsFiniteSet(T)
  <2>1. f \in Surjection(P, T)
    BY DEF Surjection
  <2> HIDE DEF f, P, T
  <2> QED BY <1>2, <2>1, FS_Surjection
<1>4. S \in SUBSET T
  <2> SUFFICES ASSUME NEW g \in S PROVE g \in T
    OBVIOUS
  <2>1. PICK c \in 0..(per - 1), r \in 0..(m - 2) : \E k \in Tables(n, r) : g = RoundRobinGame(n, c, r, k)
    BY RoundRobinGames
  <2>2. PICK k \in 0..(m \div 2 - 1) : g = RoundRobinGame(n, c, r, k)
    BY <2>1 DEF Tables
  <2>3. <<c, <<r, k>>>> \in P /\ f[<<c, <<r, k>>>>] = g
    BY <2>2
  <2> QED BY <2>3
<1> QED BY <1>3, <1>4, FS_Subset

-----------------------------------------------------------------------------
(* A row of games, and the row before its game was played.                 *)
IsRow(g) ==
    g = [round |-> g.round, pair |-> g.pair, white |-> g.white, black |-> g.black,
         match |-> g.match, number |-> g.number, kind |-> g.kind, result |-> g.result]
Fresh(g) == [g EXCEPT !.result = Unplayed]

(* The rows of F, with results.                                            *)
Played(F, S) ==
    /\ \A g \in S : IsRow(g) /\ Fresh(g) \in F
    /\ \A f \in F : \E g \in S : Fresh(g) = f
    /\ \A g, h \in S : Fresh(g) = Fresh(h) => g = h

LEMMA RowSteps ==
    ASSUME NEW g, IsRow(g), NEW result
    PROVE  /\ IsRow([g EXCEPT !.result = result])
           /\ Fresh([g EXCEPT !.result = result]) = Fresh(g)
           /\ IsRow(Fresh(g)) /\ Fresh(g).round = g.round /\ Fresh(g).number = g.number
           /\ Fresh(g).white = g.white /\ Fresh(g).black = g.black
<1>1. ASSUME NEW a, NEW b, NEW c, NEW d, NEW e, NEW n, NEW k, NEW r, NEW s,
             g = [round |-> a, pair |-> b, white |-> c, black |-> d,
                  match |-> e, number |-> n, kind |-> k, result |-> r]
      PROVE  [g EXCEPT !.result = s] = [round |-> a, pair |-> b, white |-> c, black |-> d,
                                        match |-> e, number |-> n, kind |-> k, result |-> s]
  BY <1>1
<1>2. \A s : [g EXCEPT !.result = s] =
                 [round |-> g.round, pair |-> g.pair, white |-> g.white, black |-> g.black,
                  match |-> g.match, number |-> g.number, kind |-> g.kind, result |-> s]
  BY <1>1 DEF IsRow
<1>3. \A s : /\ [g EXCEPT !.result = s].round = g.round /\ [g EXCEPT !.result = s].pair = g.pair
             /\ [g EXCEPT !.result = s].white = g.white /\ [g EXCEPT !.result = s].black = g.black
             /\ [g EXCEPT !.result = s].match = g.match /\ [g EXCEPT !.result = s].number = g.number
             /\ [g EXCEPT !.result = s].kind = g.kind /\ [g EXCEPT !.result = s].result = s
  BY <1>2
<1>4. \A s : IsRow([g EXCEPT !.result = s])
  BY <1>2, <1>3 DEF IsRow
<1>5. Fresh([g EXCEPT !.result = result]) = Fresh(g)
  <2> DEFINE l == [g EXCEPT !.result = result]
  <2>1. [l EXCEPT !.result = Unplayed] =
            [round |-> l.round, pair |-> l.pair, white |-> l.white, black |-> l.black,
             match |-> l.match, number |-> l.number, kind |-> l.kind, result |-> Unplayed]
    <3>1. l = [round |-> l.round, pair |-> l.pair, white |-> l.white, black |-> l.black,
               match |-> l.match, number |-> l.number, kind |-> l.kind, result |-> l.result]
      BY <1>4 DEF IsRow
    <3> HIDE DEF l
    <3> QED BY <3>1
  <2> QED BY <1>2, <1>3, <2>1 DEF Fresh
<1> QED BY <1>3, <1>4, <1>5 DEF Fresh

LEMMA GameIsRow ==
    ASSUME NEW round, NEW pair, NEW a, NEW b, NEW match, NEW number, NEW kind,
           NEW g, g = Game(round, pair, a, b, match, number, kind)
    PROVE  IsRow(g) /\ Fresh(g) = g
BY GameFields DEF Game, IsRow, Fresh

(* A result changes nothing that the pairings are about.                   *)
LEMMA ResultsDoNotMatter ==
    ASSUME NEW F, NEW S, Played(F, S), IsFiniteSet(F)
    PROVE  /\ IsFiniteSet(S) /\ Cardinality(S) = Cardinality(F)
           /\ \A p, q : Cardinality(Between(S, p, q)) = Cardinality(Between(F, p, q))
           /\ \A p : Cardinality(Whites(S, p)) = Cardinality(Whites(F, p))
<1> DEFINE into(T) == [f \in T |-> CHOOSE g \in S : Fresh(g) = f]
<1>1. ASSUME NEW f \in F
      PROVE  (CHOOSE g \in S : Fresh(g) = f) \in S /\ Fresh(CHOOSE g \in S : Fresh(g) = f) = f
  BY DEF Played
<1>2. ASSUME NEW T \in SUBSET F, NEW U \in SUBSET S, \A g \in S : Fresh(g) \in T <=> g \in U
      PROVE  IsFiniteSet(U) /\ Cardinality(U) = Cardinality(T)
  <2>1. IsFiniteSet(T)
    BY FS_Subset
  <2>2. \A f \in T : into(T)[f] \in S /\ Fresh(into(T)[f]) = f
    BY <1>1
  <2> DEFINE h == into(T)
  <2>3. h \in [T -> U]
    BY <1>2, <2>2
  <2>4. \A x, y \in T : h[x] = h[y] => x = y
    BY <2>2
  <2>5. \A z \in U : \E x \in T : h[x] = z
    <3> SUFFICES ASSUME NEW z \in U PROVE h[Fresh(z)] = z /\ Fresh(z) \in T
      OBVIOUS
    <3> QED BY <1>2, <2>2 DEF Played
  <2> HIDE DEF h
  <2> QED BY <2>1, <2>3, <2>4, <2>5, AsMany
<1>3. \A g \in S : Fresh(g) \in F /\ Fresh(g).white = g.white /\ Fresh(g).black = g.black
  BY RowSteps DEF Played
<1>4. IsFiniteSet(S) /\ Cardinality(S) = Cardinality(F)
  BY <1>2, <1>3
<1>5. ASSUME NEW p, NEW q PROVE Cardinality(Between(S, p, q)) = Cardinality(Between(F, p, q))
  BY <1>3, <1>2 DEF Between
<1>6. ASSUME NEW p PROVE Cardinality(Whites(S, p)) = Cardinality(Whites(F, p))
  BY <1>3, <1>2 DEF Whites
<1> QED BY <1>4, <1>5, <1>6

-----------------------------------------------------------------------------
(* No format but the Swiss and the knockout adds games later, every game   *)
(* ends in one transaction at a time, and a row is replaced by its result. *)
Fixed == config.format \in {"round robin", "gauntlet"}

PlansNothing ==
    /\ \A t \in transactions : /\ t.plan.games = {} /\ t.plan.ties = {}
                               /\ t.game = NoGame \/ t.game \in games
    /\ \A t, u \in transactions : t.game = u.game => t = u

FixedInv ==
    /\ config \in Configs
    /\ status = "scheduled" => games = {} /\ matches = {} /\ transactions = {}
    /\ Fixed => PlansNothing
    /\ Fixed /\ status # "scheduled" => Played(First(config).games, games)

LEMMA RoundRobinRows ==
    ASSUME NEW n \in Nat \ {0, 1}, NEW per \in Nat, NEW g \in RoundRobin(n, per)
    PROVE  IsRow(g) /\ Fresh(g) = g
<1>1. \E a, r, k : g = RoundRobinGame(n, a, r, k)
  BY RoundRobinGames
<1>2. \E a, b, x, y, d : g = Game(a, b, x, y, 0, d, "base")
  BY <1>1 DEF RoundRobinGame
<1> QED BY <1>2, GameIsRow

LEMMA GauntletRows ==
    ASSUME NEW n \in Nat \ {0, 1}, NEW hero, NEW per \in Nat, NEW g \in Gauntlet(n, hero, per)
    PROVE  IsRow(g) /\ Fresh(g) = g
BY GauntletGames, GameIsRow DEF GauntletGame

LEMMA FixedGames ==
    ASSUME NEW c \in Configs, c.format \in {"round robin", "gauntlet"}
    PROVE  Played(First(c).games, First(c).games)
<1>0. c.n \in Nat \ {0, 1} /\ c.per \in Nat /\ c.hero \in 1..c.n
  BY RoundsAssumption
<1>1. ASSUME NEW g \in First(c).games PROVE IsRow(g) /\ Fresh(g) = g
  BY <1>0, RoundRobinRows, GauntletRows DEF First
<1> QED BY <1>1 DEF Played

LEMMA FixedInitially == Init => FixedInv
BY DEF Init, FixedInv, PlansNothing

LEMMA FixedPlans ==
    ASSUME Fixed, NEW view
    PROVE  Plan(config, view, matches).games = {} /\ Plan(config, view, matches).ties = {}
BY DEF Fixed, Plan, Nothing

LEMMA FixedInductive == FixedInv /\ [Next]_vars => FixedInv'
<1> SUFFICES ASSUME FixedInv, [Next]_vars PROVE FixedInv'
  OBVIOUS
<1> USE DEF FixedInv
<1>f. UNCHANGED config => Fixed' = Fixed
  BY DEF Fixed
<1>1. CASE Prepare
  BY <1>1, FixedGames, <1>f DEF Prepare, Fixed, PlansNothing
<1>2. ASSUME NEW g \in games, NEW result, FinishBegins(g, result) PROVE FixedInv'
  <2>1. PICK t : /\ transactions' = transactions \cup {t}
                 /\ t.game = g /\ \E view : t.plan = Plan(config, view, matches)
    <3>1. PICK view, plan :
              /\ plan = Plan(config, view, matches)
              /\ transactions' = transactions \cup {[game |-> g, result |-> result, plan |-> plan]}
      BY <1>2 DEF FinishBegins
    <3> DEFINE new == [game |-> g, result |-> result, plan |-> plan]
    <3>2. new.game = g /\ new.plan = plan
      OBVIOUS
    <3>3. transactions' = transactions \cup {new}
      BY <3>1
    <3> HIDE DEF new
    <3> QED BY <3>1, <3>2, <3>3
  <2>2. Fixed => t.plan.games = {} /\ t.plan.ties = {}
    BY <2>1, FixedPlans
  <2>3. \A u \in transactions : u.game # t.game
    BY <1>2, <2>1 DEF FinishBegins, BeingWritten
  <2>4. UNCHANGED <<config, status, games, matches>> /\ status = "running"
    BY <1>2 DEF FinishBegins
  <2>5. Fixed => PlansNothing'
    BY <2>1, <2>2, <2>3, <2>4 DEF PlansNothing
  <2> QED BY <1>f, <2>4, <2>5
<1>3. CASE CycleBegins
  <2>1. PICK t : /\ transactions' = transactions \cup {t}
                 /\ t.game = NoGame /\ t.plan = Plan(config, games, matches)
    <3>1. PICK plan :
              /\ plan = Plan(config, games, matches)
              /\ transactions' =
                     transactions \cup {[game |-> NoGame, result |-> Unplayed, plan |-> plan]}
      BY <1>3 DEF CycleBegins
    <3> DEFINE new == [game |-> NoGame, result |-> Unplayed, plan |-> plan]
    <3>2. new.game = NoGame /\ new.plan = plan
      OBVIOUS
    <3>3. transactions' = transactions \cup {new}
      BY <3>1
    <3> HIDE DEF new
    <3> QED BY <3>1, <3>2, <3>3
  <2>2. Fixed => t.plan.games = {} /\ t.plan.ties = {}
    BY <2>1, FixedPlans
  <2>3. \A u \in transactions : u.game # t.game
    BY <1>3, <2>1 DEF CycleBegins, BeingWritten
  <2>4. UNCHANGED <<config, status, games, matches>> /\ status = "running"
    BY <1>3 DEF CycleBegins
  <2>5. Fixed => PlansNothing'
    BY <2>1, <2>2, <2>3, <2>4 DEF PlansNothing
  <2> QED BY <1>f, <2>4, <2>5
<1>4. ASSUME NEW t \in transactions, Commit(t) PROVE FixedInv'
  <2>1. UNCHANGED config /\ transactions' = transactions \ {t} /\ status' \in {"finished", status}
    BY <1>4 DEF Commit
  <2>2. status # "scheduled" /\ status' # "scheduled"
    BY <1>4, <2>1
  <2>3. Fixed => games' = IF t.game = NoGame THEN games ELSE With(games, t.game, t.result)
    <3>1. Fixed => Additions(t.plan).games = {} /\ t.plan.ties = {}
      BY <1>4 DEF PlansNothing, Fixed, Additions
    <3> QED BY <1>4, <3>1 DEF Commit
  <2>4. Fixed => PlansNothing'
    <3> SUFFICES ASSUME Fixed PROVE PlansNothing'
      OBVIOUS
    <3>1. \A u \in transactions' : u.game = NoGame \/ u.game \in games'
      BY <2>1, <2>3 DEF PlansNothing, With
    <3> QED BY <2>1, <3>1 DEF PlansNothing
  <2>5. Fixed => Played(First(config).games, games')
    <3> SUFFICES ASSUME Fixed, t.game # NoGame PROVE Played(First(config).games, games')
      BY <2>2, <2>3
    <3>1. Played(First(config).games, games) /\ t.game \in games
      BY <2>2 DEF PlansNothing
    <3> DEFINE new == [t.game EXCEPT !.result = t.result]
    <3>2. IsRow(new) /\ Fresh(new) = Fresh(t.game)
      BY <3>1, RowSteps DEF Played
    <3>3. games' = (games \ {t.game}) \cup {new}
      BY <2>3 DEF With
    <3> HIDE DEF new
    <3> QED BY <3>1, <3>2, <3>3 DEF Played
  <2> QED BY <1>f, <2>1, <2>2, <2>4, <2>5
<1>5. ASSUME NEW t \in transactions, RollBack(t) PROVE FixedInv'
  BY <1>5, <1>f DEF RollBack, PlansNothing
<1>6. CASE UNCHANGED vars
  BY <1>6 DEF vars, Fixed, PlansNothing
<1> QED BY <1>1, <1>2, <1>3, <1>4, <1>5, <1>6 DEF Next, GameEnds, Commits, RollsBack

(* Whatever has been played, the games are those of the pairings.          *)
LEMMA FixedMeets == FixedInv => EverybodyMeets
<1> SUFFICES ASSUME FixedInv, Fixed, status # "scheduled" PROVE EverybodyMeets
  BY DEF EverybodyMeets, Fixed
<1> DEFINE F == First(config).games
           n == config.n
           per == config.per
           hero == config.hero
           robin == config.format = "round robin"
<1>0. n \in Nat \ {0, 1} /\ per \in Nat /\ hero \in 1..n
  BY RoundsAssumption DEF FixedInv
<1>1. Played(F, games)
  BY DEF FixedInv
<1>2. IF robin THEN F = RoundRobin(n, per) ELSE F = Gauntlet(n, hero, per)
  BY DEF First, Fixed
<1>3. config.format = "gauntlet" <=> ~robin
  BY DEF Fixed
<1> HIDE DEF F, n, per, hero, robin
<1>4. /\ \A p, q \in 1..n :
            /\ Cardinality(Between(F, p, q)) = IF p # q /\ (robin \/ hero \in {p, q}) THEN per ELSE 0
            /\ \A g, l \in Between(F, p, q) :
                  l.number = g.number + 1 => l.round > g.round /\ l.white # g.white
      /\ \A p \in 1..n : \A g, l \in F :
            p \in {g.white, g.black} /\ p \in {l.white, l.black} /\ g.round = l.round => g = l
  BY <1>0, <1>2, RoundRobinMeets, GauntletMeets
<1>5. ~robin => 2 * Cardinality(Whites(F, hero)) - Cardinality(F) \in {-1, 0, 1}
  BY <1>0, <1>2, GauntletColours
<1>6. IsFiniteSet(F)
  BY <1>0, <1>2, GauntletColours, RoundRobinFinite
<1>7. \A g \in games : /\ Fresh(g) \in F /\ Fresh(g).round = g.round /\ Fresh(g).number = g.number
                       /\ Fresh(g).white = g.white /\ Fresh(g).black = g.black
  BY <1>1, RowSteps DEF Played
<1>8. ASSUME NEW p \in 1..n, NEW q \in 1..n
      PROVE  /\ Cardinality(Between(games, p, q))
                    = IF p # q /\ (robin \/ hero \in {p, q}) THEN per ELSE 0
             /\ \A g, l \in Between(games, p, q) :
                    l.number = g.number + 1 => l.round > g.round /\ l.white # g.white
  <2>1. \A g \in Between(games, p, q) : g \in games /\ Fresh(g) \in Between(F, p, q)
    BY <1>7 DEF Between
  <2>2. ASSUME NEW g \in Between(games, p, q), NEW l \in Between(games, p, q), l.number = g.number + 1
        PROVE  l.round > g.round /\ l.white # g.white
    BY <1>7, <2>1, <2>2, <1>4
  <2> QED BY <1>1, <1>4, <1>6, <2>2, ResultsDoNotMatter
<1>9. ASSUME NEW round, NEW p \in 1..n
      PROVE  Cardinality(GamesOf(RoundOf(round), p)) <= 1
  <2>1. ASSUME NEW g \in GamesOf(RoundOf(round), p), NEW l \in GamesOf(RoundOf(round), p) PROVE g = l
    BY <1>4, <1>7, <1>1 DEF GamesOf, RoundOf, Played
  <2> QED BY <2>1, AtMostOne
<1>10. ~robin => 2 * Cardinality(Whites(games, hero)) - Cardinality(games) \in {-1, 0, 1}
  BY <1>1, <1>5, <1>6, ResultsDoNotMatter
<1> QED BY <1>3, <1>8, <1>9, <1>10
        DEF EverybodyMeets, Between, Whites, Players, n, per, hero, robin

(* Round robin and gauntlet: every pairing is played as often as the       *)
(* options say and with alternating colours, nobody plays twice in a       *)
(* round, and the hero of a gauntlet has both colours equally often.       *)
THEOREM PairingsMeet == Spec => []EverybodyMeets
<1> QED BY FixedInitially, FixedInductive, FixedMeets, PTL DEF Spec

-----------------------------------------------------------------------------
(* Rankings.  The ranks of a set are ordered when they are tuples of three *)
(* numbers and no two share the last.                                      *)
Triples(S, rank) ==
    /\ \A p \in S : /\ rank[p] = <<rank[p][1], rank[p][2], rank[p][3]>>
                    /\ rank[p][1] \in Int /\ rank[p][2] \in Int /\ rank[p][3] \in Int
    /\ \A p, q \in S : rank[p][3] = rank[q][3] => p = q

Behind(S, rank, p) == {q \in S : Before(rank[q], rank[p])}

LEMMA BeforeTriple ==
    ASSUME NEW a, NEW b, NEW c, NEW x, NEW y, NEW z
    PROVE  Before(<<a, b, c>>, <<x, y, z>>) <=> \/ a < x
                                                \/ a = x /\ b < y
                                                \/ a = x /\ b = y /\ c < z
BY DEF Before

LEMMA Order ==
    ASSUME NEW S, NEW rank, Triples(S, rank)
    PROVE  /\ \A p \in S : ~ Before(rank[p], rank[p])
           /\ \A p, q \in S : p = q \/ Before(rank[p], rank[q]) \/ Before(rank[q], rank[p])
           /\ \A p, q, r \in S : Before(rank[p], rank[q]) /\ Before(rank[q], rank[r])
                                     => Before(rank[p], rank[r])
<1>1. ASSUME NEW p \in S, NEW q \in S
      PROVE  Before(rank[p], rank[q]) <=>
                 \/ rank[p][1] < rank[q][1]
                 \/ rank[p][1] = rank[q][1] /\ rank[p][2] < rank[q][2]
                 \/ rank[p][1] = rank[q][1] /\ rank[p][2] = rank[q][2] /\ rank[p][3] < rank[q][3]
  <2> DEFINE a == <<rank[p][1], rank[p][2], rank[p][3]>>
             b == <<rank[q][1], rank[q][2], rank[q][3]>>
  <2>1. Before(a, b) <=>
            \/ rank[p][1] < rank[q][1]
            \/ rank[p][1] = rank[q][1] /\ rank[p][2] < rank[q][2]
            \/ rank[p][1] = rank[q][1] /\ rank[p][2] = rank[q][2] /\ rank[p][3] < rank[q][3]
    BY BeforeTriple
  <2>2. rank[p] = a /\ rank[q] = b
    BY DEF Triples
  <2> HIDE DEF a, b
  <2> QED BY <2>1, <2>2
<1>2. \A p \in S : rank[p][1] \in Int /\ rank[p][2] \in Int /\ rank[p][3] \in Int
  BY DEF Triples
<1>3. \A p, q \in S : rank[p][3] = rank[q][3] => p = q
  BY DEF Triples
<1> QED BY <1>1, <1>2, <1>3

(* The number of those before a player is the player's place.              *)
LEMMA Places ==
    ASSUME NEW S, IsFiniteSet(S), NEW rank, Triples(S, rank)
    PROVE  /\ \A p \in S : Cardinality(Behind(S, rank, p)) \in 0..(Cardinality(S) - 1)
           /\ \A p, q \in S : Cardinality(Behind(S, rank, p)) = Cardinality(Behind(S, rank, q))
                                  => p = q
           /\ \A i \in 0..(Cardinality(S) - 1) : \E p \in S : Cardinality(Behind(S, rank, p)) = i
<1> DEFINE N == Cardinality(S)
           T == 0..(N - 1)
           place == [p \in S |-> Cardinality(Behind(S, rank, p))]
<1>0. N \in Nat
  BY FS_CardinalityType
<1>1. ASSUME NEW p \in S PROVE place[p] \in T /\ IsFiniteSet(Behind(S, rank, p))
  BY Order, FS_Subset, FS_CardinalityType, <1>0 DEF Behind
<1>2. ASSUME NEW p \in S, NEW q \in S, Before(rank[p], rank[q]) PROVE place[p] # place[q]
  <2>1. Behind(S, rank, p) \in SUBSET Behind(S, rank, q)
    BY <1>2, Order DEF Behind
  <2>2. p \in Behind(S, rank, q) /\ p \notin Behind(S, rank, p)
    BY <1>2, Order DEF Behind
  <2> QED BY <1>1, <2>1, <2>2, FS_Subset
<1>3. \A p, q \in S : place[p] = place[q] => p = q
  BY <1>2, Order
<1>4. IsFiniteSet(T) /\ Cardinality(T) = N
  <2>1. IsFiniteSet(T) /\ Cardinality(T) = IF 0 > N - 1 THEN 0 ELSE N - 1 - 0 + 1
    <3>1. 0 \in Int /\ N - 1 \in Int
      BY <1>0
    <3> HIDE DEF N
    <3> QED BY <3>1, FS_Interval
  <2> HIDE DEF N, T
  <2> QED BY <1>0, <2>1
<1>5. place \in Injection(S, T)
  BY <1>1, <1>3 DEF Injection, IsInjective
<1>6. place \in Surjection(S, T)
  <2> HIDE DEF T, place
  <2> QED BY <1>4, <1>5, FS_Injection
<1>7. \A i \in T : \E p \in S : place[p] = i
  <2> HIDE DEF T, place
  <2> QED BY <1>6 DEF Surjection
<1> QED BY <1>1, <1>3, <1>7

LEMMA RankingPlaces ==
    ASSUME NEW S, IsFiniteSet(S), NEW rank, Triples(S, rank)
    PROVE  /\ DOMAIN Ranking(S, rank) = 1..Cardinality(S) /\ Ranking(S, rank) \in Seq(S)
           /\ \A i \in 1..Cardinality(S) : Ranking(S, rank)[i] \in S
           /\ \A i, j \in 1..Cardinality(S) : Ranking(S, rank)[i] = Ranking(S, rank)[j] => i = j
           /\ \A p \in S : \E i \in 1..Cardinality(S) : Ranking(S, rank)[i] = p
<1> DEFINE N == Cardinality(S)
           at(i) == CHOOSE p \in S : Cardinality(Behind(S, rank, p)) = i - 1
<1>0. N \in Nat
  BY FS_CardinalityType
<1>1. Ranking(S, rank) = [i \in 1..N |-> at(i)]
  BY DEF Ranking, Behind
<1>2. \A i \in 1..N : at(i) \in S /\ Cardinality(Behind(S, rank, at(i))) = i - 1
  <2> SUFFICES ASSUME NEW i \in 1..N PROVE at(i) \in S /\ Cardinality(Behind(S, rank, at(i))) = i - 1
    OBVIOUS
  <2>1. i - 1 \in 0..(N - 1)
    BY <1>0
  <2>2. \E p \in S : Cardinality(Behind(S, rank, p)) = i - 1
    BY <2>1, Places
  <2> QED BY <2>2
<1> HIDE DEF at
<1>3. \A p \in S : \E i \in 1..N : at(i) = p
  <2> SUFFICES ASSUME NEW p \in S PROVE \E i \in 1..N : at(i) = p
    OBVIOUS
  <2> DEFINE c == Cardinality(Behind(S, rank, p))
  <2>1. c \in 0..(N - 1)
    BY Places
  <2>2. c + 1 \in 1..N /\ (c + 1) - 1 = c
    BY <1>0, <2>1
  <2> HIDE DEF c
  <2>3. Cardinality(Behind(S, rank, at(c + 1))) = Cardinality(Behind(S, rank, p)) /\ at(c + 1) \in S
    BY <1>2, <2>2 DEF c
  <2> QED BY <2>2, <2>3, Places
<1>4. \A i, j \in 1..N : at(i) = at(j) => i = j
  BY <1>0, <1>2
<1> HIDE DEF N
<1>5. Ranking(S, rank) \in Seq(S)
  BY <1>0, <1>1, <1>2
<1> QED BY <1>1, <1>2, <1>3, <1>4, <1>5 DEF N

(* There is a first and there is a last.                                   *)
LEMMA FirstAndLast ==
    ASSUME NEW S, IsFiniteSet(S), S # {}, NEW rank, Triples(S, rank)
    PROVE  /\ \E p \in S : \A q \in S \ {p} : Before(rank[p], rank[q])
           /\ \E p \in S : \A q \in S \ {p} : Before(rank[q], rank[p])
<1> DEFINE N == Cardinality(S)
<1>0. N \in Nat /\ N # 0
  BY FS_CardinalityType, FS_EmptySet
<1>1. 0 \in 0..(N - 1) /\ N - 1 \in 0..(N - 1)
  BY <1>0
<1>2. PICK p \in S : Cardinality(Behind(S, rank, p)) = 0
  BY <1>1, Places
<1>3. PICK l \in S : Cardinality(Behind(S, rank, l)) = N - 1
  BY <1>1, Places
<1>4. IsFiniteSet(Behind(S, rank, p)) /\ IsFiniteSet(Behind(S, rank, l))
  BY FS_Subset DEF Behind
<1>5. Behind(S, rank, p) = {}
  BY <1>2, <1>4, FS_EmptySet
<1>6. Behind(S, rank, l) = S \ {l}
  <2>1. Behind(S, rank, l) \in SUBSET (S \ {l})
    BY Order DEF Behind
  <2>2. IsFiniteSet(S \ {l}) /\ Cardinality(S \ {l}) = N - 1
    BY FS_RemoveElement
  <2> QED BY <1>3, <2>1, <2>2, FS_Subset
<1> QED BY <1>5, <1>6, Order DEF Behind

-----------------------------------------------------------------------------
(* Induction over the naturals, with the set G of those that satisfy it.   *)
LEMMA Induction ==
    ASSUME NEW G, 0 \in G, \A n \in Nat : n \in G => n + 1 \in G
    PROVE  \A n \in Nat : n \in G
<1> DEFINE R == OpToRel(<, Nat)
           T == {n \in Nat : n \notin G}
<1>1. IsWellFoundedOn(R, Nat)
  BY NatLessThanWellFounded
<1>2. \A x, y \in Nat : <<x, y>> \in R <=> x < y
  BY DEF OpToRel
<1> HIDE DEF R
<1>3. ASSUME T # {} PROVE FALSE
  <2>0. T \subseteq Nat
    OBVIOUS
  <2>1. PICK x \in T : \A y \in T : ~ (<<y, x>> \in R)
    <3> HIDE DEF T
    <3> QED BY <1>1, <1>3, <2>0, WFMin
  <2>2. x \in Nat /\ x # 0
    OBVIOUS
  <2>3. x - 1 \in Nat /\ x - 1 < x /\ (x - 1) + 1 = x
    BY <2>2
  <2>4. x - 1 \notin G
    BY <2>3
  <2>5. <<x - 1, x>> \in R
    BY <1>2, <2>2, <2>3
  <2> QED BY <2>1, <2>3, <2>4, <2>5
<1> QED BY <1>3

(* The same over the subsets of a finite set.                              *)
LEMMA SubsetInduction ==
    ASSUME NEW S, IsFiniteSet(S), NEW G,
           \A T \in SUBSET S : (\A U \in SUBSET T : U # T => U \in G) => T \in G
    PROVE  \A T \in SUBSET S : T \in G
<1> DEFINE R == StrictSubsetOrdering(S)
           B == {T \in SUBSET S : T \notin G}
<1>1. IsWellFoundedOn(R, SUBSET S)
  BY FS_StrictSubsetOrderingWellFounded, FS_FiniteSubsetsOfFinite
<1>2. \A u, s \in SUBSET S : <<u, s>> \in R <=> u \subseteq s /\ u # s
  BY DEF StrictSubsetOrdering
<1> HIDE DEF R
<1>3. ASSUME B # {} PROVE FALSE
  <2>1. B \subseteq SUBSET S
    OBVIOUS
  <2>2. PICK T \in B : \A U \in B : ~ (<<U, T>> \in R)
    <3> HIDE DEF B
    <3> QED BY <1>1, <1>3, <2>1, WFMin
  <2>3. ASSUME NEW U \in SUBSET T, U # T PROVE U \in G
    BY <2>3, <1>2, <2>2
  <2> QED BY <2>3
<1> QED BY <1>3

(* A set of naturals has a least element.                                  *)
LEMMA MinExists ==
    ASSUME NEW S, S \subseteq Nat, S # {}
    PROVE  Min(S) \in S /\ \A x \in S : Min(S) <= x
<1> DEFINE R == OpToRel(<, Nat)
<1>1. IsWellFoundedOn(R, Nat)
  BY NatLessThanWellFounded
<1>2. \A x, y \in Nat : <<x, y>> \in R <=> x < y
  BY DEF OpToRel
<1> HIDE DEF R
<1>3. PICK x \in S : \A y \in S : ~ (<<y, x>> \in R)
  BY <1>1, WFMin
<1>4. ASSUME NEW y \in S PROVE x <= y
  <2>1. x \in Nat /\ y \in Nat /\ ~ (<<y, x>> \in R)
    BY <1>3
  <2>2. ~ (y < x)
    BY <1>2, <2>1
  <2> QED BY <2>1, <2>2
<1> QED BY <1>4 DEF Min

(* A finite one has a greatest.                                            *)
LEMMA MaxExists ==
    ASSUME NEW S, S \subseteq Nat, S # {}, IsFiniteSet(S)
    PROVE  Max(S) \in S /\ \A x \in S : Max(S) >= x
<1> DEFINE rank == [x \in S |-> <<x, x, x>>]
<1>1. Triples(S, rank)
  BY DEF Triples
<1>2. \A x, y \in S : Before(rank[x], rank[y]) <=> x < y
  BY BeforeTriple
<1> HIDE DEF rank
<1>3. PICK x \in S : \A y \in S \ {x} : Before(rank[y], rank[x])
  BY <1>1, FirstAndLast
<1>4. \A y \in S : x >= y
  BY <1>2, <1>3
<1> QED BY <1>4 DEF Max

(* Recursion over the subsets of a finite set: a step that depends on      *)
(* smaller subsets only has a function that satisfies it.                  *)
IsStep(step, S, V, H) ==
    /\ V # {} /\ H = [SUBSET S -> V]
    /\ \A s \in SUBSET S : \A h \in H : step[s][h] \in V
    /\ \A s \in SUBSET S : \A g, h \in H :
          (\A u \in SUBSET s : u # s => g[u] = h[u]) => step[s][g] = step[s][h]

LEMMA Recursion ==
    ASSUME NEW S, IsFiniteSet(S), NEW V, NEW H, NEW step, IsStep(step, S, V, H)
    PROVE  \E h \in H : \A s \in SUBSET S : h[s] = step[s][h]
<1> DEFINE Good(n) == \E h \in H :
                          \A s \in SUBSET S : Cardinality(s) <= n => h[s] = step[s][h]
           G == {n \in Nat : Good(n)}
<1> USE DEF IsStep
<1>0. \A s \in SUBSET S : IsFiniteSet(s) /\ Cardinality(s) \in Nat
  BY FS_Subset, FS_CardinalityType
<1>1. \A s \in SUBSET S : \A u \in SUBSET s : u # s => u \in SUBSET S /\ Cardinality(u) < Cardinality(s)
  <2> SUFFICES ASSUME NEW s \in SUBSET S, NEW u \in SUBSET s, u # s
               PROVE  u \in SUBSET S /\ Cardinality(u) < Cardinality(s)
    OBVIOUS
  <2>1. Cardinality(u) <= Cardinality(s) /\ Cardinality(u) # Cardinality(s)
    BY <1>0, FS_Subset
  <2> QED BY <1>0, <2>1
<1>2. ASSUME NEW n \in Nat, NEW h \in H,
             \A s \in SUBSET S : Cardinality(s) < n => h[s] = step[s][h]
      PROVE  Good(n)
  <2> DEFINE g == [s \in SUBSET S |-> IF Cardinality(s) < n THEN h[s] ELSE step[s][h]]
  <2>1. g \in H
    OBVIOUS
  <2>2. ASSUME NEW s \in SUBSET S, Cardinality(s) <= n PROVE g[s] = step[s][g]
    <3>1. g[s] = step[s][h]
      BY <1>2
    <3>2. ASSUME NEW u \in SUBSET s, u # s PROVE g[u] = h[u]
      BY <1>1, <3>2, <1>0, <2>2
    <3> HIDE DEF g
    <3> QED BY <2>1, <3>1, <3>2
  <2> HIDE DEF g
  <2> QED BY <2>1, <2>2
<1>3. 0 \in G
  <2> DEFINE g == [s \in SUBSET S |-> CHOOSE v \in V : TRUE]
  <2>1. g \in H
    OBVIOUS
  <2>2. \A s \in SUBSET S : ~ (Cardinality(s) < 0)
    BY <1>0
  <2> HIDE DEF g, Good
  <2>3. Good(0)
    BY <1>2, <2>1, <2>2
  <2> QED BY <2>3
<1>4. ASSUME NEW n \in Nat, n \in G PROVE n + 1 \in G
  <2>1. PICK h \in H :
            \A s \in SUBSET S : Cardinality(s) <= n => h[s] = step[s][h]
    BY <1>4
  <2>2. n + 1 \in Nat /\ \A s \in SUBSET S : Cardinality(s) < n + 1 => h[s] = step[s][h]
    <3>1. \A x, y \in Nat : x < y + 1 => x <= y
      OBVIOUS
    <3>2. \A s \in SUBSET S : Cardinality(s) < n + 1 => Cardinality(s) <= n
      BY <1>0, <3>1
    <3>3. n + 1 \in Nat
      OBVIOUS
    <3>4. ASSUME NEW s \in SUBSET S, Cardinality(s) < n + 1 PROVE h[s] = step[s][h]
      BY <3>2, <3>4, <2>1
    <3> HIDE DEF Good, G
    <3> QED BY <3>3, <3>4
  <2> HIDE DEF Good
  <2>3. Good(n + 1)
    BY <1>2, <2>2
  <2> QED BY <2>3
<1>5. Good(Cardinality(S))
  <2> HIDE DEF Good
  <2>1. \A n \in Nat : n \in G
    <3> HIDE DEF G
    <3> QED BY <1>3, <1>4, Induction
  <2> QED BY <1>0, <2>1
<1>6. PICK h \in H :
          \A s \in SUBSET S : Cardinality(s) <= Cardinality(S) => h[s] = step[s][h]
  BY <1>5
<1>7. \A s \in SUBSET S : Cardinality(s) <= Cardinality(S)
  BY FS_Subset
<1> QED BY <1>6, <1>7

-----------------------------------------------------------------------------
(* The numbers of the standings.                                           *)
LEMMA PointsType ==
    ASSUME NEW G, IsFiniteSet(G), NEW M, IsFiniteSet(M), NEW p
    PROVE  Points(G, M, p) \in Int
<1> DEFINE A == {g \in G : Victor(g) = p}
           B == {g \in GamesOf(G, p) : g.result = Draw}
           C == {m \in M : m.status = "bye" /\ m.first = p}
<1>1. A \in SUBSET G /\ B \in SUBSET G /\ C \in SUBSET M
  BY DEF GamesOf
<1>2. Points(G, M, p) = 2 * Cardinality(A) + Cardinality(B) + 2 * Cardinality(C)
  BY DEF Points
<1> HIDE DEF A, B, C
<1>3. Cardinality(A) \in Nat /\ Cardinality(B) \in Nat /\ Cardinality(C) \in Nat
  BY <1>1, FS_Subset, FS_CardinalityType
<1> QED BY <1>2, <1>3

(* Buchholz is a fold of the library: a function on the subsets of a set,  *)
(* chosen to satisfy its recursive equation, that takes out one element    *)
(* after the other.                                                        *)
Pick(s) == CHOOSE x \in s : TRUE
Opposition(h, s, G, M, p) ==
    IF s = {} THEN 0 ELSE Points(G, M, Opponent(Pick(s), p)) + h[s \ {Pick(s)}]
IsOpposition(h, S, G, M, p) == h = [s \in SUBSET S |-> Opposition(h, s, G, M, p)]

LEMMA PickIn == \A s : s # {} => Pick(s) \in s /\ s \ {Pick(s)} \in SUBSET s /\ s \ {Pick(s)} # s
BY DEF Pick

LEMMA OppositionExists ==
    ASSUME NEW S, IsFiniteSet(S), NEW G, IsFiniteSet(G), NEW M, IsFiniteSet(M), NEW p
    PROVE  \E h : IsOpposition(h, S, G, M, p)
<1> DEFINE F(h, s) == Opposition(h, s, G, M, p)
           V == [SUBSET S -> Int]
           step == [s \in SUBSET S |-> [h \in V |-> F(h, s)]]
<1>1. ASSUME NEW s \in SUBSET S, NEW h \in V PROVE F(h, s) \in Int
  <2>1. CASE s = {}
    BY <2>1 DEF Opposition
  <2>2. CASE s # {}
    BY PointsType, <2>2 DEF Opposition
  <2> QED BY <2>1, <2>2
<1>2. ASSUME NEW s \in SUBSET S, NEW g \in V, NEW h \in V,
             \A u \in SUBSET s : u # s => g[u] = h[u]
      PROVE  F(g, s) = F(h, s)
  BY <1>2, PickIn DEF Opposition
<1>3. \A s \in SUBSET S : \A h \in V : step[s][h] = F(h, s)
  OBVIOUS
<1>4. V = [SUBSET S -> Int] /\ Int # {}
  OBVIOUS
<1> HIDE DEF step, F, V
<1>5. PICK h \in V : \A s \in SUBSET S : h[s] = step[s][h]
  <2>1. \A s \in SUBSET S : \A h \in V : step[s][h] \in Int
    BY <1>1, <1>3
  <2>2. \A s \in SUBSET S : \A g, h \in V :
            (\A u \in SUBSET s : u # s => g[u] = h[u]) => step[s][g] = step[s][h]
    <3> SUFFICES ASSUME NEW s \in SUBSET S, NEW g \in V, NEW h \in V,
                        \A u \in SUBSET s : u # s => g[u] = h[u]
                 PROVE  step[s][g] = step[s][h]
      OBVIOUS
    <3>1. F(g, s) = F(h, s)
      BY <1>2
    <3> QED BY <1>3, <3>1
  <2>3. IsStep(step, S, Int, V)
    BY <1>4, <2>1, <2>2 DEF IsStep
  <2> QED BY <2>3, Recursion
<1>6. \A s \in SUBSET S : h[s] = F(h, s)
  BY <1>3, <1>5
<1>7. h = [s \in SUBSET S |-> F(h, s)]
  BY <1>4, <1>6
<1> QED BY <1>7 DEF IsOpposition, F

LEMMA BuchholzType ==
    ASSUME NEW G, IsFiniteSet(G), NEW M, IsFiniteSet(M), NEW p
    PROVE  Buchholz(G, M, p) \in Int
<1> DEFINE S == {g \in GamesOf(G, p) : g.result # Unplayed}
           k == CHOOSE h : IsOpposition(h, S, G, M, p)
           I == {s \in SUBSET S : k[s] \in Int}
<1>1. IsFiniteSet(S)
  BY FS_Subset DEF GamesOf
<1>2. Buchholz(G, M, p) = k[S]
  BY DEF Buchholz, MapThenSumSet, MapThenFoldSet, Pick, IsOpposition, Opposition
<1> HIDE DEF S, k
<1>3. IsOpposition(k, S, G, M, p)
  BY <1>1, OppositionExists DEF k
<1>4. ASSUME NEW s \in SUBSET S, \A u \in SUBSET s : u # s => u \in I PROVE s \in I
  <2>1. k[s] = Opposition(k, s, G, M, p)
    BY <1>3 DEF IsOpposition
  <2>2. s # {} => k[s \ {Pick(s)}] \in Int
    BY <1>4, PickIn
  <2>3. Points(G, M, Opponent(Pick(s), p)) \in Int
    BY PointsType
  <2> QED BY <2>1, <2>2, <2>3 DEF Opposition
<1>5. S \in I
  <2> HIDE DEF I
  <2> QED BY <1>1, <1>4, SubsetInduction
<1> QED BY <1>2, <1>5

LEMMA RanksAreTriples ==
    ASSUME NEW G, IsFiniteSet(G), NEW M, IsFiniteSet(M), NEW S, S \subseteq Int,
           NEW rank, \A p \in S : rank[p] = Rank(G, M, p)
    PROVE  Triples(S, rank)
<1>1. ASSUME NEW p \in S
      PROVE  /\ rank[p] = <<rank[p][1], rank[p][2], rank[p][3]>> /\ rank[p][3] = p
             /\ rank[p][1] \in Int /\ rank[p][2] \in Int /\ rank[p][3] \in Int
  <2> DEFINE a == -Points(G, M, p)
             b == -Buchholz(G, M, p)
  <2>1. a \in Int /\ b \in Int
    BY PointsType, BuchholzType
  <2>2. rank[p] = <<a, b, p>>
    BY DEF Rank
  <2> HIDE DEF a, b
  <2>3. p \in Int
    OBVIOUS
  <2> QED BY <2>1, <2>2, <2>3
<1> QED BY <1>1 DEF Triples

-----------------------------------------------------------------------------
(* The backtracking of Swiss pairings.  players is the ranking of N        *)
(* players, and S the places that are still free.                          *)
Field(players, rank, N) ==
    /\ N \in Nat /\ DOMAIN players = 1..N
    /\ \A i \in 1..N : rank[players[i]][1] \in Int

Seconds(h, S, players, played, rematches) ==
    {j \in S \ {Min(S)} : /\ rematches \/ ~Met(played, players[Min(S)], players[j])
                          /\ h[S \ {Min(S), j}] # {}}
Closest(T, players, rank, played, i) ==
    CHOOSE j \in T : \A k \in T \ {j} :
        Before(Distance(players, rank, played, i, j), Distance(players, rank, played, i, k))
Adding(first, second, rests) == {<<<<first, second>>>> \o rest : rest \in rests}
Second(h, S, players, rank, played, rematches) ==
    Closest(Seconds(h, S, players, played, rematches), players, rank, played, Min(S))
PairStep(h, S, players, rank, played, rematches) ==
    LET second == Second(h, S, players, rank, played, rematches)
    IN  IF S = {} THEN {<<>>}
        ELSE IF Seconds(h, S, players, played, rematches) = {} THEN {}
        ELSE Adding(Min(S), second, h[S \ {Min(S), second}])
IsPairs(h, players, rank, played, rematches) ==
    h = [S \in SUBSET DOMAIN players |-> PairStep(h, S, players, rank, played, rematches)]

LEMMA PairUpIs ==
    ASSUME NEW players, NEW rank, NEW G, NEW rematches
    PROVE  PairUp(players, rank, G, rematches)
               = (CHOOSE h : IsPairs(h, players, rank, G, rematches))[DOMAIN players]
BY DEF PairUp, IsPairs, PairStep, Seconds, Closest, Adding, Second

LEMMA ClosestIn ==
    ASSUME NEW players, NEW rank, NEW N, Field(players, rank, N), NEW G,
           NEW i \in 1..N, NEW T, T \subseteq 1..N, T # {}
    PROVE  Closest(T, players, rank, G, i) \in T
<1> DEFINE d == [j \in T |-> Distance(players, rank, G, i, j)]
<1>1. IsFiniteSet(T)
  <2>1. N \in Int /\ 1 \in Int
    BY DEF Field
  <2> QED BY <2>1, FS_Interval, FS_Subset
<1>2. ASSUME NEW j \in T
      PROVE  /\ d[j] = <<d[j][1], d[j][2], d[j][3]>> /\ d[j][3] = j - i
             /\ d[j][1] \in Int /\ d[j][2] \in Int /\ d[j][3] \in Int
  <2> DEFINE a == IF Met(G, players[i], players[j]) THEN 1 ELSE 0
             gap == rank[players[i]][1] - rank[players[j]][1]
             b == IF gap < 0 THEN -gap ELSE gap
  <2>1. gap \in Int
    BY DEF Field
  <2>2. a \in Int /\ b \in Int /\ j - i \in Int
    <3> HIDE DEF gap
    <3> QED BY <2>1
  <2>3. d[j] = <<a, b, j - i>>
    BY DEF Distance
  <2> HIDE DEF a, b, d
  <2> QED BY <2>2, <2>3
<1>3. \A j, k \in T : d[j][3] = d[k][3] => j = k
  <2>1. \A j, k \in 1..N : j - i = k - i => j = k
    BY DEF Field
  <2> HIDE DEF d
  <2> QED BY <1>2, <2>1
<1>4. Triples(T, d)
  BY <1>2, <1>3 DEF Triples
<1>5. \E j \in T : \A k \in T \ {j} : Before(d[j], d[k])
  <2> HIDE DEF d
  <2> QED BY <1>1, <1>4, FirstAndLast
<1> QED BY <1>5 DEF Closest

(* A pairing of the places S.                                              *)
Perfect(places, S) ==
    /\ places \in Seq(S \X S)
    /\ \A i \in 1..Len(places) : places[i][1] # places[i][2]
    /\ \A k \in S : \E i \in 1..Len(places) : k \in {places[i][1], places[i][2]}
    /\ \A i, j \in 1..Len(places) :
          i # j => {places[i][1], places[i][2]} \cap {places[j][1], places[j][2]} = {}

OneMore(places, pair, rest) ==
    /\ Len(places) = Len(rest) + 1 /\ places[1] = pair
    /\ \A i \in 1..Len(places) : i = 1 \/ (i - 1 \in 1..Len(rest) /\ places[i] = rest[i - 1])

LEMMA OnePairMore ==
    ASSUME NEW S, NEW f \in S, NEW s \in S, f # s,
           NEW T, T = S \ {f, s}, NEW rest, Perfect(rest, T), NEW places, places = <<<<f, s>>>> \o rest
    PROVE  Perfect(places, S) /\ OneMore(places, <<f, s>>, rest)
<1> DEFINE L == Len(rest)
<1>1. rest \in Seq(T \X T) /\ L \in Nat
  BY DEF Perfect
<1>2. rest \in Seq(S \X S) /\ <<<<f, s>>>> \in Seq(S \X S) /\ Len(<<<<f, s>>>>) = 1
  BY <1>1
<1>3. /\ places \in Seq(S \X S) /\ Len(places) = L + 1 /\ places[1] = <<f, s>>
      /\ \A i \in 1..(L + 1) : i = 1 \/ (i - 1 \in 1..L /\ places[i] = rest[i - 1])
  <2> QED BY <1>1, <1>2
<1>4. \A i \in 1..L : i + 1 \in 1..(L + 1) /\ places[i + 1] = rest[i]
  <2> SUFFICES ASSUME NEW i \in 1..L PROVE i + 1 \in 1..(L + 1) /\ places[i + 1] = rest[i]
    OBVIOUS
  <2>1. i + 1 \in 1..(L + 1) /\ i + 1 # 1 /\ (i + 1) - 1 = i
    BY <1>1
  <2> HIDE DEF L
  <2> QED BY <1>3, <2>1
<1>5. \A i \in 1..L : rest[i][1] \in T /\ rest[i][2] \in T
  BY <1>1
<1> HIDE DEF L
<1>6. ASSUME NEW i \in 1..(L + 1) PROVE places[i][1] # places[i][2]
  BY <1>3 DEF Perfect, L
<1>7. ASSUME NEW k \in S PROVE \E i \in 1..(L + 1) : k \in {places[i][1], places[i][2]}
  <2>1. CASE k \in {f, s}
    BY <1>1, <1>3, <2>1
  <2>2. CASE k \notin {f, s}
    <3>1. PICK i \in 1..L : k \in {rest[i][1], rest[i][2]}
      BY <2>2 DEF Perfect, L
    <3> QED BY <1>4, <3>1
  <2> QED BY <2>1, <2>2
<1>8. ASSUME NEW i \in 1..(L + 1), NEW j \in 1..(L + 1), i # j
      PROVE  {places[i][1], places[i][2]} \cap {places[j][1], places[j][2]} = {}
  <2>1. CASE i = 1
    BY <1>3, <1>8, <2>1, <1>5
  <2>2. CASE j = 1
    BY <1>3, <1>8, <2>2, <1>5
  <2>3. CASE i # 1 /\ j # 1
    BY <1>3, <2>3, <1>1, <1>8 DEF Perfect, L
  <2> QED BY <2>1, <2>2, <2>3
<1>9. Len(places) = L + 1
  BY <1>3
<1>10. Perfect(places, S)
  <2>1. /\ \A i \in 1..Len(places) : places[i][1] # places[i][2]
        /\ \A k \in S : \E i \in 1..Len(places) : k \in {places[i][1], places[i][2]}
    BY <1>6, <1>7, <1>9
  <2>2. \A i, j \in 1..Len(places) :
            i # j => {places[i][1], places[i][2]} \cap {places[j][1], places[j][2]} = {}
    <3> SUFFICES ASSUME NEW i \in 1..Len(places), NEW j \in 1..Len(places), i # j
                 PROVE  {places[i][1], places[i][2]} \cap {places[j][1], places[j][2]} = {}
      OBVIOUS
    <3> QED BY <1>8, <1>9
  <2> QED BY <1>3, <2>1, <2>2, Zenon DEF Perfect
<1>11. OneMore(places, <<f, s>>, rest)
  BY <1>3, <1>9 DEF L, OneMore
<1> QED BY <1>10, <1>11

-----------------------------------------------------------------------------
LEMMA PairStepSmaller ==
    ASSUME NEW players, NEW rank, NEW N, Field(players, rank, N), NEW G, NEW rematches,
           NEW S \in SUBSET (1..N), S # {}, NEW h
    PROVE  /\ Min(S) \in S
           /\ Seconds(h, S, players, G, rematches) \subseteq S \ {Min(S)}
           /\ \A j \in S \ {Min(S)} : S \ {Min(S), j} \in SUBSET S /\ S \ {Min(S), j} # S
           /\ Seconds(h, S, players, G, rematches) # {} =>
                 /\ Second(h, S, players, rank, G, rematches) \in Seconds(h, S, players, G, rematches)
                 /\ Second(h, S, players, rank, G, rematches) \in S \ {Min(S)}
<1>1. Min(S) \in S
  <2>1. S \subseteq Nat
    BY DEF Field
  <2> QED BY <2>1, MinExists
<1>2. Seconds(h, S, players, G, rematches) \subseteq S \ {Min(S)}
  BY DEF Seconds
<1>3. ASSUME Seconds(h, S, players, G, rematches) # {}
      PROVE  Second(h, S, players, rank, G, rematches) \in Seconds(h, S, players, G, rematches)
  BY <1>1, <1>2, <1>3, ClosestIn DEF Second
<1>4. \A j \in S \ {Min(S)} : S \ {Min(S), j} \in SUBSET S /\ S \ {Min(S), j} # S
  BY <1>1
<1> QED BY <1>1, <1>2, <1>3, <1>4

LEMMA PairsExist ==
    ASSUME NEW players, NEW rank, NEW N, Field(players, rank, N), NEW G, NEW rematches
    PROVE  \E h : IsPairs(h, players, rank, G, rematches)
<1> DEFINE D == 1..N
           V == SUBSET Seq(D \X D)
           H == [SUBSET D -> V]
           F(h, s) == PairStep(h, s, players, rank, G, rematches)
           step == [s \in SUBSET D |-> [h \in H |-> F(h, s)]]
<1>0. IsFiniteSet(D) /\ DOMAIN players = D
  BY FS_Interval DEF Field
<1>1. ASSUME NEW s \in SUBSET D, NEW h \in H PROVE F(h, s) \in V
  <2>1. CASE s = {}
    <3>1. F(h, s) = {<<>>}
      BY <2>1 DEF PairStep
    <3> HIDE DEF D
    <3>2. <<>> \in Seq(D \X D)
      OBVIOUS
    <3> QED BY <3>1, <3>2
  <2>2. CASE s # {}
    <3> DEFINE T == Seconds(h, s, players, G, rematches)
               second == Second(h, s, players, rank, G, rematches)
    <3>1. CASE T = {}
      BY <2>2, <3>1 DEF PairStep
    <3>2. CASE T # {}
      <4>1. /\ Min(s) \in s /\ second \in s \ {Min(s)}
            /\ F(h, s) = Adding(Min(s), second, h[s \ {Min(s), second}])
        BY <2>2, PairStepSmaller, <3>2 DEF PairStep
      <4> HIDE DEF second, T, F
      <4>2. s \ {Min(s), second} \in SUBSET D
        OBVIOUS
      <4>3. h[s \ {Min(s), second}] \in V
        BY <4>2
      <4>4. \A rest \in h[s \ {Min(s), second}] : rest \in Seq(D \X D)
        BY <4>3
      <4>5. Min(s) \in D /\ second \in D
        BY <4>1
      <4> HIDE DEF D
      <4>6. \A rest \in Seq(D \X D) : <<<<Min(s), second>>>> \o rest \in Seq(D \X D)
        BY <4>5
      <4> QED BY <4>1, <4>4, <4>6 DEF Adding
    <3> QED BY <3>1, <3>2
  <2> QED BY <2>1, <2>2
<1>2. ASSUME NEW s \in SUBSET D, NEW g \in H, NEW h \in H,
             \A u \in SUBSET s : u # s => g[u] = h[u]
      PROVE  F(g, s) = F(h, s)
  <2>1. CASE s = {}
    BY <2>1 DEF PairStep
  <2>2. CASE s # {}
    <3>1. \A j \in s \ {Min(s)} : g[s \ {Min(s), j}] = h[s \ {Min(s), j}]
      BY <1>2, <2>2, PairStepSmaller
    <3> DEFINE T == Seconds(g, s, players, G, rematches)
    <3>2. T = Seconds(h, s, players, G, rematches)
      BY <3>1 DEF Seconds
    <3>3. CASE T = {}
      BY <2>2, <3>2, <3>3 DEF PairStep
    <3>4. CASE T # {}
      <4> DEFINE second == Second(g, s, players, rank, G, rematches)
      <4>1. /\ second \in s \ {Min(s)}
            /\ F(g, s) = Adding(Min(s), second, g[s \ {Min(s), second}])
        BY <2>2, <3>4, PairStepSmaller DEF PairStep
      <4>2. F(h, s) = Adding(Min(s), second, h[s \ {Min(s), second}])
        BY <3>2, <3>4, <2>2 DEF Second, PairStep
      <4> HIDE DEF second, T, F
      <4>3. g[s \ {Min(s), second}] = h[s \ {Min(s), second}]
        BY <3>1, <4>1
      <4> QED BY <4>1, <4>2, <4>3
    <3> QED BY <3>3, <3>4
  <2> QED BY <2>1, <2>2
<1>3. \A s \in SUBSET D : \A h \in H : step[s][h] = F(h, s)
  OBVIOUS
<1>4. H = [SUBSET D -> V] /\ V # {}
  OBVIOUS
<1> HIDE DEF step, F, H, V, D
<1>5. PICK h \in H : \A s \in SUBSET D : h[s] = step[s][h]
  <2>1. \A s \in SUBSET D : \A h \in H : step[s][h] \in V
    BY <1>1, <1>3
  <2>2. \A s \in SUBSET D : \A g, h \in H :
            (\A u \in SUBSET s : u # s => g[u] = h[u]) => step[s][g] = step[s][h]
    <3> SUFFICES ASSUME NEW s \in SUBSET D, NEW g \in H, NEW h \in H,
                        \A u \in SUBSET s : u # s => g[u] = h[u]
                 PROVE  step[s][g] = step[s][h]
      OBVIOUS
    <3>1. F(g, s) = F(h, s)
      BY <1>2
    <3> QED BY <1>3, <3>1
  <2>3. IsStep(step, D, V, H)
    BY <1>4, <2>1, <2>2 DEF IsStep
  <2> QED BY <1>0, <2>3, Recursion
<1>6. \A s \in SUBSET D : h[s] = F(h, s)
  BY <1>3, <1>5
<1>7. h = [s \in SUBSET D |-> F(h, s)]
  BY <1>4, <1>6
<1> QED BY <1>0, <1>7 DEF IsPairs, F

(* What it computes is a pairing, without rematches if so required.        *)
Unmet(places, players, played) ==
    \A i \in 1..Len(places) : ~Met(played, players[places[i][1]], players[places[i][2]])

LEMMA PairSound ==
    ASSUME NEW players, NEW rank, NEW N, Field(players, rank, N), NEW G, NEW rematches,
           NEW h, IsPairs(h, players, rank, G, rematches)
    PROVE  \A S \in SUBSET (1..N) : \A places \in h[S] :
               Perfect(places, S) /\ (rematches \/ Unmet(places, players, G))
<1> DEFINE Sound(S, places) == Perfect(places, S) /\ (rematches \/ Unmet(places, players, G))
           I == {S \in SUBSET (1..N) : \A places \in h[S] : Sound(S, places)}
<1>0. IsFiniteSet(1..N) /\ DOMAIN players = 1..N
  BY FS_Interval DEF Field
<1>1. ASSUME NEW S \in SUBSET (1..N), \A U \in SUBSET S : U # S => U \in I PROVE S \in I
  <2> SUFFICES ASSUME NEW places \in h[S] PROVE Sound(S, places)
    OBVIOUS
  <2>1. places \in PairStep(h, S, players, rank, G, rematches)
    BY <1>0 DEF IsPairs
  <2>2. CASE S = {}
    <3>1. places = <<>>
      BY <2>1, <2>2 DEF PairStep
    <3>2. places \in Seq(S \X S) /\ Len(places) = 0
      BY <3>1
    <3>3. 1..Len(places) = {}
      BY <3>2
    <3>4. Perfect(places, S)
      BY <2>2, <3>2, <3>3 DEF Perfect
    <3>5. Unmet(places, players, G)
      BY <3>3 DEF Unmet
    <3> QED BY <3>4, <3>5
  <2>3. CASE S # {}
    <3> DEFINE T == Seconds(h, S, players, G, rematches)
               f == Min(S)
               s == Second(h, S, players, rank, G, rematches)
    <3>1. T # {}
      BY <2>1, <2>3 DEF PairStep
    <3>2. /\ f \in S /\ s \in T /\ s \in S \ {f}
          /\ S \ {f, s} \in SUBSET S /\ S \ {f, s} # S
          /\ PairStep(h, S, players, rank, G, rematches) = Adding(f, s, h[S \ {f, s}])
      <4>1. f \in S
        BY <2>3, PairStepSmaller
      <4>2. s \in T
        BY <2>3, <3>1, PairStepSmaller
      <4>3. s \in S \ {f}
        BY <2>3, <3>1, PairStepSmaller
      <4>4. PairStep(h, S, players, rank, G, rematches) = Adding(f, s, h[S \ {f, s}])
        BY <2>3, <3>1 DEF PairStep
      <4> HIDE DEF f, s, T
      <4> QED BY <4>1, <4>2, <4>3, <4>4
    <3>3. rematches \/ ~Met(G, players[f], players[s])
      BY <3>2 DEF Seconds
    <3> HIDE DEF f, s, T
    <3>4. PICK rest \in h[S \ {f, s}] : places = <<<<f, s>>>> \o rest
      BY <2>1, <3>2 DEF Adding
    <3>5. Sound(S \ {f, s}, rest)
      BY <1>1, <3>2, <3>4
    <3>6. /\ Perfect(places, S)
          /\ OneMore(places, <<f, s>>, rest)
      <4>1. f \in S /\ s \in S /\ f # s /\ Perfect(rest, S \ {f, s})
        BY <3>2, <3>5
      <4> DEFINE U == S \ {f, s}
      <4>2. Perfect(rest, U)
        BY <4>1
      <4>3. U = S \ {f, s}
        OBVIOUS
      <4> HIDE DEF U
      <4> QED BY <3>4, <4>1, <4>2, <4>3, OnePairMore
    <3>7. ASSUME ~rematches, NEW i \in 1..Len(places)
          PROVE  ~Met(G, players[places[i][1]], players[places[i][2]])
      <4>1. CASE i = 1
        BY <3>3, <3>6, <3>7, <4>1 DEF OneMore
      <4>2. CASE i - 1 \in 1..Len(rest) /\ places[i] = rest[i - 1]
        BY <3>5, <3>7, <4>2 DEF Unmet
      <4> QED BY <3>6, <4>1, <4>2 DEF OneMore
    <3> QED BY <3>6, <3>7 DEF Unmet
  <2> QED BY <2>2, <2>3
<1> HIDE DEF I
<1>2. \A S \in SUBSET (1..N) : S \in I
  BY <1>0, <1>1, SubsetInduction
<1> QED BY <1>2 DEF I

(* It finds one when there is one.                                         *)
Allowed(rematches, played, players, i, j) == rematches \/ ~Met(played, players[i], players[j])
Partners(f, S) == f \in [S -> S] /\ \A p \in S : f[p] # p /\ f[f[p]] = p

LEMMA PairStepFinds ==
    ASSUME NEW players, NEW rank, NEW N, Field(players, rank, N), NEW G, NEW rematches,
           NEW h, IsPairs(h, players, rank, G, rematches), NEW S \in SUBSET (1..N), S # {},
           NEW j \in S \ {Min(S)}, Allowed(rematches, G, players, Min(S), j),
           h[S \ {Min(S), j}] # {}
    PROVE  h[S] # {}
<1> DEFINE T == Seconds(h, S, players, G, rematches)
           s == Second(h, S, players, rank, G, rematches)
<1>1. j \in T
  BY DEF Seconds, Allowed
<1>2. s \in T /\ h[S] = Adding(Min(S), s, h[S \ {Min(S), s}])
  <2>1. h[S] = PairStep(h, S, players, rank, G, rematches)
    BY DEF Field, IsPairs
  <2>2. T # {}
    BY <1>1
  <2>3. s \in T
    BY <2>2, PairStepSmaller
  <2>4. PairStep(h, S, players, rank, G, rematches) = Adding(Min(S), s, h[S \ {Min(S), s}])
    BY <2>2 DEF PairStep
  <2> QED BY <2>1, <2>3, <2>4
<1>3. h[S \ {Min(S), s}] # {}
  BY <1>2 DEF Seconds
<1> HIDE DEF s, T
<1> QED BY <1>2, <1>3 DEF Adding

LEMMA PairEmpty ==
    ASSUME NEW players, NEW rank, NEW N, Field(players, rank, N), NEW G, NEW rematches,
           NEW h, IsPairs(h, players, rank, G, rematches)
    PROVE  h[{}] # {}
BY DEF Field, IsPairs, PairStep

LEMMA PairComplete ==
    ASSUME NEW players, NEW rank, NEW N, Field(players, rank, N), NEW G, NEW rematches,
           NEW h, IsPairs(h, players, rank, G, rematches),
           NEW S \in SUBSET (1..N), NEW f, Partners(f, S),
           rematches \/ \A p \in S : ~Met(G, players[p], players[f[p]])
    PROVE  h[S] # {}
<1> DEFINE Good(g, T) == Partners(g, T) /\ (rematches \/ \A p \in T : ~Met(G, players[p], players[g[p]]))
           I == {T \in SUBSET (1..N) : \A g \in [T -> T] : Good(g, T) => h[T] # {}}
<1>0. IsFiniteSet(1..N)
  BY FS_Interval DEF Field
<1>1. ASSUME NEW T \in SUBSET (1..N), \A U \in SUBSET T : U # T => U \in I PROVE T \in I
  <2> SUFFICES ASSUME NEW g \in [T -> T], Good(g, T) PROVE h[T] # {}
    OBVIOUS
  <2>1. CASE T = {}
    BY <2>1, PairEmpty
  <2>2. CASE T # {}
    <3> DEFINE m == Min(T)
               j == g[m]
               U == T \ {m, j}
               k == [p \in U |-> g[p]]
    <3>1. m \in T
      BY <2>2, PairStepSmaller
    <3>2. j \in T /\ j # m /\ g[j] = m /\ (rematches \/ ~Met(G, players[m], players[j]))
      BY <3>1 DEF Partners
    <3> HIDE DEF m, j
    <3>3. ASSUME NEW p \in U PROVE g[p] \in U /\ g[p] # p /\ g[g[p]] = p
      BY <3>1, <3>2 DEF Partners, j
    <3>4. k \in [U -> U] /\ Good(k, U)
      BY <3>3 DEF Partners
    <3>5. U \in SUBSET T /\ U # T
      BY <3>1
    <3>6. U \in I
      BY <1>1, <3>5
    <3>7. h[U] # {}
      <4> HIDE DEF U, k, Good
      <4> QED BY <3>4, <3>6
    <3>8. j \in T \ {Min(T)} /\ h[T \ {Min(T), j}] # {} /\ Allowed(rematches, G, players, Min(T), j)
      BY <3>2, <3>7 DEF m, Allowed
    <3> HIDE DEF U, k, Good
    <3> QED BY <2>2, <3>8, PairStepFinds
  <2> QED BY <2>1, <2>2
<1> HIDE DEF I
<1>2. \A T \in SUBSET (1..N) : T \in I
  BY <1>0, <1>1, SubsetInduction
<1>3. f \in [S -> S] /\ Good(f, S)
  BY DEF Partners
<1> QED BY <1>2, <1>3 DEF I

(* With rematches there is one for every even number of players.           *)
EvenSet(S) == Cardinality(S) % 2 = 0

LEMMA TwoFewer == ASSUME NEW c \in Int, c % 2 = 0 PROVE (c - 1 - 1) % 2 = 0
OBVIOUS

LEMMA PairEven ==
    ASSUME NEW players, NEW rank, NEW N, Field(players, rank, N), NEW G, NEW rematches,
           \A i, j : Allowed(rematches, G, players, i, j),
           NEW h, IsPairs(h, players, rank, G, rematches)
    PROVE  \A S \in SUBSET (1..N) : EvenSet(S) => h[S] # {}
<1> DEFINE I == {T \in SUBSET (1..N) : EvenSet(T) => h[T] # {}}
<1>0. IsFiniteSet(1..N)
  BY FS_Interval DEF Field
<1>1. ASSUME NEW T \in SUBSET (1..N), \A U \in SUBSET T : U # T => U \in I PROVE T \in I
  <2> SUFFICES ASSUME EvenSet(T) PROVE h[T] # {}
    OBVIOUS
  <2>1. CASE T = {}
    BY <2>1, PairEmpty
  <2>2. CASE T # {}
    <3>1. Min(T) \in T
      BY <2>2, PairStepSmaller
    <3> DEFINE m == Min(T)
    <3> HIDE DEF m
    <3>2. IsFiniteSet(T) /\ IsFiniteSet(T \ {m}) /\ Cardinality(T \ {m}) = Cardinality(T) - 1
      BY <1>0, <3>1, FS_Subset, FS_RemoveElement DEF m
    <3>3. Cardinality(T) \in Nat
      BY <3>2, FS_CardinalityType
    <3>4. Cardinality(T) # 1
      BY <3>3 DEF EvenSet
    <3>5. ASSUME T \ {m} = {} PROVE FALSE
      BY <3>5, FS_EmptySet, <3>2, <3>3, <3>4
    <3>6. PICK j \in T \ {m} : TRUE
      BY <3>5
    <3>7. Cardinality((T \ {m}) \ {j}) = Cardinality(T) - 1 - 1
      BY <3>2, <3>6, FS_RemoveElement
    <3>8. (T \ {m}) \ {j} = T \ {m, j}
      OBVIOUS
    <3>9. EvenSet(T \ {m, j})
      <4> DEFINE c == Cardinality(T)
      <4>1. c \in Int /\ c % 2 = 0
        BY <3>3 DEF EvenSet
      <4>2. Cardinality(T \ {m, j}) = c - 1 - 1
        BY <3>7, <3>8
      <4> HIDE DEF c
      <4>3. (c - 1 - 1) % 2 = 0
        BY <4>1, TwoFewer
      <4> QED BY <4>2, <4>3 DEF EvenSet
    <3>10. T \ {m, j} \in SUBSET T /\ T \ {m, j} # T
      BY <3>6
    <3>11. h[T \ {m, j}] # {}
      BY <1>1, <3>9, <3>10
    <3>12. j \in T \ {Min(T)} /\ h[T \ {Min(T), j}] # {} /\ Allowed(rematches, G, players, Min(T), j)
      BY <3>6, <3>11 DEF m
    <3> QED BY <2>2, <3>12, PairStepFinds
  <2> QED BY <2>1, <2>2
<1> HIDE DEF I
<1>2. \A S \in SUBSET (1..N) : S \in I
  BY <1>0, <1>1, SubsetInduction
<1> QED BY <1>2 DEF I

-----------------------------------------------------------------------------
(* The pairing of an even number of players: there is one, it is without   *)
(* rematches if it can be.                                                 *)
LEMMA SwissPairingIs ==
    ASSUME NEW players, NEW rank, NEW N, Field(players, rank, N), N % 2 = 0, NEW G
    PROVE  /\ SwissPairing(players, rank, G) # {}
           /\ \A places \in SwissPairing(players, rank, G) :
                 /\ Perfect(places, 1..N)
                 /\ Unmet(places, players, G)
                    \/ \A f : Partners(f, 1..N) => \E i \in 1..N : Met(G, players[i], players[f[i]])
<1>0. 1..N \in SUBSET (1..N) /\ EvenSet(1..N) /\ DOMAIN players = 1..N
  <2>1. N \in Nat /\ 1 \in Int /\ N \in Int
    BY DEF Field
  <2>2. Cardinality(1..N) = IF 1 > N THEN 0 ELSE N - 1 + 1
    BY <2>1, FS_Interval
  <2>3. Cardinality(1..N) = N
    BY <2>1, <2>2
  <2> QED BY <2>3 DEF EvenSet, Field
<1> DEFINE h(rematches) == CHOOSE h : IsPairs(h, players, rank, G, rematches)
<1>1. \A rematches : IsPairs(h(rematches), players, rank, G, rematches)
  BY PairsExist
<1>2. \A rematches : PairUp(players, rank, G, rematches) = h(rematches)[1..N]
  BY <1>0, PairUpIs
<1> HIDE DEF h
<1>3. \A places \in h(TRUE)[1..N] : Perfect(places, 1..N)
  BY <1>0, <1>1, PairSound
<1>4. \A places \in h(FALSE)[1..N] : Perfect(places, 1..N) /\ Unmet(places, players, G)
  BY <1>0, <1>1, PairSound
<1>5. h(TRUE)[1..N] # {}
  BY <1>0, <1>1, PairEven DEF Allowed
<1>6. ASSUME h(FALSE)[1..N] = {}, NEW f, Partners(f, 1..N)
      PROVE  \E i \in 1..N : Met(G, players[i], players[f[i]])
  <2>1. SUFFICES ASSUME \A i \in 1..N : ~Met(G, players[i], players[f[i]]) PROVE FALSE
    OBVIOUS
  <2>2. FALSE \/ \A i \in 1..N : ~Met(G, players[i], players[f[i]])
    BY <2>1
  <2> QED BY <1>0, <1>1, <1>6, <2>2, PairComplete
<1>7. CASE h(FALSE)[1..N] = {}
  BY <1>2, <1>7, <1>3, <1>5, <1>6 DEF SwissPairing
<1>8. CASE h(FALSE)[1..N] # {}
  BY <1>2, <1>8, <1>4 DEF SwissPairing
<1> QED BY <1>7, <1>8

(* The first round's is one, too.                                          *)
LEMMA HalvesArePerfect ==
    ASSUME NEW players, NEW N \in Nat, N % 2 = 0, Len(players) = N
    PROVE  Perfect(Halves(players), 1..N)
<1> DEFINE half == N \div 2
           S == 1..N
           places == [i \in 1..half |-> <<i, i + half>>]
<1>0. half \in Nat /\ N = half + half
  OBVIOUS
<1>1. Halves(players) = places
  BY DEF Halves
<1> HIDE DEF half
<1>2. \A i \in 1..half : i \in S /\ i + half \in S /\ i # i + half
  BY <1>0
<1>3. \A k \in S : \/ k \in 1..half
                   \/ k - half \in 1..half /\ k = (k - half) + half
  BY <1>0
<1>4. \A i, j \in 1..half : i # j => i + half # j /\ j + half # i /\ i + half # j + half
  BY <1>0
<1> HIDE DEF S
<1>5. places \in Seq(S \X S) /\ Len(places) = half
  BY <1>2, <1>0
<1>6. \A i \in 1..half : places[i] = <<i, i + half>> /\ places[i][1] = i /\ places[i][2] = i + half
  OBVIOUS
<1> HIDE DEF places
<1>7. \A k \in S : \E i \in 1..half : k \in {places[i][1], places[i][2]}
  <2> SUFFICES ASSUME NEW k \in S PROVE \E i \in 1..half : k \in {places[i][1], places[i][2]}
    OBVIOUS
  <2>1. CASE k \in 1..half
    BY <1>6, <2>1
  <2>2. CASE k - half \in 1..half /\ k = (k - half) + half
    BY <1>6, <2>2
  <2> QED BY <1>3, <2>1, <2>2
<1>8. \A i, j \in 1..half :
          i # j => {places[i][1], places[i][2]} \cap {places[j][1], places[j][2]} = {}
  BY <1>4, <1>6
<1>9. \A i \in 1..half : places[i][1] # places[i][2]
  BY <1>2, <1>6
<1>10. Perfect(places, S)
  BY <1>5, <1>7, <1>8, <1>9 DEF Perfect
<1> QED BY <1>1, <1>10 DEF S

-----------------------------------------------------------------------------
(* A row of tournament_matches.                                            *)
IsMatch(m) ==
    m = [round |-> m.round, index |-> m.index, first |-> m.first, second |-> m.second,
         status |-> m.status, winner |-> m.winner]

Fields(m, round, index, first, second, status_, winner) ==
    /\ IsMatch(m) /\ m.round = round /\ m.index = index /\ m.first = first
    /\ m.second = second /\ m.status = status_ /\ m.winner = winner

LEMMA MatchFields ==
    ASSUME NEW round, NEW index, NEW first, NEW second, NEW s, NEW winner, NEW m,
           m = [round |-> round, index |-> index, first |-> first, second |-> second,
                status |-> s, winner |-> winner]
    PROVE  Fields(m, round, index, first, second, s, winner)
BY DEF Fields, IsMatch

LEMMA StatusAndWinner ==
    ASSUME NEW m, IsMatch(m), NEW s, NEW winner
    PROVE  Fields([m EXCEPT !.status = s, !.winner = winner],
                  m.round, m.index, m.first, m.second, s, winner)
<1>1. ASSUME NEW a, NEW b, NEW c, NEW d, NEW e, NEW w,
             m = [round |-> a, index |-> b, first |-> c, second |-> d, status |-> e, winner |-> w]
      PROVE  [m EXCEPT !.status = s, !.winner = winner]
                 = [round |-> a, index |-> b, first |-> c, second |-> d, status |-> s, winner |-> winner]
  <2> DEFINE l == [m EXCEPT !.status = s]
  <2>1. l = [round |-> a, index |-> b, first |-> c, second |-> d, status |-> s, winner |-> w]
    BY <1>1
  <2> HIDE DEF l
  <2>2. [l EXCEPT !.winner = winner]
            = [round |-> a, index |-> b, first |-> c, second |-> d, status |-> s, winner |-> winner]
    BY <2>1
  <2> QED BY <2>2 DEF l
<1>2. [m EXCEPT !.status = s, !.winner = winner]
          = [round |-> m.round, index |-> m.index, first |-> m.first,
             second |-> m.second, status |-> s, winner |-> winner]
  BY <1>1 DEF IsMatch
<1> QED BY <1>2, MatchFields

LEMMA MatchIs ==
    ASSUME NEW round, NEW index, NEW first, NEW second
    PROVE  Fields(Match(round, index, first, second), round, index, first, second, "pending", Nobody)
BY MatchFields DEF Match

LEMMA ByeIs ==
    ASSUME NEW round, NEW index, NEW player
    PROVE  Fields(Bye(round, index, player), round, index, player, Nobody, "bye", player)
<1> DEFINE m == Match(round, index, player, Nobody)
<1>1. Fields(m, round, index, player, Nobody, "pending", Nobody)
  BY MatchIs
<1> HIDE DEF m
<1>2. Fields([m EXCEPT !.status = "bye", !.winner = player],
             m.round, m.index, m.first, m.second, "bye", player)
  <2>1. IsMatch(m)
    BY <1>1 DEF Fields
  <2> QED BY <2>1, StatusAndWinner
<1>3. m.round = round /\ m.index = index /\ m.first = player /\ m.second = Nobody
  BY <1>1 DEF Fields
<1> QED BY <1>2, <1>3 DEF Bye, m

LEMMA DecidedIs ==
    ASSUME NEW m, IsMatch(m), NEW winner
    PROVE  Fields(Decided(m, winner), m.round, m.index, m.first, m.second, "finished", winner)
BY StatusAndWinner DEF Decided

-----------------------------------------------------------------------------
(* The rows of a new round of a tournament of n players.                   *)
NewGame(n, round, g) ==
    /\ IsRow(g) /\ g.round = round /\ g.pair \in Nat \ {0} /\ g.number \in Nat \ {0}
    /\ g.white \in 1..n /\ g.black \in 1..n /\ g.white # g.black
    /\ g.kind = "base" /\ g.result = Unplayed
NewMatch(n, round, m) ==
    /\ IsMatch(m) /\ m.round = round /\ m.index \in Nat \ {0}
    /\ m.first \in 1..n /\ m.second \in 0..n /\ m.first # m.second
    /\ \/ m.status = "pending" /\ m.second # Nobody /\ m.winner = Nobody
       \/ m.status = "bye" /\ m.second = Nobody /\ m.winner = m.first
Plays(g, m) ==
    /\ g.round = m.round /\ g.match = m.index /\ {g.white, g.black} = {m.first, m.second}
    /\ m.status # "bye"
NewRound(n, round, G, M) ==
    /\ IsFiniteSet(G) /\ \A g \in G : NewGame(n, round, g)
    /\ IsFiniteSet(M) /\ \A m \in M : NewMatch(n, round, m)
    /\ \A g, h \in G : g.pair = h.pair => g = h
    /\ \A m, l \in M : m.index = l.index => m = l
    /\ \E m \in M : m.index = 1
    /\ \A m \in M : \A i \in 1..m.index : \E l \in M : l.index = i
    /\ \A g \in G : \E m \in M : Plays(g, m)
    /\ \A m \in M : m.status # "bye" => \E g \in G : Plays(g, m)

(* One game for everybody but the player who is out.                       *)
OneGame(G, p) == \E g \in G : p \in {g.white, g.black} /\ \A h \in G : p \in {h.white, h.black} => h = g
Byes(M) == {m \in M : m.status = "bye"}

SwissGame(g, round, i, a, b) ==
    /\ IsRow(g) /\ g.round = round /\ g.pair = i /\ g.number = 1 /\ g.match = i
    /\ g.kind = "base" /\ g.result = Unplayed
    /\ {g.white, g.black} = {a, b} /\ g.white # g.black

LEMMA SwissGameIs ==
    ASSUME NEW round, NEW G, NEW i, NEW a, NEW b, a # b, NEW c, c = Colours(G, <<a, b>>)
    PROVE  SwissGame(Game(round, i, c[1], c[2], i, 1, "base"), round, i, a, b)
<1> DEFINE g == Game(round, i, c[1], c[2], i, 1, "base")
<1>1. c = <<a, b>> \/ c = <<b, a>>
  BY DEF Colours, Swapped
<1>2. {c[1], c[2]} = {a, b} /\ c[1] # c[2]
  BY <1>1
<1>3. g.white = c[1] /\ g.black = c[2]
  BY GameFields
<1>4. g.pair = i /\ g.match = i /\ g.round = round /\ g.number = 1 /\ g.kind = "base" /\ g.result = Unplayed
  BY DEF Game
<1>5. IsRow(g)
  BY GameIsRow
<1> HIDE DEF g
<1>6. SwissGame(g, round, i, a, b)
  BY <1>2, <1>3, <1>4, <1>5 DEF SwissGame
<1> QED BY <1>6 DEF g

(* The players in some order.                                              *)
Arranged(players, N, P) ==
    /\ N \in Nat \ {0} /\ \A k \in 1..N : players[k] \in P
    /\ \A k, l \in 1..N : players[k] = players[l] => k = l
    /\ \A p \in P : \E k \in 1..N : players[k] = p

LEMMA FiniteImage ==
    ASSUME NEW S, IsFiniteSet(S), NEW f, NEW T, \A t \in T : \E s \in S : f[s] = t
    PROVE  IsFiniteSet(T)
<1>1. CASE T = {}
  BY <1>1, FS_EmptySet
<1>2. CASE T # {}
  <2> DEFINE g == [s \in S |-> IF f[s] \in T THEN f[s] ELSE CHOOSE t \in T : TRUE]
  <2>1. g \in Surjection(S, T)
    BY <1>2 DEF Surjection
  <2> QED BY <2>1, FS_Surjection
<1> QED BY <1>1, <1>2

SwissFacts(n, round, G, P, out, players, places, r) ==
    /\ NewRound(n, round, r.games, r.matches)
    /\ \A p \in P : OneGame(r.games, p)
    /\ Byes(r.matches) = IF out = Nobody THEN {} ELSE {Bye(round, Len(places) + 1, out)}
    /\ Unmet(places, players, G) => \A g \in r.games : ~Met(G, g.white, g.black)

LEMMA SwissRowsAre ==
    ASSUME NEW n \in Nat \ {0, 1}, NEW round, NEW G, NEW N, NEW out \in 0..n,
           NEW P, P = (1..n) \ {out}, NEW players, Arranged(players, N, P),
           NEW places, Perfect(places, 1..N),
           NEW r, r = SwissRows(round, G, players, places, out)
    PROVE  SwissFacts(n, round, G, P, out, players, places, r)
<1> DEFINE L == Len(places)
           S == 1..N
           A(i) == players[places[i][1]]
           B(i) == players[places[i][2]]
           c(i) == Colours(G, <<A(i), B(i)>>)
           game(i) == Game(round, i, c(i)[1], c(i)[2], i, 1, "base")
           match(i) == Match(round, i, A(i), B(i))
           bye == Bye(round, L + 1, out)
           T == 1..L
<1>0. /\ L \in Nat /\ DOMAIN places = T /\ L = Len(places)
      /\ \A i \in T : places[i][1] \in S /\ places[i][2] \in S
  <2>1. places \in Seq(S \X S)
    BY DEF Perfect
  <2> HIDE DEF S
  <2> QED BY <2>1
<1>1. /\ r.games = {game(i) : i \in T}
      /\ r.matches = {match(i) : i \in T} \cup IF out = Nobody THEN {} ELSE {bye}
  <2>1. r = [games |-> {game(i) : i \in DOMAIN places},
             matches |-> {match(i) : i \in DOMAIN places} \cup {Bye(round, L + 1, p) : p \in {out} \ {Nobody}}]
    BY DEF SwissRows
  <2>2. {Bye(round, L + 1, p) : p \in {out} \ {Nobody}} = IF out = Nobody THEN {} ELSE {bye}
    OBVIOUS
  <2> DEFINE x == {game(i) : i \in DOMAIN places}
             y == {match(i) : i \in DOMAIN places}
             z == {Bye(round, L + 1, p) : p \in {out} \ {Nobody}}
  <2>3. r.games = x /\ r.matches = y \cup z
    <3> HIDE DEF x, y, z
    <3> QED BY <2>1 DEF x, y, z
  <2> HIDE DEF game, match, bye
  <2> QED BY <1>0, <2>2, <2>3
<1>2. \A i \in T : A(i) \in P /\ B(i) \in P /\ A(i) # B(i)
  <2> SUFFICES ASSUME NEW i \in T PROVE A(i) \in P /\ B(i) \in P /\ A(i) # B(i)
    OBVIOUS
  <2>1. places[i][1] # places[i][2]
    BY DEF Perfect
  <2>2. places[i][1] \in 1..N /\ places[i][2] \in 1..N
    BY <1>0
  <2> QED BY <2>1, <2>2 DEF Arranged
<1>3. \A i, j \in T : {A(i), B(i)} \cap {A(j), B(j)} # {} => i = j
  <2> SUFFICES ASSUME NEW i \in T, NEW j \in T, i # j PROVE {A(i), B(i)} \cap {A(j), B(j)} = {}
    OBVIOUS
  <2>1. {places[i][1], places[i][2]} \cap {places[j][1], places[j][2]} = {}
    BY DEF Perfect
  <2> QED BY <1>0, <2>1 DEF Arranged
<1>4. \A p \in P : \E i \in T : p \in {A(i), B(i)}
  <2> SUFFICES ASSUME NEW p \in P PROVE \E i \in T : p \in {A(i), B(i)}
    OBVIOUS
  <2>1. PICK k \in S : players[k] = p
    BY DEF Arranged
  <2>2. PICK i \in T : k \in {places[i][1], places[i][2]}
    BY DEF Perfect
  <2> QED BY <2>1, <2>2
<1>5. 1 \in T
  BY <1>0 DEF Arranged, Perfect
<1>6. ASSUME NEW i \in T PROVE SwissGame(game(i), round, i, A(i), B(i))
  <2> DEFINE a == A(i)  b == B(i)  cc == c(i)
  <2>1. a # b /\ cc = Colours(G, <<a, b>>)
    BY <1>2
  <2> HIDE DEF a, b, cc
  <2>2. SwissGame(Game(round, i, cc[1], cc[2], i, 1, "base"), round, i, a, b)
    BY <2>1, SwissGameIs
  <2> QED BY <2>2 DEF a, b, cc
<1>7. ASSUME NEW i \in T PROVE Fields(match(i), round, i, A(i), B(i), "pending", Nobody)
  BY MatchIs
<1>8. Fields(bye, round, L + 1, out, Nobody, "bye", out)
  BY ByeIs
<1>9. IsFiniteSet(T)
  BY <1>0, FS_Interval
<1> HIDE DEF game, match, bye, A, B, c, S
<1>10. IsFiniteSet(r.games) /\ IsFiniteSet(r.matches)
  <2>1. IsFiniteSet({game(i) : i \in T})
    <3> DEFINE f == [i \in T |-> game(i)]
               X == {game(i) : i \in T}
    <3>1. \A x \in X : \E i \in T : f[i] = x
      OBVIOUS
    <3> HIDE DEF f, X
    <3>2. IsFiniteSet(X)
      BY <1>9, <3>1, FiniteImage
    <3> QED BY <3>2 DEF X
  <2>2. IsFiniteSet({match(i) : i \in T})
    <3> DEFINE f == [i \in T |-> match(i)]
               X == {match(i) : i \in T}
    <3>1. \A x \in X : \E i \in T : f[i] = x
      OBVIOUS
    <3> HIDE DEF f, X
    <3>2. IsFiniteSet(X)
      BY <1>9, <3>1, FiniteImage
    <3> QED BY <3>2 DEF X
  <2>3. IsFiniteSet(IF out = Nobody THEN {} ELSE {bye})
    BY FS_EmptySet, FS_Singleton
  <2> DEFINE x == {match(i) : i \in T}
             y == IF out = Nobody THEN {} ELSE {bye}
  <2>4. IsFiniteSet(x \cup y)
    <3> HIDE DEF x, y
    <3> QED BY <2>2, <2>3, FS_Union DEF x, y
  <2> QED BY <1>1, <2>1, <2>4
<1>11. \A g \in r.games : \E i \in T : g = game(i)
  BY <1>1
<1>12. \A m \in r.matches : (\E i \in T : m = match(i)) \/ (m = bye /\ out # Nobody)
  BY <1>1
<1>13. P \subseteq 1..n /\ Nobody \notin P
  BY DEF Nobody
<1>14. \A g \in r.games : NewGame(n, round, g)
  <2> SUFFICES ASSUME NEW i \in T PROVE NewGame(n, round, game(i))
    BY <1>11
  <2>1. i \in Nat \ {0} /\ 1 \in Nat \ {0}
    BY <1>0
  <2>2. game(i).white \in P /\ game(i).black \in P
    <3>1. {game(i).white, game(i).black} = {A(i), B(i)}
      BY <1>6 DEF SwissGame
    <3> QED BY <1>2, <3>1
  <2> QED BY <1>6, <1>13, <2>1, <2>2 DEF NewGame, SwissGame
<1>15. \A m \in r.matches : NewMatch(n, round, m)
  <2>1. ASSUME NEW i \in T PROVE NewMatch(n, round, match(i))
    <3>1. i \in Nat \ {0}
      BY <1>0
    <3>2. A(i) \in 1..n /\ B(i) \in 0..n /\ B(i) # Nobody /\ A(i) # B(i)
      BY <1>2, <1>13
    <3> QED BY <1>7, <3>1, <3>2 DEF NewMatch, Fields
  <2>2. ASSUME out # Nobody PROVE NewMatch(n, round, bye)
    BY <1>0, <2>2, <1>8 DEF Nobody, NewMatch, Fields
  <2> QED BY <1>12, <2>1, <2>2
<1>16. \A g, h \in r.games : g.pair = h.pair => g = h
  BY <1>6, <1>11 DEF SwissGame
<1>17. \A m, l \in r.matches : m.index = l.index => m = l
  <2>1. \A i \in T : match(i).index = i
    BY <1>7 DEF Fields
  <2>3. \A i \in T : i # L + 1
    BY <1>0
  <2>2. bye.index = L + 1
    BY <1>8 DEF Fields
  <2> SUFFICES ASSUME NEW m \in r.matches, NEW l \in r.matches, m.index = l.index PROVE m = l
    OBVIOUS
  <2>4. \A i \in T : match(i).index # bye.index
    BY <2>1, <2>2, <2>3
  <2>5. CASE \E i \in T : m = match(i)
    BY <1>12, <2>4, <2>5, <2>1
  <2>6. CASE m = bye
    BY <1>12, <2>4, <2>6
  <2> QED BY <1>12, <2>5, <2>6
<1>18. \E m \in r.matches : m.index = 1
  BY <1>1, <1>5, <1>7 DEF Fields
<1>19. \A i \in T : Plays(game(i), match(i)) /\ game(i) \in r.games /\ match(i) \in r.matches
  <2> SUFFICES ASSUME NEW i \in T
               PROVE  Plays(game(i), match(i)) /\ game(i) \in r.games /\ match(i) \in r.matches
    OBVIOUS
  <2>1. /\ match(i).round = round /\ match(i).index = i /\ match(i).first = A(i)
        /\ match(i).second = B(i) /\ match(i).status = "pending"
    BY <1>7 DEF Fields
  <2>2. game(i).round = round /\ game(i).match = i /\ {game(i).white, game(i).black} = {A(i), B(i)}
    BY <1>6 DEF SwissGame
  <2>3. Plays(game(i), match(i))
    BY <2>1, <2>2 DEF Plays
  <2> QED BY <1>1, <2>3
<1>20. /\ \A g \in r.games : \E m \in r.matches : Plays(g, m)
       /\ \A m \in r.matches : m.status # "bye" => \E g \in r.games : Plays(g, m)
  <2>1. bye.status = "bye"
    BY <1>8 DEF Fields
  <2>2. ASSUME NEW m \in r.matches, m.status # "bye" PROVE \E g \in r.games : Plays(g, m)
    <3>1. PICK i \in T : m = match(i)
      BY <1>12, <2>1, <2>2
    <3> QED BY <1>19, <3>1
  <2> QED BY <1>11, <1>19, <2>2
<1>20b. ASSUME NEW m \in r.matches, NEW i \in 1..m.index PROVE \E l \in r.matches : l.index = i
  <2>1. \A j \in T : match(j).index = j /\ match(j) \in r.matches
    BY <1>7, <1>19 DEF Fields
  <2>2. bye.index = L + 1
    BY <1>8 DEF Fields
  <2>3. CASE \E j \in T : m = match(j)
    <3>1. PICK j \in T : m = match(j)
      BY <2>3
    <3>2. m.index = j
      BY <2>1, <3>1
    <3>3. i \in T
      BY <1>0, <3>2
    <3> QED BY <2>1, <3>3
  <2>4. CASE m = bye
    <3>1. i \in T \/ i = L + 1
      BY <1>0, <2>2, <2>4
    <3> QED BY <2>1, <2>2, <2>4, <3>1
  <2> QED BY <1>12, <2>3, <2>4
<1>21. NewRound(n, round, r.games, r.matches)
  BY <1>10, <1>14, <1>15, <1>16, <1>17, <1>18, <1>20, <1>20b DEF NewRound
<1>22. ASSUME NEW p \in P PROVE OneGame(r.games, p)
  <2>1. PICK i \in T : p \in {A(i), B(i)}
    BY <1>4
  <2>2. game(i) \in r.games /\ p \in {game(i).white, game(i).black}
    BY <1>1, <1>6, <2>1 DEF SwissGame
  <2>3. ASSUME NEW h \in r.games, p \in {h.white, h.black} PROVE h = game(i)
    <3>1. PICK j \in T : h = game(j)
      BY <1>11
    <3>2. p \in {A(j), B(j)}
      BY <1>6, <2>3, <3>1 DEF SwissGame
    <3>3. i = j
      BY <1>3, <2>1, <3>2
    <3> QED BY <3>1, <3>3
  <2> QED BY <2>2, <2>3 DEF OneGame
<1>23. Byes(r.matches) = IF out = Nobody THEN {} ELSE {bye}
  BY <1>7, <1>8, <1>1, <1>12 DEF Fields, Byes
<1>24. ASSUME Unmet(places, players, G), NEW g \in r.games PROVE ~Met(G, g.white, g.black)
  <2>1. PICK i \in T : g = game(i)
    BY <1>11
  <2>2. ~Met(G, A(i), B(i))
    BY <1>24 DEF Unmet, A, B
  <2>3. {g.white, g.black} = {A(i), B(i)}
    BY <1>6, <2>1 DEF SwissGame
  <2> QED BY <2>2, <2>3 DEF Met
<1> QED BY <1>21, <1>22, <1>23, <1>24 DEF bye, SwissFacts

-----------------------------------------------------------------------------
(* A round that is fair after the games E and the matches H of earlier ones. *)
HadBye(H, p) == \E b \in Byes(H) : b.first = p
Paired(n, M) == (1..n) \ {m.first : m \in Byes(M)}
Fair(n, G, M, E, H) ==
    /\ Cardinality(Byes(M)) = n % 2
    /\ \A p \in Paired(n, M) : OneGame(G, p)
    /\ \A m \in Byes(M) : HadBye(H, m.first) => \A p \in 1..n : HadBye(H, p)
    /\ (\E g \in G : Met(E, g.white, g.black)) =>
          \A f : Partners(f, Paired(n, M)) => \E p \in Paired(n, M) : Met(E, p, f[p])

LEMMA ByeOfIs ==
    ASSUME NEW n \in Nat \ {0, 1}, NEW rank, Triples(1..n, rank), NEW M,
           NEW p, p = ByeOf(1..n, rank, M)
    PROVE  p \in 1..n /\ (HadBye(M, p) => \A q \in 1..n : HadBye(M, q))
<1> DEFINE had == {m.first : m \in {m \in M : m.status = "bye"}}
           without == (1..n) \ had
           candidates == IF without = {} THEN 1..n ELSE without
<1>1. p = CHOOSE c \in candidates : \A q \in candidates \ {c} : Before(rank[q], rank[c])
  BY DEF ByeOf
<1>2. candidates \subseteq 1..n /\ candidates # {}
  OBVIOUS
<1>3. \A q : q \in had <=> HadBye(M, q)
  BY DEF HadBye, Byes
<1>4. candidates = 1..n \/ candidates \cap had = {}
  OBVIOUS
<1>5. candidates = 1..n => 1..n \subseteq had \/ candidates \cap had = {}
  OBVIOUS
<1> HIDE DEF candidates, had
<1>6. IsFiniteSet(candidates)
  <2>1. 1 \in Int /\ n \in Int
    OBVIOUS
  <2> QED BY <1>2, <2>1, FS_Interval, FS_Subset
<1>7. Triples(candidates, rank)
  BY <1>2 DEF Triples
<1>8. p \in candidates
  BY <1>2, <1>6, <1>7, FirstAndLast, <1>1
<1> QED BY <1>2, <1>3, <1>4, <1>5, <1>8

LEMMA RankingArranges ==
    ASSUME NEW P, IsFiniteSet(P), P # {}, NEW rank, Triples(P, rank),
           NEW players, players = Ranking(P, rank)
    PROVE  /\ Arranged(players, Cardinality(P), P) /\ Field(players, rank, Cardinality(P))
           /\ Len(players) = Cardinality(P)
<1> DEFINE N == Cardinality(P)
<1>1. N \in Nat \ {0}
  BY FS_CardinalityType, FS_EmptySet
<1>2. /\ DOMAIN players = 1..N /\ players \in Seq(P)
      /\ \A i \in 1..N : players[i] \in P
      /\ \A i, j \in 1..N : players[i] = players[j] => i = j
      /\ \A p \in P : \E i \in 1..N : players[i] = p
  BY RankingPlaces
<1> HIDE DEF N
<1>3. Arranged(players, N, P)
  BY <1>1, <1>2 DEF Arranged
<1>4. \A i \in 1..N : rank[players[i]][1] \in Int
  BY <1>2 DEF Triples
<1>5. Field(players, rank, N)
  BY <1>1, <1>2, <1>4 DEF Field
<1>6. Len(players) = N
  BY <1>1, <1>2
<1> QED BY <1>3, <1>5, <1>6 DEF N

(* Partners of players, as places in their order.                          *)
LEMMA PartnersByPlace ==
    ASSUME NEW players, NEW N, NEW P, Arranged(players, N, P), NEW f, Partners(f, P), NEW G,
           \A g : Partners(g, 1..N) => \E i \in 1..N : Met(G, players[i], players[g[i]])
    PROVE  \E p \in P : Met(G, p, f[p])
<1> DEFINE at(p) == CHOOSE k \in 1..N : players[k] = p
           g == [i \in 1..N |-> at(f[players[i]])]
<1>1. \A p \in P : at(p) \in 1..N /\ players[at(p)] = p
  BY DEF Arranged
<1> HIDE DEF at
<1>2. \A i \in 1..N : players[i] \in P /\ f[players[i]] \in P
  BY DEF Arranged, Partners
<1>3. \A i \in 1..N : g[i] \in 1..N /\ players[g[i]] = f[players[i]]
  BY <1>1, <1>2
<1>4. g \in [1..N -> 1..N]
  BY <1>3
<1>5. \A i \in 1..N : g[i] # i
  BY <1>2, <1>3 DEF Partners
<1> HIDE DEF g
<1>6. ASSUME NEW i \in 1..N PROVE g[g[i]] = i
  BY <1>3, <1>2 DEF Partners, Arranged
<1>7. Partners(g, 1..N)
  BY <1>4, <1>5, <1>6 DEF Partners
<1>8. PICK i \in 1..N : Met(G, players[i], players[g[i]])
  BY <1>7
<1> QED BY <1>2, <1>3, <1>8

(* What SwissRound chooses from.                                           *)
Ranks(n, G, M) == [p \in 1..n |-> Rank(G, M, p)]
Out(n, rank, M) == IF n % 2 = 1 THEN ByeOf(1..n, rank, M) ELSE Nobody
PairingsOf(round, players, rank, G) ==
    IF round = 1 THEN {Halves(players)} ELSE SwissPairing(players, rank, G)

LEMMA SwissRoundIs ==
    ASSUME NEW n, NEW round, NEW G, NEW M, NEW r, r = SwissRound(n, round, G, M),
           NEW rank, rank = Ranks(n, G, M), NEW out, out = Out(n, rank, M),
           NEW players, players = Ranking((1..n) \ {out}, rank),
           NEW pairings, pairings = PairingsOf(round, players, rank, G), pairings # {}
    PROVE  \E places \in pairings : r = SwissRows(round, G, players, places, out)
<1> USE DEF Ranks, Out, PairingsOf
<1> DEFINE bye(k) == IF n % 2 = 1 THEN ByeOf(1..n, k, M) ELSE Nobody
           pairing(s, k) == IF round = 1 THEN {Halves(s)} ELSE SwissPairing(s, k, G)
           one(s, k, o) == {SwissRows(round, G, s, places, o) : places \in pairing(s, k)}
           rows(k, o) == UNION {one(s, k, o) : s \in {Ranking((1..n) \ {o}, k)}}
           all == UNION {rows(k, bye(k)) : k \in {rank}}
           mine == {SwissRows(round, G, players, places, out) : places \in pairings}
<1>1. r = CHOOSE x \in all : TRUE
  BY DEF SwissRound
<1>2. rows(rank, out) = mine
  <2>1. pairings = pairing(players, rank)
    OBVIOUS
  <2>2. one(players, rank, out) = mine
    <3> HIDE DEF pairing
    <3> QED BY <2>1
  <2> HIDE DEF one, mine
  <2>3. rows(rank, out) = one(players, rank, out)
    OBVIOUS
  <2> QED BY <2>2, <2>3
<1>3. bye(rank) = out
  OBVIOUS
<1>4. all = mine
  <2> HIDE DEF rows, bye, mine
  <2> QED BY <1>2, <1>3
<1>5. mine # {}
  <2>1. PICK places \in pairings : TRUE
    OBVIOUS
  <2>2. SwissRows(round, G, players, places, out) \in mine
    OBVIOUS
  <2> QED BY <2>2
<1>6. r \in mine
  <2> HIDE DEF all, mine
  <2> QED BY <1>1, <1>4, <1>5
<1> QED BY <1>6

LEMMA SwissRoundIsFair ==
    ASSUME NEW n \in Nat \ {0, 1}, NEW round, NEW G, IsFiniteSet(G), NEW M, IsFiniteSet(M),
           round = 1 => G = {}, NEW r, r = SwissRound(n, round, G, M)
    PROVE  NewRound(n, round, r.games, r.matches) /\ Fair(n, r.games, r.matches, G, M)
<1> DEFINE rank == [p \in 1..n |-> Rank(G, M, p)]
           out == IF n % 2 = 1 THEN ByeOf(1..n, rank, M) ELSE Nobody
           P == (1..n) \ {out}
           N == Cardinality(P)
           players == Ranking(P, rank)
           pairings == IF round = 1 THEN {Halves(players)} ELSE SwissPairing(players, rank, G)
<1>1. Triples(1..n, rank)
  <2>1. 1..n \subseteq Int /\ \A p \in 1..n : rank[p] = Rank(G, M, p)
    OBVIOUS
  <2> HIDE DEF rank
  <2> QED BY <2>1, RanksAreTriples
<1>2. n % 2 \in {0, 1} /\ out \in 0..n /\ (n % 2 = 1 => out \in 1..n) /\ (n % 2 = 0 => out = Nobody)
      /\ (out # Nobody /\ HadBye(M, out) => \A q \in 1..n : HadBye(M, q))
  <2>1. n % 2 = 0 \/ n % 2 = 1
    OBVIOUS
  <2>2. CASE n % 2 = 0
    BY <2>2 DEF Nobody
  <2>3. CASE n % 2 = 1
    <3>1. out = ByeOf(1..n, rank, M)
      BY <2>3
    <3> HIDE DEF out, rank
    <3>2. out \in 1..n /\ (HadBye(M, out) => \A q \in 1..n : HadBye(M, q))
      BY <1>1, <3>1, ByeOfIs
    <3> QED BY <2>3, <3>2
  <2> QED BY <2>1, <2>2, <2>3
<1>3. IsFiniteSet(P) /\ P # {} /\ N \in Nat \ {0} /\ N % 2 = 0
  <2>1. IsFiniteSet(1..n) /\ Cardinality(1..n) = n
    BY FS_Interval
  <2>2. CASE n % 2 = 0
    <3>1. P = 1..n
      BY <1>2, <2>2 DEF Nobody
    <3>2. 1 \in 1..n
      OBVIOUS
    <3>3. N = n
      BY <2>1, <3>1
    <3> HIDE DEF P, N
    <3> QED BY <2>1, <2>2, <3>1, <3>2, <3>3
  <2>3. CASE n % 2 = 1
    <3>1. out \in 1..n
      BY <1>2, <2>3
    <3> HIDE DEF out
    <3>2. IsFiniteSet(P) /\ N = n - 1
      BY <2>1, <3>1, FS_RemoveElement
    <3>3. (n - 1) % 2 = 0 /\ n - 1 \in Nat \ {0}
      BY <2>3
    <3> HIDE DEF N
    <3>4. N # 0
      BY <3>2, <3>3
    <3>5. P # {}
      BY <3>4, FS_EmptySet DEF N
    <3> QED BY <3>2, <3>3, <3>5
  <2> QED BY <1>2, <2>2, <2>3
<1>4. Triples(P, rank)
  BY <1>1 DEF Triples
<1> HIDE DEF N, P, rank
<1>5. Arranged(players, N, P) /\ Field(players, rank, N) /\ Len(players) = N
  BY <1>3, <1>4, RankingArranges DEF N
<1> HIDE DEF players
<1>6. pairings # {} /\ \A places \in pairings : Perfect(places, 1..N)
  <2>1. CASE round = 1
    BY <1>3, <1>5, HalvesArePerfect, <2>1
  <2>2. CASE round # 1
    BY <1>3, <1>5, <2>2, SwissPairingIs
  <2> QED BY <2>1, <2>2
<1>7. \A places \in pairings :
          \/ Unmet(places, players, G)
          \/ \A f : Partners(f, 1..N) => \E i \in 1..N : Met(G, players[i], players[f[i]])
  <2>1. CASE round = 1
    BY <2>1 DEF Unmet, Met
  <2>2. CASE round # 1
    <3>1. pairings = SwissPairing(players, rank, G)
      BY <2>2
    <3> HIDE DEF pairings
    <3> QED BY <1>3, <1>5, <3>1, SwissPairingIs
  <2> QED BY <2>1, <2>2
<1>8. PICK places \in pairings : r = SwissRows(round, G, players, places, out)
  <2> DEFINE o == out  pp == pairings
  <2>1. o = Out(n, rank, M) /\ pp = PairingsOf(round, players, rank, G)
    BY DEF Out, PairingsOf
  <2>2. rank = Ranks(n, G, M) /\ players = Ranking((1..n) \ {o}, rank)
    BY DEF rank, players, P, Ranks
  <2>3. pp # {}
    BY <1>6
  <2> HIDE DEF o, pp
  <2>4. \E places \in pp : r = SwissRows(round, G, players, places, o)
    BY <2>1, <2>2, <2>3, SwissRoundIs
  <2> QED BY <2>4 DEF o, pp
<1>9. P = (1..n) \ {out}
  BY DEF P
<1> HIDE DEF out, pairings
<1>10. /\ NewRound(n, round, r.games, r.matches)
       /\ \A p \in P : OneGame(r.games, p)
       /\ Byes(r.matches) = IF out = Nobody THEN {} ELSE {Bye(round, Len(places) + 1, out)}
       /\ Unmet(places, players, G) => \A g \in r.games : ~Met(G, g.white, g.black)
  <2>1. Perfect(places, 1..N) /\ out \in 0..n
    BY <1>2, <1>6, <1>8
  <2>2. Arranged(players, N, P)
    BY <1>5
  <2>3. r = SwissRows(round, G, players, places, out)
    BY <1>8
  <2>4. SwissFacts(n, round, G, P, out, players, places, r)
    BY <1>9, <2>1, <2>2, <2>3, SwissRowsAre
  <2> QED BY <2>4 DEF SwissFacts
<1>11. Bye(round, Len(places) + 1, out).first = out
  BY ByeIs DEF Fields
<1>12. Paired(n, r.matches) = P
  BY <1>9, <1>10, <1>11 DEF Paired, Nobody
<1>13. Cardinality(Byes(r.matches)) = n % 2
  <2>1. CASE n % 2 = 0
    BY <1>2, <1>10, <2>1, FS_EmptySet
  <2>2. CASE n % 2 = 1
    <3>1. out # Nobody
      BY <1>2, <2>2 DEF Nobody
    <3> QED BY <1>10, <2>2, <3>1, FS_Singleton
  <2> QED BY <1>2, <2>1, <2>2
<1>14. \A m \in Byes(r.matches) : HadBye(M, m.first) => \A p \in 1..n : HadBye(M, p)
  BY <1>2, <1>10, <1>11
<1>15. ASSUME NEW g \in r.games, Met(G, g.white, g.black), NEW f, Partners(f, P)
       PROVE  \E p \in P : Met(G, p, f[p])
  <2>1. \A h : Partners(h, 1..N) => \E i \in 1..N : Met(G, players[i], players[h[i]])
    BY <1>7, <1>8, <1>10, <1>15
  <2> QED BY <1>5, <1>15, <2>1, PartnersByPlace
<1> QED BY <1>10, <1>12, <1>13, <1>14, <1>15 DEF Fair

-----------------------------------------------------------------------------
(* The rows of c rounds.  Every round has a match with index 1, so that    *)
(* nobody can add a round that is there.                                   *)
Rows(c, G, M) ==
    /\ c \in Nat \ {0} /\ IsFiniteSet(G) /\ IsFiniteSet(M)
    /\ \A g \in G : IsRow(g) /\ g.round \in 1..c
    /\ \A m \in M : IsMatch(m) /\ m.round \in 1..c
    /\ \A r \in 1..c : \E m \in M : m.round = r /\ m.index = 1

Adds(plan, r) ==
    /\ IsFiniteSet(plan.games) /\ \A g \in plan.games : IsRow(g) /\ g.round = r + 1
    /\ IsFiniteSet(plan.matches) /\ \A m \in plan.matches : IsMatch(m) /\ m.round = r + 1
    /\ \E m \in plan.matches : m.index = 1
AddsNothing(plan) == plan.games = {} /\ plan.matches = {}

(* A plan decides matches that exist, and adds games to rounds that exist  *)
(* or the next round.                                                      *)
PlanFits(plan, c, M) ==
    /\ IsFiniteSet(plan.decided)
    /\ \A d \in plan.decided :
          IsMatch(d) /\ d.status = "finished" /\ \E m \in M : MatchKey(m) = MatchKey(d)
    /\ IsFiniteSet(plan.ties) /\ \A g \in plan.ties : IsRow(g) /\ g.round \in 1..c
    /\ AddsNothing(plan) \/ \E r \in 1..c : Adds(plan, r)

LEMMA Keys ==
    ASSUME NEW m, NEW d
    PROVE  MatchKey(m) = MatchKey(d) <=> m.round = d.round /\ m.index = d.index
BY DEF MatchKey

(* Deciding matches.                                                       *)
SameMatches(M, N) ==
    /\ IsFiniteSet(N) /\ Byes(N) = Byes(M)
    /\ \A m \in M : \E l \in N : MatchKey(l) = MatchKey(m)
    /\ \A l \in N : \E m \in M : MatchKey(l) = MatchKey(m)

Kept(M, D) == {m \in M : m.status # "pending" \/ \A d \in D : MatchKey(d) # MatchKey(m)}
Added(M, D) == {d \in D : \A m \in Kept(M, D) : MatchKey(d) # MatchKey(m)}

LEMMA DecidingSame ==
    ASSUME NEW M, IsFiniteSet(M), NEW D, IsFiniteSet(D),
           \A d \in D : d.status = "finished" /\ \E m \in M : MatchKey(m) = MatchKey(d)
    PROVE  SameMatches(M, Kept(M, D) \cup Added(M, D))
<1> DEFINE K == Kept(M, D)
           L == Added(M, D)
<1> USE DEF Kept, Added
<1>1. IsFiniteSet(K) /\ IsFiniteSet(L)
  BY FS_Subset
<1>2. IsFiniteSet(K \cup L)
  BY <1>1, FS_Union
<1>3. Byes(K \cup L) = Byes(M)
  BY DEF Byes
<1>4. ASSUME NEW m \in M PROVE \E l \in K \cup L : MatchKey(l) = MatchKey(m)
  <2>1. CASE m \in K
    BY <2>1
  <2>2. CASE m \notin K
    <3>1. PICK d \in D : MatchKey(d) = MatchKey(m)
      BY <2>2
    <3> QED BY <3>1
  <2> QED BY <2>1, <2>2
<1>5. \A l \in K \cup L : \E m \in M : MatchKey(l) = MatchKey(m)
  OBVIOUS
<1> QED BY <1>2, <1>3, <1>4, <1>5 DEF SameMatches

(* The result of a game.                                                   *)
SameRow(g, h) ==
    /\ IsRow(h) /\ h.round = g.round /\ h.pair = g.pair /\ h.white = g.white /\ h.black = g.black
    /\ h.match = g.match /\ h.number = g.number /\ h.kind = g.kind

LEMMA ResultIs ==
    ASSUME NEW g, IsRow(g), NEW result
    PROVE  SameRow(g, [g EXCEPT !.result = result]) /\ [g EXCEPT !.result = result].result = result
<1>1. ASSUME NEW a, NEW b, NEW c, NEW d, NEW e, NEW n, NEW k, NEW r,
             g = [round |-> a, pair |-> b, white |-> c, black |-> d,
                  match |-> e, number |-> n, kind |-> k, result |-> r]
      PROVE  [g EXCEPT !.result = result] = [round |-> a, pair |-> b, white |-> c, black |-> d,
                                             match |-> e, number |-> n, kind |-> k, result |-> result]
  BY <1>1
<1>2. [g EXCEPT !.result = result] =
                 [round |-> g.round, pair |-> g.pair, white |-> g.white, black |-> g.black,
                  match |-> g.match, number |-> g.number, kind |-> g.kind, result |-> result]
  BY <1>1 DEF IsRow
<1> QED BY <1>2 DEF IsRow, SameRow

LEMMA PairIs ==
    ASSUME NEW g, IsRow(g), NEW pair
    PROVE  LET h == [g EXCEPT !.pair = pair]
           IN  /\ IsRow(h) /\ h.round = g.round /\ h.white = g.white /\ h.black = g.black
               /\ h.match = g.match /\ h.number = g.number /\ h.kind = g.kind
               /\ h.result = g.result /\ h.pair = pair
<1>1. ASSUME NEW a, NEW b, NEW c, NEW d, NEW e, NEW n, NEW k, NEW r,
             g = [round |-> a, pair |-> b, white |-> c, black |-> d,
                  match |-> e, number |-> n, kind |-> k, result |-> r]
      PROVE  [g EXCEPT !.pair = pair] = [round |-> a, pair |-> pair, white |-> c, black |-> d,
                                         match |-> e, number |-> n, kind |-> k, result |-> r]
  BY <1>1
<1>2. [g EXCEPT !.pair = pair] =
                 [round |-> g.round, pair |-> pair, white |-> g.white, black |-> g.black,
                  match |-> g.match, number |-> g.number, kind |-> g.kind, result |-> g.result]
  BY <1>1 DEF IsRow
<1> QED BY <1>2 DEF IsRow

LEMMA WithIs ==
    ASSUME NEW G, IsFiniteSet(G), NEW g \in G, \A x \in G : IsRow(x), NEW result,
           NEW S, S = With(G, g, result)
    PROVE  /\ IsFiniteSet(S)
           /\ \A x \in G : \E s \in S : SameRow(x, s) /\ (x = g \/ s = x)
           /\ \A s \in S : \E x \in G : SameRow(x, s)
                              /\ ((s = x /\ x # g) \/ (x = g /\ s = [g EXCEPT !.result = result]))
<1> DEFINE l == [g EXCEPT !.result = result]
<1>1. S = (G \ {g}) \cup {l}
  BY DEF With
<1>2. SameRow(g, l)
  BY ResultIs
<1>3. \A x \in G : SameRow(x, x)
  BY DEF SameRow
<1> HIDE DEF l
<1>4. IsFiniteSet(S)
  <2>1. IsFiniteSet(G \ {g}) /\ IsFiniteSet({l})
    BY FS_Subset, FS_Singleton
  <2> QED BY <1>1, <2>1, FS_Union
<1>5. \A x \in G : \E s \in S : SameRow(x, s) /\ (x = g \/ s = x)
  BY <1>1, <1>2, <1>3
<1>6. ASSUME NEW s \in S
      PROVE  \E x \in G : SameRow(x, s) /\ ((s = x /\ x # g) \/ (x = g /\ s = l))
  <2>1. CASE s = l
    BY <1>2, <2>1
  <2>2. CASE s \in G \ {g}
    BY <1>3, <2>2
  <2> QED BY <1>1, <2>1, <2>2
<1> QED BY <1>4, <1>5, <1>6 DEF l

(* What a commit makes of the rows.                                        *)
Shifts(t) == {0} \cup {LastPair(games, g.round) - t.plan.last : g \in t.plan.ties}
TieRows(t, new) ==
    \E shift \in Shifts(t) : new = {[g EXCEPT !.pair = @ + shift] : g \in t.plan.ties}
Written(t, S) == S = IF t.game = NoGame THEN games ELSE With(games, t.game, t.result)

(* A commit writes what the transaction planned, but for the matches and   *)
(* games of a new knockout round, which are those of the winners that it   *)
(* reads.                                                                  *)
Reread(t) ==
    [game |-> t.game, result |-> t.result,
     plan |-> [decided |-> t.plan.decided, matches |-> Additions(t.plan).matches,
               games |-> Additions(t.plan).games, ties |-> t.plan.ties, last |-> t.plan.last,
               complete |-> t.plan.complete]]
Write(t) ==
    /\ \E ties, S : /\ TieRows(t, ties) /\ Written(t, S)
                    /\ games' = t.plan.games \cup ties \cup S
                    /\ Unique(t.plan.games \cup ties, games)
    /\ \A m \in t.plan.matches, n \in matches : MatchKey(m) # MatchKey(n)
    /\ matches' = Kept(matches, t.plan.decided) \cup Added(matches, t.plan.decided) \cup t.plan.matches
    /\ status' = IF t.plan.complete THEN "finished" ELSE status
    /\ config' = config
Rewrites(t, u) ==
    /\ u.game = t.game /\ u.result = t.result /\ u.plan.decided = t.plan.decided
    /\ u.plan.ties = t.plan.ties /\ u.plan.last = t.plan.last /\ u.plan.complete = t.plan.complete
    /\ u.plan.matches = Additions(t.plan).matches /\ u.plan.games = Additions(t.plan).games

LEMMA RereadIs == \A t : Rewrites(t, Reread(t))
<1> SUFFICES ASSUME NEW t PROVE Rewrites(t, Reread(t))
  OBVIOUS
<1> DEFINE N == Additions(t.plan).matches  B == Additions(t.plan).games
<1>1. Reread(t) = [game |-> t.game, result |-> t.result,
                   plan |-> [decided |-> t.plan.decided, matches |-> N, games |-> B,
                             ties |-> t.plan.ties, last |-> t.plan.last,
                             complete |-> t.plan.complete]]
  BY DEF Reread
<1> HIDE DEF N, B
<1>2. /\ Reread(t).game = t.game /\ Reread(t).result = t.result
      /\ Reread(t).plan.decided = t.plan.decided /\ Reread(t).plan.ties = t.plan.ties
      /\ Reread(t).plan.last = t.plan.last /\ Reread(t).plan.complete = t.plan.complete
      /\ Reread(t).plan.matches = N /\ Reread(t).plan.games = B
  BY <1>1
<1> QED BY <1>2 DEF Rewrites, N, B

LEMMA CommitWrites ==
    ASSUME NEW t, Commit(t)
    PROVE  /\ Write(Reread(t)) /\ transactions' = transactions \ {t} /\ config' = config
           /\ status' = IF t.plan.complete THEN "finished" ELSE status
           /\ config.format # "knockout" \/ t.plan.matches = {} => Write(t)
<1> DEFINE u == Reread(t)
           a == Additions(t.plan)
<1>1. /\ u.game = t.game /\ u.result = t.result /\ u.plan.decided = t.plan.decided
      /\ u.plan.ties = t.plan.ties /\ u.plan.last = t.plan.last /\ u.plan.complete = t.plan.complete
      /\ u.plan.matches = a.matches /\ u.plan.games = a.games
  BY RereadIs DEF Rewrites
<1>2. PICK shift \in {0} \cup {LastPair(games, g.round) - t.plan.last : g \in t.plan.ties} :
          LET new == a.games \cup {[g EXCEPT !.pair = @ + shift] : g \in t.plan.ties}
          IN  /\ Unique(new, games)
              /\ games' = new \cup IF t.game = NoGame THEN games ELSE With(games, t.game, t.result)
  BY DEF Commit
<1>3. /\ \A m \in a.matches, n \in matches : MatchKey(m) # MatchKey(n)
      /\ matches' = Kept(matches, t.plan.decided) \cup Added(matches, t.plan.decided) \cup a.matches
      /\ status' = IF t.plan.complete THEN "finished" ELSE status
      /\ transactions' = transactions \ {t} /\ config' = config
  BY DEF Commit, Deciding, Kept, Added
<1>4. config.format # "knockout" \/ t.plan.matches = {} => a.matches = t.plan.matches /\ a.games = t.plan.games
  BY DEF Additions
<1> HIDE DEF u, a
<1> DEFINE ties == {[g EXCEPT !.pair = @ + shift] : g \in t.plan.ties}
           S == IF t.game = NoGame THEN games ELSE With(games, t.game, t.result)
<1>5. TieRows(t, ties) /\ Written(t, S) /\ TieRows(u, ties) /\ Written(u, S)
  <2>1. TieRows(t, ties) /\ Written(t, S)
    BY <1>2 DEF TieRows, Written, Shifts
  <2>2. Shifts(u) = Shifts(t)
    BY <1>1 DEF Shifts
  <2> HIDE DEF S
  <2>3. TieRows(u, ties)
    BY <1>1, <2>1, <2>2 DEF TieRows
  <2> QED BY <1>1, <2>1, <2>3 DEF Written
<1>6. games' = a.games \cup ties \cup S /\ Unique(a.games \cup ties, games)
  BY <1>2
<1> HIDE DEF ties, S
<1>7. Write(u)
  BY <1>1, <1>3, <1>5, <1>6 DEF Write
<1>8. config.format # "knockout" \/ t.plan.matches = {} => Write(t)
  BY <1>3, <1>4, <1>5, <1>6 DEF Write
<1> QED BY <1>3, <1>7, <1>8 DEF u

LEMMA TiesAre ==
    ASSUME NEW t, NEW ties, TieRows(t, ties), IsFiniteSet(t.plan.ties),
           \A g \in t.plan.ties : IsRow(g)
    PROVE  /\ IsFiniteSet(ties)
           /\ \A h \in ties : \E g \in t.plan.ties :
                 /\ IsRow(h) /\ h.round = g.round /\ h.white = g.white /\ h.black = g.black
                 /\ h.match = g.match /\ h.number = g.number /\ h.kind = g.kind
                 /\ h.result = g.result
           /\ t.plan.ties = {} => ties = {}
<1>1. PICK shift \in Shifts(t) : ties = {[g EXCEPT !.pair = @ + shift] : g \in t.plan.ties}
  BY DEF TieRows
<1> DEFINE shifted(g) == [g EXCEPT !.pair = g.pair + shift]
           f == [g \in t.plan.ties |-> shifted(g)]
<1>2. ties = {shifted(g) : g \in t.plan.ties}
  BY <1>1
<1>3. \A h \in ties : \E g \in t.plan.ties : f[g] = h
  BY <1>2
<1>4. \A g \in t.plan.ties :
          LET h == shifted(g)
          IN  /\ IsRow(h) /\ h.round = g.round /\ h.white = g.white /\ h.black = g.black
              /\ h.match = g.match /\ h.number = g.number /\ h.kind = g.kind
              /\ h.result = g.result
  BY PairIs
<1> HIDE DEF f, shifted
<1>5. IsFiniteSet(ties)
  BY <1>3, FiniteImage
<1>6. t.plan.ties = {} => ties = {}
  BY <1>2
<1> QED BY <1>2, <1>4, <1>5, <1>6

LEMMA WrittenIs ==
    ASSUME NEW t, t.game = NoGame \/ t.game \in games, IsFiniteSet(games),
           \A g \in games : IsRow(g), NEW S, Written(t, S)
    PROVE  /\ IsFiniteSet(S)
           /\ \A x \in games : \E s \in S : SameRow(x, s) /\ (x = t.game \/ s = x)
           /\ \A s \in S : \E x \in games : SameRow(x, s)
                               /\ ((s = x /\ (x # t.game \/ t.game = NoGame))
                                   \/ (x = t.game /\ s = [x EXCEPT !.result = t.result]))
<1>1. CASE t.game \in games /\ t.game # NoGame
  BY <1>1, WithIs DEF Written
<1>2. CASE t.game = NoGame
  <2>1. S = games /\ \A g \in games : SameRow(g, g)
    BY <1>2 DEF Written, SameRow
  <2>2. \A x \in games : \E s \in S : SameRow(x, s) /\ (x = t.game \/ s = x)
    BY <2>1
  <2>3. ASSUME NEW s \in S
        PROVE  \E x \in games : SameRow(x, s) /\ ((s = x /\ (x # t.game \/ t.game = NoGame))
                                   \/ (x = t.game /\ s = [x EXCEPT !.result = t.result]))
    BY <2>1, <1>2
  <2> QED BY <2>1, <2>2, <2>3
<1> QED BY <1>1, <1>2

After(t, c, d) == (AddsNothing(t.plan) /\ d = c) \/ (Adds(t.plan, c) /\ d = c + 1)

LEMMA WriteRows ==
    ASSUME NEW t, Write(t), NEW c, Rows(c, games, matches), PlanFits(t.plan, c, matches),
           t.game = NoGame \/ t.game \in games
    PROVE  \E d : /\ After(t, c, d) /\ Rows(d, games', matches')
                  /\ \A m \in matches : \E l \in matches' : MatchKey(l) = MatchKey(m)
                  /\ Byes(matches') = Byes(matches) \cup Byes(t.plan.matches)
<1> DEFINE K == Kept(matches, t.plan.decided)
           L == Added(matches, t.plan.decided)
<1>1. PICK ties, S : /\ TieRows(t, ties) /\ Written(t, S)
                     /\ games' = t.plan.games \cup ties \cup S
  BY DEF Write
<1>2. matches' = K \cup L \cup t.plan.matches
  BY DEF Write
<1>3. \A m \in t.plan.matches, n \in matches : MatchKey(m) # MatchKey(n)
  BY DEF Write
<1>4. SameMatches(matches, K \cup L)
  BY DecidingSame DEF Rows, PlanFits
<1>5. \A l \in K \cup L : IsMatch(l)
  BY DEF Rows, PlanFits, Kept, Added
<1> DEFINE KL == K \cup L
<1>6. matches' = KL \cup t.plan.matches
  BY <1>2
<1>7. Byes(matches') = Byes(matches) \cup Byes(t.plan.matches)
  <2>1. Byes(KL) = Byes(matches)
    BY <1>4 DEF SameMatches
  <2> HIDE DEF KL
  <2> QED BY <1>6, <2>1 DEF Byes
<1>8. \A m \in matches : \E l \in matches' : MatchKey(l) = MatchKey(m)
  <2>1. \A m \in matches : \E l \in KL : MatchKey(l) = MatchKey(m)
    BY <1>4 DEF SameMatches
  <2> HIDE DEF KL
  <2> QED BY <1>6, <2>1
<1>9. IsFiniteSet(KL) /\ \A l \in KL : IsMatch(l) /\ l.round \in 1..c
  <2>1. \A l \in KL : \E m \in matches : MatchKey(l) = MatchKey(m)
    BY <1>4 DEF SameMatches
  <2>2. \A l \in KL : IsMatch(l)
    BY <1>5
  <2>3. IsFiniteSet(KL)
    BY <1>4 DEF SameMatches
  <2> HIDE DEF KL
  <2> QED BY <2>1, <2>2, <2>3, Keys DEF Rows
<1> HIDE DEF K, L, KL
<1>10. IsFiniteSet(S) /\ \A g \in S : IsRow(g) /\ g.round \in 1..c
  BY <1>1, WrittenIs DEF Rows, SameRow
<1>11. IsFiniteSet(ties) /\ \A g \in ties : IsRow(g) /\ g.round \in 1..c
  BY <1>1, TiesAre DEF PlanFits
<1>12. IsFiniteSet(ties \cup S) /\ \A g \in ties \cup S : IsRow(g) /\ g.round \in 1..c
  BY <1>10, <1>11, FS_Union
<1>13. c \in Nat \ {0} /\ \A r \in 1..c : \E m \in matches : m.round = r /\ m.index = 1
  BY DEF Rows
<1>14. CASE AddsNothing(t.plan)
  <2>1. games' = ties \cup S /\ matches' = KL
    BY <1>1, <1>6, <1>14 DEF AddsNothing
  <2>2. \A r \in 1..c : \E m \in matches' : m.round = r /\ m.index = 1
    <3> SUFFICES ASSUME NEW r \in 1..c PROVE \E m \in matches' : m.round = r /\ m.index = 1
      OBVIOUS
    <3>1. PICK m \in matches : m.round = r /\ m.index = 1
      BY <1>13
    <3>2. PICK l \in matches' : MatchKey(l) = MatchKey(m)
      BY <1>8
    <3> QED BY <3>1, <3>2, Keys
  <2>3. Rows(c, games', matches')
    BY <1>9, <1>12, <1>13, <2>1, <2>2 DEF Rows
  <2> QED BY <1>7, <1>8, <1>14, <2>3 DEF After
<1>15. CASE ~AddsNothing(t.plan)
  <2>1. PICK r \in 1..c : Adds(t.plan, r)
    BY <1>15 DEF PlanFits
  <2>2. r = c
    <3>1. PICK m \in t.plan.matches : m.round = r + 1 /\ m.index = 1
      BY <2>1 DEF Adds
    <3>2. ASSUME r + 1 \in 1..c PROVE FALSE
      <4>1. PICK l \in matches : l.round = r + 1 /\ l.index = 1
        BY <1>13, <3>2
      <4> QED BY <1>3, <3>1, <4>1, Keys
    <3> QED BY <1>13, <3>2
  <2>3. Adds(t.plan, c)
    BY <2>1, <2>2
  <2>4. IsFiniteSet(games') /\ IsFiniteSet(matches')
    <3>1. games' = t.plan.games \cup (ties \cup S)
      BY <1>1
    <3> QED BY <1>6, <1>9, <1>12, <2>3, <3>1, FS_Union DEF Adds
  <2>5. 1..c \subseteq 1..(c + 1) /\ c + 1 \in 1..(c + 1) /\ c + 1 \in Nat \ {0}
        /\ 1..(c + 1) = (1..c) \cup {c + 1}
    BY <1>13
  <2>6. \A g \in games' : IsRow(g) /\ g.round \in 1..(c + 1)
    BY <1>1, <1>12, <2>3, <2>5 DEF Adds
  <2>7. \A m \in matches' : IsMatch(m) /\ m.round \in 1..(c + 1)
    BY <1>6, <1>9, <2>3, <2>5 DEF Adds
  <2>8. \A k \in 1..(c + 1) : \E m \in matches' : m.round = k /\ m.index = 1
    <3> SUFFICES ASSUME NEW k \in 1..(c + 1) PROVE \E m \in matches' : m.round = k /\ m.index = 1
      OBVIOUS
    <3>1. CASE k \in 1..c
      <4>1. PICK m \in matches : m.round = k /\ m.index = 1
        BY <1>13, <3>1
      <4>2. PICK l \in matches' : MatchKey(l) = MatchKey(m)
        BY <1>8
      <4> QED BY <4>1, <4>2, Keys
    <3>2. CASE k = c + 1
      BY <1>6, <2>3, <3>2 DEF Adds
    <3> QED BY <2>5, <3>1, <3>2
  <2>9. Rows(c + 1, games', matches')
    BY <2>4, <2>5, <2>6, <2>7, <2>8 DEF Rows
  <2> QED BY <1>7, <1>8, <2>3, <2>9 DEF After
<1> QED BY <1>14, <1>15

LEMMA PlanFitsStill ==
    ASSUME NEW p, NEW c \in Nat, NEW M, PlanFits(p, c, M), NEW d \in Nat, d >= c, NEW N,
           \A m \in M : \E l \in N : MatchKey(l) = MatchKey(m)
    PROVE  PlanFits(p, d, N)
<1>1. 1..c \subseteq 1..d
  OBVIOUS
<1>2. \A x \in p.decided : \E m \in N : MatchKey(m) = MatchKey(x)
  BY DEF PlanFits
<1>3. AddsNothing(p) \/ \E r \in 1..d : Adds(p, r)
  BY <1>1 DEF PlanFits
<1>4. \A g \in p.ties : IsRow(g) /\ g.round \in 1..d
  BY <1>1 DEF PlanFits
<1> QED BY <1>2, <1>3, <1>4 DEF PlanFits

-----------------------------------------------------------------------------
(* The transactions of every format: a game is written by one of them at a *)
(* time, and is not over before it commits.                                *)
Writers ==
    /\ config \in Configs
    /\ status \in {"scheduled", "running", "finished"}
    /\ status = "scheduled" => games = {} /\ matches = {} /\ transactions = {}
    /\ IsFiniteSet(transactions) /\ Cardinality(transactions) <= MaxOpen
    /\ \A t \in transactions : \/ t.game = NoGame
                               \/ t.game \in games /\ t.game.result = Unplayed /\ t.result \in Results
    /\ \A t, u \in transactions : t.game = u.game => t = u

LEMMA WritersInitially == Init => Writers
<1> SUFFICES ASSUME Init PROVE Writers
  OBVIOUS
<1>1. IsFiniteSet(transactions) /\ Cardinality(transactions) = 0
  BY FS_EmptySet DEF Init
<1>2. 0 <= MaxOpen
  BY RoundsAssumption
<1> QED BY <1>1, <1>2 DEF Init, Writers

LEMMA OneMoreTransaction ==
    ASSUME NEW T, IsFiniteSet(T), NEW t, Cardinality(T) < MaxOpen
    PROVE  IsFiniteSet(T \cup {t}) /\ Cardinality(T \cup {t}) <= MaxOpen
<1>1. Cardinality(T) \in Nat /\ MaxOpen \in Nat
  BY FS_CardinalityType, RoundsAssumption
<1>2. Cardinality(T \cup {t}) = IF t \in T THEN Cardinality(T) ELSE Cardinality(T) + 1
  BY FS_AddElement
<1>3. IsFiniteSet(T \cup {t})
  BY FS_AddElement
<1> QED BY <1>1, <1>2, <1>3

LEMMA OneLessTransaction ==
    ASSUME NEW T, IsFiniteSet(T), NEW t, Cardinality(T) <= MaxOpen
    PROVE  IsFiniteSet(T \ {t}) /\ Cardinality(T \ {t}) <= MaxOpen
<1>1. IsFiniteSet(T \ {t}) /\ Cardinality(T \ {t}) <= Cardinality(T)
  BY FS_Subset
<1>2. Cardinality(T) \in Nat /\ Cardinality(T \ {t}) \in Nat /\ MaxOpen \in Nat
  BY <1>1, FS_CardinalityType, RoundsAssumption
<1> QED BY <1>1, <1>2

LEMMA NoGameIs == NoGame.result = Unplayed /\ NoGame.round = 0
BY DEF NoGame, Game

(* What a transaction is when it begins.                                   *)
Begins(t, view) ==
    /\ status = "running"
    /\ t.plan = Plan(config, view, matches)
    /\ transactions' = transactions \cup {t}
    /\ UNCHANGED <<config, status, games, matches>>
    /\ \A u \in transactions : t.game # u.game
    /\ Cardinality(transactions) < MaxOpen

LEMMA BeginsIs ==
    /\ \A g \in games : \A result : FinishBegins(g, result) =>
          \E t : Begins(t, With(games, g, result)) /\ t.game = g /\ t.result = result
                 /\ g.result = Unplayed
    /\ CycleBegins => \E t : Begins(t, games) /\ t.game = NoGame
<1>1. ASSUME NEW g \in games, NEW result, FinishBegins(g, result)
      PROVE  \E t : Begins(t, With(games, g, result)) /\ t.game = g /\ t.result = result
                    /\ g.result = Unplayed
  <2> DEFINE plan == Plan(config, With(games, g, result), matches)
  <2>1. transactions' = transactions \cup {[game |-> g, result |-> result, plan |-> plan]}
    BY <1>1 DEF FinishBegins
  <2> DEFINE t == [game |-> g, result |-> result, plan |-> plan]
  <2>2. t.game = g /\ t.result = result /\ t.plan = plan
    OBVIOUS
  <2> HIDE DEF t
  <2>3. \A u \in transactions : t.game # u.game
    BY <1>1, <2>2 DEF FinishBegins, BeingWritten
  <2>4. transactions' = transactions \cup {t}
    BY <2>1 DEF t
  <2> QED BY <1>1, <2>1, <2>2, <2>3, <2>4 DEF FinishBegins, Begins
<1>2. ASSUME CycleBegins PROVE \E t : Begins(t, games) /\ t.game = NoGame
  <2> DEFINE plan == Plan(config, games, matches)
  <2>1. transactions' = transactions \cup {[game |-> NoGame, result |-> Unplayed, plan |-> plan]}
    BY <1>2 DEF CycleBegins
  <2> DEFINE t == [game |-> NoGame, result |-> Unplayed, plan |-> plan]
  <2>2. t.game = NoGame /\ t.plan = plan
    OBVIOUS
  <2> HIDE DEF t
  <2>3. \A u \in transactions : t.game # u.game
    BY <1>2, <2>2 DEF CycleBegins, BeingWritten
  <2>4. transactions' = transactions \cup {t}
    BY <2>1 DEF t
  <2> QED BY <1>2, <2>1, <2>2, <2>3, <2>4 DEF CycleBegins, Begins
<1> QED BY <1>1, <1>2

LEMMA WriteKeepsGames ==
    ASSUME NEW t, Write(t), NEW g \in games, g # t.game
    PROVE  g \in games'
<1>1. PICK ties, S : /\ TieRows(t, ties) /\ Written(t, S)
                     /\ games' = t.plan.games \cup ties \cup S
  BY DEF Write
<1>2. g \in S
  BY <1>1 DEF Written, With
<1> QED BY <1>1, <1>2

LEMMA WritersInductive == Writers /\ [Next]_vars => Writers'
<1> SUFFICES ASSUME Writers, [Next]_vars PROVE Writers'
  OBVIOUS
<1> USE DEF Writers
<1>1. CASE Prepare
  BY <1>1 DEF Prepare
<1>2. ASSUME NEW t, NEW view, Begins(t, view),
             t.game = NoGame \/ (t.game \in games /\ t.game.result = Unplayed /\ t.result \in Results)
      PROVE  Writers'
  BY <1>2, OneMoreTransaction DEF Begins
<1>3. CASE GameEnds
  <2>1. PICK g \in games, result \in config.results : FinishBegins(g, result)
    BY <1>3 DEF GameEnds
  <2>2. result \in Results
    BY RoundsAssumption
  <2>3. PICK t : Begins(t, With(games, g, result)) /\ t.game = g /\ t.result = result
                 /\ g.result = Unplayed
    BY <2>1, BeginsIs
  <2> QED BY <1>2, <2>2, <2>3
<1>4. CASE CycleBegins
  BY <1>2, <1>4, BeginsIs
<1>5. CASE Commits
  <2>1. PICK t \in transactions : Commit(t)
    BY <1>5 DEF Commits
  <2>2. /\ status' = IF t.plan.complete THEN "finished" ELSE status
        /\ transactions' = transactions \ {t} /\ config' = config
    BY <2>1, CommitWrites
  <2>3. IsFiniteSet(transactions') /\ Cardinality(transactions') <= MaxOpen
    BY <2>2, OneLessTransaction
  <2>4. status' \in {"running", "finished"}
    BY <2>2
  <2>5. ASSUME NEW u \in transactions', u.game # NoGame PROVE u.game \in games'
    <3>1. u \in transactions /\ u # t /\ u.game \in games
      BY <2>2, <2>5
    <3>2. Write(Reread(t)) /\ Reread(t).game = t.game
      BY <2>1, CommitWrites, RereadIs DEF Rewrites
    <3>3. u.game # Reread(t).game
      BY <3>1, <3>2
    <3> QED BY <3>1, <3>2, <3>3, WriteKeepsGames
  <2>6. \A u, v \in transactions' : u.game = v.game => u = v
    BY <2>2
  <2>7. \A u \in transactions' : \/ u.game = NoGame
                                 \/ u.game \in games' /\ u.game.result = Unplayed /\ u.result \in Results
    BY <2>2, <2>5
  <2> QED BY <2>2, <2>3, <2>4, <2>6, <2>7
<1>6. CASE RollsBack
  <2>1. PICK t \in transactions : RollBack(t)
    BY <1>6 DEF RollsBack
  <2>2. IsFiniteSet(transactions') /\ Cardinality(transactions') <= MaxOpen
    BY <2>1, OneLessTransaction DEF RollBack
  <2> QED BY <2>1, <2>2 DEF RollBack
<1>7. CASE UNCHANGED vars
  BY <1>7 DEF vars
<1> QED BY <1>1, <1>3, <1>4, <1>5, <1>6, <1>7 DEF Next

-----------------------------------------------------------------------------
(* S has the rows of G, but for results.                                   *)
Mirrors(G, S) ==
    \E f : /\ \A x \in G : f[x] \in S /\ SameRow(x, f[x])
           /\ \A s \in S : \E x \in G : f[x] = s

At(round, S) == {x \in S : x.round = round}
Till(round, S) == {x \in S : x.round < round}

LEMMA SelfMirrors ==
    ASSUME NEW G, \A x \in G : IsRow(x)
    PROVE  Mirrors(G, G)
<1> DEFINE f == [x \in G |-> x]
<1>1. \A x \in G : f[x] \in G /\ SameRow(x, f[x])
  BY DEF SameRow
<1>2. \A s \in G : \E x \in G : f[x] = s
  OBVIOUS
<1> HIDE DEF f
<1> QED BY <1>1, <1>2 DEF Mirrors

LEMMA WithMirrors ==
    ASSUME NEW G, NEW g \in G, \A x \in G : IsRow(x), NEW result,
           NEW S, S = With(G, g, result)
    PROVE  Mirrors(G, S)
<1> DEFINE l == [g EXCEPT !.result = result]
           f == [x \in G |-> IF x = g THEN l ELSE x]
<1>1. S = (G \ {g}) \cup {l}
  BY DEF With
<1>2. SameRow(g, l)
  BY ResultIs
<1> HIDE DEF l
<1>3. \A x \in G : f[x] \in S /\ SameRow(x, f[x])
  BY <1>1, <1>2 DEF SameRow
<1>4. \A s \in S : \E x \in G : f[x] = s
  BY <1>1
<1> HIDE DEF f
<1> QED BY <1>3, <1>4 DEF Mirrors

LEMMA WrittenMirrors ==
    ASSUME NEW t, t.game = NoGame \/ t.game \in games, \A g \in games : IsRow(g),
           NEW S, Written(t, S)
    PROVE  Mirrors(games, S)
<1>1. CASE t.game = NoGame
  BY <1>1, SelfMirrors DEF Written
<1>2. CASE t.game # NoGame
  BY <1>2, WithMirrors DEF Written
<1> QED BY <1>1, <1>2

LEMMA MirrorsAt ==
    ASSUME NEW G, NEW S, Mirrors(G, S), NEW round
    PROVE  Mirrors(At(round, G), At(round, S)) /\ Mirrors(Till(round, G), Till(round, S))
<1>1. PICK f : /\ \A x \in G : f[x] \in S /\ SameRow(x, f[x])
               /\ \A s \in S : \E x \in G : f[x] = s
  BY DEF Mirrors
<1>2. \A x \in G : f[x].round = x.round
  BY <1>1 DEF SameRow
<1>3. /\ \A x \in At(round, G) : f[x] \in At(round, S) /\ SameRow(x, f[x])
      /\ \A s \in At(round, S) : \E x \in At(round, G) : f[x] = s
  BY <1>1, <1>2 DEF At
<1>4. /\ \A x \in Till(round, G) : f[x] \in Till(round, S) /\ SameRow(x, f[x])
      /\ \A s \in Till(round, S) : \E x \in Till(round, G) : f[x] = s
  BY <1>1, <1>2 DEF Till
<1> QED BY <1>3, <1>4 DEF Mirrors

LEMMA MirrorsMet ==
    ASSUME NEW G, NEW S, Mirrors(G, S), NEW p, NEW q
    PROVE  Met(S, p, q) <=> Met(G, p, q)
<1>1. PICK f : /\ \A x \in G : f[x] \in S /\ SameRow(x, f[x])
               /\ \A s \in S : \E x \in G : f[x] = s
  BY DEF Mirrors
<1>2. \A x \in G : f[x].white = x.white /\ f[x].black = x.black
  BY <1>1 DEF SameRow
<1> QED BY <1>1, <1>2 DEF Met

LEMMA MirrorsOneGame ==
    ASSUME NEW G, NEW S, Mirrors(G, S), NEW p, OneGame(G, p)
    PROVE  OneGame(S, p)
<1>1. PICK f : /\ \A x \in G : f[x] \in S /\ SameRow(x, f[x])
               /\ \A s \in S : \E x \in G : f[x] = s
  BY DEF Mirrors
<1>2. \A x \in G : f[x].white = x.white /\ f[x].black = x.black
  BY <1>1 DEF SameRow
<1>3. PICK g \in G : p \in {g.white, g.black} /\ \A h \in G : p \in {h.white, h.black} => h = g
  BY DEF OneGame
<1>4. f[g] \in S /\ p \in {f[g].white, f[g].black}
  BY <1>1, <1>2, <1>3
<1>5. \A h \in S : p \in {h.white, h.black} => h = f[g]
  BY <1>1, <1>2, <1>3
<1> QED BY <1>4, <1>5 DEF OneGame

(* A round stays fair when games end and matches are decided.              *)
LEMMA FairSame ==
    ASSUME NEW n, NEW G, NEW M, NEW E, NEW H, Fair(n, G, M, E, H),
           NEW S, Mirrors(G, S), NEW N, Byes(N) = Byes(M),
           NEW F, \A p, q : Met(F, p, q) <=> Met(E, p, q), NEW I, Byes(I) = Byes(H)
    PROVE  Fair(n, S, N, F, I)
<1>1. Cardinality(Byes(N)) = n % 2
  BY DEF Fair
<1>2. Paired(n, N) = Paired(n, M)
  BY DEF Paired
<1>3. \A p \in Paired(n, N) : OneGame(S, p)
  BY <1>2, MirrorsOneGame DEF Fair
<1>4. \A p : HadBye(I, p) <=> HadBye(H, p)
  BY DEF HadBye
<1>5. \A m \in Byes(N) : HadBye(I, m.first) => \A p \in 1..n : HadBye(I, p)
  BY <1>4 DEF Fair
<1>6. \A p, q : Met(F, p, q) <=> Met(E, p, q)
  OBVIOUS
<1>7. ASSUME NEW s \in S, Met(F, s.white, s.black)
      PROVE  \E g \in G : Met(E, g.white, g.black)
  <2>1. PICK f : /\ \A x \in G : f[x] \in S /\ SameRow(x, f[x])
                 /\ \A l \in S : \E x \in G : f[x] = l
    BY DEF Mirrors
  <2>2. PICK x \in G : f[x] = s
    BY <2>1
  <2>3. s.white = x.white /\ s.black = x.black
    BY <2>1, <2>2 DEF SameRow
  <2> QED BY <1>6, <1>7, <2>3
<1>8. (\E s \in S : Met(F, s.white, s.black)) =>
          \A f : Partners(f, Paired(n, N)) => \E p \in Paired(n, N) : Met(F, p, f[p])
  BY <1>2, <1>6, <1>7 DEF Fair
<1> QED BY <1>1, <1>3, <1>5, <1>8 DEF Fair

-----------------------------------------------------------------------------
(* The fields of a plan.                                                   *)
Writes(plan, decided, M, G, ties, last, complete) ==
    plan = [decided |-> decided, matches |-> M, games |-> G, ties |-> ties, last |-> last,
            complete |-> complete]

LEMMA WritesFields ==
    ASSUME NEW plan, NEW decided, NEW M, NEW G, NEW ties, NEW last, NEW complete,
           Writes(plan, decided, M, G, ties, last, complete)
    PROVE  /\ plan.decided = decided /\ plan.matches = M /\ plan.games = G
           /\ plan.ties = ties /\ plan.last = last /\ plan.complete = complete
BY DEF Writes

LEMMA WritesComplete ==
    ASSUME NEW plan, NEW decided, NEW M, NEW G, NEW ties, NEW last, NEW complete,
           Writes(plan, decided, M, G, ties, last, complete), NEW end
    PROVE  Writes([plan EXCEPT !.complete = end], decided, M, G, ties, last, end)
BY DEF Writes

(* The last round.                                                         *)
LEMMA CurrentRoundIs ==
    ASSUME NEW c, NEW G, NEW M, Rows(c, G, M)
    PROVE  CurrentRound(M) = At(c, M) /\ \A m \in CurrentRound(M) : m.round = c
<1> DEFINE S == {m.round : m \in M}
<1>1. c \in S /\ S \subseteq 1..c /\ c \in Nat
  BY DEF Rows
<1> HIDE DEF S
<1>2. Max(S) = c
  <2>1. \A x \in S : c >= x
    BY <1>1
  <2>2. Max(S) \in S /\ \A y \in S : Max(S) >= y
    BY <1>1, <2>1 DEF Max
  <2>3. Max(S) \in 1..c /\ Max(S) >= c
    BY <1>1, <2>2
  <2> HIDE DEF Max
  <2> QED BY <1>1, <2>3
<1> QED BY <1>2 DEF CurrentRound, At, S

Deciders(D, M) ==
    /\ IsFiniteSet(D)
    /\ \A d \in D : IsMatch(d) /\ d.status = "finished" /\ \E m \in M : MatchKey(m) = MatchKey(d)

LEMMA DecidersAre ==
    ASSUME NEW M, IsFiniteSet(M), \A m \in M : IsMatch(m), NEW S, S \subseteq M,
           NEW D, NEW winner, \A d \in D : \E m \in S : d = Decided(m, winner[m])
    PROVE  Deciders(D, M)
<1> DEFINE f == [m \in S |-> Decided(m, winner[m])]
<1>1. \A d \in D : \E m \in S : f[m] = d
  OBVIOUS
<1> HIDE DEF f
<1>2. IsFiniteSet(D)
  BY <1>1, FS_Subset, FiniteImage
<1>3. ASSUME NEW d \in D
      PROVE  IsMatch(d) /\ d.status = "finished" /\ \E m \in M : MatchKey(m) = MatchKey(d)
  <2>1. PICK m \in S : d = Decided(m, winner[m])
    OBVIOUS
  <2>2. Fields(d, m.round, m.index, m.first, m.second, "finished", winner[m])
    BY <2>1, DecidedIs
  <2> QED BY <2>2, Keys DEF Fields
<1> QED BY <1>2, <1>3 DEF Deciders

LEMMA NewRoundAdds ==
    ASSUME NEW n, NEW c, NEW plan, NewRound(n, c + 1, plan.games, plan.matches)
    PROVE  Adds(plan, c)
BY DEF NewRound, NewGame, NewMatch, Adds

-----------------------------------------------------------------------------
SwissPlanFits(plan, n, c, G, M) ==
    /\ PlanFits(plan, c, M) /\ plan.ties = {}
    /\ \A r \in 1..c : Adds(plan, r) =>
          Fair(n, plan.games, plan.matches, Till(r + 1, G), Till(r + 1, M))

(* What _advance_swiss may write.                                          *)
SwissAdvance(a, n, c, view, M) ==
    \E D, G, N, end :
       /\ Writes(a, D, N, G, {}, 0, end) /\ Deciders(D, M)
       /\ \/ G = {} /\ N = {}
          \/ NewRound(n, c + 1, G, N) /\ Fair(n, G, N, view, M)

LEMMA SwissAdvanceIs ==
    ASSUME NEW k \in Configs, NEW c, NEW G, NEW M, Rows(c, G, M), NEW view, IsFiniteSet(view),
           NEW a, a = SwissPlan(k, view, M)
    PROVE  SwissAdvance(a, k.n, c, view, M)
<1> DEFINE current == CurrentRound(M)
           round == (CHOOSE m \in current : TRUE).round
           pending == {m \in current : m.status = "pending"}
           winner == [m \in pending |-> Victor(CHOOSE g \in GamesOfMatch(view, m) : TRUE)]
           decided == {Decided(m, Victor(CHOOSE g \in GamesOfMatch(view, m) : TRUE)) : m \in pending}
           next == SwissRound(k.n, round + 1, view, M)
<1>1. /\ c \in Nat \ {0} /\ IsFiniteSet(M) /\ \A m \in M : IsMatch(m) /\ m.round \in 1..c
      /\ \E m \in M : m.round = c
  BY DEF Rows
<1>2. round = c /\ current \subseteq M
  BY CurrentRoundIs, <1>1 DEF At
<1>3. Deciders(decided, M)
  <2>1. \A d \in decided : \E m \in pending : d = Decided(m, winner[m])
    OBVIOUS
  <2>2. pending \subseteq M
    BY <1>2
  <2> HIDE DEF decided, pending, winner
  <2> QED BY <1>1, <2>1, <2>2, DecidersAre
<1>4. \/ a = Nothing
      \/ a = [Nothing EXCEPT !.decided = decided, !.complete = TRUE]
      \/ a = [Nothing EXCEPT !.decided = decided, !.matches = next.matches, !.games = next.games]
  <2> DEFINE b1 == \E m \in current : InPlay(view, m)
             b2 == round >= k.per
             a1 == [Nothing EXCEPT !.decided = decided, !.complete = TRUE]
             a2 == [Nothing EXCEPT !.decided = decided, !.matches = next.matches, !.games = next.games]
  <2>1. a = IF b1 THEN Nothing ELSE IF b2 THEN a1 ELSE a2
    BY DEF SwissPlan
  <2> HIDE DEF b1, b2, a1, a2
  <2>2. a = Nothing \/ a = a1 \/ a = a2
    BY <2>1
  <2> QED BY <2>2 DEF a1, a2
<1>5. NewRound(k.n, c + 1, next.games, next.matches) /\ Fair(k.n, next.games, next.matches, view, M)
  <2>1. k.n \in Nat \ {0, 1}
    BY RoundsAssumption
  <2>2. c + 1 = 1 => view = {}
    BY <1>1
  <2>3. next = SwissRound(k.n, c + 1, view, M)
    BY <1>2
  <2> HIDE DEF next
  <2> QED BY <1>1, <2>1, <2>2, <2>3, SwissRoundIsFair
<1> HIDE DEF current, round, pending, winner, decided, next
<1>6. CASE a = Nothing
  BY <1>6, FS_EmptySet DEF Nothing, Writes, Deciders, SwissAdvance
<1>7. CASE a = [Nothing EXCEPT !.decided = decided, !.complete = TRUE]
  BY <1>7, <1>3 DEF Nothing, Writes, SwissAdvance
<1>8. CASE a = [Nothing EXCEPT !.decided = decided, !.matches = next.matches, !.games = next.games]
  <2> DEFINE x == next.matches  y == next.games
  <2>1. Writes(a, decided, x, y, {}, 0, FALSE)
    <3> HIDE DEF x, y
    <3> QED BY <1>8 DEF Nothing, Writes, x, y
  <2>2. NewRound(k.n, c + 1, y, x) /\ Fair(k.n, y, x, view, M)
    BY <1>5
  <2> HIDE DEF x, y
  <2> QED BY <1>3, <2>1, <2>2 DEF SwissAdvance
<1> QED BY <1>4, <1>6, <1>7, <1>8

LEMMA SwissPlanIs ==
    ASSUME NEW k \in Configs, k.format = "swiss", NEW c, NEW G, NEW M, Rows(c, G, M),
           NEW view, Mirrors(G, view), IsFiniteSet(view), NEW plan, plan = Plan(k, view, M)
    PROVE  SwissPlanFits(plan, k.n, c, G, M)
<1> DEFINE a == SwissPlan(k, view, M)
<1>1. plan = [a EXCEPT !.complete = Ends(a, view)]
  BY DEF Plan
<1>2. SwissAdvance(a, k.n, c, view, M)
  BY SwissAdvanceIs
<1> HIDE DEF a
<1>3. PICK D, B, N, end :
          /\ Writes(a, D, N, B, {}, 0, end) /\ Deciders(D, M)
          /\ \/ B = {} /\ N = {}
             \/ NewRound(k.n, c + 1, B, N) /\ Fair(k.n, B, N, view, M)
  BY <1>2 DEF SwissAdvance
<1>4. Writes(plan, D, N, B, {}, 0, Ends(a, view))
  BY <1>1, <1>3, WritesComplete
<1>5. plan.decided = D /\ plan.matches = N /\ plan.games = B /\ plan.ties = {}
  BY <1>4, WritesFields
<1>6. c \in Nat \ {0} /\ \A g \in G : g.round \in 1..c
  BY DEF Rows
<1>7. \A m \in M : m.round \in 1..c
  BY DEF Rows
<1>8. AddsNothing(plan) \/ Adds(plan, c)
  BY <1>3, <1>5, NewRoundAdds DEF AddsNothing
<1>9. PlanFits(plan, c, M)
  BY <1>5, FS_EmptySet, <1>6, <1>3, <1>8 DEF Deciders, PlanFits
<1>10. ASSUME NEW r \in 1..c, Adds(plan, r)
       PROVE  Fair(k.n, plan.games, plan.matches, Till(r + 1, G), Till(r + 1, M))
  <2>1. N # {}
    BY <1>5, <1>10 DEF Adds
  <2>2. NewRound(k.n, c + 1, B, N) /\ Fair(k.n, B, N, view, M)
    BY <1>3, <2>1
  <2>3. r = c
    <3>1. PICK m \in N : m.round = r + 1
      BY <1>5, <1>10 DEF Adds
    <3>2. m.round = c + 1
      BY <2>2 DEF NewRound, NewMatch
    <3> QED BY <1>6, <3>1, <3>2
  <2>4. Till(r + 1, G) = G /\ Till(r + 1, M) = M
    BY <1>6, <1>7, <2>3 DEF Till
  <2>5. Mirrors(B, B)
    BY <2>2, SelfMirrors DEF NewRound, NewGame
  <2>6. \A p, q : Met(G, p, q) <=> Met(view, p, q)
    BY MirrorsMet
  <2>7. Fair(k.n, B, N, G, M)
    BY <2>2, <2>5, <2>6, FairSame
  <2> QED BY <1>5, <2>4, <2>7
<1> QED BY <1>5, <1>9, <1>10 DEF SwissPlanFits

-----------------------------------------------------------------------------
FairAt(n, r, G, M) == Fair(n, At(r, G), At(r, M), Till(r, G), Till(r, M))
SwissRowsFit(n, c, G, M) == Rows(c, G, M) /\ \A r \in 1..c : FairAt(n, r, G, M)
SwissFits(c) ==
    /\ SwissRowsFit(config.n, c, games, matches)
    /\ \A t \in transactions : SwissPlanFits(t.plan, config.n, c, games, matches)
Swiss == config.format = "swiss" /\ status # "scheduled" => \E c : SwissFits(c)

LEMMA AddsOnce ==
    ASSUME NEW p, NEW r \in Nat, Adds(p, r)
    PROVE  ~AddsNothing(p) /\ \A s \in Nat : Adds(p, s) => s = r
<1>1. PICK m \in p.matches : m.round = r + 1
  BY DEF Adds
<1>2. ASSUME NEW s \in Nat, Adds(p, s) PROVE s = r
  BY <1>1, <1>2 DEF Adds
<1> QED BY <1>1, <1>2 DEF AddsNothing

(* Round r and the rounds before it have the same games and byes.          *)
SameRound(r, G, S, M, N) ==
    /\ Mirrors(At(r, G), At(r, S))
    /\ \A p, q : Met(Till(r, S), p, q) <=> Met(Till(r, G), p, q)
    /\ \A p, q : Met(Till(r + 1, S), p, q) <=> Met(Till(r + 1, G), p, q)
    /\ Byes(At(r, N)) = Byes(At(r, M)) /\ Byes(Till(r, N)) = Byes(Till(r, M))
    /\ Byes(Till(r + 1, N)) = Byes(Till(r + 1, M))

LEMMA OldRounds ==
    ASSUME NEW c \in Nat, NEW G, NEW S, Mirrors(G, S), NEW new, \A g \in new : g.round = c + 1,
           NEW M, NEW N, NEW more, \A m \in more : m.round = c + 1,
           Byes(N) = Byes(M) \cup Byes(more), NEW r \in 1..c
    PROVE  SameRound(r, G, new \cup S, M, N)
<1>1. r # c + 1 /\ ~(c + 1 < r) /\ ~(c + 1 < r + 1)
  OBVIOUS
<1>2. At(r, new \cup S) = At(r, S) /\ Till(r, new \cup S) = Till(r, S)
      /\ Till(r + 1, new \cup S) = Till(r + 1, S)
  BY <1>1 DEF At, Till
<1>3. \A m \in Byes(more) : m.round = c + 1
  BY DEF Byes
<1>4. /\ Byes(At(r, N)) = At(r, Byes(N)) /\ Byes(Till(r, N)) = Till(r, Byes(N))
      /\ Byes(Till(r + 1, N)) = Till(r + 1, Byes(N))
      /\ Byes(At(r, M)) = At(r, Byes(M)) /\ Byes(Till(r, M)) = Till(r, Byes(M))
      /\ Byes(Till(r + 1, M)) = Till(r + 1, Byes(M))
  BY DEF Byes, At, Till
<1>5. At(r, Byes(N)) = At(r, Byes(M)) /\ Till(r, Byes(N)) = Till(r, Byes(M))
      /\ Till(r + 1, Byes(N)) = Till(r + 1, Byes(M))
  BY <1>1, <1>3 DEF At, Till
<1>6. Mirrors(At(r, G), At(r, S)) /\ Mirrors(Till(r, G), Till(r, S))
      /\ Mirrors(Till(r + 1, G), Till(r + 1, S))
  BY MirrorsAt
<1> QED BY <1>2, <1>4, <1>5, <1>6, MirrorsMet DEF SameRound

LEMMA SwissPrepared ==
    ASSUME RoundsAssumption, config \in Configs, config.format = "swiss", Prepare
    PROVE  SwissRowsFit(config.n, 1, games', matches')
<1> DEFINE r == SwissRound(config.n, 1, {}, {})
<1>1. First(config) = r
  BY DEF First
<1>2. games' = r.games /\ matches' = r.matches
  BY <1>1 DEF Prepare
<1>3. NewRound(config.n, 1, r.games, r.matches) /\ Fair(config.n, r.games, r.matches, {}, {})
  <2>1. config.n \in Nat \ {0, 1} /\ IsFiniteSet({})
    BY FS_EmptySet
  <2> HIDE DEF r
  <2> QED BY <2>1, SwissRoundIsFair DEF r
<1> HIDE DEF r
<1>4. NewRound(config.n, 1, games', matches') /\ Fair(config.n, games', matches', {}, {})
  BY <1>2, <1>3
<1>5. /\ IsFiniteSet(games') /\ IsFiniteSet(matches')
      /\ \A g \in games' : IsRow(g) /\ g.round = 1
      /\ \A m \in matches' : IsMatch(m) /\ m.round = 1
      /\ \E m \in matches' : m.index = 1
  BY <1>4 DEF NewRound, NewGame, NewMatch
<1>6. Rows(1, games', matches')
  BY <1>5 DEF Rows
<1>7. At(1, games') = games' /\ At(1, matches') = matches' /\ Till(1, games') = {} /\ Till(1, matches') = {}
  BY <1>5 DEF At, Till
<1>8. \A i \in 1..1 : FairAt(config.n, i, games', matches')
  BY <1>4, <1>7 DEF FairAt
<1> QED BY <1>6, <1>8 DEF SwissRowsFit

LEMMA SwissWrite ==
    ASSUME NEW n, NEW c, SwissRowsFit(n, c, games, matches), NEW t, Write(t),
           SwissPlanFits(t.plan, n, c, games, matches), t.game = NoGame \/ t.game \in games
    PROVE  \E d : /\ SwissRowsFit(n, d, games', matches')
                  /\ \A u : SwissPlanFits(u, n, c, games, matches)
                              => SwissPlanFits(u, n, d, games', matches')
<1>1. Rows(c, games, matches) /\ PlanFits(t.plan, c, matches) /\ t.plan.ties = {}
  BY DEF SwissRowsFit, SwissPlanFits
<1>2. c \in Nat \ {0} /\ (\A g \in games : IsRow(g) /\ g.round \in 1..c)
      /\ \A m \in matches : m.round \in 1..c
  BY <1>1 DEF Rows
<1>3. PICK d : /\ After(t, c, d) /\ Rows(d, games', matches')
               /\ \A m \in matches : \E l \in matches' : MatchKey(l) = MatchKey(m)
               /\ Byes(matches') = Byes(matches) \cup Byes(t.plan.matches)
  BY <1>1, WriteRows
<1>4. PICK S : Written(t, S) /\ games' = t.plan.games \cup S
  <2>1. PICK ties, S : /\ TieRows(t, ties) /\ Written(t, S)
                       /\ games' = t.plan.games \cup ties \cup S
    BY DEF Write
  <2>2. ties = {}
    BY <1>1, <2>1, TiesAre DEF PlanFits
  <2> QED BY <2>1, <2>2
<1>5. Mirrors(games, S)
  BY <1>2, <1>4, WrittenMirrors
<1>6. /\ \A g \in t.plan.games : g.round = c + 1
      /\ \A m \in t.plan.matches : m.round = c + 1
      /\ d \in {c, c + 1} /\ (d = c + 1 => Adds(t.plan, c))
  <2>1. c # c + 1
    BY <1>2
  <2>2. CASE AddsNothing(t.plan) /\ d = c
    BY <2>1, <2>2 DEF AddsNothing
  <2>3. CASE Adds(t.plan, c) /\ d = c + 1
    BY <2>3 DEF Adds
  <2> QED BY <1>3, <2>2, <2>3 DEF After
<1>7. ASSUME NEW r \in 1..c
      PROVE  SameRound(r, games, games', matches, matches')
  <2>1. c \in Nat
    BY <1>2
  <2> DEFINE new == t.plan.games  more == t.plan.matches  N == matches'
  <2>2. /\ \A g \in new : g.round = c + 1
        /\ \A m \in more : m.round = c + 1
        /\ Byes(N) = Byes(matches) \cup Byes(more) /\ games' = new \cup S
    BY <1>3, <1>4, <1>6
  <2> HIDE DEF new, more, N
  <2>3. SameRound(r, games, new \cup S, matches, N)
    BY <1>5, <2>1, <2>2, OldRounds
  <2> QED BY <2>2, <2>3 DEF N
<1>8. ASSUME NEW r \in 1..c PROVE FairAt(n, r, games', matches')
  BY <1>7, FairSame DEF SwissRowsFit, FairAt, SameRound
<1>9. ASSUME NEW r \in 1..c, NEW u, SwissPlanFits(u, n, c, games, matches), Adds(u, r)
      PROVE  Fair(n, u.games, u.matches, Till(r + 1, games'), Till(r + 1, matches'))
  BY <1>9, SelfMirrors, <1>7, FairSame DEF SwissPlanFits, Adds, SameRound
<1>10. ASSUME d = c + 1 PROVE FairAt(n, c + 1, games', matches')
  <2>1. c \in 1..c /\ c \in Nat /\ Adds(t.plan, c)
    BY <1>2, <1>6, <1>10
  <2>2. Fair(n, t.plan.games, t.plan.matches, Till(c + 1, games'), Till(c + 1, matches'))
    BY <1>9, <2>1
  <2>3. At(c + 1, games') = t.plan.games
    <3>1. \A s \in S : s.round # c + 1
      BY <1>2, <1>5 DEF Mirrors, SameRow
    <3> QED BY <1>4, <1>6, <3>1 DEF At
  <2>4. Byes(At(c + 1, matches')) = Byes(t.plan.matches)
    <3>1. Byes(At(c + 1, matches')) = At(c + 1, Byes(matches'))
      BY DEF Byes, At
    <3>2. \A m \in Byes(matches) : m.round # c + 1
      BY <1>2 DEF Byes
    <3>3. \A m \in Byes(t.plan.matches) : m.round = c + 1
      BY <1>6 DEF Byes
    <3> QED BY <1>3, <3>1, <3>2, <3>3 DEF At
  <2>5. Mirrors(t.plan.games, At(c + 1, games'))
    BY <2>1, <2>3, SelfMirrors DEF Adds
  <2> QED BY <2>2, <2>4, <2>5, FairSame DEF FairAt
<1>11. d \in Nat /\ d >= c /\ \A r \in 1..d : r \in 1..c \/ (r = c + 1 /\ d = c + 1)
  BY <1>2, <1>6
<1>12. SwissRowsFit(n, d, games', matches')
  BY <1>3, <1>8, <1>10, <1>11 DEF SwissRowsFit
<1>13. ASSUME NEW u, SwissPlanFits(u, n, c, games, matches)
       PROVE  SwissPlanFits(u, n, d, games', matches')
  <2>1. PlanFits(u, c, matches) /\ u.ties = {}
    BY <1>13 DEF SwissPlanFits
  <2>2. PlanFits(u, d, matches')
    BY <1>2, <1>3, <1>11, <2>1, PlanFitsStill
  <2>3. ASSUME NEW r \in 1..d, Adds(u, r) PROVE r \in 1..c
    <3>1. 1..c \subseteq Nat /\ r \in Nat
      BY <1>2, <1>11
    <3>2. ~AddsNothing(u)
      BY <2>3, <3>1, AddsOnce
    <3>3. PICK s \in 1..c : Adds(u, s)
      BY <2>1, <3>2 DEF PlanFits
    <3> QED BY <2>3, <3>1, <3>3, AddsOnce
  <2>4. ASSUME NEW r \in 1..d, Adds(u, r)
        PROVE  Fair(n, u.games, u.matches, Till(r + 1, games'), Till(r + 1, matches'))
    BY <1>9, <1>13, <2>3, <2>4
  <2> QED BY <2>1, <2>2, <2>4 DEF SwissPlanFits
<1> QED BY <1>12, <1>13

LEMMA SwissBegins ==
    ASSUME Writers, Swiss, NEW t, NEW view, Begins(t, view),
           view = games \/ \E g \in games : \E result : view = With(games, g, result)
    PROVE  Swiss'
<1> SUFFICES ASSUME config'.format = "swiss" PROVE \E c : SwissFits(c)'
  BY DEF Swiss
<1>1. config' = config /\ games' = games /\ matches' = matches /\ status = "running"
      /\ transactions' = transactions \cup {t} /\ t.plan = Plan(config, view, matches)
  BY DEF Begins
<1>2. config \in Configs /\ config.format = "swiss"
  BY <1>1 DEF Writers
<1>3. PICK c : SwissFits(c)
  BY <1>1, <1>2 DEF Swiss
<1>4. Rows(c, games, matches)
  BY <1>3 DEF SwissFits, SwissRowsFit
<1>5. IsFiniteSet(games) /\ \A g \in games : IsRow(g)
  BY <1>4 DEF Rows
<1>6. Mirrors(games, view) /\ IsFiniteSet(view)
  <2>1. CASE view = games
    BY <1>5, <2>1, SelfMirrors
  <2>2. CASE view # games
    <3>1. PICK g \in games : \E result : view = With(games, g, result)
      BY <2>2
    <3> QED BY <1>5, <3>1, WithMirrors, WithIs
  <2> QED BY <2>1, <2>2
<1>7. SwissPlanFits(t.plan, config.n, c, games, matches)
  BY <1>1, <1>2, <1>4, <1>6, SwissPlanIs
<1>8. SwissFits(c)'
  BY <1>1, <1>3, <1>7 DEF SwissFits
<1> QED BY <1>8

LEMMA SwissInductive == Writers /\ Swiss /\ [Next]_vars => Swiss'
<1> SUFFICES ASSUME Writers, Swiss, [Next]_vars PROVE Swiss'
  OBVIOUS
<1>1. CASE Prepare
  <2> SUFFICES ASSUME config'.format = "swiss" PROVE \E c : SwissFits(c)'
    BY DEF Swiss
  <2>1. config \in Configs /\ config' = config /\ transactions' = {}
    BY <1>1 DEF Prepare, Writers
  <2>2. SwissRowsFit(config.n, 1, games', matches')
    BY <1>1, <2>1, RoundsAssumption, SwissPrepared
  <2>3. SwissFits(1)'
    BY <2>1, <2>2 DEF SwissFits
  <2> QED BY <2>3
<1>2. CASE GameEnds
  <2>1. PICK g \in games, result \in config.results : FinishBegins(g, result)
    BY <1>2 DEF GameEnds
  <2>2. \E t : Begins(t, With(games, g, result))
    BY <2>1, BeginsIs
  <2> QED BY <2>2, SwissBegins
<1>3. CASE CycleBegins
  BY <1>3, BeginsIs, SwissBegins
<1>4. CASE Commits
  <2> SUFFICES ASSUME config'.format = "swiss" PROVE \E c : SwissFits(c)'
    BY DEF Swiss
  <2>1. PICK t \in transactions : Commit(t)
    BY <1>4 DEF Commits
  <2>2. Write(t) /\ config' = config /\ transactions' = transactions \ {t}
    BY <2>1, CommitWrites
  <2>3. status # "scheduled" /\ (t.game = NoGame \/ t.game \in games)
    BY DEF Writers
  <2>4. PICK c : SwissFits(c)
    BY <2>2, <2>3 DEF Swiss
  <2>5. SwissRowsFit(config.n, c, games, matches)
        /\ SwissPlanFits(t.plan, config.n, c, games, matches)
    BY <2>4 DEF SwissFits
  <2>6. PICK d : /\ SwissRowsFit(config.n, d, games', matches')
                 /\ \A u : SwissPlanFits(u, config.n, c, games, matches)
                             => SwissPlanFits(u, config.n, d, games', matches')
    BY <2>2, <2>3, <2>5, SwissWrite
  <2>7. SwissFits(d)'
    BY <2>2, <2>4, <2>6 DEF SwissFits
  <2> QED BY <2>7
<1>5. CASE RollsBack
  <2>1. PICK t \in transactions : RollBack(t)
    BY <1>5 DEF RollsBack
  <2>2. /\ config' = config /\ status' = status /\ games' = games /\ matches' = matches
        /\ transactions' = transactions \ {t}
    BY <2>1 DEF RollBack
  <2>3. \A c : SwissFits(c) => SwissFits(c)'
    BY <2>2 DEF SwissFits
  <2> QED BY <2>2, <2>3 DEF Swiss
<1>6. CASE UNCHANGED vars
  BY <1>6 DEF vars, Swiss, SwissFits
<1> QED BY <1>1, <1>2, <1>3, <1>4, <1>5, <1>6 DEF Next

LEMMA SwissImplies == Swiss => SwissRoundsAreFair
<1> SUFFICES ASSUME Swiss, config.format = "swiss", status # "scheduled",
                    NEW round \in Generated
             PROVE
            LET byes == {m \in matches : m.round = round /\ m.status = "bye"}
                earlier == {g \in games : g.round < round}
                players == Players \ {m.first : m \in byes}
                had(p) == {m \in matches : m.round < round /\ m.status = "bye" /\ m.first = p}
                partners == {f \in [players -> players] :
                               \A p \in players : f[p] # p /\ f[f[p]] = p}
            IN  /\ Cardinality(byes) = config.n % 2
                /\ \A p \in players : Cardinality(GamesOf(RoundOf(round), p)) = 1
                /\ \A m \in byes : had(m.first) # {} => \A p \in Players : had(p) # {}
                /\ (\E g \in RoundOf(round) : Met(earlier, g.white, g.black))
                       => \A f \in partners : \E p \in players : Met(earlier, p, f[p])
  BY DEF SwissRoundsAreFair
<1> DEFINE byes == {m \in matches : m.round = round /\ m.status = "bye"}
           earlier == {g \in games : g.round < round}
           players == Players \ {m.first : m \in byes}
           had(p) == {m \in matches : m.round < round /\ m.status = "bye" /\ m.first = p}
           partners == {f \in [players -> players] :
                           \A p \in players : f[p] # p /\ f[f[p]] = p}
           n == config.n
           G == At(round, games)
           M == At(round, matches)
           H == Till(round, matches)
<1>1. PICK c : SwissFits(c)
  BY DEF Swiss
<1>2. round \in 1..c
  BY <1>1 DEF SwissFits, SwissRowsFit, Rows, Generated
<1>3. Fair(n, G, M, earlier, H)
  BY <1>1, <1>2 DEF SwissFits, SwissRowsFit, Till, FairAt
<1>4. byes = Byes(M) /\ RoundOf(round) = G
  BY DEF Byes, At, RoundOf
<1>5. players = Paired(n, M)
  BY <1>4 DEF Paired, Players
<1>6. \A p : had(p) # {} <=> HadBye(H, p)
  BY DEF HadBye, Byes, Till
<1>7. \A f \in partners : Partners(f, players)
  BY DEF Partners
<1>8. Players = 1..n
  BY DEF Players
<1>9. ASSUME NEW p \in players PROVE Cardinality(GamesOf(RoundOf(round), p)) = 1
  <2>1. OneGame(G, p)
    BY <1>3, <1>5 DEF Fair
  <2>2. PICK g \in G : p \in {g.white, g.black} /\ \A h \in G : p \in {h.white, h.black} => h = g
    BY <2>1 DEF OneGame
  <2>3. GamesOf(RoundOf(round), p) = {g}
    BY <1>4, <2>2 DEF GamesOf
  <2> QED BY <2>3, FS_Singleton
<1> HIDE DEF byes, earlier, players, had, partners, n, G, M, H
<1>10. Cardinality(byes) = n % 2
  BY <1>3, <1>4 DEF Fair
<1>11. \A m \in byes : had(m.first) # {} => \A p \in Players : had(p) # {}
  BY <1>3, <1>4, <1>6, <1>8 DEF Fair
<1>12. (\E g \in RoundOf(round) : Met(earlier, g.white, g.black))
           => \A f \in partners : \E p \in players : Met(earlier, p, f[p])
  BY <1>3, <1>4, <1>5, <1>7 DEF Fair
<1> QED BY <1>9, <1>10, <1>11, <1>12 DEF byes, earlier, players, had, partners, n

(* Swiss: everybody has a game or the bye in every round; nobody has a     *)
(* second bye while somebody has had none; opponents meet again only when  *)
(* the players of the round could not have been paired otherwise, although *)
(* a round is computed in transactions that overlap.                       *)
THEOREM SwissStaysFair == Spec => []SwissRoundsAreFair
<1>1. Init => Writers /\ Swiss
  BY WritersInitially DEF Init, Swiss
<1>2. Writers /\ Swiss /\ [Next]_vars => (Writers /\ Swiss)'
  BY WritersInductive, SwissInductive
<1> QED BY <1>1, <1>2, SwissImplies, PTL DEF Spec

-----------------------------------------------------------------------------
(* The rows of c rounds in which matches are played: their types, the two  *)
(* unique constraints, and that games and matches belong together.         *)
GameOK(n, g) ==
    /\ g.pair \in Nat \ {0} /\ g.number \in Nat \ {0}
    /\ g.kind \in Kinds \cup {"base"} /\ g.result \in Results \cup {Unplayed}
MatchOK(n, m) ==
    /\ m.index \in Nat \ {0} /\ m.first \in 1..n /\ m.second \in 0..n /\ m.first # m.second
    /\ \/ m.status = "pending" /\ m.second # Nobody /\ m.winner = Nobody
       \/ m.status = "bye" /\ m.second = Nobody /\ m.winner = m.first
       \/ m.status = "finished" /\ m.second # Nobody /\ m.winner \in {Nobody, m.first, m.second}
MatchesOK(n, M) ==
    /\ \A m \in M : MatchOK(n, m)
    /\ \A m, l \in M : MatchKey(m) = MatchKey(l) => m = l
    /\ \A m \in M : \A i \in 1..m.index : \E l \in M : l.round = m.round /\ l.index = i
GamesOK(n, G, M) ==
    /\ \A g \in G : GameOK(n, g) /\ \E m \in M : Plays(g, m)
    /\ \A g, h \in G : GameKey(g) = GameKey(h) => g = h
    /\ \A m \in M : m.status # "bye" => \E g \in G : Plays(g, m)
Sound(n, c, G, M) == Rows(c, G, M) /\ MatchesOK(n, M) /\ GamesOK(n, G, M)

SameMatch(m, l) ==
    /\ l.round = m.round /\ l.index = m.index /\ l.first = m.first /\ l.second = m.second
    /\ l.status = "bye" <=> m.status = "bye"
Decides(d, m) == SameMatch(m, d) /\ m.status # "bye" /\ d.winner \in {Nobody, m.first, m.second}
TieOK(g, last) ==
    /\ g.pair \in Int /\ g.pair > last /\ g.number \in Nat \ {0}
    /\ g.kind \in Kinds /\ g.result = Unplayed

PlanSound(plan, n, c, M) ==
    /\ PlanFits(plan, c, M)
    /\ \A d \in plan.decided : \E m \in M : Decides(d, m)
    /\ \A d, e \in plan.decided : MatchKey(d) = MatchKey(e) => d = e
    /\ plan.last \in Nat
    /\ \A g \in plan.ties : TieOK(g, plan.last) /\ \E m \in M : Plays(g, m)
    /\ \A g, h \in plan.ties : g.pair = h.pair => g = h
    /\ \A r \in 1..c : Adds(plan, r) => NewRound(n, r + 1, plan.games, plan.matches)

(* Deciding matches leaves their players alone.                            *)
Follows(M, N) ==
    /\ \A m \in M : \E l \in N : SameMatch(m, l)
    /\ \A l \in N : \E m \in M : SameMatch(m, l)

LEMMA DecidingSound ==
    ASSUME NEW n, NEW M, MatchesOK(n, M), NEW D,
           \A d \in D : d.status = "finished" /\ \E m \in M : Decides(d, m),
           \A d, e \in D : MatchKey(d) = MatchKey(e) => d = e,
           NEW N, N = Kept(M, D) \cup Added(M, D)
    PROVE  MatchesOK(n, N) /\ Follows(M, N)
<1> USE DEF Kept, Added
<1>1. \A m \in M : SameMatch(m, m)
  BY DEF SameMatch
<1>2. ASSUME NEW d \in D, NEW m \in M, MatchKey(d) = MatchKey(m)
      PROVE  SameMatch(m, d) /\ m.status # "bye" /\ d.winner \in {Nobody, m.first, m.second}
  <2>1. PICK l \in M : Decides(d, l)
    OBVIOUS
  <2>2. MatchKey(l) = MatchKey(d)
    BY <2>1, Keys DEF Decides, SameMatch
  <2>3. l = m
    BY <1>2, <2>2 DEF MatchesOK
  <2> QED BY <2>1, <2>3 DEF Decides
<1>3. ASSUME NEW m \in M PROVE \E l \in N : SameMatch(m, l)
  <2>1. CASE m \in Kept(M, D)
    BY <1>1, <2>1
  <2>2. CASE m \notin Kept(M, D)
    <3>1. PICK d \in D : MatchKey(d) = MatchKey(m)
      BY <2>2
    <3>2. \A l \in Kept(M, D) : MatchKey(d) # MatchKey(l)
      <4> SUFFICES ASSUME NEW l \in Kept(M, D), MatchKey(d) = MatchKey(l) PROVE FALSE
        OBVIOUS
      <4>1. l = m
        BY <3>1 DEF MatchesOK
      <4> QED BY <2>2, <4>1
    <3> QED BY <1>2, <3>1, <3>2
  <2> QED BY <2>1, <2>2
<1>4. ASSUME NEW l \in N PROVE \E m \in M : SameMatch(m, l) /\ (l = m \/ l \in D)
  <2>1. CASE l \in M
    BY <1>1, <2>1
  <2>2. CASE l \in D
    BY <2>2 DEF Decides
  <2> QED BY <2>1, <2>2
<1>5. ASSUME NEW l \in N PROVE MatchOK(n, l)
  <2>1. CASE l \in M
    BY <2>1 DEF MatchesOK
  <2>2. CASE l \in D
    <3>1. PICK m \in M : Decides(l, m)
      BY <2>2
    <3>2. MatchOK(n, m) /\ m.status # "bye"
      BY <3>1 DEF MatchesOK, Decides
    <3>3. m.second # Nobody
      BY <3>2 DEF MatchOK
    <3> QED BY <2>2, <3>1, <3>2, <3>3 DEF Decides, SameMatch, MatchOK
  <2> QED BY <2>1, <2>2
<1>6. \A m, l \in N : MatchKey(m) = MatchKey(l) => m = l
  BY DEF MatchesOK
<1>7. ASSUME NEW m \in N, NEW i \in 1..m.index PROVE \E l \in N : l.round = m.round /\ l.index = i
  <2>1. PICK k \in M : SameMatch(k, m)
    BY <1>4
  <2>2. PICK j \in M : j.round = k.round /\ j.index = i
    BY <2>1 DEF MatchesOK, SameMatch
  <2>3. PICK l \in N : SameMatch(j, l)
    BY <1>3
  <2> QED BY <2>1, <2>2, <2>3 DEF SameMatch
<1>8. MatchesOK(n, N)
  BY <1>5, <1>6, <1>7 DEF MatchesOK
<1> QED BY <1>3, <1>4, <1>8 DEF Follows

(* A plan stays sound.                                                     *)
LEMMA PlanSoundStill ==
    ASSUME NEW p, NEW n, NEW c \in Nat, NEW M, PlanSound(p, n, c, M), NEW d \in Nat, d >= c, NEW N,
           \A m \in M : \E l \in N : SameMatch(m, l)
    PROVE  PlanSound(p, n, d, N)
<1>1. PlanFits(p, d, N)
  BY Keys, PlanFitsStill DEF SameMatch, PlanSound
<1>2. ASSUME NEW x \in p.decided PROVE \E l \in N : Decides(x, l)
  <2>1. PICK m \in M : Decides(x, m)
    BY DEF PlanSound
  <2>2. PICK l \in N : SameMatch(m, l)
    OBVIOUS
  <2> QED BY <2>1, <2>2 DEF Decides, SameMatch
<1>3. ASSUME NEW g \in p.ties PROVE \E l \in N : Plays(g, l)
  <2>1. PICK m \in M : Plays(g, m)
    BY DEF PlanSound
  <2>2. PICK l \in N : SameMatch(m, l)
    OBVIOUS
  <2> QED BY <2>1, <2>2 DEF Plays, SameMatch
<1>4. ASSUME NEW r \in 1..d, Adds(p, r) PROVE NewRound(n, r + 1, p.games, p.matches)
  <2>1. 1..c \subseteq Nat /\ r \in Nat
    OBVIOUS
  <2>2. ~AddsNothing(p)
    BY <1>4, <2>1, AddsOnce
  <2>3. PICK s \in 1..c : Adds(p, s)
    BY <2>2 DEF PlanSound, PlanFits
  <2>4. s = r
    BY <1>4, <2>1, <2>3, AddsOnce
  <2> QED BY <2>3, <2>4 DEF PlanSound
<1> QED BY <1>1, <1>2, <1>3, <1>4 DEF PlanSound

(* The last pair index of a round that has games.                          *)
LEMMA LastPairIs ==
    ASSUME NEW S, IsFiniteSet(S), NEW round, \A g \in S : g.round = round => g.pair \in Nat,
           \E g \in S : g.round = round
    PROVE  LastPair(S, round) \in Nat /\ \A g \in S : g.round = round => g.pair <= LastPair(S, round)
<1> DEFINE R == {g \in S : g.round = round}
           P == {g.pair : g \in R}
           f == [g \in R |-> g.pair]
<1>1. IsFiniteSet(P)
  <2>1. \A p \in P : \E g \in R : f[g] = p
    OBVIOUS
  <2>2. IsFiniteSet(R)
    BY FS_Subset
  <2> HIDE DEF f, R, P
  <2> QED BY <2>1, <2>2, FiniteImage
<1>2. P \subseteq Nat /\ P # {}
  OBVIOUS
<1>3. LastPair(S, round) = Max(P)
  BY DEF LastPair
<1>4. \A g \in S : g.round = round => g.pair \in P
  OBVIOUS
<1> HIDE DEF P
<1>5. Max(P) \in P /\ \A x \in P : Max(P) >= x
  BY <1>1, <1>2, MaxExists
<1>6. \A x \in P : x \in Nat
  BY <1>2
<1> HIDE DEF R
<1>7. \A x \in P : x <= Max(P)
  <2> SUFFICES ASSUME NEW x \in P PROVE x <= Max(P)
    OBVIOUS
  <2>1. Max(P) \in Nat /\ x \in Nat /\ Max(P) >= x
    BY <1>5, <1>6
  <2> QED BY <2>1
<1> QED BY <1>3, <1>4, <1>5, <1>6, <1>7

LEMMA TiesSound ==
    ASSUME NEW t, NEW ties, TieRows(t, ties), IsFiniteSet(games),
           \A g \in games : g.pair \in Nat \ {0},
           \A g \in t.plan.ties : /\ IsRow(g) /\ g.pair \in Int /\ g.pair > t.plan.last
                                  /\ \E h \in games : h.round = g.round,
           t.plan.last \in Nat, \A g, h \in t.plan.ties : g.pair = h.pair => g = h
    PROVE  /\ \A g \in ties : g.pair \in Nat \ {0}
           /\ \A g, h \in ties : g.pair = h.pair => g = h
<1> DEFINE last == t.plan.last
           T == t.plan.ties
<1>1. PICK shift \in Shifts(t) : ties = {[g EXCEPT !.pair = @ + shift] : g \in T}
  BY DEF TieRows
<1>2. shift \in Int /\ last + shift \in Nat
  <2>1. CASE shift = 0
    BY <2>1
  <2>2. CASE shift # 0
    <3>1. PICK g \in T : shift = LastPair(games, g.round) - last
      BY <2>2 DEF Shifts
    <3>2. LastPair(games, g.round) \in Nat
      BY LastPairIs
    <3> QED BY <3>1, <3>2
  <2> QED BY <2>1, <2>2
<1>3. ASSUME NEW h \in ties PROVE \E g \in T : h = [g EXCEPT !.pair = g.pair + shift] /\ h.pair = g.pair + shift
  <2>1. PICK g \in T : h = [g EXCEPT !.pair = g.pair + shift]
    BY <1>1
  <2>2. IsRow(g)
    OBVIOUS
  <2>3. h.pair = g.pair + shift
    BY <2>1, <2>2, PairIs
  <2> QED BY <2>1, <2>3
<1>4. \A g \in T : g.pair \in Int /\ g.pair > last
  OBVIOUS
<1> HIDE DEF T, last
<1>5. last \in Nat
  BY DEF last
<1>6. ASSUME NEW h \in ties PROVE h.pair \in Nat \ {0}
  <2>1. PICK g \in T : h.pair = g.pair + shift
    BY <1>3
  <2>2. g.pair \in Int /\ g.pair > last
    BY <1>4
  <2> QED BY <1>2, <1>5, <2>1, <2>2
<1>7. ASSUME NEW h \in ties, NEW k \in ties, h.pair = k.pair PROVE h = k
  <2>1. PICK g \in T : h = [g EXCEPT !.pair = g.pair + shift] /\ h.pair = g.pair + shift
    BY <1>3
  <2>2. PICK e \in T : k = [e EXCEPT !.pair = e.pair + shift] /\ k.pair = e.pair + shift
    BY <1>3
  <2>3. g.pair \in Int /\ e.pair \in Int
    BY <1>4
  <2>4. g.pair = e.pair
    BY <1>2, <1>7, <2>1, <2>2, <2>3
  <2>5. g = e
    BY <2>4 DEF T
  <2> QED BY <2>1, <2>2, <2>5
<1> QED BY <1>6, <1>7

LEMMA GameKeys ==
    ASSUME NEW g, NEW h
    PROVE  GameKey(g) = GameKey(h) <=>
              g.round = h.round /\ g.pair = h.pair /\ g.white = h.white /\ g.black = h.black
BY DEF GameKey

(* Results leave the games sound.                                          *)
LEMMA MirrorsKeys ==
    ASSUME NEW G, NEW S, Mirrors(G, S), \A g, h \in G : GameKey(g) = GameKey(h) => g = h
    PROVE  /\ \A g, h \in S : GameKey(g) = GameKey(h) => g = h
           /\ \A s \in S : \E g \in G : SameRow(g, s) /\ GameKey(s) = GameKey(g)
           /\ \A g \in G : \E s \in S : SameRow(g, s)
<1>1. PICK f : /\ \A x \in G : f[x] \in S /\ SameRow(x, f[x])
               /\ \A s \in S : \E x \in G : f[x] = s
  BY DEF Mirrors
<1>2. \A x \in G : GameKey(f[x]) = GameKey(x)
  BY <1>1, GameKeys DEF SameRow
<1>3. ASSUME NEW g \in S, NEW h \in S, GameKey(g) = GameKey(h) PROVE g = h
  <2>1. PICK x \in G : f[x] = g
    BY <1>1
  <2>2. PICK y \in G : f[y] = h
    BY <1>1
  <2>3. x = y
    BY <1>2, <1>3, <2>1, <2>2
  <2> QED BY <2>1, <2>2, <2>3
<1> QED BY <1>1, <1>2, <1>3

-----------------------------------------------------------------------------
(* What a commit makes of sound rows: new games, tie-breaks and the games  *)
(* that were there; the matches that were there and new ones.              *)
WriteParts(t, n, c, d, ties, S, N) ==
    /\ TieRows(t, ties) /\ Written(t, S) /\ Mirrors(games, S)
    /\ games' = t.plan.games \cup ties \cup S
    /\ Unique(t.plan.games \cup ties, games)
    /\ N = Kept(matches, t.plan.decided) \cup Added(matches, t.plan.decided)
    /\ matches' = N \cup t.plan.matches
    /\ MatchesOK(n, N) /\ Follows(matches, N)
    /\ \A m \in t.plan.matches, l \in matches : MatchKey(m) # MatchKey(l)
    /\ Rows(d, games', matches') /\ c \in Nat \ {0} /\ d \in Nat /\ d >= c
    /\ \/ AddsNothing(t.plan) /\ d = c
       \/ NewRound(n, c + 1, t.plan.games, t.plan.matches) /\ d = c + 1

LEMMA WritePartsAre ==
    ASSUME NEW n, NEW c, Sound(n, c, games, matches), NEW t, Write(t),
           PlanSound(t.plan, n, c, matches), t.game = NoGame \/ t.game \in games
    PROVE  \E d, ties, S, N : WriteParts(t, n, c, d, ties, S, N)
<1>1. Rows(c, games, matches) /\ PlanFits(t.plan, c, matches) /\ MatchesOK(n, matches)
  BY DEF Sound, PlanSound
<1>2. PICK d : After(t, c, d) /\ Rows(d, games', matches')
  BY <1>1, WriteRows
<1>3. PICK ties, S : /\ TieRows(t, ties) /\ Written(t, S)
                     /\ games' = t.plan.games \cup ties \cup S
                     /\ Unique(t.plan.games \cup ties, games)
  BY DEF Write
<1> DEFINE N == Kept(matches, t.plan.decided) \cup Added(matches, t.plan.decided)
<1>4. matches' = N \cup t.plan.matches
  BY DEF Write
<1>5. \A m \in t.plan.matches, l \in matches : MatchKey(m) # MatchKey(l)
  BY DEF Write
<1>6. MatchesOK(n, N) /\ Follows(matches, N)
  BY <1>1, DecidingSound DEF PlanSound, PlanFits
<1>7. Mirrors(games, S)
  BY <1>1, <1>3, WrittenMirrors DEF Rows
<1> HIDE DEF N
<1>8. c \in Nat \ {0}
  BY <1>1 DEF Rows
<1>9. \/ AddsNothing(t.plan) /\ d = c
      \/ NewRound(n, c + 1, t.plan.games, t.plan.matches) /\ d = c + 1
  BY <1>8, <1>2 DEF After, PlanSound
<1>10. d \in Nat /\ d >= c
  BY <1>8, <1>9
<1>11. WriteParts(t, n, c, d, ties, S, N)
  BY <1>2, <1>3, <1>4, <1>5, <1>6, <1>7, <1>8, <1>9, <1>10 DEF WriteParts, N
<1> QED BY <1>11

LEMMA NewRoundSound ==
    ASSUME NEW n, NEW r, NEW G, NEW M, NewRound(n, r, G, M)
    PROVE  MatchesOK(n, M) /\ GamesOK(n, G, M)
<1>1. \A m \in M : MatchOK(n, m) /\ m.round = r
  BY DEF NewRound, NewMatch, MatchOK
<1>2. \A m, l \in M : MatchKey(m) = MatchKey(l) => m = l
  BY Keys DEF NewRound
<1>3. \A m \in M : \A i \in 1..m.index : \E l \in M : l.round = m.round /\ l.index = i
  BY <1>1 DEF NewRound
<1>4. \A g \in G : GameOK(n, g)
  BY DEF NewRound, NewGame, GameOK
<1>5. \A g, h \in G : GameKey(g) = GameKey(h) => g = h
  BY GameKeys DEF NewRound
<1> QED BY <1>1, <1>2, <1>3, <1>4, <1>5 DEF MatchesOK, GamesOK, NewRound

LEMMA SoundWrite ==
    ASSUME NEW n, NEW c, Sound(n, c, games, matches), NEW t,
           PlanSound(t.plan, n, c, matches), t.game = NoGame \/ (t.game \in games /\ t.result \in Results),
           NEW d, NEW ties, NEW S, NEW N, WriteParts(t, n, c, d, ties, S, N)
    PROVE  /\ Sound(n, d, games', matches') /\ \A m \in matches : \E l \in matches' : SameMatch(m, l)
           /\ \A u : PlanSound(u, n, c, matches) => PlanSound(u, n, d, matches')
<1> DEFINE B == t.plan.games
           M == t.plan.matches
<1>1. /\ games' = B \cup ties \cup S /\ matches' = N \cup M
      /\ MatchesOK(n, N) /\ Follows(matches, N) /\ Mirrors(games, S)
      /\ Rows(d, games', matches') /\ c \in Nat \ {0} /\ d \in Nat /\ d >= c
      /\ TieRows(t, ties) /\ Written(t, S) /\ Unique(B \cup ties, games)
      /\ \A m \in M, l \in matches : MatchKey(m) # MatchKey(l)
  BY DEF WriteParts
<1>2. \/ B = {} /\ M = {}
      \/ NewRound(n, c + 1, B, M)
  BY DEF WriteParts, AddsNothing
<1>3. MatchesOK(n, M) /\ GamesOK(n, B, M)
  <2>1. CASE B = {} /\ M = {}
    BY <2>1 DEF MatchesOK, GamesOK
  <2> QED BY <1>2, <2>1, NewRoundSound
<1>4. Rows(c, games, matches) /\ MatchesOK(n, matches) /\ GamesOK(n, games, matches)
  BY DEF Sound
<1>5. (\A g \in B : g.round = c + 1) /\ \A m \in M : m.round = c + 1
  BY <1>2 DEF NewRound, NewGame, NewMatch
<1>6. \A m \in matches : \E l \in matches' : SameMatch(m, l)
  BY <1>1 DEF Follows
<1>7. MatchesOK(n, matches')
  <2>1. ASSUME NEW m \in M, NEW l \in N PROVE MatchKey(m) # MatchKey(l)
    <3>1. PICK k \in matches : SameMatch(k, l)
      BY <1>1 DEF Follows
    <3>2. MatchKey(k) = MatchKey(l)
      BY <3>1, Keys DEF SameMatch
    <3> QED BY <1>1, <3>2
  <2> HIDE DEF M
  <2>2. \A m, l \in matches' : MatchKey(m) = MatchKey(l) => m = l
    BY <1>1, <1>3, <2>1 DEF MatchesOK
  <2> QED BY <1>1, <1>3, <2>2 DEF MatchesOK
<1>8. \A g \in S : IsRow(g) /\ \E h \in games : SameRow(h, g) /\ GameKey(g) = GameKey(h)
  BY <1>1, <1>4, MirrorsKeys DEF GamesOK, SameRow
<1>9. \A g \in S : g.result \in Results \cup {Unplayed}
  <2>1. CASE t.game = NoGame
    BY <1>1, <2>1, <1>4 DEF Written, GamesOK, GameOK
  <2>2. CASE t.game # NoGame
    <3>1. S = (games \ {t.game}) \cup {[t.game EXCEPT !.result = t.result]}
      BY <1>1, <2>2 DEF Written, With
    <3>2. [t.game EXCEPT !.result = t.result].result = t.result
      BY <1>4, <2>2, ResultIs DEF Rows
    <3> QED BY <1>4, <2>2, <3>1, <3>2 DEF GamesOK, GameOK
  <2> QED BY <2>1, <2>2
<1>10. \A g \in S : GameOK(n, g) /\ \E m \in N : Plays(g, m)
  <2> SUFFICES ASSUME NEW g \in S PROVE GameOK(n, g) /\ \E m \in N : Plays(g, m)
    OBVIOUS
  <2>1. PICK h \in games : SameRow(h, g)
    BY <1>8
  <2>2. GameOK(n, g)
    BY <1>4, <1>9, <2>1 DEF GamesOK, GameOK, SameRow
  <2>3. PICK m \in matches : Plays(h, m)
    BY <1>4 DEF GamesOK
  <2>4. PICK l \in N : SameMatch(m, l)
    BY <1>1 DEF Follows
  <2>5. Plays(g, l)
    BY <2>1, <2>3, <2>4 DEF SameRow, SameMatch, Plays
  <2> QED BY <2>2, <2>5
<1>11. /\ \A h \in ties : \E g \in t.plan.ties :
             /\ IsRow(h) /\ h.round = g.round /\ h.white = g.white /\ h.black = g.black
             /\ h.match = g.match /\ h.number = g.number /\ h.kind = g.kind
             /\ h.result = g.result
  BY <1>1, TiesAre DEF PlanSound, PlanFits
<1>12. /\ \A g \in ties : g.pair \in Nat \ {0}
       /\ \A g, h \in ties : g.pair = h.pair => g = h
  <2>1. IsFiniteSet(games) /\ \A g \in games : g.pair \in Nat \ {0}
    BY <1>4 DEF Rows, GamesOK, GameOK
  <2>2. ASSUME NEW g \in t.plan.ties
        PROVE  /\ IsRow(g) /\ g.pair \in Int /\ g.pair > t.plan.last
               /\ \E h \in games : h.round = g.round
    <3>1. IsRow(g) /\ g.pair \in Int /\ g.pair > t.plan.last
      BY DEF PlanSound, PlanFits, TieOK
    <3>2. PICK m \in matches : Plays(g, m)
      BY DEF PlanSound
    <3>3. PICK h \in games : Plays(h, m)
      BY <1>4, <3>2 DEF GamesOK, Plays
    <3> QED BY <3>1, <3>2, <3>3 DEF Plays
  <2>3. t.plan.last \in Nat /\ \A g, h \in t.plan.ties : g.pair = h.pair => g = h
    BY DEF PlanSound
  <2> QED BY <1>1, <2>1, <2>2, <2>3, TiesSound
<1>13. \A g \in ties : GameOK(n, g) /\ g.round \in 1..c /\ \E m \in N : Plays(g, m)
  <2> SUFFICES ASSUME NEW h \in ties PROVE GameOK(n, h) /\ h.round \in 1..c /\ \E m \in N : Plays(h, m)
    OBVIOUS
  <2>1. PICK g \in t.plan.ties :
             /\ h.round = g.round /\ h.white = g.white /\ h.black = g.black
             /\ h.match = g.match /\ h.number = g.number /\ h.kind = g.kind
             /\ h.result = g.result
    BY <1>11
  <2>2. g.number \in Nat \ {0} /\ g.kind \in Kinds /\ g.result = Unplayed
    BY DEF PlanSound, TieOK
  <2>3. GameOK(n, h)
    BY <1>12, <2>1, <2>2 DEF GameOK
  <2>4. PICK m \in matches : Plays(g, m)
    BY DEF PlanSound
  <2>5. PICK l \in N : SameMatch(m, l)
    BY <1>1 DEF Follows
  <2>6. Plays(h, l)
    BY <2>1, <2>4, <2>5 DEF SameMatch, Plays
  <2>7. h.round \in 1..c
    BY <2>1 DEF PlanSound, PlanFits
  <2> QED BY <2>3, <2>6, <2>7
<1>14. \A g, h \in games' : GameKey(g) = GameKey(h) => g = h
  <2>1. ASSUME NEW g \in B \cup ties, NEW h \in S PROVE GameKey(g) # GameKey(h)
    <3>1. PICK k \in games : GameKey(h) = GameKey(k)
      BY <1>8
    <3>2. GameKey(g) # GameKey(k)
      BY <1>1 DEF Unique
    <3> QED BY <3>1, <3>2
  <2>2. ASSUME NEW g \in B, NEW h \in ties PROVE GameKey(g) # GameKey(h)
    BY <1>5, <1>13, <1>1, GameKeys
  <2>3. \A g, h \in S : GameKey(g) = GameKey(h) => g = h
    BY <1>1, <1>4, MirrorsKeys DEF GamesOK
  <2>4. \A g, h \in B : GameKey(g) = GameKey(h) => g = h
    BY <1>3 DEF GamesOK
  <2>5. \A g, h \in ties : GameKey(g) = GameKey(h) => g = h
    BY <1>12, GameKeys
  <2> HIDE DEF B
  <2> QED BY <1>1, <2>1, <2>2, <2>3, <2>4, <2>5
<1>15. ASSUME NEW m \in matches', m.status # "bye" PROVE \E g \in games' : Plays(g, m)
  <2>1. CASE m \in M
    BY <1>1, <1>3, <1>15, <2>1 DEF GamesOK
  <2>2. CASE m \in N
    <3>1. PICK k \in matches : SameMatch(k, m)
      BY <1>1, <2>2 DEF Follows
    <3>2. PICK g \in games : Plays(g, k)
      BY <1>4, <1>15, <3>1 DEF GamesOK, SameMatch
    <3>3. PICK s \in S : SameRow(g, s)
      BY <1>1, <1>4, MirrorsKeys DEF GamesOK
    <3>4. Plays(s, m)
      BY <1>15, <3>1, <3>2, <3>3 DEF Plays, SameMatch, SameRow
    <3> QED BY <1>1, <3>4
  <2> QED BY <1>1, <2>1, <2>2
<1>16. \A g \in games' : GameOK(n, g) /\ \E m \in matches' : Plays(g, m)
  BY <1>1, <1>3, <1>10, <1>13 DEF GamesOK
<1>17. Sound(n, d, games', matches')
  BY <1>1, <1>7, <1>14, <1>15, <1>16 DEF Sound, GamesOK
<1>18. \A u : PlanSound(u, n, c, matches) => PlanSound(u, n, d, matches')
  BY <1>1, <1>6, PlanSoundStill
<1> QED BY <1>6, <1>17, <1>18

-----------------------------------------------------------------------------
(* The games of a match, as a transaction sees them.                       *)
LEMMA MatchGames ==
    ASSUME NEW n, NEW c, NEW G, NEW M, Sound(n, c, G, M), NEW view, Mirrors(G, view),
           NEW m \in M, m.status # "bye"
    PROVE  /\ \E g \in GamesOfMatch(view, m) : \E h \in G : SameRow(h, g)
           /\ \A g \in GamesOfMatch(view, m) : Plays(g, m) /\ \E h \in G : SameRow(h, g) /\ Plays(h, m)
<1>1. PICK f : /\ \A x \in G : f[x] \in view /\ SameRow(x, f[x])
               /\ \A s \in view : \E x \in G : f[x] = s
  BY DEF Mirrors
<1>2. PICK g \in G : Plays(g, m)
  BY DEF Sound, GamesOK
<1>3. f[g] \in GamesOfMatch(view, m) /\ SameRow(g, f[g])
  BY <1>1, <1>2 DEF GamesOfMatch, Plays, SameRow
<1>4. ASSUME NEW s \in GamesOfMatch(view, m)
      PROVE  Plays(s, m) /\ \E h \in G : SameRow(h, s) /\ Plays(h, m)
  <2>1. s \in view /\ s.round = m.round /\ s.match = m.index
    BY DEF GamesOfMatch
  <2>2. PICK x \in G : SameRow(x, s)
    BY <1>1, <2>1
  <2>3. PICK l \in M : Plays(x, l)
    BY DEF Sound, GamesOK
  <2>4. MatchKey(l) = MatchKey(m)
    BY <2>1, <2>2, <2>3, Keys DEF Plays, SameRow
  <2>5. l = m
    BY <2>4 DEF Sound, MatchesOK
  <2>6. Plays(s, m)
    BY <2>2, <2>3, <2>5 DEF Plays, SameRow
  <2> QED BY <2>2, <2>3, <2>5, <2>6
<1> QED BY <1>3, <1>4

LEMMA VictorIs ==
    ASSUME NEW g
    PROVE  Victor(g) \in {Nobody, g.white, g.black}
BY DEF Victor

(* Deciders of matches that are pending.                                   *)
Winners(winner, S) ==
    \A m \in S : m.status = "pending" /\ winner[m] \in {Nobody, m.first, m.second}
DecidesOnce(D, M) ==
    /\ \A d \in D : \E m \in M : Decides(d, m)
    /\ \A d, e \in D : MatchKey(d) = MatchKey(e) => d = e

LEMMA DecidersSound ==
    ASSUME NEW n, NEW M, MatchesOK(n, M), \A m \in M : IsMatch(m), NEW S, S \subseteq M,
           NEW winner, Winners(winner, S), NEW D, \A d \in D : \E m \in S : d = Decided(m, winner[m])
    PROVE  DecidesOnce(D, M)
<1>1. ASSUME NEW d \in D PROVE \E m \in S : d = Decided(m, winner[m]) /\ Decides(d, m) /\ MatchKey(d) = MatchKey(m)
  <2>1. PICK m \in S : d = Decided(m, winner[m])
    OBVIOUS
  <2>2. Fields(d, m.round, m.index, m.first, m.second, "finished", winner[m])
    BY <2>1, DecidedIs
  <2>3. Decides(d, m) /\ MatchKey(d) = MatchKey(m)
    BY <2>2, Keys DEF Fields, Decides, SameMatch, Winners
  <2> QED BY <2>1, <2>3
<1>2. ASSUME NEW d \in D, NEW e \in D, MatchKey(d) = MatchKey(e) PROVE d = e
  <2>1. PICK m \in S : d = Decided(m, winner[m]) /\ MatchKey(d) = MatchKey(m)
    BY <1>1
  <2>2. PICK l \in S : e = Decided(l, winner[l]) /\ MatchKey(e) = MatchKey(l)
    BY <1>1
  <2>3. m = l
    BY <1>2, <2>1, <2>2 DEF MatchesOK
  <2> QED BY <2>1, <2>2, <2>3
<1> QED BY <1>1, <1>2 DEF DecidesOnce

(* What an advance writes, of either format.                               *)
AdvanceSound(a, n, c, M) ==
    \E D, G, N, T, last, end :
       /\ Writes(a, D, N, G, T, last, end) /\ Deciders(D, M) /\ last \in Nat
       /\ \A d \in D : \E m \in M : Decides(d, m)
       /\ \A d, e \in D : MatchKey(d) = MatchKey(e) => d = e
       /\ IsFiniteSet(T)
       /\ \A g \in T : IsRow(g) /\ g.round \in 1..c /\ TieOK(g, last) /\ \E m \in M : Plays(g, m)
       /\ \A g, h \in T : g.pair = h.pair => g = h
       /\ \/ G = {} /\ N = {}
          \/ NewRound(n, c + 1, G, N)

LEMMA AdvanceIsSound ==
    ASSUME NEW a, NEW n, NEW c, NEW M, c \in Nat \ {0}, AdvanceSound(a, n, c, M), NEW end,
           NEW plan, plan = [a EXCEPT !.complete = end]
    PROVE  PlanSound(plan, n, c, M)
<1>1. PICK D, B, N, T, last, e :
          /\ Writes(a, D, N, B, T, last, e) /\ Deciders(D, M) /\ last \in Nat
          /\ \A d \in D : \E m \in M : Decides(d, m)
          /\ \A x, y \in D : MatchKey(x) = MatchKey(y) => x = y
          /\ IsFiniteSet(T)
          /\ \A g \in T : IsRow(g) /\ g.round \in 1..c /\ TieOK(g, last) /\ \E m \in M : Plays(g, m)
          /\ \A g, h \in T : g.pair = h.pair => g = h
          /\ \/ B = {} /\ N = {}
             \/ NewRound(n, c + 1, B, N)
  BY DEF AdvanceSound
<1>2. Writes(plan, D, N, B, T, last, end)
  BY <1>1, WritesComplete
<1>3. plan.decided = D /\ plan.matches = N /\ plan.games = B /\ plan.ties = T /\ plan.last = last
  BY <1>2, WritesFields
<1>4. AddsNothing(plan) \/ Adds(plan, c)
  <2>1. CASE B = {} /\ N = {}
    BY <1>3, <2>1 DEF AddsNothing
  <2>2. CASE NewRound(n, c + 1, B, N)
    BY <1>3, <2>2, NewRoundAdds
  <2> QED BY <1>1, <2>1, <2>2
<1>5. c \in 1..c /\ c \in Nat
  OBVIOUS
<1>6. PlanFits(plan, c, M)
  BY <1>1, <1>3, <1>4, <1>5 DEF Deciders, PlanFits
<1>7. ASSUME NEW r \in 1..c, Adds(plan, r) PROVE NewRound(n, r + 1, plan.games, plan.matches)
  <2>1. r \in Nat
    OBVIOUS
  <2>2. ~AddsNothing(plan)
    BY <1>7, <2>1, AddsOnce
  <2>3. NewRound(n, c + 1, B, N)
    BY <1>1, <1>3, <2>2 DEF AddsNothing
  <2>4. r = c
    BY <1>4, <1>5, <1>7, <2>1, <2>2, AddsOnce
  <2> QED BY <1>3, <2>3, <2>4
<1> QED BY <1>1, <1>3, <1>6, <1>7 DEF PlanSound

LEMMA SwissAdvanceSound ==
    ASSUME NEW k \in Configs, NEW c, NEW G, NEW M, Sound(k.n, c, G, M),
           NEW view, Mirrors(G, view), IsFiniteSet(view), NEW a, a = SwissPlan(k, view, M)
    PROVE  AdvanceSound(a, k.n, c, M)
<1> DEFINE current == CurrentRound(M)
           pending == {m \in current : m.status = "pending"}
           victor(m) == Victor(CHOOSE g \in GamesOfMatch(view, m) : TRUE)
           winner == [m \in pending |-> victor(m)]
           decided == {Decided(m, Victor(CHOOSE g \in GamesOfMatch(view, m) : TRUE)) : m \in pending}
<1>1. /\ Rows(c, G, M) /\ MatchesOK(k.n, M) /\ IsFiniteSet(M) /\ \A m \in M : IsMatch(m)
  BY DEF Sound, Rows
<1>2. pending \subseteq M /\ \A m \in pending : m.status = "pending"
  BY <1>1, CurrentRoundIs DEF At
<1>3. \A m \in pending : winner[m] \in {Nobody, m.first, m.second}
  <2> SUFFICES ASSUME NEW m \in pending PROVE victor(m) \in {Nobody, m.first, m.second}
    OBVIOUS
  <2> DEFINE g == CHOOSE g \in GamesOfMatch(view, m) : TRUE
  <2>1. m \in M /\ m.status # "bye"
    BY <1>2
  <2>2. g \in GamesOfMatch(view, m)
    BY <2>1, MatchGames
  <2>3. Plays(g, m)
    BY <2>1, <2>2, MatchGames
  <2> HIDE DEF g
  <2>4. Victor(g) \in {Nobody, m.first, m.second}
    BY <2>3, VictorIs DEF Plays
  <2> QED BY <2>4 DEF g
<1>4. \A d \in decided : \E m \in pending : d = Decided(m, winner[m])
  OBVIOUS
<1>5. \/ \E end : Writes(a, {}, {}, {}, {}, 0, end)
      \/ \E end : Writes(a, decided, {}, {}, {}, 0, end)
      \/ \E N, B, end : Writes(a, decided, N, B, {}, 0, end) /\ NewRound(k.n, c + 1, B, N)
  <2>1. SwissAdvance(a, k.n, c, view, M)
    BY <1>1, SwissAdvanceIs
  <2>2. PICK D, B, N, end : /\ Writes(a, D, N, B, {}, 0, end)
                            /\ \/ B = {} /\ N = {}
                               \/ NewRound(k.n, c + 1, B, N)
    BY <2>1 DEF SwissAdvance
  <2>3. a.decided = D
    BY <2>2, WritesFields
  <2>4. (a.decided = {} /\ a.games = {} /\ a.matches = {}) \/ a.decided = decided
    <3> DEFINE b1 == \E m \in current : InPlay(view, m)
               round == (CHOOSE m \in current : TRUE).round
               b2 == round >= k.per
               next == SwissRound(k.n, round + 1, view, M)
               a1 == [Nothing EXCEPT !.decided = decided, !.complete = TRUE]
               a2 == [Nothing EXCEPT !.decided = decided, !.matches = next.matches, !.games = next.games]
    <3>1. a = IF b1 THEN Nothing ELSE IF b2 THEN a1 ELSE a2
      BY DEF SwissPlan
    <3>2. Nothing.decided = {} /\ Nothing.games = {} /\ Nothing.matches = {}
      BY DEF Nothing
    <3> HIDE DEF decided, next
    <3>3. a1.decided = decided /\ a2.decided = decided
      BY DEF Nothing
    <3> HIDE DEF b1, b2, a1, a2
    <3> QED BY <3>1, <3>2, <3>3
  <2> HIDE DEF decided
  <2>5. a.games = B /\ a.matches = N
    BY <2>2, WritesFields
  <2> QED BY <2>2, <2>3, <2>4, <2>5
<1> HIDE DEF current, pending, winner, decided
<1>6. /\ Deciders(decided, M) /\ \A d \in decided : \E m \in M : Decides(d, m)
      /\ \A d, e \in decided : MatchKey(d) = MatchKey(e) => d = e
  <2>1. Deciders(decided, M)
    BY <1>1, <1>2, <1>4, DecidersAre
  <2>2. DecidesOnce(decided, M)
    <3>1. Winners(winner, pending)
      BY <1>2, <1>3 DEF Winners
    <3> QED BY <1>1, <1>2, <1>4, <3>1, DecidersSound
  <2> QED BY <2>1, <2>2 DEF DecidesOnce
<1>7. Deciders({}, M) /\ IsFiniteSet({}) /\ 0 \in Nat
  BY FS_EmptySet DEF Deciders
<1>8. CASE \E end : Writes(a, {}, {}, {}, {}, 0, end)
  BY <1>7, <1>8 DEF AdvanceSound
<1>9. CASE \E end : Writes(a, decided, {}, {}, {}, 0, end)
  BY <1>6, <1>7, <1>9 DEF AdvanceSound
<1>10. CASE \E N, B, end : Writes(a, decided, N, B, {}, 0, end) /\ NewRound(k.n, c + 1, B, N)
  BY <1>6, <1>7, <1>10 DEF AdvanceSound
<1> QED BY <1>5, <1>8, <1>9, <1>10

-----------------------------------------------------------------------------
(* Recursion over the naturals, as the brackets use it.                    *)
Follow(f, base, step, k) == f[k] = IF k <= 1 THEN base ELSE step[k][f[k - 1]]
Reaches(f, V, base, step, n) == \A k \in 0..n : Follow(f, base, step, k) /\ f[k] \in V[k]
Steps(V, base, step) ==
    /\ base \in V[0] /\ base \in V[1]
    /\ \A k \in Nat : k >= 2 => \A v \in V[k - 1] : step[k][v] \in V[k]

LEMMA Recursive ==
    ASSUME NEW V, NEW base, NEW step, Steps(V, base, step)
    PROVE  \E f : /\ f = [k \in Nat |-> f[k]]
                  /\ \A k \in Nat : Follow(f, base, step, k) /\ f[k] \in V[k]
<1> DEFINE Good(n) == \E f : Reaches(f, V, base, step, n)
           G == {n \in Nat : Good(n)}
<1>1. 0 \in G
  <2> DEFINE f == [k \in Nat |-> base]
  <2>1. Follow(f, base, step, 0) /\ f[0] \in V[0]
    BY DEF Follow, Steps
  <2>2. \A k \in 0..0 : k = 0
    OBVIOUS
  <2> HIDE DEF f
  <2>3. Reaches(f, V, base, step, 0)
    BY <2>1, <2>2 DEF Reaches
  <2> QED BY <2>3
<1>2. ASSUME NEW n \in Nat, n \in G PROVE n + 1 \in G
  <2>1. PICK f : Reaches(f, V, base, step, n)
    BY <1>2
  <2> DEFINE g == [k \in Nat |-> IF k <= n THEN f[k]
                                 ELSE IF n + 1 <= 1 THEN base ELSE step[n + 1][f[n]]]
  <2>2. ASSUME NEW k \in 0..n PROVE Follow(g, base, step, k) /\ g[k] \in V[k]
    <3>1. Follow(f, base, step, k) /\ f[k] \in V[k]
      BY <2>1 DEF Reaches
    <3>2. k \in Nat /\ k <= n /\ (k > 1 => k - 1 \in Nat /\ k - 1 <= n)
      OBVIOUS
    <3>3. g[k] = f[k] /\ (k > 1 => g[k - 1] = f[k - 1])
      BY <3>2
    <3> HIDE DEF g
    <3> QED BY <3>1, <3>2, <3>3 DEF Follow
  <2>3. Follow(g, base, step, n + 1) /\ g[n + 1] \in V[n + 1]
    <3>1. n \in Nat /\ n <= n /\ n + 1 \in Nat /\ ~(n + 1 <= n) /\ (n + 1) - 1 = n /\ n \in 0..n
      OBVIOUS
    <3>2. g[n] = f[n] /\ g[n + 1] = IF n + 1 <= 1 THEN base ELSE step[n + 1][f[n]]
      BY <3>1
    <3>3. f[n] \in V[n]
      BY <2>1, <3>1 DEF Reaches
    <3> HIDE DEF g
    <3>4. Follow(g, base, step, n + 1)
      BY <3>1, <3>2 DEF Follow
    <3>5. CASE n + 1 <= 1
      BY <3>5, <3>2, <3>4 DEF Steps
    <3>6. CASE n + 1 > 1
      BY <3>6, <3>1, <3>2, <3>3, <3>4 DEF Steps
    <3> QED BY <3>5, <3>6
  <2>4. \A k \in 0..(n + 1) : k \in 0..n \/ k = n + 1
    OBVIOUS
  <2> HIDE DEF g
  <2>5. Reaches(g, V, base, step, n + 1)
    BY <2>2, <2>3, <2>4 DEF Reaches
  <2> QED BY <2>5
<1>3. \A n \in Nat : \E f : Reaches(f, V, base, step, n)
  <2>1. \A n \in Nat : n \in G
    <3> HIDE DEF G
    <3> QED BY <1>1, <1>2, Induction
  <2> QED BY <2>1
<1>4. ASSUME NEW f, NEW m \in Nat, Reaches(f, V, base, step, m),
             NEW g, NEW n \in Nat, Reaches(g, V, base, step, n)
      PROVE  \A k \in Nat : k <= m /\ k <= n => f[k] = g[k]
  <2> DEFINE H == {k \in Nat : k <= m /\ k <= n => f[k] = g[k]}
  <2>0. \A k \in Nat : (k <= m => Follow(f, base, step, k)) /\ (k <= n => Follow(g, base, step, k))
    BY <1>4 DEF Reaches
  <2>1. 0 \in H
    BY <2>0 DEF Follow
  <2>2. ASSUME NEW k \in Nat, k \in H PROVE k + 1 \in H
    <3>1. k + 1 \in Nat /\ (k + 1) - 1 = k /\ (k + 1 <= m => k <= m) /\ (k + 1 <= n => k <= n)
      OBVIOUS
    <3>2. ASSUME k + 1 <= m, k + 1 <= n PROVE f[k + 1] = g[k + 1]
      <4>1. f[k] = g[k]
        BY <2>2, <3>1, <3>2
      <4> HIDE DEF H
      <4>2. Follow(f, base, step, k + 1) /\ Follow(g, base, step, k + 1)
        BY <2>0, <3>1, <3>2
      <4> QED BY <3>1, <4>1, <4>2 DEF Follow
    <3> QED BY <3>1, <3>2
  <2>3. \A k \in Nat : k \in H
    <3> HIDE DEF H
    <3> QED BY <2>1, <2>2, Induction
  <2> QED BY <2>3
<1> DEFINE upto(n) == CHOOSE f : Reaches(f, V, base, step, n)
           F == [k \in Nat |-> upto(k)[k]]
<1>5. \A n \in Nat : Reaches(upto(n), V, base, step, n)
  BY <1>3
<1>6. \A k \in Nat : F[k] = upto(k)[k]
  OBVIOUS
<1>7. F = [k \in Nat |-> F[k]]
  OBVIOUS
<1> HIDE DEF upto, F
<1>8. ASSUME NEW k \in Nat PROVE Follow(F, base, step, k) /\ F[k] \in V[k]
  <2>1. Follow(upto(k), base, step, k) /\ upto(k)[k] \in V[k]
    BY <1>5 DEF Reaches
  <2>2. ASSUME k > 1 PROVE F[k - 1] = upto(k)[k - 1]
    BY <2>2, <1>4, <1>5, <1>6
  <2>3. k > 1 \/ k <= 1
    OBVIOUS
  <2> QED BY <1>6, <2>1, <2>2, <2>3 DEF Follow
<1> QED BY <1>7, <1>8

-----------------------------------------------------------------------------
(* The size of a bracket after k - 1 turns.                                *)
LEMMA BracketSizeIs ==
    \A k \in Nat : /\ BracketSize[k] \in Nat \ {0}
                   /\ k <= 1 => BracketSize[k] = 2
                   /\ k > 1 => BracketSize[k] = 2 * BracketSize[k - 1]
<1> DEFINE V == [k \in Nat |-> Nat \ {0}]
           step == [k \in Nat |-> [v \in Nat \ {0} |-> 2 * v]]
<1>1. Steps(V, 2, step)
  BY DEF Steps
<1>2. \A k \in Nat : V[k] = Nat \ {0} /\ \A v \in Nat \ {0} : step[k][v] = 2 * v
  OBVIOUS
<1> HIDE DEF V, step
<1>3. PICK f : /\ f = [k \in Nat |-> f[k]]
               /\ \A k \in Nat : Follow(f, 2, step, k) /\ f[k] \in V[k]
  BY <1>1, Recursive
<1>4. \A k \in Nat : k > 1 => k - 1 \in Nat
  OBVIOUS
<1>5. \A k \in Nat : f[k] = IF k <= 1 THEN 2 ELSE 2 * f[k - 1]
  <2> SUFFICES ASSUME NEW k \in Nat PROVE f[k] = IF k <= 1 THEN 2 ELSE 2 * f[k - 1]
    OBVIOUS
  <2>1. CASE k <= 1
    BY <1>3, <2>1 DEF Follow
  <2>2. CASE ~(k <= 1)
    BY <2>2, <1>2, <1>3 DEF Follow
  <2> QED BY <2>1, <2>2
<1>6. f = [k \in Nat |-> IF k <= 1 THEN 2 ELSE 2 * f[k - 1]]
  BY <1>3, <1>5
<1> DEFINE Is(b) == b = [k \in Nat |-> IF k <= 1 THEN 2 ELSE 2 * b[k - 1]]
<1>7. BracketSize = CHOOSE b : Is(b)
  BY DEF BracketSize
<1>8. Is(BracketSize)
  <2>1. Is(f)
    BY <1>6
  <2> HIDE DEF Is
  <2> QED BY <1>7, <2>1
<1>9. \A k \in Nat : BracketSize[k] = IF k <= 1 THEN 2 ELSE 2 * BracketSize[k - 1]
  BY <1>8
<1> HIDE DEF Is
<1> DEFINE G == {k \in Nat : BracketSize[k] \in Nat \ {0}}
<1>10. 0 \in G
  BY <1>9
<1>11. ASSUME NEW k \in Nat, k \in G PROVE k + 1 \in G
  BY <1>9, <1>11
<1>12. \A k \in Nat : k \in G
  <2> HIDE DEF G
  <2> QED BY <1>10, <1>11, Induction
<1> QED BY <1>9, <1>12

LEMMA BracketSizeGrows ==
    \A k \in Nat : k >= 1 => BracketSize[k] >= k + 1
<1> DEFINE G == {k \in Nat : k >= 1 => BracketSize[k] >= k + 1}
<1>1. 0 \in G
  OBVIOUS
<1>2. ASSUME NEW k \in Nat, k \in G PROVE k + 1 \in G
  <2>1. k + 1 \in Nat /\ (k + 1) - 1 = k
    OBVIOUS
  <2>2. CASE k = 0
    BY BracketSizeIs, <2>2
  <2>3. CASE k # 0
    BY <1>2, <2>3, BracketSizeIs, <2>1
  <2> QED BY <2>2, <2>3
<1>3. \A k \in Nat : k \in G
  <2> HIDE DEF G
  <2> QED BY <1>1, <1>2, Induction
<1> QED BY <1>3

(* The smallest bracket that n players fit into.                           *)
LEMMA DepthIs ==
    ASSUME NEW n \in Nat \ {0, 1}
    PROVE  /\ Depth(n) \in Nat \ {0} /\ BracketSize[Depth(n)] >= n
           /\ Depth(n) = 1 \/ BracketSize[Depth(n) - 1] < n
<1> DEFINE S == {k \in 1..n : BracketSize[k] >= n}
           Fits(k) == BracketSize[k] >= n /\ (k = 1 \/ BracketSize[k - 1] < n)
<1>1. \A k \in Nat : BracketSize[k] \in Nat
  BY BracketSizeIs
<1>2. n \in S
  BY BracketSizeGrows, <1>1
<1>3. S \subseteq Nat /\ S # {}
  BY <1>2
<1>4. Min(S) \in S /\ \A x \in S : Min(S) <= x
  <2> HIDE DEF S
  <2> QED BY <1>3, MinExists
<1> DEFINE m == Min(S)
<1>5. m \in 1..n /\ Fits(m)
  <2>1. m \in 1..n /\ BracketSize[m] >= n /\ \A x \in S : m <= x
    BY <1>4
  <2> HIDE DEF m
  <2>2. m = 1 \/ BracketSize[m - 1] < n
    <3> SUFFICES ASSUME m # 1 PROVE BracketSize[m - 1] < n
      OBVIOUS
    <3>1. m - 1 \in 1..n /\ ~(m <= m - 1) /\ m - 1 \in Nat
      BY <2>1
    <3>2. m - 1 \notin S
      BY <2>1, <3>1
    <3> QED BY <1>1, <3>1, <3>2
  <2> QED BY <2>1, <2>2
<1> HIDE DEF m
<1>6. Depth(n) = CHOOSE k \in 1..n : Fits(k)
  BY DEF Depth
<1>7. Depth(n) \in 1..n /\ Fits(Depth(n))
  <2> HIDE DEF Fits
  <2> QED BY <1>5, <1>6
<1> QED BY <1>7

-----------------------------------------------------------------------------
(* The seeds of a bracket: each number once, and neighbours add up to one  *)
(* more than its size.                                                     *)
Bracket(order, size) ==
    /\ order \in [1..size -> 1..size]
    /\ \A i, j \in 1..size : order[i] = order[j] => i = j
    /\ \A i \in 1..size : i % 2 = 1 => i + 1 \in 1..size /\ order[i] + order[i + 1] = size + 1

Interleaved(prev, size) ==
    [i \in 1..size |-> IF i % 2 = 1 THEN prev[(i + 1) \div 2] ELSE size + 1 - prev[i \div 2]]

LEMMA Halving ==
    ASSUME NEW half \in Nat \ {0}, NEW i \in 1..(2 * half)
    PROVE  /\ i % 2 = 1 \/ i % 2 = 0
           /\ i % 2 = 1 => /\ (i + 1) \div 2 \in 1..half /\ i + 1 \in 1..(2 * half)
                           /\ (i + 1) % 2 = 0 /\ i = 2 * ((i + 1) \div 2) - 1
           /\ i % 2 = 0 => i \div 2 \in 1..half /\ i = 2 * (i \div 2)
OBVIOUS

LEMMA InterleavedIs ==
    ASSUME NEW half \in Nat \ {0}, NEW prev \in [1..half -> 1..half],
           \A i, j \in 1..half : prev[i] = prev[j] => i = j,
           NEW order, order = Interleaved(prev, 2 * half)
    PROVE  Bracket(order, 2 * half)
<1> DEFINE size == 2 * half
           Odd(i) == i % 2 = 1
<1>0. \A i \in 1..size : /\ Odd(i) => /\ (i + 1) \div 2 \in 1..half /\ i + 1 \in 1..size
                                      /\ ~Odd(i + 1) /\ i = 2 * ((i + 1) \div 2) - 1
                         /\ ~Odd(i) => i \div 2 \in 1..half /\ i = 2 * (i \div 2)
  <2> SUFFICES ASSUME NEW i \in 1..size
               PROVE  /\ Odd(i) => /\ (i + 1) \div 2 \in 1..half /\ i + 1 \in 1..size
                                   /\ ~Odd(i + 1) /\ i = 2 * ((i + 1) \div 2) - 1
                      /\ ~Odd(i) => i \div 2 \in 1..half /\ i = 2 * (i \div 2)
    OBVIOUS
  <2> QED BY Halving
<1>1. \A i \in 1..size : order[i] = IF Odd(i) THEN prev[(i + 1) \div 2] ELSE size + 1 - prev[i \div 2]
  BY DEF Interleaved
<1>2. order = [i \in 1..size |-> order[i]]
  BY DEF Interleaved
<1> DEFINE up(i) == (i + 1) \div 2
           down(i) == i \div 2
<1>3. \A i \in 1..size : /\ Odd(i) => /\ up(i) \in 1..half /\ i + 1 \in 1..size
                                      /\ ~Odd(i + 1) /\ i = 2 * up(i) - 1 /\ order[i] = prev[up(i)]
                                      /\ down(i + 1) = up(i)
                         /\ ~Odd(i) => /\ down(i) \in 1..half /\ i = 2 * down(i)
                                       /\ order[i] = size + 1 - prev[down(i)]
  BY <1>0, <1>1
<1>4. \A j \in 1..half : prev[j] \in 1..half
  OBVIOUS
<1>5. size = half + half /\ size \in Nat
  OBVIOUS
<1> HIDE DEF size, Odd, up, down
<1>6. ASSUME NEW i \in 1..size
      PROVE  /\ Odd(i) => order[i] \in 1..half
             /\ ~Odd(i) => order[i] \in (half + 1)..size
  <2>1. CASE Odd(i)
    BY <1>3, <1>4, <2>1
  <2>2. CASE ~Odd(i)
    <3>1. prev[down(i)] \in 1..half /\ order[i] = size + 1 - prev[down(i)]
      BY <1>3, <1>4, <2>2
    <3> QED BY <1>5, <2>2, <3>1
  <2> QED BY <2>1, <2>2
<1>7. \A i \in 1..size : order[i] \in 1..size
  BY <1>5, <1>6
<1>8. order \in [1..size -> 1..size]
  BY <1>2, <1>7
<1>9. ASSUME NEW i \in 1..size, NEW j \in 1..size, order[i] = order[j] PROVE i = j
  <2>1. (1..half) \cap ((half + 1)..size) = {}
    OBVIOUS
  <2>2. Odd(i) <=> Odd(j)
    BY <1>6, <1>9, <2>1
  <2>3. CASE Odd(i)
    BY <1>3, <1>9, <2>2, <2>3
  <2>4. CASE ~Odd(i)
    <3>1. /\ down(i) \in 1..half /\ down(j) \in 1..half
          /\ size + 1 - prev[down(i)] = size + 1 - prev[down(j)]
      BY <1>3, <1>9, <2>2, <2>4
    <3>2. prev[down(i)] = prev[down(j)]
      BY <1>4, <1>5, <3>1
    <3>3. down(i) = down(j)
      BY <3>1, <3>2
    <3> QED BY <1>3, <2>2, <2>4, <3>3
  <2> QED BY <2>3, <2>4
<1>10. ASSUME NEW i \in 1..size, Odd(i) PROVE i + 1 \in 1..size /\ order[i] + order[i + 1] = size + 1
  BY <1>3, <1>10, <1>4, <1>5
<1> QED BY <1>8, <1>9, <1>10 DEF Bracket, size, Odd

LEMMA FirstBracket == Bracket(<<1, 2>>, 2)
<1> DEFINE order == <<1, 2>>
<1>1. order \in [1..2 -> 1..2] /\ order[1] = 1 /\ order[2] = 2
  OBVIOUS
<1>2. \A i \in 1..2 : i = 1 \/ i = 2
  OBVIOUS
<1>3. 1 % 2 = 1 /\ 2 % 2 = 0 /\ 1 + 1 \in 1..2 /\ 1 + 2 = 2 + 1
  OBVIOUS
<1> HIDE DEF order
<1>4. \A i, j \in 1..2 : order[i] = order[j] => i = j
  BY <1>1, <1>2
<1>5. \A i \in 1..2 : i % 2 = 1 => i + 1 \in 1..2 /\ order[i] + order[i + 1] = 2 + 1
  BY <1>1, <1>2, <1>3
<1> QED BY <1>1, <1>4, <1>5 DEF Bracket, order

LEMMA SeedOrderIs ==
    \A k \in Nat : /\ k <= 1 => SeedOrder[k] = <<1, 2>>
                   /\ k > 1 => SeedOrder[k] = Interleaved(SeedOrder[k - 1], BracketSize[k])
                   /\ Bracket(SeedOrder[k], BracketSize[k])
<1> DEFINE B(k) == {o \in [1..BracketSize[k] -> 1..BracketSize[k]] : Bracket(o, BracketSize[k])}
           V == [k \in Nat |-> B(k)]
           step == [k \in Nat |-> [o \in B(k - 1) |-> Interleaved(o, BracketSize[k])]]
<1>0. \A k \in Nat : \A o : o \in B(k) <=> Bracket(o, BracketSize[k])
  BY DEF Bracket
<1>1. \A k \in Nat : k >= 2 => \A o \in B(k - 1) : Interleaved(o, BracketSize[k]) \in B(k)
  <2> SUFFICES ASSUME NEW k \in Nat, k >= 2, NEW o \in B(k - 1)
               PROVE  Interleaved(o, BracketSize[k]) \in B(k)
    OBVIOUS
  <2> DEFINE half == BracketSize[k - 1]
  <2>1. k - 1 \in Nat /\ k > 1
    OBVIOUS
  <2>2. half \in Nat \ {0} /\ BracketSize[k] = 2 * half
    BY <2>1, BracketSizeIs
  <2>3. Bracket(o, half)
    BY <1>0, <2>1
  <2> HIDE DEF half, B
  <2>4. o \in [1..half -> 1..half] /\ \A i, j \in 1..half : o[i] = o[j] => i = j
    BY <2>3 DEF Bracket
  <2>5. Bracket(Interleaved(o, 2 * half), 2 * half)
    BY <2>2, <2>4, InterleavedIs
  <2> QED BY <1>0, <2>2, <2>5
<1>2. <<1, 2>> \in B(0) /\ <<1, 2>> \in B(1)
  <2>1. BracketSize[0] = 2 /\ BracketSize[1] = 2
    BY BracketSizeIs
  <2> HIDE DEF B
  <2> QED BY <1>0, <2>1, FirstBracket
<1> HIDE DEF B
<1>3. \A k \in Nat : V[k] = B(k) /\ \A o \in B(k - 1) : step[k][o] = Interleaved(o, BracketSize[k])
  OBVIOUS
<1> HIDE DEF V, step
<1>4. Steps(V, <<1, 2>>, step)
  BY <1>2, <1>3, <1>1 DEF Steps
<1>5. PICK f : /\ f = [k \in Nat |-> f[k]]
               /\ \A k \in Nat : Follow(f, <<1, 2>>, step, k) /\ f[k] \in V[k]
  BY <1>4, Recursive
<1>6. \A k \in Nat : f[k] = IF k <= 1 THEN <<1, 2>> ELSE Interleaved(f[k - 1], BracketSize[k])
  <2> SUFFICES ASSUME NEW k \in Nat
               PROVE  f[k] = IF k <= 1 THEN <<1, 2>> ELSE Interleaved(f[k - 1], BracketSize[k])
    OBVIOUS
  <2>1. CASE k <= 1
    BY <1>5, <2>1 DEF Follow
  <2>2. CASE ~(k <= 1)
    BY <2>2, <1>3, <1>5 DEF Follow
  <2> QED BY <2>1, <2>2
<1> DEFINE Is(s) == s = [k \in Nat |->
                IF k <= 1 THEN <<1, 2>>
                ELSE [i \in 1..BracketSize[k] |->
                         IF i % 2 = 1 THEN s[k - 1][(i + 1) \div 2]
                         ELSE BracketSize[k] + 1 - s[k - 1][i \div 2]]]
           At_(s) == s = [k \in Nat |-> IF k <= 1 THEN <<1, 2>> ELSE Interleaved(s[k - 1], BracketSize[k])]
<1>7. SeedOrder = CHOOSE s : Is(s)
  BY DEF SeedOrder
<1>8. \A s : Is(s) <=> At_(s)
  BY DEF Interleaved
<1>9. At_(f)
  BY <1>5, <1>6
<1>10. At_(SeedOrder)
  <2> HIDE DEF Is, At_
  <2>1. Is(f)
    BY <1>8, <1>9
  <2>2. Is(SeedOrder)
    BY <1>7, <2>1
  <2> QED BY <1>8, <2>2
<1>11. \A k \in Nat : SeedOrder[k] = IF k <= 1 THEN <<1, 2>> ELSE Interleaved(SeedOrder[k - 1], BracketSize[k])
  BY <1>10
<1> HIDE DEF Is, At_
<1> DEFINE G == {k \in Nat : SeedOrder[k] \in B(k)}
<1>12. 0 \in G
  BY <1>2, <1>11
<1>13. ASSUME NEW k \in Nat, k \in G PROVE k + 1 \in G
  <2>1. k + 1 \in Nat /\ (k + 1) - 1 = k
    OBVIOUS
  <2>2. CASE k = 0
    BY <1>2, <1>11, <2>2
  <2>3. CASE k # 0
    BY <2>3, <1>11, <2>1, <1>1, <1>13
  <2> QED BY <2>2, <2>3
<1>14. \A k \in Nat : k \in G
  <2> HIDE DEF G
  <2> QED BY <1>12, <1>13, Induction
<1>15. \A k \in Nat : Bracket(SeedOrder[k], BracketSize[k])
  BY <1>0, <1>14
<1>16. \A k \in Nat : k > 1 <=> ~(k <= 1)
  OBVIOUS
<1> QED BY <1>11, <1>15, <1>16

-----------------------------------------------------------------------------
(* The pairings of a knockout round of L matches.                          *)
Pair(P, i) == {P[i][1], P[i][2]}
Bracketed(P, n, L) ==
    /\ L \in Nat \ {0} /\ DOMAIN P = 1..L
    /\ \A i \in 1..L : /\ P[i] = <<P[i][1], P[i][2]>> /\ P[i][1] \in 0..n /\ P[i][2] \in 0..n
                       /\ P[i][1] # P[i][2]
    /\ \A i, j \in 1..L : i # j => Pair(P, i) \cap Pair(P, j) \subseteq {Nobody}

Entrants(e, n, len) ==
    /\ len \in Nat /\ len >= 2 /\ DOMAIN e = 1..len /\ Len(e) = len
    /\ \A i \in 1..len : e[i] \in 0..n
    /\ \A i, j \in 1..len : e[i] = e[j] => i = j \/ e[i] = Nobody
    /\ \A k \in 1..(len \div 2) : e[2 * k - 1] # Nobody \/ e[2 * k] # Nobody
Paired2(P, e, L) == \A i \in 1..L : P[i] = <<e[2 * i - 1], e[2 * i]>>

LEMMA NeighboursAre ==
    ASSUME NEW n \in Nat, NEW len, NEW e, Entrants(e, n, len), NEW P, P = Neighbours(e)
    PROVE  Bracketed(P, n, len \div 2) /\ Paired2(P, e, len \div 2)
<1>0. /\ len \in Nat /\ len >= 2 /\ DOMAIN e = 1..len /\ Len(e) = len
      /\ \A i \in 1..len : e[i] \in 0..n
      /\ \A i, j \in 1..len : e[i] = e[j] => i = j \/ e[i] = Nobody
  BY DEF Entrants
<1> DEFINE L == len \div 2
<1>1. L \in Nat \ {0} /\ 2 * L <= len
  BY <1>0
<1>2. P = [i \in 1..L |-> <<e[2 * i - 1], e[2 * i]>>]
  BY <1>0 DEF Neighbours
<1>3. DOMAIN P = 1..L /\ \A i \in 1..L : P[i] = <<e[2 * i - 1], e[2 * i]>>
  BY <1>2
<1>a. \A k \in 1..L : e[2 * k - 1] # Nobody \/ e[2 * k] # Nobody
  BY DEF Entrants
<1> HIDE DEF L
<1>4. ASSUME NEW i \in 1..L
      PROVE  2 * i - 1 \in 1..len /\ 2 * i \in 1..len /\ 2 * i - 1 # 2 * i
  BY <1>0, <1>1
<1>5. \A i \in 1..L : P[i][1] = e[2 * i - 1] /\ P[i][2] = e[2 * i] /\ P[i] = <<P[i][1], P[i][2]>>
  BY <1>3
<1>6. ASSUME NEW i \in 1..L PROVE P[i][1] \in 0..n /\ P[i][2] \in 0..n /\ P[i][1] # P[i][2]
  <2> DEFINE a == 2 * i - 1  b == 2 * i
  <2>1. a \in 1..len /\ b \in 1..len /\ a # b
    BY <1>4
  <2>2. P[i][1] = e[a] /\ P[i][2] = e[b]
    BY <1>5
  <2>3. e[a] # Nobody \/ e[b] # Nobody
    BY <1>a
  <2> HIDE DEF a, b
  <2>4. e[a] # e[b]
    BY <1>0, <2>1, <2>3
  <2> QED BY <1>0, <2>1, <2>2, <2>4
<1>7. ASSUME NEW i \in 1..L, NEW j \in 1..L, i # j PROVE Pair(P, i) \cap Pair(P, j) \subseteq {Nobody}
  <2> DEFINE a == 2 * i - 1  b == 2 * i  c == 2 * j - 1  d == 2 * j
  <2>1. a \in 1..len /\ b \in 1..len /\ c \in 1..len /\ d \in 1..len
    BY <1>4
  <2>2. a # c /\ a # d /\ b # c /\ b # d
    BY <1>1, <1>7
  <2>3. P[i][1] = e[a] /\ P[i][2] = e[b] /\ P[j][1] = e[c] /\ P[j][2] = e[d]
    BY <1>5
  <2> HIDE DEF a, b, c, d
  <2>4. /\ e[a] = e[c] => e[a] = Nobody
        /\ e[a] = e[d] => e[a] = Nobody
        /\ e[b] = e[c] => e[b] = Nobody
        /\ e[b] = e[d] => e[b] = Nobody
    BY <1>0, <2>1, <2>2
  <2> QED BY <2>3, <2>4 DEF Pair
<1> QED BY <1>1, <1>3, <1>5, <1>6, <1>7 DEF Bracketed, Paired2, L

LEMMA FirstPairingsAre ==
    ASSUME NEW n \in Nat \ {0, 1}, NEW P, P = FirstPairings(n)
    PROVE  \E L : /\ L = BracketSize[Depth(n)] \div 2 /\ Bracketed(P, n, L)
                  /\ Paired2(P, Seeded(n, SeedOrder[Depth(n)]), L)
                  /\ \E i \in 1..L : Nobody \notin Pair(P, i)
<1> DEFINE k == Depth(n)
           size == BracketSize[k]
           order == SeedOrder[k]
           e == Seeded(n, order)
<1>1. k \in Nat \ {0} /\ size >= n /\ (k = 1 \/ BracketSize[k - 1] < n)
  BY DepthIs
<1>2. size \in Nat /\ size >= 2 /\ size < 2 * n
  <2> HIDE DEF k
  <2>1. CASE k = 1
    BY <2>1, BracketSizeIs
  <2>2. CASE k # 1
    BY <1>1, <2>2, BracketSizeIs
  <2> QED BY <2>1, <2>2
<1>c. size = 2 * (size \div 2)
  <2> HIDE DEF k
  <2>1. CASE k = 1
    BY <2>1, BracketSizeIs
  <2>2. CASE k # 1
    <3>1. k - 1 \in Nat /\ k > 1 /\ k \in Nat
      BY <1>1, <2>2
    <3>2. size = 2 * BracketSize[k - 1] /\ BracketSize[k - 1] \in Nat \ {0}
      BY <3>1, BracketSizeIs
    <3> HIDE DEF size
    <3> QED BY <3>2
  <2> QED BY <2>1, <2>2
<1>3. Bracket(order, size)
  BY <1>1, SeedOrderIs
<1> HIDE DEF k, size, order
<1>4. /\ order \in [1..size -> 1..size]
      /\ \A i, j \in 1..size : order[i] = order[j] => i = j
      /\ \A i \in 1..size : i % 2 = 1 => i + 1 \in 1..size /\ order[i] + order[i + 1] = size + 1
  BY <1>3 DEF Bracket
<1>5. e = [i \in 1..size |-> IF order[i] <= n THEN order[i] ELSE Nobody]
  BY <1>4 DEF Seeded
<1>6. DOMAIN e = 1..size /\ \A i \in 1..size : e[i] = IF order[i] <= n THEN order[i] ELSE Nobody
  BY <1>5
<1>7. Len(e) = size
  <2>1. e \in Seq(0..n)
    <3>1. \A i \in 1..size : e[i] \in 0..n
      BY <1>4, <1>6 DEF Nobody
    <3> HIDE DEF e
    <3> QED BY <1>2, <1>5, <1>6, <3>1
  <2> HIDE DEF e
  <2> QED BY <1>2, <1>6, <2>1
<1> HIDE DEF e
<1>8. \A i \in 1..size : order[i] \in 1..size
  BY <1>4
<1>9. \A i \in 1..size : e[i] \in 0..n
  BY <1>6, <1>8 DEF Nobody
<1>10. \A i, j \in 1..size : e[i] = e[j] => i = j \/ e[i] = Nobody
  BY <1>4, <1>6, <1>8
<1>a. ASSUME NEW k1 \in 1..(size \div 2)
      PROVE  /\ 2 * k1 - 1 \in 1..size /\ 2 * k1 \in 1..size
             /\ order[2 * k1 - 1] \in 1..size /\ order[2 * k1] \in 1..size
             /\ order[2 * k1 - 1] + order[2 * k1] = size + 1
  <2> DEFINE i == 2 * k1 - 1
  <2>1. i \in 1..size /\ i % 2 = 1 /\ i + 1 = 2 * k1
    BY <1>2
  <2>2. 2 * k1 \in 1..size /\ order[i] + order[2 * k1] = size + 1
    BY <1>4, <2>1
  <2> HIDE DEF i
  <2>3. order[i] \in 1..size /\ order[2 * k1] \in 1..size
    BY <1>8, <2>1, <2>2
  <2> QED BY <2>1, <2>2, <2>3 DEF i
<1>11. ASSUME NEW k1 \in 1..(size \div 2)
       PROVE  e[2 * k1 - 1] # Nobody \/ e[2 * k1] # Nobody
  <2> DEFINE i == 2 * k1 - 1  j == 2 * k1
  <2>1. i \in 1..size /\ j \in 1..size /\ order[i] \in 1..size /\ order[j] \in 1..size
        /\ order[i] + order[j] = size + 1
    BY <1>a
  <2> HIDE DEF i, j
  <2>2. order[i] <= n \/ order[j] <= n
    BY <1>2, <2>1
  <2>3. e[i] # Nobody \/ e[j] # Nobody
    BY <1>6, <2>1, <2>2 DEF Nobody
  <2> QED BY <2>3 DEF i, j
<1>b. \E k1 \in 1..(size \div 2) : e[2 * k1 - 1] # Nobody /\ e[2 * k1] # Nobody
  <2>1. order \in Surjection(1..size, 1..size)
    <3>1. order \in Injection(1..size, 1..size)
      BY <1>4 DEF Injection, IsInjective
    <3>2. IsFiniteSet(1..size)
      BY <1>2, FS_Interval
    <3> QED BY <3>1, <3>2, FS_Injection
  <2>2. n \in 1..size
    BY <1>1, <1>2
  <2>3. PICK i \in 1..size : order[i] = n
    BY <2>1, <2>2 DEF Surjection
  <2>4. PICK k1 \in 1..(size \div 2) : i = 2 * k1 - 1 \/ i = 2 * k1
    <3>1. size = 2 * (size \div 2)
      BY <1>c
    <3> DEFINE half == size \div 2
    <3>2. half \in Nat \ {0} /\ i \in 1..(2 * half)
      BY <1>2, <3>1
    <3> HIDE DEF half
    <3>3. \E k1 \in 1..half : i = 2 * k1 - 1 \/ i = 2 * k1
      BY <3>2, Halving
    <3> QED BY <3>3 DEF half
  <2> DEFINE x == 2 * k1 - 1  y == 2 * k1
  <2>5. x \in 1..size /\ y \in 1..size /\ order[x] \in 1..size /\ order[y] \in 1..size
        /\ order[x] + order[y] = size + 1 /\ (i = x \/ i = y)
    BY <1>a, <2>4
  <2> HIDE DEF x, y
  <2>6. order[x] <= n /\ order[y] <= n
    BY <1>2, <2>3, <2>5
  <2>7. e[x] # Nobody /\ e[y] # Nobody
    BY <1>6, <2>5, <2>6 DEF Nobody
  <2> QED BY <2>7 DEF x, y
<1>12. P = Neighbours(e)
  BY DEF FirstPairings, e, order, k
<1>13. Entrants(e, n, size)
  BY <1>2, <1>6, <1>7, <1>9, <1>10, <1>11 DEF Entrants
<1>14. n \in Nat
  OBVIOUS
<1>15. Bracketed(P, n, size \div 2) /\ Paired2(P, e, size \div 2)
  BY <1>12, <1>13, <1>14, NeighboursAre
<1>16. \E i \in 1..(size \div 2) : Nobody \notin Pair(P, i)
  <2>1. PICK k1 \in 1..(size \div 2) : e[2 * k1 - 1] # Nobody /\ e[2 * k1] # Nobody
    BY <1>b
  <2>2. P[k1] = <<e[2 * k1 - 1], e[2 * k1]>>
    BY <1>15 DEF Paired2
  <2> QED BY <2>1, <2>2 DEF Pair
<1> QED BY <1>15, <1>16 DEF e, order, size, k

-----------------------------------------------------------------------------
(* Who plays a match.                                                      *)
Rivals(m) == {m.first, m.second}
Apart(M) == \A m, l \in M : m.index # l.index => Rivals(m) \cap Rivals(l) \subseteq {Nobody}

(* The matches that are played, and how many of them come before a match.  *)
Contested(P) == {i \in DOMAIN P : Nobody \notin Pair(P, i)}
Earlier(P, i) == Cardinality({j \in Contested(P) : j < i})

LEMMA EarlierIs ==
    ASSUME NEW P, NEW n, NEW L, Bracketed(P, n, L)
    PROVE  /\ IsFiniteSet(Contested(P)) /\ Contested(P) \subseteq 1..L
           /\ \A i \in Contested(P) : Earlier(P, i) \in Nat
           /\ \A i, j \in Contested(P) : i < j => Earlier(P, i) + 1 <= Earlier(P, j)
<1> DEFINE C == Contested(P)
<1>1. C \subseteq 1..L /\ L \in Nat
  BY DEF Contested, Bracketed
<1>2. IsFiniteSet(C)
  <2>1. 1 \in Int /\ L \in Int
    BY <1>1
  <2>2. IsFiniteSet(1..L)
    BY <2>1, FS_Interval
  <2> HIDE DEF C
  <2> QED BY <1>1, <2>2, FS_Subset
<1> HIDE DEF C
<1>3. ASSUME NEW i \in C PROVE IsFiniteSet({j \in C : j < i}) /\ Cardinality({j \in C : j < i}) \in Nat
  BY <1>2, FS_Subset, FS_CardinalityType
<1>4. ASSUME NEW i \in C, NEW j \in C, i < j
      PROVE  Cardinality({k \in C : k < i}) + 1 <= Cardinality({k \in C : k < j})
  <2> DEFINE A == {k \in C : k < i}  B == {k \in C : k < j}
  <2>1. i \in Nat /\ j \in Nat /\ \A k \in C : k \in Nat
    BY <1>1
  <2>a. ~(i < i) /\ \A k \in C : k < i => k < j
    BY <1>4, <2>1
  <2>2. A \cup {i} \subseteq B /\ i \notin A
    BY <1>4, <2>a
  <2>3. IsFiniteSet(A) /\ IsFiniteSet(B)
    BY <1>3
  <2> HIDE DEF A, B
  <2>4. Cardinality(A \cup {i}) = Cardinality(A) + 1
    BY <2>2, <2>3, FS_AddElement
  <2>5. Cardinality(A \cup {i}) <= Cardinality(B)
    BY <2>2, <2>3, FS_Subset
  <2>6. Cardinality(A) + 1 <= Cardinality(B)
    BY <2>4, <2>5
  <2> QED BY <2>6 DEF A, B
<1> QED BY <1>1, <1>2, <1>3, <1>4 DEF Earlier, C

LEMMA Multiples ==
    ASSUME NEW a \in Nat, NEW b \in Nat, a + 1 <= b, NEW per \in Nat
    PROVE  a * per + per <= b * per
<1>1. PICK d \in Nat : b = a + 1 + d
  OBVIOUS
<1>2. b * per = a * per + per + d * per
  BY <1>1
<1>3. d * per \in Nat /\ a * per \in Nat
  OBVIOUS
<1> QED BY <1>2, <1>3

PlaysAs(g, round, P, i, pair, number) ==
    /\ IsRow(g) /\ g.round = round /\ g.pair = pair /\ g.number = number /\ g.match = i
    /\ g.kind = "base" /\ g.result = Unplayed /\ {g.white, g.black} = Pair(P, i)
    /\ g.white \in Pair(P, i) /\ g.black \in Pair(P, i)
    /\ P[i][1] # P[i][2] => g.white # g.black

LEMMA KnockoutGame ==
    ASSUME NEW round, NEW P, NEW i, P[i] = <<P[i][1], P[i][2]>>, NEW pair, NEW number,
           NEW c, c = IF number % 2 = 1 THEN P[i] ELSE Swapped(P[i]),
           NEW g, g = Game(round, pair, c[1], c[2], i, number, "base")
    PROVE  PlaysAs(g, round, P, i, pair, number)
<1> DEFINE a == P[i][1]  b == P[i][2]
<1>1. c = P[i] \/ c = Swapped(P[i])
  OBVIOUS
<1>2. (c[1] = a /\ c[2] = b) \/ (c[1] = b /\ c[2] = a)
  BY <1>1 DEF Swapped
<1>3. g.white = c[1] /\ g.black = c[2] /\ g.round = round /\ g.number = number /\ g.kind = "base"
      /\ g.result = Unplayed
  BY GameFields
<1>4. g.pair = pair /\ g.match = i
  BY DEF Game
<1>5. IsRow(g)
  BY GameIsRow
<1> QED BY <1>2, <1>3, <1>4, <1>5 DEF PlaysAs, Pair

(* The rows of a knockout round.                                           *)
KnockoutGames(G, round, P, per) ==
    /\ \A g \in G : \E i \in Contested(P), number \in 1..per :
          PlaysAs(g, round, P, i, Earlier(P, i) * per + number, number)
    /\ \A i \in Contested(P) : \E g \in G : PlaysAs(g, round, P, i, Earlier(P, i) * per + 1, 1)
    /\ \A g, h \in G : g.pair = h.pair => g = h
KnockoutMatches(M, round, P) ==
    /\ \A m \in M : \E i \in DOMAIN P :
          \/ i \in Contested(P) /\ Fields(m, round, i, P[i][1], P[i][2], "pending", Nobody)
          \/ /\ i \notin Contested(P)
             /\ \E p : /\ p = IF P[i][1] # Nobody THEN P[i][1] ELSE P[i][2]
                       /\ Fields(m, round, i, p, Nobody, "bye", p)
    /\ \A i \in DOMAIN P : \E m \in M : m.index = i
    /\ \A m, l \in M : m.index = l.index => m = l

LEMMA KnockoutRowsAre ==
    ASSUME NEW n \in Nat, NEW L, NEW P, Bracketed(P, n, L), NEW round, NEW per \in Nat \ {0},
           NEW r, r = KnockoutRound(round, P, per)
    PROVE  /\ KnockoutGames(r.games, round, P, per) /\ IsFiniteSet(r.games)
           /\ KnockoutMatches(r.matches, round, P) /\ IsFiniteSet(r.matches)
<1> DEFINE played == {i \in DOMAIN P : Nobody \notin ToSet(P[i])}
           before(i) == Cardinality({j \in played : j < i}) * per
           entrant(i) == IF P[i][1] # Nobody THEN P[i][1] ELSE P[i][2]
           colours(i, number) == IF number % 2 = 1 THEN P[i] ELSE Swapped(P[i])
           game(i, number) == Game(round, before(i) + number, colours(i, number)[1],
                                   colours(i, number)[2], i, number, "base")
           match(i) == IF i \in played THEN Match(round, i, P[i][1], P[i][2]) ELSE Bye(round, i, entrant(i))
<1>1. /\ r.games = {game(t[1], t[2]) : t \in played \X (1..per)}
      /\ r.matches = {match(i) : i \in DOMAIN P}
  BY DEF KnockoutRound
<1>2. /\ L \in Nat \ {0} /\ DOMAIN P = 1..L
      /\ \A i \in 1..L : P[i] = <<P[i][1], P[i][2]>> /\ P[i][1] # P[i][2]
  BY DEF Bracketed
<1>3. played = Contested(P)
  <2>1. \A i \in DOMAIN P : ToSet(P[i]) = Pair(P, i)
    <3> SUFFICES ASSUME NEW i \in 1..L PROVE ToSet(P[i]) = Pair(P, i)
      BY <1>2
    <3> DEFINE a == P[i][1]  b == P[i][2]
    <3>1. P[i] = <<a, b>>
      BY <1>2
    <3> HIDE DEF a, b
    <3>2. ToSet(P[i]) = {a, b}
      BY <3>1 DEF ToSet
    <3> QED BY <3>2 DEF Pair, a, b
  <2> QED BY <2>1 DEF Contested
<1>4. IsFiniteSet(DOMAIN P) /\ IsFiniteSet(Contested(P)) /\ IsFiniteSet(1..per)
  BY <1>2, FS_Interval, EarlierIs
<1>5. \A i : before(i) = Earlier(P, i) * per
  BY <1>3 DEF Earlier
<1> HIDE DEF played, before
<1>6. ASSUME NEW i \in Contested(P), NEW number \in 1..per
      PROVE  PlaysAs(game(i, number), round, P, i, Earlier(P, i) * per + number, number)
  <2>1. P[i] = <<P[i][1], P[i][2]>>
    BY <1>2 DEF Contested
  <2>2. game(i, number) = Game(round, Earlier(P, i) * per + number, colours(i, number)[1],
                                   colours(i, number)[2], i, number, "base")
    BY <1>5
  <2> DEFINE g == game(i, number)  c == colours(i, number)
  <2>3. c = IF number % 2 = 1 THEN P[i] ELSE Swapped(P[i])
    OBVIOUS
  <2> DEFINE pair == Earlier(P, i) * per + number
  <2>4. g = Game(round, pair, c[1], c[2], i, number, "base")
    BY <2>2
  <2> HIDE DEF g, c, pair
  <2>5. PlaysAs(g, round, P, i, pair, number)
    BY <2>1, <2>3, <2>4, KnockoutGame
  <2> QED BY <2>5 DEF g, pair
<1>7. \A g \in r.games : \E i \in Contested(P), number \in 1..per : g = game(i, number)
  <2> HIDE DEF game
  <2> QED BY <1>1, <1>3
<1>8. ASSUME NEW i \in Contested(P), NEW number \in 1..per PROVE game(i, number) \in r.games
  <2> DEFINE t == <<i, number>>
  <2>1. t \in played \X (1..per) /\ t[1] = i /\ t[2] = number
    BY <1>3
  <2> HIDE DEF t, game
  <2>2. game(t[1], t[2]) \in r.games
    BY <1>1, <2>1
  <2> QED BY <2>1, <2>2
<1> HIDE DEF game
<1>9. ASSUME NEW g \in r.games, NEW h \in r.games, g.pair = h.pair PROVE g = h
  <2>1. PICK i \in Contested(P), x \in 1..per : g = game(i, x)
    BY <1>7
  <2>2. PICK j \in Contested(P), y \in 1..per : h = game(j, y)
    BY <1>7
  <2>3. g.pair = Earlier(P, i) * per + x /\ h.pair = Earlier(P, j) * per + y
    BY <1>6, <2>1, <2>2 DEF PlaysAs
  <2>4. /\ Earlier(P, i) \in Nat /\ Earlier(P, j) \in Nat /\ i \in Nat /\ j \in Nat
        /\ i < j => Earlier(P, i) + 1 <= Earlier(P, j)
        /\ j < i => Earlier(P, j) + 1 <= Earlier(P, i)
    BY <1>2, EarlierIs
  <2> DEFINE u == Earlier(P, i) * per  v == Earlier(P, j) * per
  <2>5. u \in Nat /\ v \in Nat
    BY <2>4
  <2>6. i < j => u + per <= v
    BY <2>4, Multiples
  <2>7. j < i => v + per <= u
    BY <2>4, Multiples
  <2>8. g.pair = u + x /\ h.pair = v + y
    BY <2>3
  <2>a. u + x = v + y
    BY <1>9, <2>8
  <2>b. i \in Nat /\ j \in Nat
    BY <2>4
  <2> HIDE DEF u, v
  <2>9. i = j
    BY <2>5, <2>a, <2>b, <2>6, <2>7
  <2>10. u = v
    BY <2>9 DEF u, v
  <2>11. x = y
    BY <2>5, <2>a, <2>10
  <2> QED BY <2>1, <2>2, <2>9, <2>11
<1>10. KnockoutGames(r.games, round, P, per)
  BY <1>6, <1>7, <1>8, <1>9 DEF KnockoutGames
<1>11. IsFiniteSet(r.games)
  <2> DEFINE f == [t \in Contested(P) \X (1..per) |-> game(t[1], t[2])]
  <2>1. IsFiniteSet(Contested(P) \X (1..per))
    BY <1>4, FS_Product
  <2>2. \A g \in r.games : \E t \in Contested(P) \X (1..per) : f[t] = g
    <3> SUFFICES ASSUME NEW g \in r.games PROVE \E t \in Contested(P) \X (1..per) : f[t] = g
      OBVIOUS
    <3>1. PICK i \in Contested(P), number \in 1..per : g = game(i, number)
      BY <1>7
    <3>2. <<i, number>> \in Contested(P) \X (1..per) /\ f[<<i, number>>] = g
      BY <3>1
    <3> QED BY <3>2
  <2> HIDE DEF f
  <2> QED BY <2>1, <2>2, FiniteImage
<1>12. ASSUME NEW i \in DOMAIN P
       PROVE  /\ match(i).index = i
              /\ \/ i \in Contested(P) /\ Fields(match(i), round, i, P[i][1], P[i][2], "pending", Nobody)
                 \/ /\ i \notin Contested(P)
                    /\ \E p : /\ p = IF P[i][1] # Nobody THEN P[i][1] ELSE P[i][2]
                              /\ Fields(match(i), round, i, p, Nobody, "bye", p)
  <2>1. CASE i \in Contested(P)
    <3>1. match(i) = Match(round, i, P[i][1], P[i][2])
      BY <1>3, <2>1
    <3>2. Fields(match(i), round, i, P[i][1], P[i][2], "pending", Nobody)
      BY <3>1, MatchIs
    <3> HIDE DEF match
    <3> QED BY <2>1, <3>2 DEF Fields
  <2>2. CASE i \notin Contested(P)
    <3>1. match(i) = Bye(round, i, entrant(i))
      BY <1>3, <2>2
    <3>2. Fields(match(i), round, i, entrant(i), Nobody, "bye", entrant(i))
      BY <3>1, ByeIs
    <3> HIDE DEF match
    <3> QED BY <2>2, <3>2 DEF Fields
  <2> QED BY <2>1, <2>2
<1> HIDE DEF match
<1>13. KnockoutMatches(r.matches, round, P)
  <2>1. \A m \in r.matches : \E i \in DOMAIN P : m = match(i)
    BY <1>1
  <2>2. \A i \in DOMAIN P : match(i) \in r.matches
    BY <1>1
  <2>3. ASSUME NEW m \in r.matches
        PROVE  \E i \in DOMAIN P :
                  \/ i \in Contested(P) /\ Fields(m, round, i, P[i][1], P[i][2], "pending", Nobody)
                  \/ /\ i \notin Contested(P)
                     /\ \E p : /\ p = IF P[i][1] # Nobody THEN P[i][1] ELSE P[i][2]
                               /\ Fields(m, round, i, p, Nobody, "bye", p)
    <3>1. PICK i \in DOMAIN P : m = match(i)
      BY <2>1
    <3> QED BY <1>12, <3>1
  <2>4. \A i \in DOMAIN P : \E m \in r.matches : m.index = i
    BY <1>12, <2>2
  <2>a. \A i \in DOMAIN P : match(i).index = i
    BY <1>12
  <2>5. ASSUME NEW m \in r.matches, NEW l \in r.matches, m.index = l.index PROVE m = l
    <3>1. PICK i \in DOMAIN P : m = match(i)
      BY <2>1
    <3>2. PICK j \in DOMAIN P : l = match(j)
      BY <2>1
    <3>3. i = j
      BY <2>a, <2>5, <3>1, <3>2
    <3> QED BY <3>1, <3>2, <3>3
  <2> QED BY <2>3, <2>4, <2>5 DEF KnockoutMatches
<1>14. IsFiniteSet(r.matches)
  <2> DEFINE f == [i \in DOMAIN P |-> match(i)]
  <2>1. \A m \in r.matches : \E i \in DOMAIN P : f[i] = m
    BY <1>1
  <2> HIDE DEF f
  <2> QED BY <1>4, <2>1, FiniteImage
<1> QED BY <1>10, <1>11, <1>13, <1>14

LEMMA KnockoutRoundIs ==
    ASSUME NEW n \in Nat, NEW L, NEW P, Bracketed(P, n, L), NEW round, NEW per \in Nat \ {0},
           NEW r, r = KnockoutRound(round, P, per)
    PROVE  /\ NewRound(n, round, r.games, r.matches) /\ Apart(r.matches)
           /\ Contested(P) # {} => \E m \in r.matches : m.status # "bye"
<1> DEFINE G == r.games  M == r.matches
<1>1. KnockoutGames(G, round, P, per) /\ IsFiniteSet(G) /\ KnockoutMatches(M, round, P) /\ IsFiniteSet(M)
  BY KnockoutRowsAre
<1> HIDE DEF G, M
<1>2. /\ L \in Nat \ {0} /\ DOMAIN P = 1..L
      /\ \A i \in 1..L : P[i][1] \in 0..n /\ P[i][2] \in 0..n /\ P[i][1] # P[i][2]
      /\ \A i, j \in 1..L : i # j => Pair(P, i) \cap Pair(P, j) \subseteq {Nobody}
  BY DEF Bracketed
<1>3. \A i \in 1..L : i \in Contested(P) <=> P[i][1] # Nobody /\ P[i][2] # Nobody
  BY <1>2 DEF Contested, Pair
<1>4. Contested(P) \subseteq 1..L
  BY <1>2 DEF Contested
<1>5. ASSUME NEW g \in G PROVE NewGame(n, round, g)
  <2>1. PICK i \in Contested(P), number \in 1..per :
            PlaysAs(g, round, P, i, Earlier(P, i) * per + number, number)
    BY <1>1 DEF KnockoutGames
  <2>2. Earlier(P, i) \in Nat
    BY EarlierIs
  <2> DEFINE u == Earlier(P, i) * per
  <2>3. u \in Nat
    BY <2>2
  <2>a. g.pair = u + number
    BY <2>1 DEF PlaysAs
  <2> HIDE DEF u
  <2>4. g.pair \in Nat \ {0} /\ number \in Nat \ {0}
    BY <2>3, <2>a
  <2>5. i \in 1..L
    BY <1>4
  <2>6. P[i][1] \in 1..n /\ P[i][2] \in 1..n
    BY <1>2, <1>3, <2>5 DEF Nobody
  <2>7. g.white \in 1..n /\ g.black \in 1..n /\ g.white # g.black
    BY <1>2, <2>1, <2>5, <2>6 DEF PlaysAs, Pair
  <2> QED BY <2>1, <2>4, <2>7 DEF PlaysAs, NewGame
<1>6. ASSUME NEW m \in M
      PROVE  /\ NewMatch(n, round, m) /\ m.index \in 1..L
             /\ Rivals(m) \subseteq Pair(P, m.index) \cup {Nobody}
             /\ m.status = "bye" <=> m.index \notin Contested(P)
             /\ m.status # "bye" => Rivals(m) = Pair(P, m.index)
  <2>1. PICK i \in DOMAIN P :
          \/ i \in Contested(P) /\ Fields(m, round, i, P[i][1], P[i][2], "pending", Nobody)
          \/ /\ i \notin Contested(P)
             /\ \E p : /\ p = IF P[i][1] # Nobody THEN P[i][1] ELSE P[i][2]
                       /\ Fields(m, round, i, p, Nobody, "bye", p)
    BY <1>1 DEF KnockoutMatches
  <2>2. i \in 1..L /\ i \in Nat \ {0}
    BY <1>2
  <2>3. CASE i \in Contested(P) /\ Fields(m, round, i, P[i][1], P[i][2], "pending", Nobody)
    BY <1>2, <1>3, <2>2, <2>3 DEF Nobody, Fields, NewMatch, Rivals, Pair
  <2>4. CASE i \notin Contested(P) /\ \E p : /\ p = IF P[i][1] # Nobody THEN P[i][1] ELSE P[i][2]
                                             /\ Fields(m, round, i, p, Nobody, "bye", p)
    <3>1. PICK p : p = (IF P[i][1] # Nobody THEN P[i][1] ELSE P[i][2]) /\ Fields(m, round, i, p, Nobody, "bye", p)
      BY <2>4
    <3>2. p \in 1..n /\ p \in Pair(P, i)
      BY <1>2, <2>2, <3>1 DEF Nobody, Pair
    <3>3. Nobody \in 0..n /\ p # Nobody
      BY <3>2 DEF Nobody
    <3> QED BY <2>2, <2>4, <3>1, <3>2, <3>3 DEF Fields, NewMatch, Rivals
  <2> QED BY <2>1, <2>3, <2>4
<1>7. \A g, h \in G : g.pair = h.pair => g = h
  BY <1>1 DEF KnockoutGames
<1>8. \A m, l \in M : m.index = l.index => m = l
  BY <1>1 DEF KnockoutMatches
<1>9. \A i \in 1..L : \E m \in M : m.index = i
  BY <1>1, <1>2 DEF KnockoutMatches
<1>10. \E m \in M : m.index = 1
  <2>1. 1 \in 1..L
    BY <1>2
  <2> QED BY <1>9, <2>1
<1>11. \A m \in M : \A i \in 1..m.index : \E l \in M : l.index = i
  BY <1>2, <1>6, <1>9
<1>12. ASSUME NEW g \in G PROVE \E m \in M : Plays(g, m)
  <2>1. PICK i \in Contested(P), number \in 1..per :
            PlaysAs(g, round, P, i, Earlier(P, i) * per + number, number)
    BY <1>1 DEF KnockoutGames
  <2>2. PICK m \in M : m.index = i
    BY <1>4, <1>9
  <2>3. m.round = round /\ m.status # "bye" /\ Rivals(m) = Pair(P, i)
    BY <1>6, <2>2 DEF NewMatch
  <2>4. g.round = round /\ g.match = i /\ {g.white, g.black} = Pair(P, i)
    BY <2>1 DEF PlaysAs
  <2>5. Plays(g, m)
    BY <2>2, <2>3, <2>4 DEF Plays, Rivals
  <2> QED BY <2>5
<1>13. ASSUME NEW m \in M, m.status # "bye" PROVE \E g \in G : Plays(g, m)
  <2>1. m.round = round /\ m.index \in Contested(P) /\ Rivals(m) = Pair(P, m.index)
    BY <1>6, <1>13 DEF NewMatch
  <2> DEFINE i == m.index
  <2>2. PICK g \in G : PlaysAs(g, round, P, i, Earlier(P, i) * per + 1, 1)
    BY <1>1, <2>1 DEF KnockoutGames
  <2>3. g.round = round /\ g.match = i /\ {g.white, g.black} = Pair(P, i)
    BY <2>2 DEF PlaysAs
  <2>4. Plays(g, m)
    BY <1>13, <2>1, <2>3 DEF Plays, Rivals
  <2> QED BY <2>4
<1>14. NewRound(n, round, G, M)
  BY <1>1, <1>5, <1>6, <1>7, <1>8, <1>10, <1>11, <1>12, <1>13 DEF NewRound
<1>15. Apart(M)
  BY <1>2, <1>6 DEF Apart
<1>16. Contested(P) # {} => \E m \in M : m.status # "bye"
  BY <1>4, <1>6, <1>9
<1> QED BY <1>14, <1>15, <1>16 DEF G, M

-----------------------------------------------------------------------------
(* The winner of a match, and the games that are added when it is drawn.   *)
LEMMA ResolvedIs ==
    ASSUME NEW m, NEW S, \A g \in S : {g.white, g.black} = Rivals(m) /\ g.pair \in Nat
    PROVE  /\ Resolved(m, S) \in Rivals(m) \cup {Nobody}
           /\ \A h \in S : h.kind = "armageddon" => \E g \in S :
                 g.kind = "armageddon" /\ Resolved(m, S) = IF Victor(g) = Nobody THEN g.black ELSE Victor(g)
<1> DEFINE A == {g \in S : g.kind = "armageddon"}
           decisive == CHOOSE g \in A : \A h \in A : g.pair <= h.pair
           points(p) == MatchPoints(S, p)
           w == CASE points(m.first) > points(m.second) -> m.first
                  [] points(m.first) < points(m.second) -> m.second
                  [] OTHER -> Nobody
           v == IF Victor(decisive) = Nobody THEN decisive.black ELSE Victor(decisive)
<1>1. Resolved(m, S) = IF A # {} THEN v ELSE w
  BY DEF Resolved
<1>2. w \in Rivals(m) \cup {Nobody}
  BY DEF Rivals
<1> HIDE DEF w
<1>3. CASE A = {}
  BY <1>1, <1>2, <1>3
<1>4. CASE A # {}
  <2>1. \E g \in A : \A h \in A : g.pair <= h.pair
    <3> DEFINE P == {g.pair : g \in A}
    <3>1. P \subseteq Nat /\ P # {}
      BY <1>4
    <3>2. \A h \in A : h.pair \in P
      OBVIOUS
    <3>3. \A p \in P : \E g \in A : g.pair = p
      OBVIOUS
    <3> HIDE DEF P, A
    <3>4. Min(P) \in P /\ \A p \in P : Min(P) <= p
      BY <3>1, MinExists
    <3>5. PICK g \in A : g.pair = Min(P)
      BY <3>3, <3>4
    <3> QED BY <3>2, <3>4, <3>5
  <2>2. decisive \in A
    BY <2>1
  <2>3. {decisive.white, decisive.black} = Rivals(m) /\ decisive \in S /\ decisive.kind = "armageddon"
    BY <2>2
  <2> HIDE DEF decisive, A
  <2>4. v \in Rivals(m)
    BY <2>3, VictorIs
  <2>5. Resolved(m, S) = IF Victor(decisive) = Nobody THEN decisive.black ELSE Victor(decisive)
    BY <1>1, <1>4
  <2> HIDE DEF v
  <2> QED BY <1>1, <1>4, <2>3, <2>4, <2>5
<1> QED BY <1>3, <1>4

Width(kind) == IF kind = "armageddon" THEN 1 ELSE 2
TieGame(g, m, pair, kind) ==
    /\ IsRow(g) /\ g.round = m.round /\ g.match = m.index /\ g.pair = pair
    /\ {g.white, g.black} = Rivals(m) /\ g.number \in Nat \ {0} /\ g.kind = kind
    /\ g.result = Unplayed
TieGames(S, m, kind, last) ==
    \E f : /\ \A o \in 0..(Width(kind) - 1) : TieGame(f[o], m, last + 1 + o, kind)
           /\ S = {f[o] : o \in 0..(Width(kind) - 1)}

LEMMA TieBreakIs ==
    ASSUME NEW m, NEW G, IsFiniteSet(G), G # {}, \A g \in G : g.number \in Nat, NEW kind, NEW last
    PROVE  TieGames(TieBreak(m, G, kind, last), m, kind, last)
<1> DEFINE N == {g.number : g \in G}
           next == Max(N) + 1
           pair == <<m.first, m.second>>
           c(o) == IF (next + o) % 2 = 1 THEN pair ELSE Swapped(pair)
           game(o) == Game(m.round, last + 1 + o, c(o)[1], c(o)[2], m.index, next + o, kind)
           O == 0..(Width(kind) - 1)
           f == [o \in O |-> game(o)]
<1>1. next \in Nat \ {0}
  <2>1. N \subseteq Nat /\ N # {}
    OBVIOUS
  <2>2. IsFiniteSet(N)
    <3> DEFINE h == [g \in G |-> g.number]
    <3>1. \A x \in N : \E g \in G : h[g] = x
      OBVIOUS
    <3> HIDE DEF h, N
    <3> QED BY <3>1, FiniteImage
  <2> HIDE DEF N
  <2>3. Max(N) \in Nat
    BY <2>1, <2>2, MaxExists
  <2> QED BY <2>3
<1>2. \A o : c(o) = pair \/ c(o) = Swapped(pair)
  OBVIOUS
<1>3. \A o : (c(o)[1] = m.first /\ c(o)[2] = m.second) \/ (c(o)[1] = m.second /\ c(o)[2] = m.first)
  <2> HIDE DEF c
  <2> QED BY <1>2 DEF Swapped
<1>4. TieBreak(m, G, kind, last) = {game(o) : o \in 0..(IF kind = "armageddon" THEN 0 ELSE 1)}
  BY DEF TieBreak
<1>5. O = 0..(IF kind = "armageddon" THEN 0 ELSE 1) /\ O \subseteq Nat
  BY DEF Width
<1> HIDE DEF c, next
<1>6. ASSUME NEW o \in O PROVE TieGame(f[o], m, last + 1 + o, kind)
  <2> DEFINE g == game(o)  p == last + 1 + o
  <2>1. f[o] = g
    OBVIOUS
  <2>2. g.white = c(o)[1] /\ g.black = c(o)[2] /\ g.round = m.round /\ g.kind = kind
        /\ g.result = Unplayed /\ g.number = next + o
    BY GameFields
  <2>3. g.pair = p /\ g.match = m.index
    BY DEF Game
  <2>4. IsRow(g)
    BY GameIsRow
  <2>5. next + o \in Nat \ {0}
    BY <1>1, <1>5
  <2> HIDE DEF g, p, f
  <2>6. TieGame(g, m, p, kind)
    BY <1>3, <2>2, <2>3, <2>4, <2>5 DEF TieGame, Rivals
  <2> QED BY <2>1, <2>6 DEF p
<1>7. TieBreak(m, G, kind, last) = {f[o] : o \in O}
  <2> HIDE DEF O, game
  <2>1. \A o \in O : f[o] = game(o)
    OBVIOUS
  <2>2. TieBreak(m, G, kind, last) = {game(o) : o \in O}
    BY <1>4, <1>5
  <2> HIDE DEF f
  <2> QED BY <2>1, <2>2
<1> HIDE DEF f
<1> QED BY <1>6, <1>7 DEF TieGames

-----------------------------------------------------------------------------
(* The matches of a round, numbered from 1.                                *)
Distinct(S) == \A m, l \in S : m.index = l.index => m = l
Indices(S) == {m.index : m \in S}

LEMMA AsManyIndices ==
    ASSUME NEW S, IsFiniteSet(S), Distinct(S)
    PROVE  IsFiniteSet(Indices(S)) /\ Cardinality(Indices(S)) = Cardinality(S)
<1> DEFINE f == [m \in S |-> m.index]
           I == Indices(S)
<1>1. f \in Bijection(S, I)
  BY DEF Bijection, Injection, IsInjective, Surjection, Distinct, Indices
<1> HIDE DEF f, I
<1>2. ExistsBijection(S, I)
  BY <1>1 DEF ExistsBijection
<1>3. IsFiniteSet(I) /\ Cardinality(I) = Cardinality(S)
  BY <1>2, FS_Bijection
<1> QED BY <1>3 DEF I

LEMMA RoundIndices ==
    ASSUME NEW n, NEW M, MatchesOK(n, M), IsFiniteSet(M), NEW c, NEW S, S = At(c, M), S # {}
    PROVE  /\ IsFiniteSet(S) /\ Distinct(S) /\ Cardinality(S) \in Nat \ {0}
           /\ Indices(S) = 1..Cardinality(S)
<1> DEFINE I == Indices(S)
<1>1. IsFiniteSet(S) /\ S \subseteq M /\ \A m \in S : m.round = c
  BY FS_Subset DEF At
<1>2. Distinct(S)
  BY <1>1, Keys DEF Distinct, MatchesOK
<1>3. IsFiniteSet(I) /\ Cardinality(I) = Cardinality(S) /\ Cardinality(S) \in Nat
  BY <1>1, <1>2, AsManyIndices, FS_CardinalityType
<1>4. I \subseteq Nat \ {0} /\ I # {}
  BY <1>1 DEF MatchesOK, MatchOK, Indices
<1>5. ASSUME NEW x \in I, NEW i \in 1..x PROVE i \in I
  <2>1. PICK m \in S : m.index = x
    BY DEF Indices
  <2>2. PICK l \in M : l.round = m.round /\ l.index = i
    BY <1>1, <2>1 DEF MatchesOK
  <2>3. l \in S
    BY <1>1, <2>1, <2>2 DEF At
  <2> QED BY <2>2, <2>3 DEF Indices
<1> HIDE DEF I
<1>6. Max(I) \in I /\ \A x \in I : Max(I) >= x
  BY <1>3, <1>4, MaxExists
<1> DEFINE K == Max(I)
<1>7. K \in Nat \ {0}
  BY <1>4, <1>6
<1>8. I = 1..K
  <2>1. \A x \in I : x \in Nat \ {0} /\ K >= x
    BY <1>4, <1>6
  <2>2. K \in I
    BY <1>6
  <2> HIDE DEF K
  <2>3. I \subseteq 1..K
    BY <1>7, <2>1
  <2>4. 1..K \subseteq I
    BY <1>5, <2>2
  <2> QED BY <2>3, <2>4
<1> HIDE DEF K
<1>9. Cardinality(1..K) = K
  BY <1>7, FS_Interval
<1>10. Cardinality(S) = K
  BY <1>3, <1>8, <1>9
<1> QED BY <1>1, <1>2, <1>7, <1>8, <1>10 DEF I

(* A set with as many matches has one with each number.                    *)
LEMMA AllCovered ==
    ASSUME NEW S, IsFiniteSet(S), NEW K \in Nat, IsFiniteSet(1..K), Cardinality(1..K) = K,
           Distinct(S), Indices(S) \subseteq 1..K, ~(Cardinality(S) < K)
    PROVE  Indices(S) = 1..K
<1> DEFINE I == Indices(S)
<1>1. IsFiniteSet(I) /\ Cardinality(I) = Cardinality(S) /\ Cardinality(S) \in Nat
  BY AsManyIndices, FS_CardinalityType
<1>2. I \in SUBSET (1..K)
  OBVIOUS
<1> HIDE DEF I
<1>3. Cardinality(I) <= K
  BY <1>2, FS_Subset
<1>4. Cardinality(I) = Cardinality(1..K)
  BY <1>1, <1>3
<1>5. I = 1..K
  BY <1>2, <1>4, FS_Subset
<1> QED BY <1>5 DEF I

-----------------------------------------------------------------------------
(* The tie-breaks of all drawn matches of a round.                         *)
Ahead(S, m) == Cardinality({d \in S : d.index < m.index})

LEMMA AheadIs ==
    ASSUME NEW S, IsFiniteSet(S), \A m \in S : m.index \in Nat
    PROVE  /\ \A m \in S : Ahead(S, m) \in Nat
           /\ \A m, l \in S : m.index < l.index => Ahead(S, m) + 1 <= Ahead(S, l)
<1>1. ASSUME NEW m \in S PROVE IsFiniteSet({d \in S : d.index < m.index}) /\ Ahead(S, m) \in Nat
  BY FS_Subset, FS_CardinalityType DEF Ahead
<1>2. ASSUME NEW m \in S, NEW l \in S, m.index < l.index
      PROVE  Ahead(S, m) + 1 <= Ahead(S, l)
  <2> DEFINE A == {d \in S : d.index < m.index}  B == {d \in S : d.index < l.index}
  <2>1. ~(m.index < m.index) /\ \A d \in S : d.index < m.index => d.index < l.index
    BY <1>2
  <2>2. A \cup {m} \subseteq B /\ m \notin A
    BY <1>2, <2>1
  <2>3. IsFiniteSet(A) /\ IsFiniteSet(B)
    BY <1>1
  <2>4. Ahead(S, m) = Cardinality(A) /\ Ahead(S, l) = Cardinality(B)
    BY DEF Ahead
  <2> HIDE DEF A, B
  <2>5. Cardinality(A \cup {m}) = Cardinality(A) + 1
    BY <2>2, <2>3, FS_AddElement
  <2>6. Cardinality(A \cup {m}) <= Cardinality(B)
    BY <2>2, <2>3, FS_Subset
  <2> QED BY <2>4, <2>5, <2>6
<1> QED BY <1>1, <1>2

(* Each match has its own pair indices, from last on.                      *)
TieSets(T, S, kind, last, ties) ==
    /\ \A m \in S : TieGames(T[m], m, kind, last + Ahead(S, m) * Width(kind))
    /\ ties = UNION {T[m] : m \in S}
TiesOf(ties, S, kind, last) ==
    /\ IsFiniteSet(ties)
    /\ \A g \in ties : \E m \in S, pair \in Nat : pair > last /\ TieGame(g, m, pair, kind)
    /\ \A g, h \in ties : g.pair = h.pair => g = h

LEMMA TieSetsAre ==
    ASSUME NEW S, IsFiniteSet(S), Distinct(S), \A m \in S : m.index \in Nat, NEW kind, NEW last \in Nat,
           NEW T, NEW ties, TieSets(T, S, kind, last, ties)
    PROVE  TiesOf(ties, S, kind, last)
<1> DEFINE w == Width(kind)
           base(m) == Ahead(S, m) * w
           O == 0..(w - 1)
<1>1. w \in {1, 2} /\ O \subseteq {0, 1} /\ \A o \in O : o \in Nat /\ o < w
  BY DEF Width
<1>2. ASSUME NEW g \in ties
      PROVE  \E m \in S, o \in O : TieGame(g, m, last + base(m) + 1 + o, kind) /\ g \in T[m]
  <2>1. PICK m \in S : g \in T[m]
    BY DEF TieSets
  <2>2. TieGames(T[m], m, kind, last + base(m))
    BY DEF TieSets
  <2>3. PICK f : /\ \A o \in O : TieGame(f[o], m, last + base(m) + 1 + o, kind)
                 /\ T[m] = {f[o] : o \in O}
    BY <2>2 DEF TieGames
  <2> HIDE DEF base, O
  <2>4. PICK o \in O : g = f[o]
    BY <2>1, <2>3
  <2>5. TieGame(g, m, last + base(m) + 1 + o, kind)
    BY <2>3, <2>4
  <2> QED BY <2>1, <2>5
<1>3. /\ \A m \in S : base(m) \in Nat
      /\ \A m, l \in S : m.index < l.index => base(m) + w <= base(l)
  <2>1. ASSUME NEW m \in S PROVE Ahead(S, m) \in Nat /\ base(m) \in Nat
    <3>1. Ahead(S, m) \in Nat /\ w \in Nat
      BY <1>1, AheadIs
    <3> HIDE DEF w
    <3> QED BY <3>1
  <2>2. ASSUME NEW m \in S, NEW l \in S, m.index < l.index PROVE base(m) + w <= base(l)
    <3>1. Ahead(S, m) + 1 <= Ahead(S, l) /\ w \in Nat
      BY <1>1, <2>2, AheadIs
    <3> HIDE DEF w
    <3> QED BY <2>1, <3>1, Multiples
  <2> QED BY <2>1, <2>2
<1> HIDE DEF w, base
<1>4. ASSUME NEW g \in ties
      PROVE  \E m \in S, pair \in Nat : pair > last /\ TieGame(g, m, pair, kind)
  <2>1. PICK m \in S, o \in O : TieGame(g, m, last + base(m) + 1 + o, kind)
    BY <1>2
  <2> DEFINE p == last + base(m) + 1 + o
  <2>2. p \in Nat /\ p > last
    BY <1>1, <1>3
  <2>3. TieGame(g, m, p, kind)
    BY <2>1
  <2> HIDE DEF p
  <2> QED BY <2>2, <2>3
<1>5. ASSUME NEW g \in ties, NEW h \in ties, g.pair = h.pair PROVE g = h
  <2>1. PICK m \in S, o \in O : TieGame(g, m, last + base(m) + 1 + o, kind) /\ g \in T[m]
    BY <1>2
  <2>2. PICK l \in S, q \in O : TieGame(h, l, last + base(l) + 1 + q, kind) /\ h \in T[l]
    BY <1>2
  <2>3. g.pair = last + base(m) + 1 + o /\ h.pair = last + base(l) + 1 + q
    BY <2>1, <2>2 DEF TieGame
  <2>4. last + base(m) + 1 + o = last + base(l) + 1 + q
    BY <1>5, <2>3
  <2>5. base(m) \in Nat /\ base(l) \in Nat
    BY <1>3
  <2>a. o \in Nat /\ q \in Nat /\ o < w /\ q < w /\ w \in Nat
    BY <1>1
  <2>b. m.index < l.index => base(m) + w <= base(l)
    BY <1>3
  <2>c. l.index < m.index => base(l) + w <= base(m)
    BY <1>3
  <2>d. ~(base(m) + w <= base(l)) /\ ~(base(l) + w <= base(m))
    BY <2>4, <2>5, <2>a
  <2>e. m.index \in Nat /\ l.index \in Nat
    OBVIOUS
  <2>6. m.index = l.index
    BY <2>b, <2>c, <2>d, <2>e
  <2>7. m = l
    BY <2>6 DEF Distinct
  <2>8. PICK f : /\ \A x \in O : TieGame(f[x], m, last + base(m) + 1 + x, kind)
                 /\ T[m] = {f[x] : x \in O}
    BY DEF TieSets, TieGames, base, w
  <2>9. PICK x \in O : g = f[x]
    BY <2>1, <2>8
  <2>10. PICK y \in O : h = f[y]
    BY <2>2, <2>7, <2>8
  <2>11. g.pair = last + base(m) + 1 + x /\ h.pair = last + base(m) + 1 + y
    BY <2>8, <2>9, <2>10 DEF TieGame
  <2>12. last + base(m) + 1 + x = last + base(m) + 1 + y
    BY <1>5, <2>11
  <2>13. x = y
    BY <1>1, <2>5, <2>12
  <2> QED BY <2>9, <2>10, <2>13
<1>6. IsFiniteSet(ties)
  <2> DEFINE tie(m, o) == CHOOSE g \in T[m] : g.pair = last + base(m) + 1 + o
             f == [t \in S \X {0, 1} |-> tie(t[1], t[2])]
  <2>1. IsFiniteSet({0, 1})
    <3>1. {0, 1} = 0..1 /\ 0 \in Int /\ 1 \in Int
      OBVIOUS
    <3> QED BY <3>1, FS_Interval
  <2>2. IsFiniteSet(S \X {0, 1})
    BY <2>1, FS_Product
  <2>3. ASSUME NEW g \in ties PROVE \E t \in S \X {0, 1} : f[t] = g
    <3>1. PICK m \in S, o \in O : TieGame(g, m, last + base(m) + 1 + o, kind) /\ g \in T[m]
      BY <1>2
    <3>2. g.pair = last + base(m) + 1 + o
      BY <3>1 DEF TieGame
    <3>3. tie(m, o) \in T[m] /\ tie(m, o).pair = last + base(m) + 1 + o
      BY <3>1, <3>2
    <3>4. tie(m, o) \in ties
      BY <3>3 DEF TieSets
    <3> HIDE DEF tie
    <3>5. tie(m, o) = g
      BY <1>5, <3>2, <3>3, <3>4
    <3>6. <<m, o>> \in S \X {0, 1} /\ f[<<m, o>>] = tie(m, o)
      BY <1>1
    <3> QED BY <3>5, <3>6
  <2> HIDE DEF f
  <2> QED BY <2>2, <2>3, FiniteImage
<1> QED BY <1>4, <1>5, <1>6 DEF TiesOf

-----------------------------------------------------------------------------
(* Knockout: the matches of a round have different players, those that are *)
(* over have winners, and in every round there is one that is played.      *)
HasWinner(m) == m.status # "pending" => m.winner # Nobody
ApartIn(M) == \A m, l \in M : m.round = l.round /\ m.index # l.index => Rivals(m) \cap Rivals(l) \subseteq {Nobody}
KnockoutRows(c, M) ==
    /\ ApartIn(M) /\ \A m \in M : HasWinner(m)
    /\ \A r \in 1..c : \E m \in M : m.round = r /\ m.status # "bye"

(* What _advance_knockout may write.                                       *)
Covers(D, S) == \A m \in S : m.status # "pending" \/ \E d \in D : MatchKey(d) = MatchKey(m)
KnockoutWrites(a, c, M) ==
    /\ \A d \in a.decided : HasWinner(d)
    /\ Apart(a.matches) /\ (a.matches # {} => \E m \in a.matches : m.status # "bye")
    /\ a.complete => Covers(a.decided, At(c, M)) /\ Cardinality(At(c, M)) = 1 /\ AddsNothing(a)
    /\ a.matches # {} => Covers(a.decided, At(c, M)) /\ Cardinality(At(c, M)) # 1

(* The matches that are over once some are decided.                        *)
Decisions(D, S, M) == \A d \in D : \E m \in S : /\ Decides(d, m) /\ m \in M /\ m.status = "pending"
                                                /\ HasWinner(d) /\ d.status = "finished"

LEMMA OverIs ==
    ASSUME NEW n, NEW S, IsFiniteSet(S), Distinct(S), \A m \in S : MatchOK(n, m) /\ HasWinner(m),
           Apart(S), Cardinality(S) \in Nat \ {0}, Indices(S) = 1..Cardinality(S),
           NEW D, IsFiniteSet(D), Decisions(D, S, S), Distinct(D),
           NEW over, over = {m \in S : m.status # "pending"} \cup D
    PROVE  /\ IsFiniteSet(over) /\ Distinct(over) /\ Apart(over)
           /\ \A o \in over : o.winner \in 1..n /\ o.winner \in Rivals(o)
           /\ ~(Cardinality(over) < Cardinality(S)) => Indices(over) = Indices(S)
<1>1. IsFiniteSet(over)
  BY FS_Subset, FS_Union
<1>2. ASSUME NEW o \in over
      PROVE  \E m \in S : /\ m.index = o.index /\ Rivals(m) = Rivals(o)
                          /\ \/ o = m /\ m.status # "pending"
                             \/ o \in D /\ m.status = "pending"
  <2>1. CASE o \in S /\ o.status # "pending"
    BY <2>1
  <2>2. CASE o \in D
    <3>1. PICK m \in S : Decides(o, m) /\ m.status = "pending"
      BY <2>2 DEF Decisions
    <3> QED BY <2>2, <3>1 DEF Decides, SameMatch, Rivals
  <2> QED BY <2>1, <2>2
<1>3. Distinct(over)
  <2> SUFFICES ASSUME NEW o \in over, NEW q \in over, o.index = q.index PROVE o = q
    BY DEF Distinct
  <2>1. PICK m \in S : /\ m.index = o.index
                       /\ \/ o = m /\ m.status # "pending"
                          \/ o \in D /\ m.status = "pending"
    BY <1>2
  <2>2. PICK l \in S : /\ l.index = q.index
                       /\ \/ q = l /\ l.status # "pending"
                          \/ q \in D /\ l.status = "pending"
    BY <1>2
  <2>3. m = l
    BY <2>1, <2>2 DEF Distinct
  <2> QED BY <2>1, <2>2, <2>3 DEF Distinct
<1>4. Apart(over)
  <2> SUFFICES ASSUME NEW o \in over, NEW q \in over, o.index # q.index
               PROVE  Rivals(o) \cap Rivals(q) \subseteq {Nobody}
    BY DEF Apart
  <2>1. PICK m \in S : m.index = o.index /\ Rivals(m) = Rivals(o)
    BY <1>2
  <2>2. PICK l \in S : l.index = q.index /\ Rivals(l) = Rivals(q)
    BY <1>2
  <2> QED BY <2>1, <2>2 DEF Apart
<1>5. ASSUME NEW o \in over PROVE o.winner \in 1..n /\ o.winner \in Rivals(o)
  <2>1. CASE o \in S /\ o.status # "pending"
    BY <2>1 DEF HasWinner, MatchOK, Rivals, Nobody
  <2>2. CASE o \in D
    <3>1. PICK m \in S : Decides(o, m) /\ HasWinner(o) /\ o.status = "finished"
      BY <2>2 DEF Decisions
    <3>2. o.winner \in {m.first, m.second} /\ o.winner # Nobody /\ o.first = m.first /\ o.second = m.second
      BY <3>1 DEF Decides, HasWinner, SameMatch
    <3>3. m.first \in 1..n /\ m.second \in 0..n
      BY DEF MatchOK
    <3> QED BY <3>2, <3>3 DEF Rivals, Nobody
  <2> QED BY <2>1, <2>2
<1>6. ASSUME ~(Cardinality(over) < Cardinality(S)) PROVE Indices(over) = Indices(S)
  <2> DEFINE K == Cardinality(S)
  <2>1. K \in Nat \ {0} /\ Indices(S) = 1..K
    OBVIOUS
  <2>2. Indices(over) \subseteq Indices(S)
    BY <1>2 DEF Indices
  <2> HIDE DEF K
  <2>3. IsFiniteSet(1..K) /\ Cardinality(1..K) = K
    BY <2>1, FS_Interval
  <2>4. ~(Cardinality(over) < K)
    BY <1>6 DEF K
  <2>5. Indices(over) = 1..K
    BY <1>1, <1>3, <2>1, <2>2, <2>3, <2>4, AllCovered
  <2> QED BY <2>1, <2>5
<1> QED BY <1>1, <1>3, <1>4, <1>5, <1>6

(* The winners of a round meet in the next.                                *)
Meet(over, i, p, q) ==
    \E a, b \in over : a.index = 2 * i - 1 /\ a.winner = p /\ b.index = 2 * i /\ b.winner = q
WinnersOf(over, K) == [i \in 1..K |-> (CHOOSE m \in over : m.index = i).winner]

LEMMA WinnersMeet ==
    ASSUME NEW n \in Nat, NEW over, Distinct(over), Apart(over),
           \A o \in over : o.winner \in 1..n /\ o.winner \in Rivals(o),
           NEW K \in Nat, K >= 2, Indices(over) = 1..K,
           NEW w, w = WinnersOf(over, K),
           NEW P, P = Neighbours(w)
    PROVE  /\ Bracketed(P, n, K \div 2) /\ Contested(P) = DOMAIN P /\ 1 \in DOMAIN P
           /\ \A i \in 1..(K \div 2) : Meet(over, i, P[i][1], P[i][2])
<1> DEFINE at(i) == CHOOSE m \in over : m.index = i
<1>1. \A i \in 1..K : at(i) \in over /\ at(i).index = i
  BY DEF Indices
<1>2. DOMAIN w = 1..K /\ \A i \in 1..K : w[i] = at(i).winner
  BY DEF WinnersOf
<1> HIDE DEF at
<1>3. \A i \in 1..K : w[i] \in 1..n /\ w[i] \in Rivals(at(i))
  BY <1>1, <1>2
<1>4. \A i \in 1..K : w[i] # Nobody /\ w[i] \in 0..n
  BY <1>3 DEF Nobody
<1>5. ASSUME NEW i \in 1..K, NEW j \in 1..K, w[i] = w[j] PROVE i = j
  <2> SUFFICES ASSUME i # j PROVE FALSE
    OBVIOUS
  <2>1. Rivals(at(i)) \cap Rivals(at(j)) \subseteq {Nobody}
    BY <1>1 DEF Apart
  <2> QED BY <1>3, <1>4, <1>5, <2>1
<1>6. Len(w) = K
  <2>1. w \in Seq(0..n)
    BY <1>2, <1>4 DEF at, WinnersOf
  <2> QED BY <1>2, <2>1
<1>7. \A k \in 1..(K \div 2) : 2 * k - 1 \in 1..K /\ 2 * k \in 1..K
  OBVIOUS
<1>8. Entrants(w, n, K)
  BY <1>2, <1>4, <1>5, <1>6, <1>7 DEF Entrants
<1>9. Bracketed(P, n, K \div 2) /\ Paired2(P, w, K \div 2)
  BY <1>8, NeighboursAre
<1>10. 1 \in 1..(K \div 2) /\ DOMAIN P = 1..(K \div 2)
  BY <1>9 DEF Bracketed
<1>11. ASSUME NEW i \in 1..(K \div 2)
       PROVE  Nobody \notin Pair(P, i) /\ Meet(over, i, P[i][1], P[i][2])
  <2> DEFINE a == 2 * i - 1  b == 2 * i
  <2>1. a \in 1..K /\ b \in 1..K
    BY <1>7
  <2>2. P[i] = <<w[a], w[b]>>
    BY <1>9 DEF Paired2
  <2> HIDE DEF a, b
  <2>3. P[i][1] = w[a] /\ P[i][2] = w[b] /\ w[a] # Nobody /\ w[b] # Nobody
    BY <1>4, <2>1, <2>2
  <2>4. /\ at(a) \in over /\ at(a).index = a /\ at(a).winner = w[a]
        /\ at(b) \in over /\ at(b).index = b /\ at(b).winner = w[b]
    BY <1>1, <1>2, <2>1
  <2> QED BY <2>3, <2>4 DEF Pair, a, b, Meet
<1>12. Contested(P) = DOMAIN P
  BY <1>10, <1>11 DEF Contested
<1> QED BY <1>9, <1>10, <1>11, <1>12

(* The matches of the round that follows one of K matches.                 *)
Promoted(N, round, over, K) ==
    /\ \A m \in N :
          /\ m.round = round + 1 /\ m.index \in 1..(K \div 2) /\ m.second # Nobody
          /\ Meet(over, m.index, m.first, m.second)
    /\ \A i \in 1..(K \div 2) : \E m \in N : m.index = i

LEMMA NextRoundIs ==
    ASSUME NEW k \in Configs, NEW over, IsFiniteSet(over), Distinct(over), Apart(over),
           \A o \in over : o.winner \in 1..k.n /\ o.winner \in Rivals(o),
           NEW K \in Nat, K >= 2, Indices(over) = 1..K, NEW round,
           NEW next, next = NextRound(k, round, over)
    PROVE  /\ NewRound(k.n, round + 1, next.games, next.matches) /\ Apart(next.matches)
           /\ \E m \in next.matches : m.status # "bye"
           /\ Promoted(next.matches, round, over, K)
<1> DEFINE w == WinnersOf(over, K)
           P == Neighbours(w)
<1>1. k.n \in Nat /\ k.per \in Nat \ {0}
  BY RoundsAssumption
<1>2. Cardinality(over) = K
  <2>1. Cardinality(1..K) = K
    BY FS_Interval
  <2> QED BY <2>1, AsManyIndices
<1>3. next = KnockoutRound(round + 1, P, k.per)
  BY <1>2 DEF NextRound, WinnersOf
<1> DEFINE L == K \div 2
           fed(i) == Meet(over, i, P[i][1], P[i][2])
<1>4. Bracketed(P, k.n, L) /\ Contested(P) = DOMAIN P /\ Contested(P) # {} /\ \A i \in 1..L : fed(i)
  <2> DEFINE n == k.n
  <2>1. n \in Nat
    BY <1>1
  <2> HIDE DEF n
  <2>2. \A o \in over : o.winner \in 1..n /\ o.winner \in Rivals(o)
    BY DEF n
  <2>a. w = WinnersOf(over, K) /\ P = Neighbours(w)
    OBVIOUS
  <2> HIDE DEF w, P
  <2>3. Bracketed(P, n, L) /\ Contested(P) = DOMAIN P /\ 1 \in DOMAIN P /\ \A i \in 1..L : fed(i)
    BY <2>1, <2>2, <2>a, WinnersMeet
  <2> QED BY <2>3 DEF n
<1> HIDE DEF P
<1>5. DOMAIN P = 1..L /\ \A i \in 1..L : P[i][2] # Nobody
  BY <1>4 DEF Bracketed, Contested, Pair
<1>6. KnockoutMatches(next.matches, round + 1, P)
  BY <1>1, <1>3, <1>4, KnockoutRowsAre
<1>7. Promoted(next.matches, round, over, K)
  <2>1. ASSUME NEW m \in next.matches
        PROVE  \E i \in 1..L : Fields(m, round + 1, i, P[i][1], P[i][2], "pending", Nobody)
    BY <1>4, <1>5, <1>6 DEF KnockoutMatches
  <2>2. \A i \in 1..L : \E m \in next.matches : m.index = i
    BY <1>5, <1>6 DEF KnockoutMatches
  <2> HIDE DEF L
  <2>3. ASSUME NEW m \in next.matches
        PROVE  /\ m.round = round + 1 /\ m.index \in 1..L /\ m.second # Nobody
               /\ Meet(over, m.index, m.first, m.second)
    BY <1>4, <1>5, <2>1 DEF Fields
  <2> QED BY <2>2, <2>3 DEF Promoted, L
<1> HIDE DEF fed, L
<1> QED BY <1>1, <1>3, <1>4, <1>7, KnockoutRoundIs DEF L

(* The matches of a round.                                                 *)
LEMMA RoundIs ==
    ASSUME NEW n, NEW c, NEW G, NEW M, Sound(n, c, G, M), KnockoutRows(c, M),
           NEW r \in 1..c, NEW S, S = At(r, M)
    PROVE  /\ IsFiniteSet(S) /\ Distinct(S) /\ Cardinality(S) \in Nat \ {0} /\ S # {} /\ S \subseteq M
           /\ Indices(S) = 1..Cardinality(S) /\ Apart(S)
           /\ \A m \in S : MatchOK(n, m) /\ HasWinner(m) /\ IsMatch(m) /\ m.round = r /\ m.index \in Nat
<1>1. IsFiniteSet(M) /\ MatchesOK(n, M) /\ \A m \in M : IsMatch(m)
  BY DEF Sound, Rows
<1>2. S # {} /\ S \subseteq M /\ \A m \in S : m.round = r
  BY <1>1 DEF Sound, Rows, At
<1>3. /\ IsFiniteSet(S) /\ Distinct(S) /\ Cardinality(S) \in Nat \ {0}
      /\ Indices(S) = 1..Cardinality(S)
  BY <1>1, <1>2, RoundIndices
<1>4. Apart(S) /\ \A m \in S : HasWinner(m)
  BY <1>2 DEF KnockoutRows, ApartIn, Apart
<1>5. \A m \in S : MatchOK(n, m) /\ IsMatch(m) /\ m.index \in Nat
  BY <1>1, <1>2 DEF MatchesOK, MatchOK
<1> QED BY <1>2, <1>3, <1>4, <1>5

LEMMA LastRoundIs ==
    ASSUME NEW n, NEW c, NEW G, NEW M, Sound(n, c, G, M), KnockoutRows(c, M), NEW S, S = At(c, M)
    PROVE  /\ IsFiniteSet(S) /\ Distinct(S) /\ Cardinality(S) \in Nat \ {0} /\ S # {} /\ S \subseteq M
           /\ Indices(S) = 1..Cardinality(S) /\ Apart(S)
           /\ \A m \in S : MatchOK(n, m) /\ HasWinner(m) /\ IsMatch(m) /\ m.round = c /\ m.index \in Nat
BY RoundIs DEF Sound, Rows

LEMMA ViewIs ==
    ASSUME NEW n, NEW c, NEW G, NEW M, Sound(n, c, G, M), KnockoutRows(c, M),
           NEW view, Mirrors(G, view), IsFiniteSet(view)
    PROVE  /\ LastPair(view, c) \in Nat
           /\ \A m \in At(c, M) : m.status = "pending" =>
                 /\ Resolved(m, GamesOfMatch(view, m)) \in Rivals(m) \cup {Nobody}
                 /\ IsFiniteSet(GamesOfMatch(view, m)) /\ GamesOfMatch(view, m) # {}
                 /\ \A g \in GamesOfMatch(view, m) : g.number \in Nat
<1>1. \A g \in G : g.pair \in Nat /\ g.number \in Nat
  BY DEF Sound, GamesOK, GameOK
<1>2. \A g \in view : \E h \in G : SameRow(h, g)
  BY DEF Mirrors
<1>3. \A g \in view : g.pair \in Nat /\ g.number \in Nat
  BY <1>1, <1>2 DEF SameRow
<1>4. \E g \in view : g.round = c
  <2>1. PICK m \in M : m.round = c /\ m.status # "bye"
    BY DEF KnockoutRows, Sound, Rows
  <2>2. PICK g \in GamesOfMatch(view, m) : TRUE
    BY <2>1, MatchGames
  <2> QED BY <2>1, <2>2 DEF GamesOfMatch
<1>5. LastPair(view, c) \in Nat
  BY <1>3, <1>4, LastPairIs
<1>6. ASSUME NEW m \in At(c, M), m.status = "pending"
      PROVE  /\ Resolved(m, GamesOfMatch(view, m)) \in Rivals(m) \cup {Nobody}
             /\ IsFiniteSet(GamesOfMatch(view, m)) /\ GamesOfMatch(view, m) # {}
             /\ \A g \in GamesOfMatch(view, m) : g.number \in Nat
  <2> DEFINE S == GamesOfMatch(view, m)
  <2>1. m \in M /\ m.status # "bye"
    BY <1>6 DEF At
  <2>2. S # {} /\ \A g \in S : Plays(g, m)
    BY <2>1, MatchGames
  <2>3. S \subseteq view /\ IsFiniteSet(S)
    BY FS_Subset DEF GamesOfMatch
  <2> HIDE DEF S
  <2>4. \A g \in S : {g.white, g.black} = Rivals(m) /\ g.pair \in Nat
    BY <1>3, <2>2, <2>3 DEF Plays, Rivals
  <2>5. Resolved(m, S) \in Rivals(m) \cup {Nobody}
    BY <2>4, ResolvedIs
  <2> QED BY <1>3, <2>2, <2>3, <2>5 DEF S
<1> QED BY <1>5, <1>6

(* What an advance makes of them: it decides some, adds tie-breaks to      *)
(* others, and may add a round.                                            *)
Advances(a, k, c, M, D, over, ties, last, next) ==
    LET plan == [Nothing EXCEPT !.decided = D, !.ties = ties, !.last = last]
        S == At(c, M)
    IN  /\ over = {m \in S : m.status # "pending"} \cup D
        /\ a = IF Cardinality(over) < Cardinality(S) THEN plan
               ELSE IF Cardinality(S) = 1 THEN [plan EXCEPT !.complete = TRUE]
               ELSE [plan EXCEPT !.matches = next.matches, !.games = next.games]
        /\ next = NextRound(k, c, over)
        /\ \E drawn, T : drawn \subseteq {m \in S : m.status = "pending"}
                            /\ TieSets(T, drawn, k.tiebreak, last, ties)
        /\ IsFiniteSet(D) /\ Decisions(D, S, S) /\ last \in Nat
        /\ Deciders(D, M) /\ DecidesOnce(D, M)

(* The matches are those whose games are over.                             *)
Ended(m, view, winner) ==
    /\ m.status = "pending" /\ Over(GamesOfMatch(view, m))
    /\ winner = Resolved(m, GamesOfMatch(view, m))
Settles(D, ties, S, view, kind) ==
    /\ \A d \in D : d.winner # Nobody /\ \E m \in S : SameMatch(m, d) /\ Ended(m, view, d.winner)
    /\ \A g \in ties : /\ g.kind = kind
                       /\ \E m \in S : g.round = m.round /\ g.match = m.index /\ Ended(m, view, Nobody)

LEMMA KnockoutAdvances ==
    ASSUME NEW k \in Configs, NEW c, NEW G, NEW M, Sound(k.n, c, G, M), KnockoutRows(c, M),
           NEW view, Mirrors(G, view), IsFiniteSet(view), NEW a, a = KnockoutPlan(k, view, M)
    PROVE  \E D, over, ties, last, next :
              Advances(a, k, c, M, D, over, ties, last, next) /\ Settles(D, ties, At(c, M), view, k.tiebreak)
<1> DEFINE current == CurrentRound(M)
           round == (CHOOSE m \in current : TRUE).round
           played == {m \in current : m.status = "pending" /\ ~InPlay(view, m)}
           winner(m) == Resolved(m, GamesOfMatch(view, m))
           drawn == {m \in played : winner(m) = Nobody}
           decided == {Decided(m, winner(m)) : m \in played \ drawn}
           before(m) == Cardinality({d \in drawn : d.index < m.index})
           last(m) == LastPair(view, round) + before(m) * (IF k.tiebreak = "armageddon" THEN 1 ELSE 2)
           tie(m) == TieBreak(m, GamesOfMatch(view, m), k.tiebreak, last(m))
           ties == UNION {tie(m) : m \in drawn}
           over == {m \in current : m.status # "pending"} \cup decided
           next == NextRound(k, round, over)
           plan == [Nothing EXCEPT !.decided = decided, !.ties = ties, !.last = LastPair(view, round)]
<1>1. a = IF Cardinality(over) < Cardinality(current) THEN plan
          ELSE IF Cardinality(current) = 1 THEN [plan EXCEPT !.complete = TRUE]
          ELSE [plan EXCEPT !.matches = next.matches, !.games = next.games]
  BY DEF KnockoutPlan
<1>2. current = At(c, M)
  BY CurrentRoundIs DEF Sound
<1>3. /\ IsFiniteSet(current) /\ current # {} /\ current \subseteq M
      /\ \A m \in current : IsMatch(m) /\ m.round = c
  BY <1>2, LastRoundIs
<1>4. round = c
  BY <1>3
<1>5. \A m \in played : m \in At(c, M) /\ m.status = "pending"
  BY <1>2
<1>6. \A m \in played : winner(m) \in Rivals(m) \cup {Nobody}
  BY <1>5, ViewIs
<1>7. LastPair(view, c) \in Nat
  BY ViewIs
<1>e. \A m \in played : Ended(m, view, winner(m))
  BY DEF Ended, InPlay
<1>8. ASSUME NEW d \in decided
      PROVE  \E m \in current : /\ Decides(d, m) /\ m \in current /\ m.status = "pending"
                                /\ HasWinner(d) /\ d.status = "finished"
                                /\ SameMatch(m, d) /\ Ended(m, view, d.winner) /\ d.winner # Nobody
  <2>1. PICK m \in played \ drawn : d = Decided(m, winner(m))
    OBVIOUS
  <2>2. m \in current /\ m.status = "pending" /\ winner(m) # Nobody /\ winner(m) \in Rivals(m)
    BY <1>6
  <2> HIDE DEF winner
  <2>3. Fields(d, m.round, m.index, m.first, m.second, "finished", winner(m))
    BY <1>3, <2>1, <2>2, DecidedIs
  <2>4. Decides(d, m) /\ HasWinner(d) /\ d.status = "finished" /\ SameMatch(m, d)
    BY <2>2, <2>3 DEF Fields, Decides, SameMatch, HasWinner, Rivals
  <2>5. d.winner = winner(m) /\ Ended(m, view, winner(m))
    BY <1>e, <2>2, <2>3 DEF Fields
  <2> QED BY <2>2, <2>4, <2>5
<1>9. IsFiniteSet(decided)
  <2> DEFINE f == [m \in played \ drawn |-> Decided(m, winner(m))]
  <2>1. \A d \in decided : \E m \in played \ drawn : f[m] = d
    OBVIOUS
  <2>2. played \ drawn \subseteq current
    OBVIOUS
  <2>3. IsFiniteSet(played \ drawn)
    BY <1>3, <2>2, FS_Subset
  <2> HIDE DEF f, decided, played, drawn
  <2> QED BY <2>1, <2>3, FiniteImage
<1>10. /\ \E T : TieSets(T, drawn, k.tiebreak, LastPair(view, c), ties)
       /\ \A g \in ties : g.kind = k.tiebreak /\ \E m \in drawn : g.round = m.round /\ g.match = m.index
  <2> DEFINE T == [m \in drawn |-> tie(m)]
  <2>1. ASSUME NEW m \in drawn
        PROVE  TieGames(T[m], m, k.tiebreak, LastPair(view, c) + Ahead(drawn, m) * Width(k.tiebreak))
    <3>1. m \in At(c, M) /\ m.status = "pending"
      BY <1>5
    <3>2. /\ IsFiniteSet(GamesOfMatch(view, m)) /\ GamesOfMatch(view, m) # {}
          /\ \A g \in GamesOfMatch(view, m) : g.number \in Nat
      BY <3>1, ViewIs
    <3>3. last(m) = LastPair(view, c) + Ahead(drawn, m) * Width(k.tiebreak)
      BY <1>4 DEF Ahead, Width
    <3>4. T[m] = tie(m)
      OBVIOUS
    <3> HIDE DEF last, T
    <3>5. TieGames(tie(m), m, k.tiebreak, last(m))
      BY <3>2, TieBreakIs
    <3> HIDE DEF tie
    <3> QED BY <3>3, <3>4, <3>5
  <2>2. ties = UNION {T[m] : m \in drawn}
    <3>1. \A m \in drawn : T[m] = tie(m)
      OBVIOUS
    <3> HIDE DEF drawn, tie
    <3>2. {T[m] : m \in drawn} = {tie(m) : m \in drawn}
      BY <3>1
    <3> QED BY <3>2
  <2> HIDE DEF T, drawn, ties
  <2>3. \A m \in drawn : \A g \in T[m] : g.kind = k.tiebreak /\ g.round = m.round /\ g.match = m.index
    BY <2>1 DEF TieGames, TieGame
  <2> QED BY <2>1, <2>2, <2>3 DEF TieSets
<1>13. Deciders(decided, M) /\ DecidesOnce(decided, M)
  <2> DEFINE W == [m \in played \ drawn |-> winner(m)]
  <2>1. \A d \in decided : \E m \in played \ drawn : d = Decided(m, W[m])
    OBVIOUS
  <2>2. Winners(W, played \ drawn)
    <3>1. \A m \in played \ drawn : W[m] = winner(m) /\ m.status = "pending"
      OBVIOUS
    <3> HIDE DEF W, winner, drawn, played
    <3> QED BY <1>6, <3>1 DEF Winners, Rivals
  <2>3. played \ drawn \subseteq M
    BY <1>3
  <2>4. MatchesOK(k.n, M) /\ IsFiniteSet(M) /\ \A m \in M : IsMatch(m)
    BY DEF Sound, Rows
  <2> DEFINE P == played \ drawn
  <2>5. P \subseteq M /\ Winners(W, P) /\ \A d \in decided : \E m \in P : d = Decided(m, W[m])
    BY <2>1, <2>2, <2>3
  <2> HIDE DEF W, P, decided
  <2>6. Deciders(decided, M)
    BY <2>4, <2>5, DecidersAre
  <2>7. DecidesOnce(decided, M)
    BY <2>4, <2>5, DecidersSound
  <2> QED BY <2>6, <2>7
<1>11. drawn \subseteq {m \in current : m.status = "pending"} /\ \A m \in drawn : Ended(m, view, Nobody)
  BY <1>e
<1> HIDE DEF drawn, ties, decided, tie, played, current
<1>14. Decisions(decided, current, current) /\ Settles(decided, ties, current, view, k.tiebreak)
  BY <1>8, <1>10, <1>11 DEF Decisions, Settles
<1>12. Advances(a, k, c, M, decided, over, ties, LastPair(view, c), next)
  <2>1. next = NextRound(k, c, over)
    BY <1>4
  <2> HIDE DEF next
  <2>2. plan = [Nothing EXCEPT !.decided = decided, !.ties = ties, !.last = LastPair(view, c)]
    BY <1>4
  <2> QED BY <1>1, <1>2, <1>7, <1>9, <1>10, <1>11, <1>13, <1>14, <2>1, <2>2 DEF Advances
<1> QED BY <1>2, <1>12, <1>14

TiesSoundFor(T, last, c, M) ==
    /\ IsFiniteSet(T) /\ \A g, h \in T : g.pair = h.pair => g = h
    /\ \A g \in T : IsRow(g) /\ g.round \in 1..c /\ TieOK(g, last) /\ \E m \in M : Plays(g, m)

LEMMA KnockoutTiesSound ==
    ASSUME NEW c, c \in Nat \ {0}, NEW M, NEW S, S \subseteq M, IsFiniteSet(S), Distinct(S),
           \A m \in S : m.index \in Nat /\ m.round = c, NEW drawn, drawn \subseteq S,
           \A m \in drawn : m.status = "pending",
           NEW kind \in Kinds, NEW last \in Nat, NEW T, NEW ties, TieSets(T, drawn, kind, last, ties)
    PROVE  TiesSoundFor(ties, last, c, M)
<1>1. IsFiniteSet(drawn) /\ Distinct(drawn) /\ \A m \in drawn : m.index \in Nat
  BY FS_Subset DEF Distinct
<1>2. TiesOf(ties, drawn, kind, last)
  BY <1>1, TieSetsAre
<1>3. ASSUME NEW g \in ties
      PROVE  IsRow(g) /\ g.round \in 1..c /\ TieOK(g, last) /\ \E m \in M : Plays(g, m)
  <2>1. PICK m \in drawn, pair \in Nat : pair > last /\ TieGame(g, m, pair, kind)
    BY <1>2 DEF TiesOf
  <2>2. m \in M /\ m.round = c /\ m.status # "bye"
    OBVIOUS
  <2>3. c \in 1..c
    OBVIOUS
  <2>4. IsRow(g) /\ g.round = m.round /\ g.match = m.index /\ g.pair = pair
        /\ {g.white, g.black} = Rivals(m) /\ g.number \in Nat \ {0} /\ g.kind = kind /\ g.result = Unplayed
    BY <2>1 DEF TieGame
  <2>5. TieOK(g, last)
    BY <2>1, <2>4 DEF TieOK
  <2>6. Plays(g, m)
    BY <2>2, <2>4 DEF Plays, Rivals
  <2> QED BY <2>2, <2>3, <2>4, <2>5, <2>6
<1> QED BY <1>2, <1>3 DEF TiesSoundFor, TiesOf

LEMMA WritesSteps ==
    ASSUME NEW p, NEW d, NEW M, NEW G, NEW t, NEW l, NEW e, Writes(p, d, M, G, t, l, e), NEW x
    PROVE  /\ Writes([p EXCEPT !.decided = x], x, M, G, t, l, e)
           /\ Writes([p EXCEPT !.matches = x], d, x, G, t, l, e)
           /\ Writes([p EXCEPT !.games = x], d, M, x, t, l, e)
           /\ Writes([p EXCEPT !.ties = x], d, M, G, x, l, e)
           /\ Writes([p EXCEPT !.last = x], d, M, G, t, x, e)
BY DEF Writes

LEMMA WritesTies ==
    ASSUME NEW D, NEW ties, NEW last
    PROVE  Writes([Nothing EXCEPT !.decided = D, !.ties = ties, !.last = last], D, {}, {}, ties, last, FALSE)
<1> DEFINE p == [Nothing EXCEPT !.decided = D]
           q == [p EXCEPT !.ties = ties]
           r == [q EXCEPT !.last = last]
<1>1. Writes(Nothing, {}, {}, {}, {}, 0, FALSE)
  BY DEF Nothing, Writes
<1>2. Writes(p, D, {}, {}, {}, 0, FALSE)
  BY <1>1, WritesSteps
<1> HIDE DEF p
<1>3. Writes(q, D, {}, {}, ties, 0, FALSE)
  BY <1>2, WritesSteps
<1> HIDE DEF q
<1>4. Writes(r, D, {}, {}, ties, last, FALSE)
  BY <1>3, WritesSteps
<1> QED BY <1>4 DEF p, q, r

(* The three outcomes.                                                     *)
Outcome(a, n, c, M, D, ties, last) ==
    \E N, B, end :
       /\ Writes(a, D, N, B, ties, last, end)
       /\ \/ N = {} /\ B = {} /\ end = FALSE
          \/ N = {} /\ B = {} /\ end = TRUE /\ Covers(D, At(c, M)) /\ Cardinality(At(c, M)) = 1
          \/ /\ NewRound(n, c + 1, B, N) /\ Apart(N) /\ \E m \in N : m.status # "bye"
             /\ Covers(D, At(c, M)) /\ Cardinality(At(c, M)) # 1 /\ end = FALSE

LEMMA AdvanceOutcome ==
    ASSUME NEW k \in Configs, NEW c, NEW G, NEW M, Sound(k.n, c, G, M), KnockoutRows(c, M),
           NEW a, NEW D, NEW over, NEW ties, NEW last, NEW next,
           Advances(a, k, c, M, D, over, ties, last, next)
    PROVE  Outcome(a, k.n, c, M, D, ties, last)
<1> DEFINE S == At(c, M)
           n == k.n
           b1 == Cardinality(over) < Cardinality(S)
           b2 == Cardinality(S) = 1
           plan == [Nothing EXCEPT !.decided = D, !.ties = ties, !.last = last]
           x == next.matches
           y == next.games
           a1 == [plan EXCEPT !.complete = TRUE]
           a2 == [plan EXCEPT !.matches = x, !.games = y]
<1>1. /\ over = {m \in S : m.status # "pending"} \cup D
      /\ a = IF b1 THEN plan ELSE IF b2 THEN a1 ELSE a2
      /\ next = NextRound(k, c, over)
      /\ IsFiniteSet(D) /\ Decisions(D, S, S)
  BY DEF Advances
<1>2. /\ IsFiniteSet(S) /\ Distinct(S) /\ Cardinality(S) \in Nat \ {0} /\ S \subseteq M
      /\ Indices(S) = 1..Cardinality(S) /\ Apart(S)
      /\ \A m \in S : MatchOK(n, m) /\ HasWinner(m) /\ m.round = c
  BY LastRoundIs
<1>3. n \in Nat \ {0, 1} /\ k.per \in Nat \ {0}
  BY RoundsAssumption
<1>4. \A d \in D : d.round = c
  BY <1>1, <1>2 DEF Decisions, Decides, SameMatch
<1>5. Distinct(D)
  <2> SUFFICES ASSUME NEW d \in D, NEW e \in D, d.index = e.index PROVE d = e
    BY DEF Distinct
  <2>1. MatchKey(d) = MatchKey(e)
    BY <1>4, Keys
  <2> QED BY <2>1 DEF Advances, DecidesOnce
<1> HIDE DEF S, n
<1>6. /\ IsFiniteSet(over) /\ Distinct(over) /\ Apart(over)
      /\ \A o \in over : o.winner \in 1..n /\ o.winner \in Rivals(o)
      /\ ~b1 => Indices(over) = Indices(S)
  BY <1>1, <1>2, <1>5, OverIs
<1>7. ASSUME ~b1 PROVE Covers(D, S)
  <2> SUFFICES ASSUME NEW m \in S, m.status = "pending" PROVE \E d \in D : MatchKey(d) = MatchKey(m)
    BY DEF Covers
  <2>1. m.index \in Indices(over)
    BY <1>6, <1>7 DEF Indices
  <2>2. PICK o \in over : o.index = m.index
    BY <2>1 DEF Indices
  <2>3. o \in D
    <3> SUFFICES ASSUME o \notin D PROVE FALSE
      OBVIOUS
    <3>1. o \in S /\ o.status # "pending"
      BY <1>1
    <3> QED BY <1>2, <2>2, <3>1 DEF Distinct
  <2>4. MatchKey(o) = MatchKey(m)
    BY <1>2, <1>4, <2>2, <2>3, Keys
  <2> QED BY <2>3, <2>4
<1>8. Writes(plan, D, {}, {}, ties, last, FALSE)
  BY WritesTies
<1>9. Writes(a1, D, {}, {}, ties, last, TRUE)
  <2> HIDE DEF plan
  <2> QED BY <1>8, WritesComplete
<1>10. Writes(a2, D, x, y, ties, last, FALSE)
  <2> DEFINE p == [plan EXCEPT !.matches = x]
  <2>1. Writes(p, D, x, {}, ties, last, FALSE)
    <3> HIDE DEF plan, x
    <3> QED BY <1>8, WritesSteps
  <2>2. a2 = [p EXCEPT !.games = y]
    OBVIOUS
  <2> HIDE DEF p, x, y, a2
  <2>3. Writes([p EXCEPT !.games = y], D, x, y, ties, last, FALSE)
    BY <2>1, WritesSteps
  <2> QED BY <2>2, <2>3
<1> HIDE DEF plan, a1, a2
<1>11. CASE b1
  BY <1>1, <1>11, <1>8 DEF Outcome
<1>12. CASE ~b1 /\ b2
  BY <1>1, <1>12, <1>9, <1>7 DEF Outcome, S
<1>13. CASE ~b1 /\ ~b2
  <2>1. a = a2
    BY <1>1, <1>13
  <2>2. Writes(a, D, x, y, ties, last, FALSE)
    BY <1>10, <2>1
  <2>3. Covers(D, S) /\ Cardinality(S) # 1
    BY <1>7, <1>13
  <2>6. NewRound(n, c + 1, y, x) /\ Apart(x) /\ \E m \in x : m.status # "bye"
    <3> DEFINE K == Cardinality(S)
    <3>1. K \in Nat /\ K >= 2 /\ Indices(over) = 1..K
      BY <1>2, <1>6, <1>13
    <3>2. \A o \in over : o.winner \in 1..k.n /\ o.winner \in Rivals(o)
      BY <1>6 DEF n
    <3> HIDE DEF K
    <3> QED BY <1>1, <1>6, <3>1, <3>2, NextRoundIs DEF n
  <2> HIDE DEF x, y
  <2> QED BY <2>2, <2>3, <2>6 DEF Outcome, S, n
<1> QED BY <1>11, <1>12, <1>13

LEMMA KnockoutAdvanceSound ==
    ASSUME NEW k \in Configs, NEW c, NEW G, NEW M, Sound(k.n, c, G, M), KnockoutRows(c, M),
           NEW view, Mirrors(G, view), IsFiniteSet(view), NEW a, a = KnockoutPlan(k, view, M)
    PROVE  AdvanceSound(a, k.n, c, M) /\ KnockoutWrites(a, c, M)
<1>1. PICK D, over, ties, last, next : Advances(a, k, c, M, D, over, ties, last, next)
  BY KnockoutAdvances
<1>2. /\ IsFiniteSet(D) /\ Decisions(D, At(c, M), At(c, M)) /\ last \in Nat
      /\ Deciders(D, M) /\ DecidesOnce(D, M)
  BY <1>1 DEF Advances
<1>3. PICK drawn, T : /\ drawn \subseteq {m \in At(c, M) : m.status = "pending"}
                      /\ TieSets(T, drawn, k.tiebreak, last, ties)
  BY <1>1 DEF Advances
<1>4. TiesSoundFor(ties, last, c, M)
  <2> DEFINE S == At(c, M)
  <2>1. /\ IsFiniteSet(S) /\ Distinct(S) /\ S \subseteq M
        /\ \A m \in S : m.index \in Nat /\ m.round = c
    BY LastRoundIs
  <2>2. k.tiebreak \in Kinds /\ c \in Nat \ {0}
    BY RoundsAssumption DEF Sound, Rows
  <2>3. drawn \subseteq S /\ \A m \in drawn : m.status = "pending"
    BY <1>3
  <2> HIDE DEF S
  <2> QED BY <1>2, <1>3, <2>1, <2>2, <2>3, KnockoutTiesSound
<1>5. Outcome(a, k.n, c, M, D, ties, last)
  BY <1>1, AdvanceOutcome
<1>6. PICK N, B, end :
         /\ Writes(a, D, N, B, ties, last, end)
         /\ \/ N = {} /\ B = {} /\ end = FALSE
            \/ N = {} /\ B = {} /\ end = TRUE /\ Covers(D, At(c, M)) /\ Cardinality(At(c, M)) = 1
            \/ /\ NewRound(k.n, c + 1, B, N) /\ Apart(N) /\ \E m \in N : m.status # "bye"
               /\ Covers(D, At(c, M)) /\ Cardinality(At(c, M)) # 1 /\ end = FALSE
  BY <1>5 DEF Outcome
<1>7. AdvanceSound(a, k.n, c, M)
  <2>1. /\ \A d \in D : \E m \in M : Decides(d, m)
        /\ \A d, e \in D : MatchKey(d) = MatchKey(e) => d = e
    BY <1>2 DEF DecidesOnce
  <2>2. /\ IsFiniteSet(ties)
        /\ \A g \in ties : IsRow(g) /\ g.round \in 1..c /\ TieOK(g, last) /\ \E m \in M : Plays(g, m)
        /\ \A g, h \in ties : g.pair = h.pair => g = h
    BY <1>4 DEF TiesSoundFor
  <2>3. \/ B = {} /\ N = {}
        \/ NewRound(k.n, c + 1, B, N)
    BY <1>6
  <2>4. Writes(a, D, N, B, ties, last, end)
    BY <1>6
  <2> QED BY <1>2, <2>1, <2>2, <2>3, <2>4 DEF AdvanceSound
<1>8. KnockoutWrites(a, c, M)
  <2>1. a.decided = D /\ a.matches = N /\ a.games = B /\ a.complete = end
    BY <1>6, WritesFields
  <2>2. \A d \in a.decided : HasWinner(d)
    BY <1>2, <2>1 DEF Decisions
  <2>3. Apart(a.matches) /\ (a.matches # {} => \E m \in a.matches : m.status # "bye")
    BY <1>6, <2>1 DEF Apart
  <2>4. a.complete => Covers(a.decided, At(c, M)) /\ Cardinality(At(c, M)) = 1 /\ AddsNothing(a)
    BY <1>6, <2>1 DEF AddsNothing
  <2>5. a.matches # {} => Covers(a.decided, At(c, M)) /\ Cardinality(At(c, M)) # 1
    BY <1>6, <2>1
  <2> QED BY <2>2, <2>3, <2>4, <2>5 DEF KnockoutWrites
<1> QED BY <1>7, <1>8

-----------------------------------------------------------------------------
(* Swiss and knockout tournaments that have begun: their rows are sound,   *)
(* and what is going to be written leaves them so.                         *)
KnockoutWritten(plan) ==
    /\ \A d \in plan.decided : HasWinner(d)
    /\ Apart(plan.matches) /\ (plan.matches # {} => \E m \in plan.matches : m.status # "bye")
PlayRows(k, c, G, M) == Sound(k.n, c, G, M) /\ (k.format = "knockout" => KnockoutRows(c, M))
PlayPlan(k, c, M, plan) ==
    PlanSound(plan, k.n, c, M) /\ (k.format = "knockout" => KnockoutWritten(plan))
PlayFits(c) ==
    /\ PlayRows(config, c, games, matches)
    /\ \A t \in transactions : PlayPlan(config, c, matches, t.plan)

LEMMA KnockoutRowsWrite ==
    ASSUME NEW n, NEW c, Sound(n, c, games, matches), KnockoutRows(c, matches), NEW t,
           KnockoutWritten(t.plan), NEW d, NEW ties, NEW S, NEW N, WriteParts(t, n, c, d, ties, S, N)
    PROVE  KnockoutRows(d, matches')
<1> DEFINE P == t.plan.matches
           D == t.plan.decided
           M == matches'
<1>1. /\ M = N \cup P /\ N = Kept(matches, D) \cup Added(matches, D) /\ Follows(matches, N)
      /\ c \in Nat \ {0} /\ \/ P = {} /\ d = c
                            \/ NewRound(n, c + 1, t.plan.games, P) /\ d = c + 1
  BY DEF WriteParts, AddsNothing
<1>2. /\ \A x \in D : HasWinner(x)
      /\ Apart(P) /\ (P # {} => \E m \in P : m.status # "bye")
  BY DEF KnockoutWritten
<1>3. (\A m \in matches : m.round \in 1..c) /\ ApartIn(matches) /\ \A m \in matches : HasWinner(m)
  BY DEF Sound, Rows, KnockoutRows
<1>4. \A m \in P : NewMatch(n, c + 1, m)
  BY <1>1 DEF NewRound
<1>5. \A m \in P : m.round = c + 1 /\ HasWinner(m)
  BY <1>4 DEF NewMatch, HasWinner, Nobody
<1>6. \A m \in N : HasWinner(m)
  BY <1>1, <1>2, <1>3 DEF Kept, Added
<1>7. ASSUME NEW m \in N PROVE m.round \in 1..c /\ \E k \in matches : k.round = m.round /\ k.index = m.index /\ Rivals(k) = Rivals(m)
  <2>1. PICK k \in matches : SameMatch(k, m)
    BY <1>1 DEF Follows
  <2> QED BY <1>3, <2>1 DEF SameMatch, Rivals
<1> HIDE DEF P, D, M
<1>8. ASSUME NEW m \in M, NEW l \in M, m.round = l.round, m.index # l.index
      PROVE  Rivals(m) \cap Rivals(l) \subseteq {Nobody}
  <2>1. c + 1 \notin 1..c
    BY <1>1
  <2>2. CASE m \in P
    <3>1. l \notin N
      BY <1>5, <1>7, <1>8, <2>1, <2>2
    <3> QED BY <1>1, <1>2, <1>8, <2>2, <3>1 DEF Apart
  <2>3. CASE m \in N
    <3>1. l \in N
      BY <1>1, <1>5, <1>7, <1>8, <2>1, <2>3
    <3>2. PICK k \in matches : k.round = m.round /\ k.index = m.index /\ Rivals(k) = Rivals(m)
      BY <1>7, <2>3
    <3>3. PICK j \in matches : j.round = l.round /\ j.index = l.index /\ Rivals(j) = Rivals(l)
      BY <1>7, <3>1
    <3>4. Rivals(k) \cap Rivals(j) \subseteq {Nobody}
      BY <1>3, <1>8, <3>2, <3>3 DEF ApartIn
    <3> QED BY <3>2, <3>3, <3>4
  <2> QED BY <1>1, <2>2, <2>3
<1>9. ASSUME NEW r \in 1..d PROVE \E m \in M : m.round = r /\ m.status # "bye"
  <2>1. CASE r \in 1..c
    <3>1. PICK k \in matches : k.round = r /\ k.status # "bye"
      BY <2>1 DEF KnockoutRows
    <3>2. PICK m \in N : SameMatch(k, m)
      BY <1>1 DEF Follows
    <3> QED BY <1>1, <3>1, <3>2 DEF SameMatch
  <2>2. CASE r \notin 1..c
    BY <1>1, <2>2, <1>2, <1>5 DEF NewRound
  <2> QED BY <2>1, <2>2
<1>10. \A m \in M : HasWinner(m)
  BY <1>1, <1>5, <1>6
<1>11. ApartIn(M)
  BY <1>8 DEF ApartIn
<1> QED BY <1>9, <1>10, <1>11 DEF KnockoutRows, M

(* The rows of a new round are sound.                                      *)
LEMMA FirstRoundSound ==
    ASSUME NEW n, NEW G, NEW M, NewRound(n, 1, G, M)
    PROVE  Sound(n, 1, G, M)
<1>1. /\ IsFiniteSet(G) /\ IsFiniteSet(M)
      /\ \A g \in G : IsRow(g) /\ g.round = 1
      /\ \A m \in M : IsMatch(m) /\ m.round = 1
      /\ \E m \in M : m.index = 1
  BY DEF NewRound, NewGame, NewMatch
<1>2. Rows(1, G, M)
  BY <1>1 DEF Rows
<1> QED BY <1>2, NewRoundSound DEF Sound

LEMMA PlayPrepared ==
    ASSUME config \in Configs, config.format \in {"swiss", "knockout"}, Prepare
    PROVE  PlayRows(config, 1, games', matches')
<1> DEFINE n == config.n
<1>0. n \in Nat \ {0, 1} /\ n \in Nat /\ config.per \in Nat \ {0}
  BY RoundsAssumption
<1>1. CASE config.format = "swiss"
  <2> DEFINE r == SwissRound(n, 1, {}, {})
  <2>1. First(config) = r
    BY <1>1 DEF First
  <2>2. games' = r.games /\ matches' = r.matches
    BY <2>1 DEF Prepare
  <2>3. NewRound(n, 1, r.games, r.matches)
    <3>1. IsFiniteSet({})
      BY FS_EmptySet
    <3> HIDE DEF r
    <3> QED BY <1>0, <3>1, SwissRoundIsFair DEF r
  <2> HIDE DEF r
  <2>4. Sound(n, 1, games', matches')
    BY <2>2, <2>3, FirstRoundSound
  <2> QED BY <1>1, <2>4 DEF PlayRows
<1>2. CASE config.format = "knockout"
  <2> DEFINE P == FirstPairings(n)
             r == KnockoutRound(1, P, config.per)
  <2>1. First(config) = r
    BY <1>2 DEF First
  <2>2. games' = r.games /\ matches' = r.matches
    BY <2>1 DEF Prepare
  <2>3. PICK L : Bracketed(P, n, L) /\ \E i \in 1..L : Nobody \notin Pair(P, i)
    BY <1>0, FirstPairingsAre
  <2>4. Contested(P) # {}
    BY <2>3 DEF Contested, Bracketed
  <2> HIDE DEF P, r
  <2>5. /\ NewRound(n, 1, r.games, r.matches) /\ Apart(r.matches)
        /\ \E m \in r.matches : m.status # "bye"
    BY <1>0, <2>3, <2>4, KnockoutRoundIs DEF r
  <2>6. Sound(n, 1, games', matches')
    BY <2>2, <2>5, FirstRoundSound
  <2>7. KnockoutRows(1, matches')
    <3>1. \A m \in r.matches : NewMatch(n, 1, m)
      BY <2>5 DEF NewRound
    <3>2. \A m \in r.matches : m.round = 1 /\ HasWinner(m)
      BY <3>1 DEF NewMatch, HasWinner, Nobody
    <3>3. ApartIn(r.matches)
      BY <2>5 DEF Apart, ApartIn
    <3>4. \A i \in 1..1 : i = 1
      OBVIOUS
    <3> QED BY <2>2, <2>5, <3>2, <3>3, <3>4 DEF KnockoutRows
  <2> QED BY <2>6, <2>7 DEF PlayRows
<1> QED BY <1>1, <1>2

(* What is planned leaves the rows sound.                                  *)
LEMMA PlayPlanIs ==
    ASSUME NEW k \in Configs, k.format \in {"swiss", "knockout"}, NEW c, NEW G, NEW M,
           PlayRows(k, c, G, M), NEW view, Mirrors(G, view), IsFiniteSet(view),
           NEW plan, plan = Plan(k, view, M)
    PROVE  PlayPlan(k, c, M, plan)
<1>1. Sound(k.n, c, G, M) /\ (k.format = "knockout" => KnockoutRows(c, M)) /\ c \in Nat \ {0}
  BY DEF PlayRows, Sound, Rows
<1>2. CASE k.format = "swiss"
  <2> DEFINE a == SwissPlan(k, view, M)
             end == Ends(a, view)
  <2>1. plan = [a EXCEPT !.complete = end]
    BY <1>2 DEF Plan
  <2>2. AdvanceSound(a, k.n, c, M)
    BY <1>1, SwissAdvanceSound
  <2> HIDE DEF a, end
  <2>3. PlanSound(plan, k.n, c, M)
    BY <1>1, <2>1, <2>2, AdvanceIsSound
  <2> QED BY <1>2, <2>3 DEF PlayPlan
<1>3. CASE k.format = "knockout"
  <2> DEFINE a == KnockoutPlan(k, view, M)
             end == Ends(a, view)
  <2>1. plan = [a EXCEPT !.complete = end]
    BY <1>3 DEF Plan
  <2>2. AdvanceSound(a, k.n, c, M) /\ KnockoutWrites(a, c, M)
    BY <1>1, <1>3, KnockoutAdvanceSound
  <2> HIDE DEF a, end
  <2>3. PlanSound(plan, k.n, c, M)
    BY <1>1, <2>1, <2>2, AdvanceIsSound
  <2>4. plan.decided = a.decided /\ plan.matches = a.matches
    <3>1. PICK D, G2, N, T, last, e : Writes(a, D, N, G2, T, last, e)
      BY <2>2 DEF AdvanceSound
    <3>2. Writes(plan, D, N, G2, T, last, end)
      BY <2>1, <3>1, WritesComplete
    <3> QED BY <3>1, <3>2, WritesFields
  <2>5. KnockoutWritten(plan)
    BY <2>2, <2>4 DEF KnockoutWrites, KnockoutWritten
  <2> QED BY <2>3, <2>5 DEF PlayPlan
<1> QED BY <1>2, <1>3

LEMMA PlayWrite ==
    ASSUME NEW k, NEW c, PlayRows(k, c, games, matches), NEW t,
           PlayPlan(k, c, matches, t.plan),
           t.game = NoGame \/ (t.game \in games /\ t.result \in Results),
           NEW d, NEW ties, NEW S, NEW N, WriteParts(t, k.n, c, d, ties, S, N)
    PROVE  /\ PlayRows(k, d, games', matches')
           /\ \A p : PlayPlan(k, c, matches, p) => PlayPlan(k, d, matches', p)
<1>1. Sound(k.n, c, games, matches) /\ PlanSound(t.plan, k.n, c, matches)
  BY DEF PlayRows, PlayPlan
<1>2. /\ Sound(k.n, d, games', matches')
      /\ \A u : PlanSound(u, k.n, c, matches) => PlanSound(u, k.n, d, matches')
  BY <1>1, SoundWrite
<1>3. ASSUME k.format = "knockout" PROVE KnockoutRows(d, matches')
  BY <1>1, <1>3, KnockoutRowsWrite DEF PlayRows, PlayPlan
<1> QED BY <1>2, <1>3 DEF PlayRows, PlayPlan

-----------------------------------------------------------------------------
(* Round robin and gauntlet: the types of the pairings, and their keys.    *)
FixedGame(n, g) ==
    /\ g.round \in Nat \ {0} /\ g.pair \in Nat \ {0} /\ g.number \in Nat \ {0}
    /\ g.white \in 1..n /\ g.black \in 1..n /\ g.white # g.black /\ g.kind = "base"

LEMMA PairIsKept ==
    ASSUME NEW round, NEW pair, NEW a, NEW b, NEW match, NEW number, NEW kind,
           NEW g, g = Game(round, pair, a, b, match, number, kind)
    PROVE  g.pair = pair /\ g.kind = kind
BY DEF Game

LEMMA TableNumber ==
    ASSUME NEW n, NEW r, NEW h \in Nat, Tables(n, r) \subseteq 0..(h - 1), NEW k \in Tables(n, r)
    PROVE  Cardinality({j \in Tables(n, r) : j <= k}) \in Nat \ {0}
<1> DEFINE S == {j \in Tables(n, r) : j <= k}
<1>1. IsFiniteSet(S)
  <2>1. IsFiniteSet(0..(h - 1))
    BY FS_Interval
  <2>2. S \subseteq 0..(h - 1)
    OBVIOUS
  <2> HIDE DEF S
  <2> QED BY <2>1, <2>2, FS_Subset
<1>2. k \in S
  OBVIOUS
<1> HIDE DEF S
<1>3. Cardinality(S) \in Nat /\ Cardinality(S) # 0
  BY <1>1, <1>2, FS_CardinalityType, FS_EmptySet
<1> QED BY <1>3 DEF S

LEMMA RoundRobinTypes ==
    ASSUME NEW n \in Nat \ {0, 1}, NEW per \in Nat, NEW g \in RoundRobin(n, per)
    PROVE  FixedGame(n, g)
<1> DEFINE m == Seats(n)
<1>1. PICK h \in Nat \ {0} : m = 2 * h /\ n <= 2 * h
  BY SeatsAre
<1>2. PICK c \in 0..(per - 1), r \in 0..(m - 2) : \E k \in Tables(n, r) : g = RoundRobinGame(n, c, r, k)
  BY RoundRobinGames
<1>3. PICK k \in Tables(n, r) : g = RoundRobinGame(n, c, r, k)
  BY <1>2
<1>4. \A j \in Tables(n, r) : j \in 0..(h - 1)
  BY <1>1, TablesAre
<1>5. c \in Nat /\ k \in 0..(h - 1) /\ r \in Nat
  BY <1>1, <1>4
<1>6. /\ g.round = r + 1 + c * (m - 1) /\ g.number = c + 1
      /\ Opposite(m, r, k, g.white, g.black) /\ g.white # g.black
  <2> HIDE DEF m
  <2> QED BY <1>1, <1>2, <1>3, <1>5, TableGame DEF m
<1>7. /\ Seat(m, r, k) \in 1..m /\ Seat(m, r, m - 1 - k) \in 1..m
      /\ Seat(m, r, k) <= n /\ Seat(m, r, m - 1 - k) <= n
  <2>1. Seat(m, r, k) <= n /\ Seat(m, r, m - 1 - k) <= n
    BY <1>1, <1>2, TablesAre
  <2>2. k \in 0..(m - 1) /\ m - 1 - k \in 0..(m - 1) /\ m \in Nat /\ m >= 2
    BY <1>1, <1>5
  <2> HIDE DEF m
  <2> QED BY <1>2, <2>1, <2>2, SeatsDiffer
<1>8. g.white \in 1..n /\ g.black \in 1..n
  <2> DEFINE x == Seat(m, r, k)  y == Seat(m, r, m - 1 - k)
  <2>1. {x, y} = {g.white, g.black}
    BY <1>6 DEF Opposite
  <2>2. m \in Nat /\ x \in 1..m /\ y \in 1..m /\ x <= n /\ y <= n
    BY <1>1, <1>7
  <2> HIDE DEF x, y, m
  <2>3. x \in 1..n /\ y \in 1..n
    BY <2>2
  <2> QED BY <2>1, <2>3
<1>9. g.pair = Cardinality({j \in Tables(n, r) : j <= k}) /\ g.kind = "base"
  BY <1>3, PairIsKept DEF RoundRobinGame
<1>10. g.pair \in Nat \ {0}
  BY <1>4, <1>9, TableNumber
<1>11. g.round \in Nat \ {0} /\ g.number \in Nat \ {0}
  <2>1. m - 1 \in Nat
    BY <1>1
  <2> HIDE DEF m
  <2>2. c * (m - 1) \in Nat
    BY <1>5, <2>1
  <2> QED BY <1>5, <1>6, <2>2
<1> QED BY <1>6, <1>8, <1>9, <1>10, <1>11 DEF FixedGame

LEMMA GauntletTypes ==
    ASSUME NEW n \in Nat \ {0, 1}, NEW hero \in 1..n, NEW per \in Nat, NEW g \in Gauntlet(n, hero, per)
    PROVE  FixedGame(n, g)
<1>1. PICK number \in 1..per, i \in 1..(n - 1) : g = GauntletGame(n, hero, number, i)
  BY GauntletGames
<1> DEFINE o == IF i < hero THEN i ELSE i + 1
<1>2. number \in Nat \ {0} /\ o \in 1..n
  OBVIOUS
<1>3. /\ g.round = (number - 1) * (n - 1) + i /\ g.number = number
      /\ Pairs(g, hero, o) /\ g.white # g.black
  BY <1>1, <1>2, HeroGame
<1> HIDE DEF o
<1>4. g.white \in 1..n /\ g.black \in 1..n
  BY <1>3, <1>2 DEF Pairs
<1>5. g.pair = 1 /\ g.kind = "base"
  BY <1>1, PairIsKept DEF GauntletGame
<1>6. g.round \in Nat \ {0}
  BY <1>2, <1>3
<1> QED BY <1>2, <1>3, <1>4, <1>5, <1>6 DEF FixedGame

(* Round robin and gauntlet: there are no matches, and games have results. *)
FixedTypes ==
    Fixed => /\ matches = {} /\ \A g \in games : g.result \in Results \cup {Unplayed}
             /\ \A t \in transactions : /\ t.plan.decided = {} /\ t.plan.matches = {}
                                        /\ t.plan.games = {} /\ t.plan.ties = {}

LEMMA OncePerRound ==
    ASSUME NEW n \in Nat \ {0, 1}, NEW hero \in 1..n, NEW per \in Nat,
           NEW F, F = RoundRobin(n, per) \/ F = Gauntlet(n, hero, per)
    PROVE  \A p \in 1..n : \A g, l \in F :
              p \in {g.white, g.black} /\ p \in {l.white, l.black} /\ g.round = l.round => g = l
<1>1. CASE F = RoundRobin(n, per)
  BY <1>1, RoundRobinMeets, SMTT(30)
<1>2. CASE F = Gauntlet(n, hero, per)
  BY <1>2, GauntletMeets, SMTT(30)
<1> QED BY <1>1, <1>2

UniqueKeys(F) == \A g, l \in F : GameKey(g) = GameKey(l) => g = l

LEMMA KeysDiffer ==
    ASSUME NEW n \in Nat \ {0, 1}, NEW hero \in 1..n, NEW per \in Nat,
           NEW F, F = RoundRobin(n, per) \/ F = Gauntlet(n, hero, per)
    PROVE  UniqueKeys(F)
<1>1. \A p \in 1..n : \A g, l \in F :
          p \in {g.white, g.black} /\ p \in {l.white, l.black} /\ g.round = l.round => g = l
  BY OncePerRound
<1>2. \A g \in F : FixedGame(n, g)
  BY RoundRobinTypes, GauntletTypes
<1>3. ASSUME NEW g \in F, NEW l \in F, GameKey(g) = GameKey(l) PROVE g = l
  BY <1>3, GameKeys, <1>2, <1>1 DEF FixedGame
<1> QED BY <1>3 DEF UniqueKeys

LEMMA FixedFirst ==
    ASSUME NEW k \in Configs, k.format \in {"round robin", "gauntlet"}
    PROVE  /\ First(k).matches = {}
           /\ \A g \in First(k).games : FixedGame(k.n, g) /\ Fresh(g) = g /\ g.result = Unplayed
           /\ \A g, l \in First(k).games : GameKey(g) = GameKey(l) => g = l
<1> DEFINE F == First(k).games
           n == k.n
<1>0. n \in Nat \ {0, 1} /\ k.per \in Nat /\ k.hero \in 1..n
  BY RoundsAssumption
<1>1. First(k).matches = {} /\ (F = RoundRobin(n, k.per) \/ F = Gauntlet(n, k.hero, k.per))
  BY DEF First
<1> HIDE DEF F, n
<1>2. \A g \in F : FixedGame(n, g) /\ IsRow(g) /\ Fresh(g) = g
  <2>1. CASE F = RoundRobin(n, k.per)
    BY <1>0, <2>1, RoundRobinTypes, RoundRobinRows
  <2>2. CASE F = Gauntlet(n, k.hero, k.per)
    BY <1>0, <2>2, GauntletTypes, GauntletRows
  <2> QED BY <1>1, <2>1, <2>2
<1>3. ASSUME NEW g \in F PROVE g.result = Unplayed
  BY <1>2, ResultIs DEF Fresh
<1>5. UniqueKeys(F)
  BY <1>0, <1>1, KeysDiffer
<1> QED BY <1>1, <1>2, <1>3, <1>5 DEF F, n, UniqueKeys

LEMMA FixedPlan ==
    ASSUME Fixed, NEW view, NEW plan, plan = Plan(config, view, matches)
    PROVE  plan.decided = {} /\ plan.matches = {} /\ plan.games = {} /\ plan.ties = {}
BY DEF Fixed, Plan, Nothing

LEMMA FixedTypesInductive == Writers /\ FixedTypes /\ [Next]_vars => FixedTypes'
<1> SUFFICES ASSUME Writers, FixedTypes, [Next]_vars, Fixed'
             PROVE  /\ matches' = {} /\ \A g \in games' : g.result \in Results \cup {Unplayed}
                    /\ \A t \in transactions' : /\ t.plan.decided = {} /\ t.plan.matches = {}
                                                /\ t.plan.games = {} /\ t.plan.ties = {}
  BY DEF FixedTypes
<1>1. CASE Prepare
  BY <1>1, FixedFirst DEF Prepare, Writers, Fixed
<1>2. ASSUME NEW t, NEW view, Begins(t, view)
      PROVE  /\ matches' = {} /\ \A g \in games' : g.result \in Results \cup {Unplayed}
             /\ \A u \in transactions' : /\ u.plan.decided = {} /\ u.plan.matches = {}
                                         /\ u.plan.games = {} /\ u.plan.ties = {}
  <2>1. Fixed /\ games' = games /\ matches' = matches /\ transactions' = transactions \cup {t}
    BY <1>2 DEF Begins, Fixed
  <2>2. /\ t.plan.decided = {} /\ t.plan.matches = {}
        /\ t.plan.games = {} /\ t.plan.ties = {}
    BY <1>2, <2>1, FixedPlan DEF Begins
  <2> QED BY <2>1, <2>2 DEF FixedTypes
<1>3. CASE GameEnds
  <2>1. PICK g \in games, result \in config.results : FinishBegins(g, result)
    BY <1>3 DEF GameEnds
  <2>2. \E t : Begins(t, With(games, g, result))
    BY <2>1, BeginsIs
  <2> QED BY <1>2, <2>2
<1>4. CASE CycleBegins
  BY <1>2, <1>4, BeginsIs
<1>5. CASE Commits
  <2>1. PICK t \in transactions : Commit(t)
    BY <1>5 DEF Commits
  <2>2. Write(t) /\ transactions' = transactions \ {t} /\ Fixed
    BY <2>1, CommitWrites DEF Fixed
  <2>3. /\ matches = {} /\ t.plan.decided = {} /\ t.plan.matches = {}
        /\ t.plan.games = {} /\ t.plan.ties = {}
    BY <2>1, <2>2 DEF FixedTypes
  <2>5. matches' = {}
    BY <2>2, <2>3 DEF Write, Kept, Added
  <2>6. PICK ties, S : TieRows(t, ties) /\ Written(t, S) /\ games' = t.plan.games \cup ties \cup S
    BY <2>2 DEF Write
  <2>7. games' = S
    BY <2>3, <2>6 DEF TieRows
  <2>8. ASSUME NEW g \in S PROVE g.result \in Results \cup {Unplayed}
    <3>1. CASE g \in games
      BY <2>2, <3>1 DEF FixedTypes
    <3>2. CASE g \notin games
      <4>1. t.game # NoGame /\ g = [t.game EXCEPT !.result = t.result]
        BY <2>6, <3>2 DEF Written, With
      <4>2. t.game \in games /\ t.result \in Results
        BY <2>1, <4>1 DEF Writers
      <4>3. g.result \in {t.result, t.game.result}
        BY <4>1
      <4> QED BY <2>2, <4>2, <4>3 DEF FixedTypes
    <3> QED BY <3>1, <3>2
  <2> QED BY <2>2, <2>3, <2>5, <2>7, <2>8 DEF FixedTypes
<1>6. CASE RollsBack
  <2>1. PICK t \in transactions : RollBack(t)
    BY <1>6 DEF RollsBack
  <2> QED BY <2>1 DEF RollBack, FixedTypes, Fixed
<1>7. CASE UNCHANGED vars
  BY <1>7 DEF vars, FixedTypes, Fixed
<1> QED BY <1>1, <1>3, <1>4, <1>5, <1>6, <1>7 DEF Next

(* The rows have their types, and the unique constraints hold.             *)
GameTypeOK(n, g) ==
    /\ g.round > 0 /\ g.pair > 0 /\ g.number > 0
    /\ {g.white, g.black} \subseteq 1..n /\ g.white # g.black
    /\ g.kind \in Kinds \cup {"base"} /\ g.result \in Results \cup {Unplayed}
MatchTypeOK(n, m) ==
    /\ m.first \in 1..n /\ m.second \in 0..n
    /\ m.status = "bye" <=> m.second = Nobody
    /\ m.winner \in {Nobody, m.first, m.second}
RowsTypeOK ==
    /\ \A g \in games : GameTypeOK(config.n, g)
    /\ \A g, h \in games : GameKey(g) = GameKey(h) => g = h
    /\ \A m \in matches : MatchTypeOK(config.n, m)
    /\ \A m, n \in matches : MatchKey(m) = MatchKey(n) => m = n

LEMMA PlayingTypes ==
    ASSUME NEW c, PlayFits(c)
    PROVE  RowsTypeOK
<1> DEFINE n == config.n
<1>2. Rows(c, games, matches) /\ MatchesOK(n, matches) /\ GamesOK(n, games, matches)
  BY DEF PlayFits, PlayRows, Sound
<1> HIDE DEF n
<1>3. ASSUME NEW m \in matches PROVE MatchTypeOK(n, m)
  BY <1>2 DEF MatchesOK, MatchOK, MatchTypeOK
<1>4. ASSUME NEW g \in games PROVE GameTypeOK(n, g)
  <2>1. GameOK(n, g) /\ g.round \in 1..c /\ c \in Nat
    BY <1>2 DEF GamesOK, Rows
  <2>2. PICK m \in matches : Plays(g, m)
    BY <1>2 DEF GamesOK
  <2>3. MatchOK(n, m) /\ m.status # "bye"
    BY <1>2, <2>2 DEF MatchesOK, Plays
  <2>4. m.first \in 1..n /\ m.second \in 0..n /\ m.first # m.second /\ m.second # Nobody
    BY <2>3 DEF MatchOK
  <2>5. 1..n = (0..n) \ {Nobody}
    BY DEF Nobody
  <2>6. {g.white, g.black} \subseteq 1..n /\ g.white # g.black
    BY <2>2, <2>4, <2>5 DEF Plays
  <2>7. g.round > 0 /\ g.pair > 0 /\ g.number > 0
    BY <2>1 DEF GameOK
  <2> QED BY <2>1, <2>6, <2>7 DEF GameOK, GameTypeOK
<1> QED BY <1>2, <1>3, <1>4 DEF RowsTypeOK, MatchesOK, GamesOK, n

LEMMA FixedTypesAre ==
    ASSUME Fixed, status # "scheduled", FixedInv, FixedTypes
    PROVE  RowsTypeOK
<1> DEFINE F == First(config).games
           n == config.n
<1>1. /\ \A g \in F : FixedGame(n, g) /\ Fresh(g) = g /\ g.result = Unplayed
      /\ \A g, l \in F : GameKey(g) = GameKey(l) => g = l
  BY FixedFirst DEF FixedInv, Fixed
<1>2. Played(F, games)
  BY DEF FixedInv
<1>3. matches = {} /\ \A g \in games : g.result \in Results \cup {Unplayed}
  BY DEF FixedTypes
<1> HIDE DEF F, n
<1>4. ASSUME NEW g \in games
      PROVE  Fresh(g) \in F /\ SameRow(g, Fresh(g)) /\ GameKey(Fresh(g)) = GameKey(g)
  <2>1. Fresh(g) \in F /\ SameRow(g, Fresh(g))
    BY <1>2, ResultIs DEF Played, Fresh
  <2> QED BY <2>1, GameKeys DEF SameRow
<1>5. ASSUME NEW g \in games PROVE GameTypeOK(n, g)
  BY <1>1, <1>4, <1>3 DEF FixedGame, SameRow, GameTypeOK
<1>6. ASSUME NEW g \in games, NEW h \in games, GameKey(g) = GameKey(h) PROVE g = h
  BY <1>4, <1>6, <1>1, <1>2 DEF Played
<1> QED BY <1>3, <1>5, <1>6 DEF RowsTypeOK, n

-----------------------------------------------------------------------------
(* The order of rounds: the last round of a tournament is known from the   *)
(* options, or from its matches.                                           *)
IsLast(k, r, M) == IF k.format = "swiss" THEN r >= k.per ELSE \A m \in At(r, M) : m.index = 1
OverTill(r, G, but) == \A g \in G : g.round <= r => g.result # Unplayed \/ g = but

OrderRows(k, c, G, M, state) ==
    /\ \A m \in M : m.round < c => m.status # "pending"
    /\ k.format = "swiss" => \A g \in G : g.round < c => g.result # Unplayed
    /\ \A r \in 1..c : r < c => ~IsLast(k, r, M)
    /\ state = "finished" => /\ IsLast(k, c, M) /\ \A m \in M : m.status # "pending"
                             /\ \A g \in G : Settled(g)
OrderPlan(k, c, G, M, t) ==
    /\ \A r \in 1..c : Adds(t.plan, r) =>
          /\ ~IsLast(k, r, M) /\ Covers(t.plan.decided, At(r, M))
          /\ k.format = "swiss" => OverTill(r, G, t.game)
    /\ t.plan.complete => /\ AddsNothing(t.plan)
                          /\ \E r \in 1..c : IsLast(k, r, M) /\ Covers(t.plan.decided, At(r, M))
                          /\ \A g \in G : Settled(g) \/ g = t.game
    /\ k.format = "swiss" => t.plan.ties = {}

(* What a commit does to the rounds that are there.                        *)
Effect(t, c, d) ==
    /\ c \in Nat \ {0} /\ \/ AddsNothing(t.plan) /\ d = c
                          \/ Adds(t.plan, c) /\ d = c + 1
    /\ \A m \in matches' : m.round \in 1..d
    /\ \A m \in matches' : m.round \in 1..c /\ m.status = "pending" =>
          m \in matches /\ \A x \in t.plan.decided : MatchKey(x) # MatchKey(m)
    /\ \A g \in games' : g.round \in 1..d
    /\ \A g \in games' : \/ g \in games /\ g # t.game
                         \/ g.result # Unplayed
                         \/ g.kind \in Kinds /\ t.plan.ties # {}
                         \/ g.round = c + 1 /\ d = c + 1
    /\ \A k : \A r \in 1..c : IsLast(k, r, matches') <=> IsLast(k, r, matches)

LEMMA WrittenResults ==
    ASSUME NEW t, t.game = NoGame \/ (t.game \in games /\ t.result \in Results),
           NEW S, Written(t, S), \A g \in games : IsRow(g) /\ g.round # 0
    PROVE  \A s \in S : (s \in games /\ s # t.game) \/ s.result # Unplayed
<1>1. CASE t.game = NoGame
  BY <1>1, NoGameIs DEF Written
<1>2. CASE t.game # NoGame
  <2> SUFFICES ASSUME NEW s \in S, s \notin games \/ s = t.game PROVE s.result # Unplayed
    OBVIOUS
  <2>1. S = (games \ {t.game}) \cup {[t.game EXCEPT !.result = t.result]}
    BY <1>2 DEF Written, With
  <2>2. s = [t.game EXCEPT !.result = t.result]
    BY <2>1
  <2>3. s.result = t.result
    BY <1>2, <2>2, ResultIs
  <2> QED BY <1>2, <2>3 DEF Results, White, Black, Draw, Unplayed
<1> QED BY <1>1, <1>2
LEMMA EffectIs ==
    ASSUME NEW n, NEW c, Sound(n, c, games, matches), NEW t, PlanSound(t.plan, n, c, matches),
           t.game = NoGame \/ (t.game \in games /\ t.result \in Results),
           NEW d, NEW ties, NEW S, NEW N, WriteParts(t, n, c, d, ties, S, N)
    PROVE  Effect(t, c, d)
<1> DEFINE P == t.plan.matches
           B == t.plan.games
           D == t.plan.decided
<1>1. /\ matches' = N \cup P /\ N = Kept(matches, D) \cup Added(matches, D) /\ Follows(matches, N)
      /\ games' = B \cup ties \cup S /\ TieRows(t, ties) /\ Written(t, S)
      /\ Rows(d, games', matches') /\ c \in Nat \ {0}
  BY DEF WriteParts
<1>2. \/ AddsNothing(t.plan) /\ d = c
      \/ NewRound(n, c + 1, B, P) /\ Adds(t.plan, c) /\ d = c + 1
  BY NewRoundAdds DEF WriteParts
<1>3. /\ \A m \in matches' : m.round \in 1..d
      /\ \A g \in games' : g.round \in 1..d
  BY <1>1 DEF Rows
<1>4. /\ \A m \in matches : m.round \in 1..c
      /\ \A g \in games : IsRow(g) /\ g.round \in 1..c
  BY DEF Sound, Rows
<1>5. \A x \in D : x.status = "finished"
  BY DEF PlanSound, PlanFits
<1>6. \A m \in P : m.round = c + 1
  BY <1>2 DEF AddsNothing, Adds
<1>7. \A g \in B : g.round = c + 1 /\ d = c + 1
  BY <1>2 DEF AddsNothing, Adds
<1>8. \A m \in N : \E l \in matches : SameMatch(l, m)
  BY <1>1 DEF Follows
<1>9. ASSUME NEW m \in matches', m.round \in 1..c, m.status = "pending"
      PROVE  m \in matches /\ \A x \in D : MatchKey(x) # MatchKey(m)
  BY <1>1, <1>6, <1>9, <1>5 DEF Added, Kept
<1>10. \A g \in ties : g.kind \in Kinds /\ t.plan.ties # {}
  BY <1>1, TiesAre DEF PlanSound, PlanFits, TieOK
<1>11. \A s \in S : (s \in games /\ s # t.game) \/ s.result # Unplayed
  BY <1>2, <1>4, <1>1, WrittenResults
<1>12. ASSUME NEW k, NEW r \in 1..c
       PROVE  IsLast(k, r, matches') <=> IsLast(k, r, matches)
  <2>1. \A m \in At(r, matches) : \E l \in At(r, matches') : l.index = m.index
    <3> SUFFICES ASSUME NEW m \in matches, m.round = r PROVE \E l \in matches' : l.round = r /\ l.index = m.index
      BY DEF At
    <3>1. PICK l \in N : SameMatch(m, l)
      BY <1>1 DEF Follows
    <3> QED BY <1>1, <3>1 DEF SameMatch
  <2>2. \A l \in At(r, matches') : \E m \in At(r, matches) : l.index = m.index
    <3> SUFFICES ASSUME NEW l \in matches', l.round = r PROVE \E m \in matches : m.round = r /\ l.index = m.index
      BY DEF At
    <3>1. l \in N
      BY <1>1, <1>6
    <3>2. PICK m \in matches : SameMatch(m, l)
      BY <1>8, <3>1
    <3> QED BY <3>2 DEF SameMatch
  <2> QED BY <2>1, <2>2 DEF IsLast
<1> HIDE DEF P, B, D
<1>13. \A g \in games' : \/ g \in games /\ g # t.game
                         \/ g.result # Unplayed
                         \/ g.kind \in Kinds /\ t.plan.ties # {}
                         \/ g.round = c + 1 /\ d = c + 1
  BY <1>1, <1>7, <1>10, <1>11
<1> QED BY <1>1, <1>2, <1>3, <1>9, <1>12, <1>13 DEF Effect, D

(* A commit keeps the rounds in order.                                     *)
LEMMA OrderRowsWrite ==
    ASSUME NEW k, NEW c, NEW t, NEW d, Effect(t, c, d), OrderRows(k, c, games, matches, status),
           OrderPlan(k, c, games, matches, t),
           status' = IF t.plan.complete THEN "finished" ELSE status
    PROVE  OrderRows(k, d, games', matches', status')
<1> DEFINE G == games'
           M == matches'
           D == t.plan.decided
<1>1. /\ c \in Nat \ {0} /\ c \in 1..c
      /\ \A m \in M : m.round \in 1..d
      /\ \A m \in M : m.round \in 1..c /\ m.status = "pending" =>
            m \in matches /\ \A x \in D : MatchKey(x) # MatchKey(m)
      /\ \A g \in G : g.round \in 1..d
      /\ \A g \in G : \/ g \in games /\ g # t.game
                      \/ g.result # Unplayed
                      \/ g.kind \in Kinds /\ t.plan.ties # {}
                      \/ g.round = c + 1 /\ d = c + 1
      /\ \A r \in 1..c : IsLast(k, r, M) <=> IsLast(k, r, matches)
  BY DEF Effect
<1>2. /\ \A m \in matches : m.round < c => m.status # "pending"
      /\ k.format = "swiss" => \A g \in games : g.round < c => g.result # Unplayed
      /\ \A r \in 1..c : r < c => ~IsLast(k, r, matches)
      /\ status = "finished" => /\ IsLast(k, c, matches) /\ \A m \in matches : m.status # "pending"
                                /\ \A g \in games : Settled(g)
  BY DEF OrderRows
<1>3. /\ \A r \in 1..c : Adds(t.plan, r) =>
            /\ ~IsLast(k, r, matches) /\ Covers(D, At(r, matches))
            /\ k.format = "swiss" => OverTill(r, games, t.game)
      /\ t.plan.complete => /\ AddsNothing(t.plan)
                            /\ \E r \in 1..c : IsLast(k, r, matches) /\ Covers(D, At(r, matches))
                            /\ \A g \in games : Settled(g) \/ g = t.game
      /\ k.format = "swiss" => t.plan.ties = {}
  BY DEF OrderPlan
<1>4. \A m \in M : m.round \in 1..c /\ m.status = "pending" => m.round = c /\ ~Covers(D, At(c, matches))
  <2> SUFFICES ASSUME NEW m \in M, m.round \in 1..c, m.status = "pending"
               PROVE  m.round = c /\ ~Covers(D, At(c, matches))
    OBVIOUS
  <2>1. m \in matches /\ \A x \in D : MatchKey(x) # MatchKey(m)
    BY <1>1
  <2>2. m.round = c
    BY <1>2, <2>1, <1>1
  <2> QED BY <2>1, <2>2 DEF Covers, At
<1> HIDE DEF G, M, D
<1>5. CASE AddsNothing(t.plan) /\ d = c
  <2>1. \A m \in M : m.round < c => m.status # "pending"
    <3> SUFFICES ASSUME NEW m \in M, m.round < c, m.status = "pending" PROVE FALSE
      OBVIOUS
    <3>1. m.round \in 1..c /\ m.round # c
      BY <1>1, <1>5
    <3> QED BY <1>4, <3>1
  <2>2. ASSUME k.format = "swiss", NEW g \in G, g.round < c PROVE g.result # Unplayed
    BY <1>1, <1>3, <1>5, <2>2, <1>2
  <2>3. \A r \in 1..c : r < c => ~IsLast(k, r, M)
    BY <1>1, <1>2
  <2>4. ASSUME status' = "finished"
        PROVE  IsLast(k, c, M) /\ (\A m \in M : m.status # "pending") /\ \A g \in G : Settled(g)
    <3>1. CASE t.plan.complete
      <4>1. PICK r \in 1..c : IsLast(k, r, matches) /\ Covers(D, At(r, matches))
        BY <1>3, <3>1
      <4>2. r = c
        BY <1>2, <4>1, <1>1
      <4>3. IsLast(k, c, M)
        BY <1>1, <4>1, <4>2
      <4>4. \A m \in M : m.status # "pending"
        BY <1>1, <1>4, <1>5, <4>1, <4>2
      <4>5. \A g \in G : Settled(g)
        BY <1>1, <1>3, <1>5, <3>1 DEF Settled
      <4> QED BY <4>3, <4>4, <4>5
    <3>2. CASE ~t.plan.complete
      BY <2>4, <3>2, <1>1, <1>2, <1>5 DEF Settled
    <3> QED BY <3>1, <3>2
  <2> QED BY <1>5, <2>1, <2>2, <2>3, <2>4 DEF OrderRows, G, M
<1>6. CASE Adds(t.plan, c) /\ d = c + 1
  <2>1. ~IsLast(k, c, matches) /\ Covers(D, At(c, matches)) /\ (k.format = "swiss" => OverTill(c, games, t.game))
    BY <1>1, <1>3, <1>6
  <2>2. status' # "finished"
    <3>1. ~t.plan.complete
      BY <1>1, <1>3, <1>6, AddsOnce
    <3> QED BY <1>2, <2>1, <3>1
  <2>3. ASSUME NEW m \in M, m.round < d PROVE m.status # "pending"
    BY <1>1, <1>6, <2>3, <1>4, <2>1
  <2>4. ASSUME k.format = "swiss", NEW g \in G, g.round < d PROVE g.result # Unplayed
    BY <1>1, <1>6, <2>4, <1>3, <2>1 DEF OverTill
  <2>5. ASSUME NEW r \in 1..d, r < d PROVE ~IsLast(k, r, M)
    BY <1>1, <1>6, <2>5, <1>2, <2>1
  <2> QED BY <2>2, <2>3, <2>4, <2>5 DEF OrderRows, G, M
<1> QED BY <1>5, <1>6 DEF Effect

(* What the other transactions are about to write stays in order.          *)
LEMMA OrderPlanWrite ==
    ASSUME NEW k, NEW c, NEW t, NEW d, Effect(t, c, d), OrderRows(k, c, games, matches, status),
           OrderPlan(k, c, games, matches, t), NEW u, OrderPlan(k, c, games, matches, u),
           NEW n, PlanSound(u.plan, n, c, matches)
    PROVE  OrderPlan(k, d, games', matches', u)
<1> DEFINE G == games'
           M == matches'
           D == u.plan.decided
<1>1. /\ c \in Nat \ {0} /\ c \in 1..c /\ d \in Nat /\ d >= c
      /\ \A m \in M : m.round \in 1..d
      /\ \A m \in M : m.round \in 1..c /\ m.status = "pending" => m \in matches
      /\ \A g \in G : g.round \in 1..d
      /\ \A g \in G : \/ g \in games /\ g # t.game
                      \/ g.result # Unplayed
                      \/ g.kind \in Kinds /\ t.plan.ties # {}
                      \/ g.round = c + 1 /\ d = c + 1
      /\ \A r \in 1..c : IsLast(k, r, M) <=> IsLast(k, r, matches)
  BY DEF Effect
<1>2. \A r \in 1..c : r < c => ~IsLast(k, r, matches)
  BY DEF OrderRows
<1>3. /\ \A r \in 1..c : Adds(u.plan, r) =>
            /\ ~IsLast(k, r, matches) /\ Covers(D, At(r, matches))
            /\ k.format = "swiss" => OverTill(r, games, u.game)
      /\ u.plan.complete => /\ AddsNothing(u.plan)
                            /\ \E r \in 1..c : IsLast(k, r, matches) /\ Covers(D, At(r, matches))
                            /\ \A g \in games : Settled(g) \/ g = u.game
      /\ k.format = "swiss" => u.plan.ties = {}
  BY DEF OrderPlan
<1>4. k.format = "swiss" => t.plan.ties = {}
  BY DEF OrderPlan
<1>5. AddsNothing(u.plan) \/ \E r \in 1..c : Adds(u.plan, r)
  BY DEF PlanSound, PlanFits
<1>6. ASSUME NEW r \in 1..c, Covers(D, At(r, matches)) PROVE Covers(D, At(r, M))
  <2> SUFFICES ASSUME NEW m \in At(r, M), m.status = "pending" PROVE \E x \in D : MatchKey(x) = MatchKey(m)
    BY DEF Covers
  <2>1. m \in At(r, matches)
    BY <1>1 DEF At
  <2> QED BY <1>6, <2>1 DEF Covers
<1>7. 1..c \subseteq 1..d /\ 1..d \subseteq Nat
  BY <1>1
<1> HIDE DEF G, M, D
<1>8. ASSUME NEW r \in 1..d, Adds(u.plan, r)
      PROVE  /\ ~IsLast(k, r, M) /\ Covers(D, At(r, M))
             /\ k.format = "swiss" => OverTill(r, G, u.game)
  <2>1. r \in 1..c
    <3>1. ~AddsNothing(u.plan)
      BY <1>7, <1>8, AddsOnce
    <3>2. PICK s \in 1..c : Adds(u.plan, s)
      BY <1>5, <3>1
    <3>3. r = s
      BY <1>7, <1>8, <3>2, AddsOnce
    <3> QED BY <3>3
  <2>2. ~IsLast(k, r, M) /\ Covers(D, At(r, M))
    BY <1>1, <1>3, <1>6, <1>8, <2>1
  <2>3. ASSUME k.format = "swiss", NEW g \in G, g.round <= r, g # u.game PROVE g.result # Unplayed
    <3>1. g.round # c + 1
      BY <1>1, <1>7, <2>1, <2>3
    <3>2. g \in games \/ g.result # Unplayed
      BY <1>1, <1>4, <2>3, <3>1
    <3>3. OverTill(r, games, u.game)
      BY <1>3, <1>8, <2>1, <2>3
    <3> QED BY <2>3, <3>2, <3>3 DEF OverTill
  <2> QED BY <2>2, <2>3 DEF OverTill
<1>9. ASSUME u.plan.complete
      PROVE  /\ AddsNothing(u.plan)
             /\ \E r \in 1..d : IsLast(k, r, M) /\ Covers(D, At(r, M))
             /\ \A g \in G : Settled(g) \/ g = u.game
  <2>1. PICK r \in 1..c : IsLast(k, r, matches) /\ Covers(D, At(r, matches))
    BY <1>3, <1>9
  <2>2. r = c
    BY <1>2, <2>1, <1>1
  <2>3. d = c
    BY <1>1, <2>1, <2>2 DEF OrderPlan, Effect
  <2>4. IsLast(k, r, M) /\ Covers(D, At(r, M)) /\ r \in 1..d
    BY <1>1, <1>6, <1>7, <2>1
  <2>5. \A g \in G : Settled(g) \/ g = u.game
    <3> SUFFICES ASSUME NEW g \in G PROVE Settled(g) \/ g = u.game
      OBVIOUS
    <3>1. d # c + 1
      BY <1>1, <2>3
    <3>2. g \in games \/ g.result # Unplayed \/ g.kind \in Kinds
      BY <1>1, <3>1
    <3> QED BY <1>3, <1>9, <3>2 DEF Settled
  <2> QED BY <1>3, <1>9, <2>4, <2>5
<1> QED BY <1>3, <1>8, <1>9 DEF OrderPlan, G, M, D

(* What an advance writes is in order.                                     *)
Advice(a, k, c, M, view) ==
    /\ a.matches # {} => ~IsLast(k, c, M) /\ Covers(a.decided, At(c, M))
    /\ a.complete => AddsNothing(a) /\ IsLast(k, c, M) /\ Covers(a.decided, At(c, M))
    /\ k.format = "swiss" =>
          /\ a.ties = {}
          /\ a.matches # {} => \A g \in view : g.round = c => g.result # Unplayed

LEMMA SwissCovers ==
    ASSUME NEW S, \A m \in S : IsMatch(m), NEW winner, NEW D,
           \A m \in S : m.status = "pending" => Decided(m, winner[m]) \in D
    PROVE  Covers(D, S)
<1> SUFFICES ASSUME NEW m \in S, m.status = "pending" PROVE \E d \in D : MatchKey(d) = MatchKey(m)
  BY DEF Covers
<1> DEFINE d == Decided(m, winner[m])
<1>1. Fields(d, m.round, m.index, m.first, m.second, "finished", winner[m])
  BY DecidedIs
<1>2. d \in D
  OBVIOUS
<1> HIDE DEF d
<1>3. MatchKey(d) = MatchKey(m)
  BY <1>1, Keys DEF Fields
<1> QED BY <1>2, <1>3

LEMMA SwissOver ==
    ASSUME NEW n, NEW c, NEW G, NEW M, Sound(n, c, G, M), NEW view, Mirrors(G, view),
           \A m \in At(c, M) : ~InPlay(view, m)
    PROVE  \A g \in view : g.round = c => g.result # Unplayed
<1> SUFFICES ASSUME NEW g \in view, g.round = c PROVE g.result # Unplayed
  OBVIOUS
<1>1. PICK x \in G : SameRow(x, g)
  BY DEF Mirrors
<1>2. PICK m \in M : Plays(x, m)
  BY DEF Sound, GamesOK
<1>3. g.round = m.round /\ g.match = m.index /\ m.status # "bye"
  BY <1>1, <1>2 DEF SameRow, Plays
<1>4. m \in At(c, M)
  BY <1>3 DEF At
<1>5. Over(GamesOfMatch(view, m))
  BY <1>3, <1>4 DEF InPlay
<1> QED BY <1>3, <1>5 DEF Over, GamesOfMatch

LEMMA SwissWrites ==
    ASSUME NEW D, NEW M, NEW G
    PROVE  /\ Writes([Nothing EXCEPT !.decided = D, !.complete = TRUE], D, {}, {}, {}, 0, TRUE)
           /\ Writes([Nothing EXCEPT !.decided = D, !.matches = M, !.games = G], D, M, G, {}, 0, FALSE)
<1> DEFINE p == [Nothing EXCEPT !.decided = D]
           q == [p EXCEPT !.complete = TRUE]
           r == [p EXCEPT !.matches = M]
           s == [r EXCEPT !.games = G]
<1>1. Writes(Nothing, {}, {}, {}, {}, 0, FALSE)
  BY DEF Nothing, Writes
<1>2. Writes(p, D, {}, {}, {}, 0, FALSE)
  BY <1>1, WritesSteps
<1>3. [Nothing EXCEPT !.decided = D, !.complete = TRUE] = q
  OBVIOUS
<1>4. [Nothing EXCEPT !.decided = D, !.matches = M, !.games = G] = s
  OBVIOUS
<1> HIDE DEF p
<1>5. Writes(q, D, {}, {}, {}, 0, TRUE)
  BY <1>2, WritesComplete
<1>6. Writes(r, D, M, {}, {}, 0, FALSE)
  BY <1>2, WritesSteps
<1> HIDE DEF q, r
<1>7. Writes(s, D, M, G, {}, 0, FALSE)
  BY <1>6, WritesSteps
<1> HIDE DEF s
<1> QED BY <1>3, <1>4, <1>5, <1>7

LEMMA SwissAdvice ==
    ASSUME NEW k \in Configs, k.format = "swiss", NEW c, NEW G, NEW M, Sound(k.n, c, G, M),
           NEW view, Mirrors(G, view), NEW a, a = SwissPlan(k, view, M)
    PROVE  Advice(a, k, c, M, view)
<1> DEFINE current == CurrentRound(M)
           pending == {m \in current : m.status = "pending"}
           round == (CHOOSE m \in current : TRUE).round
           winner == [m \in pending |-> Victor(CHOOSE g \in GamesOfMatch(view, m) : TRUE)]
           decided == {Decided(m, Victor(CHOOSE g \in GamesOfMatch(view, m) : TRUE)) : m \in pending}
           b1 == \E m \in current : InPlay(view, m)
           b2 == round >= k.per
           next == SwissRound(k.n, round + 1, view, M)
           a1 == [Nothing EXCEPT !.decided = decided, !.complete = TRUE]
           a2 == [Nothing EXCEPT !.decided = decided, !.matches = next.matches, !.games = next.games]
<1>1. a = IF b1 THEN Nothing ELSE IF b2 THEN a1 ELSE a2
  BY DEF SwissPlan
<1>2. Rows(c, G, M) /\ c \in Nat \ {0} /\ (\E m \in M : m.round = c) /\ \A m \in M : IsMatch(m)
  BY DEF Sound, Rows
<1>3. current = At(c, M) /\ round = c
  BY <1>2, CurrentRoundIs DEF At
<1>4. Covers(decided, At(c, M))
  <2>1. \A m \in At(c, M) : m.status = "pending" => Decided(m, winner[m]) \in decided
    BY <1>3
  <2>2. \A m \in At(c, M) : IsMatch(m)
    BY <1>2 DEF At
  <2> HIDE DEF winner, decided
  <2> QED BY <2>1, <2>2, SwissCovers
<1>5. b2 <=> IsLast(k, c, M)
  BY <1>3 DEF IsLast
<1>6. ~b1 => \A g \in view : g.round = c => g.result # Unplayed
  <2>1. ~b1 => \A m \in At(c, M) : ~InPlay(view, m)
    BY <1>3
  <2> HIDE DEF b1
  <2> QED BY <2>1, SwissOver
<1> DEFINE x == next.matches  y == next.games
<1>7. Writes(Nothing, {}, {}, {}, {}, 0, FALSE)
  BY DEF Nothing, Writes
<1>a. Writes(a1, decided, {}, {}, {}, 0, TRUE)
  <2> HIDE DEF decided
  <2> QED BY SwissWrites
<1>b. Writes(a2, decided, x, y, {}, 0, FALSE)
  <2> HIDE DEF decided, x, y
  <2>1. a2 = [Nothing EXCEPT !.decided = decided, !.matches = x, !.games = y]
    BY DEF x, y
  <2> HIDE DEF a2
  <2> QED BY <2>1, SwissWrites
<1> HIDE DEF current, pending, round, winner, decided, b1, b2, next, a1, a2, x, y
<1>8. CASE b1
  BY <1>1, <1>7, <1>8, WritesFields DEF Advice
<1>9. CASE ~b1 /\ b2
  <2>1. Writes(a, decided, {}, {}, {}, 0, TRUE)
    BY <1>1, <1>9, <1>a
  <2>2. a.matches = {} /\ a.games = {} /\ a.decided = decided /\ a.ties = {}
    BY <2>1, WritesFields
  <2> QED BY <1>4, <1>5, <1>9, <2>2 DEF Advice, AddsNothing
<1>10. CASE ~b1 /\ ~b2
  <2>1. Writes(a, decided, x, y, {}, 0, FALSE)
    BY <1>1, <1>10, <1>b
  <2>2. a.complete = FALSE /\ a.decided = decided /\ a.ties = {}
    BY <2>1, WritesFields
  <2> QED BY <1>4, <1>5, <1>6, <1>10, <2>2 DEF Advice
<1> QED BY <1>8, <1>9, <1>10

LEMMA KnockoutAdvice ==
    ASSUME NEW k \in Configs, k.format = "knockout", NEW c, NEW G, NEW M, Sound(k.n, c, G, M),
           KnockoutRows(c, M), NEW view, NEW a, KnockoutWrites(a, c, M)
    PROVE  Advice(a, k, c, M, view)
<1> DEFINE S == At(c, M)
<1>1. Cardinality(S) \in Nat \ {0} /\ Indices(S) = 1..Cardinality(S)
  BY LastRoundIs
<1>2. IsLast(k, c, M) <=> \A m \in S : m.index = 1
  BY DEF IsLast
<1> HIDE DEF S
<1>3. IsLast(k, c, M) <=> Indices(S) \subseteq {1}
  BY <1>2 DEF Indices
<1>4. \A K \in Nat \ {0} : 1..K \subseteq {1} <=> K = 1
  <2> SUFFICES ASSUME NEW K \in Nat \ {0} PROVE 1..K \subseteq {1} <=> K = 1
    OBVIOUS
  <2>1. K \in 1..K
    OBVIOUS
  <2> QED BY <2>1
<1>5. IsLast(k, c, M) <=> Cardinality(S) = 1
  BY <1>1, <1>3, <1>4
<1> QED BY <1>5 DEF Advice, KnockoutWrites, S

(* A plan keeps the order of what it was computed from.                    *)
LEMMA PlanAdvice ==
    ASSUME NEW k \in Configs, k.format \in {"swiss", "knockout"}, NEW c, NEW G, NEW M,
           PlayRows(k, c, G, M), NEW view, Mirrors(G, view), IsFiniteSet(view),
           NEW plan, plan = Plan(k, view, M)
    PROVE  \E a : /\ plan = [a EXCEPT !.complete = Ends(a, view)]
                  /\ AdvanceSound(a, k.n, c, M) /\ Advice(a, k, c, M, view)
<1>1. Sound(k.n, c, G, M) /\ (k.format = "knockout" => KnockoutRows(c, M))
  BY DEF PlayRows
<1>2. CASE k.format = "swiss"
  <2> DEFINE a == SwissPlan(k, view, M)
  <2>1. plan = [a EXCEPT !.complete = Ends(a, view)]
    BY <1>2 DEF Plan
  <2>2. AdvanceSound(a, k.n, c, M) /\ Advice(a, k, c, M, view)
    BY <1>1, <1>2, SwissAdvanceSound, SwissAdvice
  <2> HIDE DEF a
  <2> QED BY <2>1, <2>2
<1>3. CASE k.format = "knockout"
  <2> DEFINE a == KnockoutPlan(k, view, M)
  <2>1. plan = [a EXCEPT !.complete = Ends(a, view)]
    BY <1>3 DEF Plan
  <2>2. AdvanceSound(a, k.n, c, M) /\ KnockoutWrites(a, c, M)
    BY <1>1, <1>3, KnockoutAdvanceSound
  <2> HIDE DEF a
  <2>3. Advice(a, k, c, M, view)
    BY <1>1, <1>3, <2>2, KnockoutAdvice
  <2> QED BY <2>1, <2>2, <2>3
<1> QED BY <1>2, <1>3

LEMMA PlanFields ==
    ASSUME NEW a, NEW n, NEW c, NEW M, AdvanceSound(a, n, c, M), NEW end,
           NEW plan, plan = [a EXCEPT !.complete = end]
    PROVE  /\ plan.decided = a.decided /\ plan.matches = a.matches /\ plan.games = a.games
           /\ plan.ties = a.ties /\ plan.complete = end
           /\ AddsNothing(a) \/ NewRound(n, c + 1, a.games, a.matches)
<1>1. PICK D, G, N, T, last, e :
         Writes(a, D, N, G, T, last, e) /\ ((G = {} /\ N = {}) \/ NewRound(n, c + 1, G, N))
  BY DEF AdvanceSound
<1>2. Writes(a, D, N, G, T, last, e)
  BY <1>1
<1>3. Writes(plan, D, N, G, T, last, end)
  BY <1>2, WritesComplete
<1>4. a.decided = D /\ a.matches = N /\ a.games = G /\ a.ties = T
  BY <1>2, WritesFields
<1>5. plan.decided = D /\ plan.matches = N /\ plan.games = G /\ plan.ties = T /\ plan.complete = end
  BY <1>3, WritesFields
<1> QED BY <1>1, <1>4, <1>5 DEF AddsNothing

LEMMA PlanOrder ==
    ASSUME NEW k \in Configs, k.format \in {"swiss", "knockout"}, NEW c, NEW G, NEW M,
           PlayRows(k, c, G, M), NEW state, OrderRows(k, c, G, M, state),
           NEW view, Mirrors(G, view), IsFiniteSet(view),
           NEW t, t.plan = Plan(k, view, M), \A g \in G : g \in view \/ g = t.game
    PROVE  OrderPlan(k, c, G, M, t)
<1> DEFINE plan == t.plan
<1>1. PICK a : /\ plan = [a EXCEPT !.complete = Ends(a, view)]
               /\ AdvanceSound(a, k.n, c, M) /\ Advice(a, k, c, M, view)
  BY PlanAdvice
<1> DEFINE end == Ends(a, view)
<1>2. c \in Nat \ {0} /\ c \in 1..c /\ 1..c \subseteq Nat /\ \A g \in G : g.round \in 1..c
  BY DEF PlayRows, Sound, Rows
<1>3. end => a.complete /\ Over(view)
  BY DEF Ends
<1>4. plan = [a EXCEPT !.complete = end]
  BY <1>1
<1> HIDE DEF end, plan
<1>5. /\ plan.decided = a.decided /\ plan.matches = a.matches /\ plan.games = a.games
      /\ plan.ties = a.ties /\ plan.complete = end
      /\ AddsNothing(a) \/ NewRound(k.n, c + 1, a.games, a.matches)
  BY <1>1, <1>4, PlanFields
<1>6. /\ a.matches # {} => ~IsLast(k, c, M) /\ Covers(a.decided, At(c, M))
      /\ a.complete => AddsNothing(a) /\ IsLast(k, c, M) /\ Covers(a.decided, At(c, M))
      /\ k.format = "swiss" =>
            /\ a.ties = {}
            /\ a.matches # {} => \A g \in view : g.round = c => g.result # Unplayed
  BY <1>1 DEF Advice
<1>7. ASSUME NEW r \in 1..c, Adds(plan, r)
      PROVE  r = c /\ a.matches # {}
  <2>1. ~AddsNothing(plan) /\ \A s \in Nat : Adds(plan, s) => s = r
    BY <1>2, <1>7, AddsOnce
  <2>2. NewRound(k.n, c + 1, plan.games, plan.matches)
    BY <1>5, <2>1 DEF AddsNothing
  <2>3. Adds(plan, c)
    BY <2>2, NewRoundAdds
  <2>4. r = c
    BY <1>2, <2>1, <2>3
  <2>5. plan.matches # {}
    BY <2>3 DEF Adds
  <2> QED BY <1>5, <2>4, <2>5
<1>8. ASSUME k.format = "swiss", a.matches # {} PROVE OverTill(c, G, t.game)
  <2> SUFFICES ASSUME NEW g \in G, g # t.game PROVE g.result # Unplayed
    BY DEF OverTill
  <2>1. g \in view
    OBVIOUS
  <2>2. g.round < c \/ g.round = c
    BY <1>2
  <2> QED BY <1>6, <1>8, <2>1, <2>2 DEF OrderRows
<1>9. ASSUME NEW r \in 1..c, Adds(plan, r)
      PROVE  /\ ~IsLast(k, r, M) /\ Covers(plan.decided, At(r, M))
             /\ k.format = "swiss" => OverTill(r, G, t.game)
  BY <1>5, <1>6, <1>7, <1>8, <1>9
<1>10. ASSUME plan.complete
       PROVE  /\ AddsNothing(plan)
              /\ \E r \in 1..c : IsLast(k, r, M) /\ Covers(plan.decided, At(r, M))
              /\ \A g \in G : Settled(g) \/ g = t.game
  BY <1>3, <1>5, <1>10, <1>6, <1>2 DEF AddsNothing, Over, Settled
<1> QED BY <1>5, <1>6, <1>9, <1>10 DEF OrderPlan, plan

(* The rounds are in order, and stay so whichever transactions commit.     *)
OrderFits(c) ==
    /\ PlayFits(c) /\ OrderRows(config, c, games, matches, status)
    /\ \A t \in transactions : OrderPlan(config, c, games, matches, t)
Ordered == HasMatches => \E c : OrderFits(c)

LEMMA OrderBegins ==
    ASSUME Writers, Ordered, NEW t, NEW view, Begins(t, view),
           \/ view = games
           \/ t.game \in games /\ view = With(games, t.game, t.result)
    PROVE  Ordered'
<1> SUFFICES ASSUME HasMatches' PROVE \E c : OrderFits(c)'
  BY DEF Ordered
<1>1. config' = config /\ games' = games /\ matches' = matches /\ status = "running" /\ status' = status
      /\ transactions' = transactions \cup {t} /\ t.plan = Plan(config, view, matches)
  BY DEF Begins
<1>2. config \in Configs /\ config.format \in {"swiss", "knockout"}
  BY <1>1 DEF Writers, HasMatches
<1>3. PICK c : OrderFits(c)
  BY <1>1, <1>2 DEF Ordered, HasMatches
<1>4. PlayRows(config, c, games, matches) /\ OrderRows(config, c, games, matches, status)
  BY <1>3 DEF OrderFits, PlayFits
<1>5. IsFiniteSet(games) /\ \A g \in games : IsRow(g)
  BY <1>4 DEF PlayRows, Sound, Rows
<1>6. Mirrors(games, view) /\ IsFiniteSet(view) /\ \A g \in games : g \in view \/ g = t.game
  <2>1. CASE view = games
    BY <1>5, <2>1, SelfMirrors
  <2>2. CASE t.game \in games /\ view = With(games, t.game, t.result)
    <3>1. Mirrors(games, view) /\ IsFiniteSet(view)
      BY <1>5, <2>2, WithMirrors, WithIs
    <3> QED BY <2>2, <3>1 DEF With
  <2> QED BY <2>1, <2>2
<1>7. PlayPlan(config, c, matches, t.plan)
  BY <1>1, <1>2, <1>4, <1>6, PlayPlanIs
<1>8. OrderPlan(config, c, games, matches, t)
  BY <1>1, <1>2, <1>4, <1>6, PlanOrder
<1>9. OrderFits(c)'
  BY <1>1, <1>3, <1>7, <1>8 DEF OrderFits, PlayFits
<1> QED BY <1>9

(* The round that is over when a commit reads it again.                    *)
LEMMA RereadOver ==
    ASSUME NEW n, NEW c, Sound(n, c, games, matches), KnockoutRows(c, matches),
           NEW plan, PlanSound(plan, n, c, matches), \A d \in plan.decided : HasWinner(d),
           NEW r \in 1..c, Covers(plan.decided, At(r, matches)), NEW S, S = At(r, matches),
           NEW over, over = {m \in Deciding(matches, plan.decided) : m.round = r}
    PROVE  /\ IsFiniteSet(over) /\ Distinct(over) /\ Apart(over) /\ Indices(over) = Indices(S)
           /\ \A o \in over : o.winner \in 1..n /\ o.winner \in Rivals(o) /\ o.status # "pending"
<1> DEFINE E == plan.decided
           D == {d \in Added(matches, E) : d.round = r}
<1>1. /\ IsFiniteSet(S) /\ Distinct(S) /\ Cardinality(S) \in Nat \ {0} /\ S \subseteq matches
      /\ Indices(S) = 1..Cardinality(S) /\ Apart(S)
      /\ \A m \in S : MatchOK(n, m) /\ HasWinner(m) /\ m.round = r
  BY RoundIs
<1>2. /\ IsFiniteSet(E) /\ \A d \in E : d.status = "finished" /\ HasWinner(d) /\ \E m \in matches : Decides(d, m)
      /\ \A d, e \in E : MatchKey(d) = MatchKey(e) => d = e
      /\ \A m \in S : m.status # "pending" \/ \E d \in E : MatchKey(d) = MatchKey(m)
      /\ \A m, l \in matches : MatchKey(m) = MatchKey(l) => m = l
  BY DEF PlanSound, PlanFits, Covers, Sound, MatchesOK
<1> HIDE DEF E
<1>3. IsFiniteSet(D) /\ D \subseteq E
  <2>1. D \subseteq E
    BY DEF Added
  <2> HIDE DEF D
  <2> QED BY <1>2, <2>1, FS_Subset
<1>4. over = {m \in S : m.status # "pending"} \cup D
  <2>1. ASSUME NEW m \in Kept(matches, E), m.round = r PROVE m \in S /\ m.status # "pending"
    BY <1>2, <2>1 DEF Kept, At
  <2>2. ASSUME NEW m \in S, m.status # "pending" PROVE m \in Kept(matches, E) /\ m.round = r
    BY <1>1, <2>2 DEF Kept
  <2>3. over = {m \in Kept(matches, E) : m.round = r} \cup D
    BY DEF Deciding, Kept, Added, E
  <2> QED BY <2>1, <2>2, <2>3
<1>5. ASSUME NEW d \in D
      PROVE  \E m \in S : Decides(d, m) /\ m.status = "pending"
  <2>1. PICK m \in matches : Decides(d, m)
    BY <1>2, <1>3
  <2>2. MatchKey(d) = MatchKey(m) /\ m.round = r
    BY <2>1, Keys DEF Decides, SameMatch
  <2>3. m.status = "pending"
    BY <1>2, <2>2 DEF Added, Kept
  <2> QED BY <2>1, <2>2, <2>3 DEF At
<1>6. Decisions(D, S, S)
  BY <1>2, <1>3, <1>5 DEF Decisions
<1>7. Distinct(D)
  <2> SUFFICES ASSUME NEW d \in D, NEW e \in D, d.index = e.index PROVE d = e
    BY DEF Distinct
  <2>1. MatchKey(d) = MatchKey(e)
    BY Keys
  <2> QED BY <1>2, <1>3, <2>1
<1>8. ASSUME NEW m \in S PROVE \E o \in over : o.index = m.index
  <2>1. CASE m.status # "pending"
    BY <1>4, <2>1
  <2>2. CASE m.status = "pending"
    <3>1. PICK d \in E : MatchKey(d) = MatchKey(m)
      BY <1>2, <2>2
    <3>2. d.round = r /\ d.index = m.index
      BY <1>1, <3>1, Keys
    <3>3. \A l \in Kept(matches, E) : MatchKey(d) # MatchKey(l)
      BY <1>1, <1>2, <2>2, <3>1 DEF Kept
    <3> QED BY <1>4, <3>1, <3>2, <3>3 DEF Added
  <2> QED BY <2>1, <2>2
<1>9. ASSUME NEW o \in over PROVE \E m \in S : m.index = o.index
  BY <1>4, <1>5, <1>9 DEF Decides, SameMatch
<1>10. Indices(over) = Indices(S)
  BY <1>8, <1>9 DEF Indices
<1>11. \A o \in over : o.status # "pending"
  BY <1>2, <1>3, <1>4
<1> HIDE DEF D
<1>12. /\ IsFiniteSet(over) /\ Distinct(over) /\ Apart(over)
       /\ \A o \in over : o.winner \in 1..n /\ o.winner \in Rivals(o)
  BY <1>1, <1>3, <1>4, <1>6, <1>7, OverIs
<1> QED BY <1>10, <1>11, <1>12

(* What it makes of K matches.                                             *)
ReadAgain(t, c, r, over, K) ==
    /\ r \in 1..c /\ Adds(t.plan, r) /\ ~t.plan.complete
    /\ ~IsLast(config, r, matches) /\ Covers(t.plan.decided, At(r, matches))
    /\ over = {m \in Deciding(matches, t.plan.decided) : m.round = r}
    /\ IsFiniteSet(over) /\ Distinct(over) /\ Apart(over)
    /\ \A o \in over : o.winner \in 1..config.n /\ o.winner \in Rivals(o) /\ o.status # "pending"
    /\ K \in Nat /\ K >= 2 /\ Indices(over) = 1..K /\ Indices(At(r, matches)) = 1..K
    /\ Additions(t.plan) = NextRound(config, r, over)

LEMMA RoundReadAgain ==
    ASSUME config \in Configs, config.format = "knockout", NEW c, PlayRows(config, c, games, matches),
           NEW t, PlayPlan(config, c, matches, t.plan), OrderPlan(config, c, games, matches, t),
           t.plan.matches # {}
    PROVE  \E r, over, K : ReadAgain(t, c, r, over, K)
<1> DEFINE p == t.plan
           n == config.n
           M == matches
<1>1. /\ Sound(n, c, games, M) /\ KnockoutRows(c, M) /\ PlanSound(p, n, c, M)
      /\ \A d \in p.decided : HasWinner(d)
  BY DEF PlayRows, PlayPlan, KnockoutWritten
<1>2. PICK r \in 1..c : Adds(p, r)
  BY <1>1 DEF PlanSound, PlanFits, AddsNothing
<1>3. (CHOOSE m \in p.matches : TRUE).round - 1 = r
  BY <1>1, <1>2 DEF Sound, Rows, Adds
<1>4. ~IsLast(config, r, M) /\ Covers(p.decided, At(r, M)) /\ ~p.complete
  BY <1>2 DEF AddsNothing, OrderPlan
<1> DEFINE over == {m \in Deciding(M, p.decided) : m.round = r}
           S == At(r, M)
           K == Cardinality(S)
<1>5. Additions(p) = NextRound(config, r, over)
  BY <1>3 DEF Additions
<1>6. /\ IsFiniteSet(over) /\ Distinct(over) /\ Apart(over) /\ Indices(over) = Indices(S)
      /\ \A o \in over : o.winner \in 1..n /\ o.winner \in Rivals(o) /\ o.status # "pending"
  BY <1>1, <1>4, RereadOver
<1>7. K \in Nat /\ K >= 2 /\ Indices(S) = 1..K
  <2>1. K \in Nat \ {0} /\ Indices(S) = 1..K
    BY <1>1, RoundIs
  <2>2. PICK m \in S : m.index # 1
    BY <1>4 DEF IsLast
  <2>3. m.index \in 1..K
    BY <2>1, <2>2 DEF Indices
  <2> HIDE DEF K
  <2> QED BY <2>1, <2>2, <2>3
<1>8. ReadAgain(t, c, r, over, K)
  <2>1. over = {m \in Deciding(matches, t.plan.decided) : m.round = r}
    OBVIOUS
  <2> HIDE DEF over, K
  <2> QED BY <1>2, <1>4, <1>5, <1>6, <1>7, <2>1 DEF ReadAgain
<1> QED BY <1>8

LEMMA RereadFits ==
    ASSUME config \in Configs, config.format = "knockout", NEW c, PlayRows(config, c, games, matches),
           NEW t, PlayPlan(config, c, matches, t.plan), OrderPlan(config, c, games, matches, t),
           t.plan.matches # {}, NEW u, Rewrites(t, u)
    PROVE  PlayPlan(config, c, matches, u.plan) /\ OrderPlan(config, c, games, matches, u)
<1> DEFINE p == t.plan
           q == u.plan
           n == config.n
           M == matches
<1>1. PlanSound(p, n, c, M) /\ \A d \in p.decided : HasWinner(d)
  BY DEF PlayPlan, KnockoutWritten
<1>2. PICK r, over, K : ReadAgain(t, c, r, over, K)
  BY RoundReadAgain
<1>3. r \in Nat /\ r \in 1..c
  BY <1>2 DEF ReadAgain, PlayRows, Sound, Rows
<1>4. ~IsLast(config, r, M) /\ Covers(p.decided, At(r, M)) /\ ~p.complete
  BY <1>2 DEF ReadAgain
<1> DEFINE next == NextRound(config, r, over)
<1>6. /\ q.decided = p.decided /\ q.ties = p.ties /\ q.last = p.last /\ q.complete = p.complete
      /\ q.matches = next.matches /\ q.games = next.games
  BY <1>2 DEF Rewrites, ReadAgain
<1> HIDE DEF next
<1>9. /\ NewRound(n, r + 1, next.games, next.matches) /\ Apart(next.matches)
      /\ \E m \in next.matches : m.status # "bye"
  BY <1>2, NextRoundIs DEF next, ReadAgain
<1>10. NewRound(n, r + 1, q.games, q.matches)
  BY <1>6, <1>9
<1>11. Adds(q, r) /\ ~AddsNothing(q) /\ \A s \in Nat : Adds(q, s) => s = r
  BY <1>10, NewRoundAdds, <1>3, AddsOnce
<1>12. 1..c \subseteq Nat
  OBVIOUS
<1> HIDE DEF p, q, n, M
<1>13. PlanSound(q, n, c, M)
  <2>1. PlanFits(q, c, M)
    BY <1>1, <1>3, <1>6, <1>11 DEF PlanSound, PlanFits
  <2> QED BY <1>1, <1>6, <1>10, <1>11, <1>12, <2>1 DEF PlanSound
<1>14. KnockoutWritten(q)
  BY <1>1, <1>6, <1>9 DEF KnockoutWritten
<1>15. OrderPlan(config, c, games, M, u)
  BY <1>4, <1>6, <1>11, <1>12 DEF OrderPlan, q
<1> QED BY <1>13, <1>14, <1>15 DEF PlayPlan, q, n, M

(* What a commit writes fits what is there.                                *)
Committed(c, t, u, d, ties, S, N) ==
    /\ Rewrites(t, u) /\ Write(u) /\ WriteParts(u, config.n, c, d, ties, S, N)
    /\ PlayPlan(config, c, matches, u.plan) /\ OrderPlan(config, c, games, matches, u)

LEMMA CommittedIs ==
    ASSUME Writers, status # "scheduled", config.format \in {"swiss", "knockout"},
           NEW c, OrderFits(c), NEW t \in transactions, Commit(t)
    PROVE  \E u, d, ties, S, N : Committed(c, t, u, d, ties, S, N)
<1>1. /\ PlayRows(config, c, games, matches) /\ Sound(config.n, c, games, matches)
      /\ PlayPlan(config, c, matches, t.plan) /\ OrderPlan(config, c, games, matches, t)
      /\ config \in Configs
  BY DEF OrderFits, PlayFits, PlayRows, Writers
<1>2. \E u : /\ Rewrites(t, u) /\ Write(u) /\ PlayPlan(config, c, matches, u.plan)
             /\ OrderPlan(config, c, games, matches, u)
  <2>1. CASE config.format = "knockout" /\ t.plan.matches # {}
    BY CommitWrites, RereadIs, <1>1, <2>1, RereadFits
  <2>2. CASE config.format # "knockout" \/ t.plan.matches = {}
    BY <2>2, CommitWrites, <1>1 DEF Rewrites, Additions
  <2> QED BY <2>1, <2>2
<1>3. PICK u : /\ Rewrites(t, u) /\ Write(u) /\ PlayPlan(config, c, matches, u.plan)
               /\ OrderPlan(config, c, games, matches, u)
  BY <1>2
<1>4. u.game = NoGame \/ u.game \in games
  BY <1>3 DEF Rewrites, Writers
<1>5. \E d, ties, S, N : WriteParts(u, config.n, c, d, ties, S, N)
  BY <1>1, <1>3, <1>4, WritePartsAre DEF PlayPlan
<1> QED BY <1>3, <1>5 DEF Committed

LEMMA CommittedFits ==
    ASSUME Writers, status # "scheduled", NEW c, OrderFits(c), NEW t \in transactions, Commit(t),
           NEW u, NEW d, NEW ties, NEW S, NEW N, Committed(c, t, u, d, ties, S, N)
    PROVE  OrderFits(d)' /\ Effect(u, c, d)
<1> DEFINE k == config
<1>1. /\ config' = config /\ transactions' = transactions \ {t}
      /\ status' = IF u.plan.complete THEN "finished" ELSE status
  BY CommitWrites DEF Committed, Rewrites
<1>2. u.game = NoGame \/ (u.game \in games /\ u.result \in Results)
  BY DEF Committed, Rewrites, Writers
<1>3. /\ PlayRows(k, c, games, matches) /\ PlayPlan(k, c, matches, u.plan)
      /\ OrderRows(k, c, games, matches, status) /\ OrderPlan(k, c, games, matches, u)
      /\ Sound(k.n, c, games, matches) /\ PlanSound(u.plan, k.n, c, matches)
      /\ WriteParts(u, k.n, c, d, ties, S, N)
  BY DEF OrderFits, PlayFits, PlayRows, PlayPlan, Committed
<1>4. \A v \in transactions : PlayPlan(k, c, matches, v.plan) /\ OrderPlan(k, c, games, matches, v)
  BY DEF OrderFits, PlayFits
<1> HIDE DEF k
<1>5. /\ PlayRows(k, d, games', matches')
      /\ \A p : PlayPlan(k, c, matches, p) => PlayPlan(k, d, matches', p)
  BY <1>2, <1>3, PlayWrite
<1>6. Effect(u, c, d)
  BY <1>2, <1>3, EffectIs
<1>7. OrderRows(k, d, games', matches', status')
  BY <1>1, <1>3, <1>6, OrderRowsWrite
<1>8. ASSUME NEW v \in transactions PROVE OrderPlan(k, d, games', matches', v)
  BY <1>4, <1>3, <1>6, OrderPlanWrite DEF PlayPlan
<1>9. \A v \in transactions' : PlayPlan(k, d, matches', v.plan) /\ OrderPlan(k, d, games', matches', v)
  BY <1>1, <1>4, <1>5, <1>8
<1> QED BY <1>1, <1>5, <1>6, <1>7, <1>9 DEF OrderFits, PlayFits, k

LEMMA OrderedInductive == Writers /\ Ordered /\ [Next]_vars => Ordered'
<1> SUFFICES ASSUME Writers, Ordered, [Next]_vars PROVE Ordered'
  OBVIOUS
<1>1. CASE Prepare
  <2> SUFFICES ASSUME HasMatches' PROVE \E c : OrderFits(c)'
    BY DEF Ordered
  <2>1. config \in Configs /\ config' = config /\ transactions' = {} /\ status' = "running"
    BY <1>1 DEF Prepare, Writers
  <2>2. PlayRows(config, 1, games', matches')
    BY <1>1, <2>1, PlayPrepared DEF HasMatches
  <2>3. (\A m \in matches' : m.round \in 1..1) /\ \A g \in games' : g.round \in 1..1
    BY <2>2 DEF PlayRows, Sound, Rows
  <2>4. OrderRows(config, 1, games', matches', status')
    BY <2>1, <2>3 DEF OrderRows
  <2>5. OrderFits(1)'
    BY <2>1, <2>2, <2>4 DEF OrderFits, PlayFits
  <2> QED BY <2>5
<1>2. CASE GameEnds
  <2>1. PICK g \in games, result \in config.results : FinishBegins(g, result)
    BY <1>2 DEF GameEnds
  <2>2. PICK t : Begins(t, With(games, g, result)) /\ t.game = g /\ t.result = result
    BY <2>1, BeginsIs
  <2>3. t.game \in games /\ Begins(t, With(games, t.game, t.result))
    BY <2>2
  <2> QED BY <2>3, OrderBegins
<1>3. CASE CycleBegins
  BY <1>3, BeginsIs, OrderBegins
<1>4. CASE Commits
  <2> SUFFICES ASSUME HasMatches' PROVE \E c : OrderFits(c)'
    BY DEF Ordered
  <2>1. PICK t \in transactions : Commit(t)
    BY <1>4 DEF Commits
  <2>2. /\ config' = config /\ transactions' = transactions \ {t}
        /\ status' = IF t.plan.complete THEN "finished" ELSE status
    BY <2>1, CommitWrites
  <2>3. status # "scheduled" /\ (t.game = NoGame \/ (t.game \in games /\ t.result \in Results))
    BY DEF Writers
  <2>4. PICK c : OrderFits(c)
    BY <2>2, <2>3 DEF Ordered, HasMatches
  <2>5. PICK u, d, ties, S, N : Committed(c, t, u, d, ties, S, N)
    BY <2>1, <2>2, <2>3, <2>4, CommittedIs DEF HasMatches
  <2>6. OrderFits(d)'
    BY <2>1, <2>3, <2>4, <2>5, CommittedFits
  <2> QED BY <2>6
<1>5. CASE RollsBack
  <2>1. PICK t \in transactions : RollBack(t)
    BY <1>5 DEF RollsBack
  <2>2. /\ config' = config /\ status' = status /\ games' = games /\ matches' = matches
        /\ transactions' = transactions \ {t}
    BY <2>1 DEF RollBack
  <2>3. \A c : OrderFits(c) => OrderFits(c)'
    BY <2>2 DEF OrderFits, PlayFits
  <2> QED BY <2>2, <2>3 DEF Ordered, HasMatches
<1>6. CASE UNCHANGED vars
  BY <1>6 DEF vars, Ordered, OrderFits, PlayFits, HasMatches
<1> QED BY <1>1, <1>2, <1>3, <1>4, <1>5, <1>6 DEF Next

(* Round robin and gauntlet: what ends a tournament saw every game over.   *)
OverInv ==
    Fixed => /\ status = "finished" => Over(games)
             /\ \A t \in transactions : t.plan.complete => \A g \in games : g.result # Unplayed \/ g = t.game

LEMMA FixedEnds ==
    ASSUME Fixed, NEW view, NEW plan, plan = Plan(config, view, matches), plan.complete
    PROVE  Over(view)
<1> DEFINE a == [Nothing EXCEPT !.complete = Over(view)]
<1>1. plan = [a EXCEPT !.complete = Ends(a, view)]
  BY DEF Fixed, Plan
<1>2. plan.complete = Ends(a, view)
  BY <1>1 DEF Nothing
<1> QED BY <1>2 DEF Ends

LEMMA OverBegins ==
    ASSUME OverInv, NEW t, NEW view, Begins(t, view), \A g \in games : g \in view \/ g = t.game
    PROVE  OverInv'
<1> SUFFICES ASSUME Fixed'
             PROVE  /\ status' = "finished" => Over(games')
                    /\ \A u \in transactions' : u.plan.complete =>
                          \A g \in games' : g.result # Unplayed \/ g = u.game
  BY DEF OverInv
<1>1. /\ Fixed /\ games' = games /\ status = "running" /\ status' = status
      /\ transactions' = transactions \cup {t} /\ t.plan = Plan(config, view, matches)
  BY DEF Begins, Fixed
<1>2. t.plan.complete => Over(view)
  BY <1>1, FixedEnds
<1>3. t.plan.complete => \A g \in games : g.result # Unplayed \/ g = t.game
  BY <1>2 DEF Over
<1> QED BY <1>1, <1>3 DEF OverInv

LEMMA OverWrite ==
    ASSUME Writers, FixedInv, FixedTypes, OverInv, Fixed, NEW t \in transactions, Write(t)
    PROVE  /\ status' = "finished" => Over(games')
           /\ \A u \in transactions : u.plan.complete =>
                 \A g \in games' : g.result # Unplayed \/ g = u.game
<1>1. /\ status' = IF t.plan.complete THEN "finished" ELSE status
  BY DEF Write
<1>2. PICK ties, S : TieRows(t, ties) /\ Written(t, S) /\ games' = t.plan.games \cup ties \cup S
  BY DEF Write
<1>3. t.plan.games = {} /\ t.plan.ties = {}
  BY DEF FixedTypes
<1>4. games' = S
  BY <1>2, <1>3 DEF TieRows
<1>5. status # "scheduled" /\ (t.game = NoGame \/ (t.game \in games /\ t.result \in Results))
  BY DEF Writers
<1>6. \A g \in games : IsRow(g)
  BY <1>5 DEF FixedInv, Played
<1>7. \A g \in games : g.round # 0
  BY <1>5, FixedTypesAre DEF RowsTypeOK, GameTypeOK
<1>8. \A s \in S : (s \in games /\ s # t.game) \/ s.result # Unplayed
  BY <1>2, <1>5, <1>6, <1>7, WrittenResults
<1>9. /\ status = "finished" => Over(games)
      /\ \A u \in transactions : u.plan.complete =>
            \A g \in games : g.result # Unplayed \/ g = u.game
  BY DEF OverInv
<1>10. status' = "finished" => Over(S)
  BY <1>1, <1>8, <1>9 DEF Over
<1>11. \A u \in transactions : u.plan.complete => \A g \in S : g.result # Unplayed \/ g = u.game
  BY <1>1, <1>8, <1>9
<1> QED BY <1>4, <1>10, <1>11

LEMMA OverInductive == Writers /\ FixedInv /\ FixedTypes /\ OverInv /\ [Next]_vars => OverInv'
<1> SUFFICES ASSUME Writers, FixedInv, FixedTypes, OverInv, [Next]_vars PROVE OverInv'
  OBVIOUS
<1>1. CASE Prepare
  BY <1>1 DEF Prepare, Writers, OverInv
<1>2. CASE GameEnds
  <2>1. PICK g \in games, result \in config.results : FinishBegins(g, result)
    BY <1>2 DEF GameEnds
  <2>2. PICK t : Begins(t, With(games, g, result)) /\ t.game = g
    BY <2>1, BeginsIs
  <2>3. \A h \in games : h \in With(games, g, result) \/ h = t.game
    BY <2>2 DEF With
  <2> QED BY <2>2, <2>3, OverBegins
<1>3. CASE CycleBegins
  <2>1. PICK t : Begins(t, games)
    BY <1>3, BeginsIs
  <2> QED BY <2>1, OverBegins
<1>4. CASE Commits
  <2>1. PICK t \in transactions : Commit(t)
    BY <1>4 DEF Commits
  <2>2. (Fixed' <=> Fixed) /\ (Fixed => Write(t)) /\ transactions' = transactions \ {t}
    BY <2>1, CommitWrites DEF Fixed
  <2> QED BY <2>2, OverWrite DEF OverInv
<1>5. CASE RollsBack
  BY <1>5 DEF RollsBack, RollBack, OverInv, Fixed
<1>6. CASE UNCHANGED vars
  BY <1>6 DEF vars, OverInv, Fixed
<1> QED BY <1>1, <1>2, <1>3, <1>4, <1>5, <1>6 DEF Next

(* The types of the variables, and the two unique constraints: no commit   *)
(* of overlapping transactions writes a second row with a key that exists, *)
(* a player against himself, or a winner who did not play.                 *)
THEOREM RoundsTypeCorrect == Spec => []RowsOK
<1> DEFINE Inv == Writers /\ Ordered /\ FixedInv /\ FixedTypes
<1>1. Init => Inv
  BY WritersInitially, FixedInitially DEF Init, Ordered, HasMatches, FixedTypes
<1>2. Inv /\ [Next]_vars => Inv'
  BY WritersInductive, OrderedInductive, FixedInductive, FixedTypesInductive
<1>3. Inv => RowsOK
  <2> SUFFICES ASSUME Inv PROVE RowsOK
    OBVIOUS
  <2>1. RowsTypeOK
    <3>1. CASE status = "scheduled"
      BY <3>1 DEF Writers, RowsTypeOK
    <3>2. CASE status # "scheduled"
      <4>1. Fixed \/ HasMatches
        BY <3>2, RoundsAssumption DEF Writers, Fixed, HasMatches, Formats
      <4> QED BY <3>2, <4>1, PlayingTypes, FixedTypesAre DEF Ordered, OrderFits
    <3> QED BY <3>1, <3>2
  <2> QED BY <2>1 DEF Writers, RowsTypeOK, GameTypeOK, MatchTypeOK, RowsOK
<1> QED BY <1>1, <1>2, <1>3, PTL DEF Spec

(* What the rows being in order means for the matches and the games.       *)
LEMMA RowsInOrder ==
    ASSUME NEW k, k.format \in {"swiss", "knockout"}, NEW c, NEW G, NEW M, PlayRows(k, c, G, M),
           NEW state, OrderRows(k, c, G, M, state)
    PROVE  /\ \A m, n \in M : n.round > m.round =>
                 /\ m.status # "pending"
                 /\ k.format = "swiss" => Over(GamesOfMatch(G, m))
           /\ state = "finished" =>
                 /\ \A g \in G : Settled(g)
                 /\ \A m \in M : m.status # "pending"
                 /\ k.format = "knockout" => Cardinality(CurrentRound(M)) = 1
<1>1. Sound(k.n, c, G, M) /\ Rows(c, G, M) /\ c \in Nat /\ \A m \in M : m.round \in 1..c
  BY DEF PlayRows, Sound, Rows
<1>2. ASSUME NEW m \in M, NEW n \in M, n.round > m.round
      PROVE  m.status # "pending" /\ (k.format = "swiss" => Over(GamesOfMatch(G, m)))
  BY <1>1, <1>2 DEF OrderRows, GamesOfMatch, Over
<1>3. ASSUME state = "finished", k.format = "knockout" PROVE Cardinality(CurrentRound(M)) = 1
  <2> DEFINE S == At(c, M)
  <2>1. CurrentRound(M) = S
    BY <1>1, CurrentRoundIs
  <2>2. S # {} /\ Distinct(S)
    BY <1>1, <1>3, LastRoundIs DEF PlayRows
  <2>3. \A m \in S : m.index = 1
    BY <1>3 DEF OrderRows, IsLast
  <2> HIDE DEF S
  <2>4. PICK m : m \in S
    BY <2>2
  <2>5. S = {m}
    BY <2>2, <2>3, <2>4 DEF Distinct
  <2> QED BY <2>1, <2>5, FS_Singleton
<1> QED BY <1>2, <1>3 DEF OrderRows

(* A round is added once the one before it is over, and a tournament ends  *)
(* when nothing is left to play (scheduler.py:377-475, 604-648): whatever  *)
(* overlapping transactions saw of each other's results.                   *)
THEOREM RoundsStayInOrder == Spec => []RoundsInOrder
<1> DEFINE Inv == Writers /\ Ordered /\ FixedInv /\ FixedTypes /\ OverInv
<1>1. Init => Inv
  BY WritersInitially, FixedInitially DEF Init, Ordered, HasMatches, FixedTypes, OverInv
<1>2. Inv /\ [Next]_vars => Inv'
  BY WritersInductive, OrderedInductive, FixedInductive, FixedTypesInductive, OverInductive
<1>3. Inv => RoundsInOrder
  <2> SUFFICES ASSUME Inv PROVE RoundsInOrder
    OBVIOUS
  <2>1. CASE HasMatches
    <3>1. PICK c : OrderFits(c)
      BY <2>1 DEF Ordered
    <3>2. config.format \in {"swiss", "knockout"}
      BY <2>1 DEF HasMatches
    <3> QED BY <3>1, <3>2, RowsInOrder DEF OrderFits, PlayFits, RoundsInOrder
  <2>2. CASE ~HasMatches
    <3>1. status = "finished" => Fixed
      BY <2>2, RoundsAssumption DEF Writers, Fixed, HasMatches, Formats
    <3>2. status = "finished" => (\A g \in games : Settled(g)) /\ \A m \in matches : m.status # "pending"
      BY <3>1 DEF OverInv, Over, Settled, FixedTypes
    <3>3. status = "finished" => config.format # "knockout"
      BY <3>1 DEF Fixed
    <3> QED BY <2>2, <3>2, <3>3 DEF RoundsInOrder
  <2> QED BY <2>1, <2>2
<1> QED BY <1>1, <1>2, <1>3, PTL DEF Spec

-----------------------------------------------------------------------------
(* The bracket of n players: how many matches a round has, who may play    *)
(* them, and whose winners these are.                                      *)
Count(n, r) == IF r < Depth(n) THEN BracketSize[Depth(n) - r] ELSE 1
Seeding(n, m) ==
    \A p \in Rivals(m) \ {Nobody} : m.round < Depth(n) /\ p <= BracketSize[Depth(n) - m.round]
                                       => p = SeedOrder[Depth(n) - m.round][m.index]
Place(n, m) ==
    /\ m.round \in 1..Depth(n) /\ m.index \in 1..Count(n, m.round) /\ Seeding(n, m)
    /\ m.second = Nobody <=> m.round = 1 /\ m.first <= BracketSize[Depth(n)] - n
Done(M, r) == {m \in M : m.round = r /\ m.status # "pending"}
Climbed(M, m) ==
    /\ m.round > 1 => Meet(Done(M, m.round - 1), m.index, m.first, m.second)
    /\ \A r \in 1..m.round : \A p \in Rivals(m) \ {Nobody} : \E l \in M : l.round = r /\ p \in Rivals(l)
Full(n, M) == \A m \in M : \A i \in 1..Count(n, m.round) : \E l \in M : l.round = m.round /\ l.index = i
InBracket(n, M) == Full(n, M) /\ \A m \in M : Place(n, m) /\ Climbed(M, m)

LEMMA SeedsHalve ==
    ASSUME NEW k \in Nat \ {0}, NEW i \in 1..BracketSize[k]
    PROVE  /\ SeedOrder[k] [i] \in 1..BracketSize[k] /\ BracketSize[k + 1] = 2 * BracketSize[k]
           /\ SeedOrder[k + 1] [2 * i - 1] = SeedOrder[k] [i]
           /\ SeedOrder[k + 1] [2 * i] = BracketSize[k + 1] + 1 - SeedOrder[k] [i]
<1> DEFINE half == BracketSize[k]
           prev == SeedOrder[k]
           next == SeedOrder[k + 1]
<1>1. k + 1 \in Nat /\ k + 1 > 1 /\ (k + 1) - 1 = k
  OBVIOUS
<1>2. half \in Nat \ {0} /\ BracketSize[k + 1] = 2 * half
  BY <1>1, BracketSizeIs
<1>3. next = Interleaved(prev, 2 * half) /\ Bracket(prev, half)
  BY <1>1, <1>2, SeedOrderIs
<1> HIDE DEF half, prev, next
<1>4. prev[i] \in 1..half
  BY <1>3 DEF Bracket, half
<1>5. next = [j \in 1..(2 * half) |-> IF j % 2 = 1 THEN prev[(j + 1) \div 2] ELSE 2 * half + 1 - prev[j \div 2]]
  BY <1>3 DEF Interleaved
<1>6. /\ 2 * i - 1 \in 1..(2 * half) /\ (2 * i - 1) % 2 = 1 /\ ((2 * i - 1) + 1) \div 2 = i
      /\ 2 * i \in 1..(2 * half) /\ (2 * i) % 2 # 1 /\ (2 * i) \div 2 = i
  BY <1>2 DEF half
<1>7. next[2 * i - 1] = prev[i] /\ next[2 * i] = 2 * half + 1 - prev[i]
  BY <1>5, <1>6
<1> QED BY <1>2, <1>4, <1>7 DEF half, prev, next

LEMMA CountIs ==
    ASSUME NEW n \in Nat \ {0, 1}, NEW r \in 1..Depth(n)
    PROVE  /\ Count(n, r) \in Nat \ {0} /\ Depth(n) \in Nat \ {0} /\ r \in Nat
           /\ r = Depth(n) => Count(n, r) = 1
           /\ r < Depth(n) => Count(n, r) = 2 * Count(n, r + 1) /\ Count(n, r) = BracketSize[Depth(n) - r]
<1> DEFINE d == Depth(n)
<1>1. d \in Nat \ {0} /\ r \in Nat
  BY DepthIs
<1>2. CASE r = d
  BY <1>1, <1>2 DEF Count
<1>3. CASE r < d
  <2> DEFINE k == d - r
  <2>1. k \in Nat \ {0} /\ k - 1 = d - (r + 1) /\ (r + 1 < d <=> k > 1) /\ r # d
    BY <1>1, <1>3
  <2> HIDE DEF k
  <2>2. Count(n, r) = BracketSize[k] /\ Count(n, r + 1) = IF k > 1 THEN BracketSize[k - 1] ELSE 1
    BY <1>3, <2>1 DEF Count, k
  <2>3. BracketSize[k] \in Nat \ {0} /\ BracketSize[k] = 2 * Count(n, r + 1)
    BY <2>1, <2>2, BracketSizeIs
  <2> QED BY <1>1, <1>3, <2>1, <2>2, <2>3 DEF k
<1>4. r = d \/ r < d
  BY <1>1
<1> QED BY <1>2, <1>3, <1>4

(* The first round.                                                        *)
LEMMA FirstPlaces ==
    ASSUME NEW n \in Nat \ {0, 1}, NEW i \in 1..Count(n, 1), NEW a, NEW b,
           a = SeedOrder[Depth(n)] [2 * i - 1], b = SeedOrder[Depth(n)] [2 * i]
    PROVE  /\ a \in 1..n /\ b \in Nat \ {0} /\ (b > n <=> a <= BracketSize[Depth(n)] - n)
           /\ 1 < Depth(n) => /\ a = SeedOrder[Depth(n) - 1] [i]
                              /\ b > BracketSize[Depth(n) - 1]
<1> DEFINE d == Depth(n)
<1>1. d \in Nat \ {0} /\ BracketSize[d] >= n /\ (d = 1 \/ BracketSize[d - 1] < n) /\ 1 \in 1..d
  BY DepthIs
<1> HIDE DEF d
<1>2. CASE d = 1
  <2>1. i = 1 /\ BracketSize[d] = 2 /\ SeedOrder[d] = <<1, 2>>
    BY <1>1, <1>2, CountIs, BracketSizeIs, SeedOrderIs DEF d
  <2>2. n = 2
    BY <1>1, <2>1
  <2>3. 2 * i - 1 = 1 /\ 2 * i = 2
    BY <2>1
  <2>4. a = 1 /\ b = 2
    BY <2>1, <2>3 DEF d
  <2> QED BY <1>2, <2>1, <2>2, <2>4 DEF d
<1>3. CASE d # 1
  <2> DEFINE k == d - 1
             half == BracketSize[k]
             s == SeedOrder[k] [i]
  <2>1. k \in Nat \ {0} /\ k + 1 = d /\ 1 < d /\ half < n
    BY <1>1, <1>3
  <2>2. i \in 1..half
    BY <1>1, <2>1, CountIs DEF d
  <2> HIDE DEF k
  <2>3. s \in 1..half /\ BracketSize[d] = 2 * half /\ a = s /\ b = BracketSize[d] + 1 - s /\ half \in Nat
    BY <2>1, <2>2, SeedsHalve, BracketSizeIs DEF d
  <2> HIDE DEF s, half
  <2>4. a \in 1..n /\ b \in Nat \ {0} /\ (b > n <=> a <= BracketSize[d] - n) /\ b > half
    BY <1>1, <2>1, <2>3
  <2> QED BY <2>1, <2>3, <2>4 DEF s, half, k, d
<1> QED BY <1>2, <1>3

LEMMA FirstInBracket ==
    ASSUME NEW n \in Nat \ {0, 1}, NEW L, L = BracketSize[Depth(n)] \div 2, NEW P, Bracketed(P, n, L),
           Paired2(P, Seeded(n, SeedOrder[Depth(n)]), L), NEW M, KnockoutMatches(M, 1, P)
    PROVE  InBracket(n, M)
<1> DEFINE d == Depth(n)
           order == SeedOrder[d]
<1>1. d \in Nat \ {0} /\ 1 \in 1..d
  BY DepthIs
<1>2. L = Count(n, 1) /\ L \in Nat \ {0} /\ BracketSize[d] = 2 * L
  <2>1. CASE d = 1
    <3>1. BracketSize[d] = 2 /\ Count(n, 1) = 1
      BY <1>1, <2>1, CountIs, BracketSizeIs
    <3> QED BY <3>1
  <2>2. CASE d # 1
    <3>1. Count(n, 1) = BracketSize[d - 1] /\ Count(n, 1) \in Nat \ {0} /\ d > 1
      BY <1>1, <2>2, CountIs
    <3>2. BracketSize[d] = 2 * Count(n, 1)
      BY <1>1, <3>1, BracketSizeIs
    <3> HIDE DEF d
    <3> QED BY <3>1, <3>2 DEF d
  <2> QED BY <2>1, <2>2
<1>3. DOMAIN order = 1..(2 * L)
  BY <1>1, <1>2, SeedOrderIs DEF Bracket
<1> HIDE DEF d, order
<1>4. ASSUME NEW m \in M
      PROVE  m.round = 1 /\ m.index \in 1..L /\ Place(n, m)
  <2>1. PICK i \in 1..L :
          \/ i \in Contested(P) /\ Fields(m, 1, i, P[i][1], P[i][2], "pending", Nobody)
          \/ /\ i \notin Contested(P)
             /\ \E p : /\ p = IF P[i][1] # Nobody THEN P[i][1] ELSE P[i][2]
                       /\ Fields(m, 1, i, p, Nobody, "bye", p)
    BY DEF KnockoutMatches, Bracketed
  <2> DEFINE a == order[2 * i - 1]  b == order[2 * i]
  <2>2. /\ a \in 1..n /\ b \in Nat \ {0} /\ (b > n <=> a <= BracketSize[d] - n)
        /\ 1 < d => a = SeedOrder[d - 1][i] /\ b > BracketSize[d - 1]
    BY <1>2, FirstPlaces DEF d, order
  <2>3. P[i][1] = a /\ P[i][2] = IF b <= n THEN b ELSE Nobody
    <3>1. P[i] = <<Seeded(n, order)[2 * i - 1], Seeded(n, order)[2 * i]>>
      BY DEF Paired2, d, order
    <3>2. 2 * i - 1 \in 1..(2 * L) /\ 2 * i \in 1..(2 * L)
      BY <1>2
    <3>3. /\ Seeded(n, order)[2 * i - 1] = IF a <= n THEN a ELSE Nobody
          /\ Seeded(n, order)[2 * i] = IF b <= n THEN b ELSE Nobody
      BY <1>3, <3>2 DEF Seeded
    <3> QED BY <2>2, <3>1, <3>3
  <2> HIDE DEF a, b
  <2>4. a # Nobody /\ b # Nobody
    BY <2>2 DEF Nobody
  <2>5. i \in DOMAIN P
    BY DEF Bracketed
  <2>6. m.round = 1 /\ m.index = i /\ m.first = a /\ m.second = IF b <= n THEN b ELSE Nobody
    BY <2>1, <2>3, <2>4, <2>5 DEF Fields, Contested, Pair
  <2>7. Seeding(n, m)
    <3> SUFFICES ASSUME 1 < d, NEW p \in {a, b}, p <= BracketSize[d - 1] PROVE p = SeedOrder[d - 1][i]
      BY <2>6 DEF Seeding, Rivals, d
    <3>1. BracketSize[d - 1] \in Nat
      BY <1>1, BracketSizeIs
    <3> QED BY <2>2, <3>1
  <2>8. m.second = Nobody <=> m.round = 1 /\ m.first <= BracketSize[d] - n
    BY <2>2, <2>4, <2>6
  <2> QED BY <1>1, <1>2, <2>6, <2>7, <2>8 DEF Place, d
<1>5. Full(n, M)
  BY <1>2, <1>4 DEF Full, KnockoutMatches, Bracketed
<1>6. ASSUME NEW m \in M PROVE Climbed(M, m)
  BY <1>4 DEF Climbed
<1> QED BY <1>4, <1>5, <1>6 DEF InBracket

(* The next round.                                                         *)
LEMMA NextPlaces ==
    ASSUME NEW n \in Nat \ {0, 1}, NEW r \in 1..Depth(n), NEW over, NEW N,
           \A o \in over : Place(n, o) /\ o.round = r /\ o.winner \in 1..n /\ o.winner \in Rivals(o),
           Promoted(N, r, over, Count(n, r)), NEW m \in N
    PROVE  r < Depth(n) /\ Place(n, m)
<1> DEFINE d == Depth(n)
           K == Count(n, r + 1)
<1>0. m.round = r + 1 /\ m.index \in 1..(Count(n, r) \div 2) /\ m.second # Nobody /\ Meet(over, m.index, m.first, m.second)
  BY DEF Promoted
<1>1. r < d /\ r \in Nat /\ d \in Nat \ {0}
  BY <1>0, CountIs
<1>2. Count(n, r) = 2 * K /\ K \in Nat \ {0} /\ Count(n, r) = BracketSize[d - r] /\ r + 1 \in 1..d
  BY <1>1, CountIs
<1>3. m.index \in 1..K
  BY <1>0, <1>2
<1>4. PICK a, b \in over : /\ a.index = 2 * m.index - 1 /\ a.winner = m.first
                           /\ b.index = 2 * m.index /\ b.winner = m.second
  BY <1>0 DEF Meet
<1>5. Seeding(n, m)
  <2> SUFFICES ASSUME NEW p \in {m.first, m.second}, p # Nobody, r + 1 < d, p <= BracketSize[d - (r + 1)]
               PROVE  p = SeedOrder[d - (r + 1)][m.index]
    BY <1>0 DEF Seeding, Rivals, d
  <2> DEFINE k == d - (r + 1)
  <2>1. k \in Nat \ {0} /\ k + 1 = d - r
    BY <1>1
  <2> HIDE DEF k
  <2>2. m.index \in 1..BracketSize[k] /\ K = BracketSize[k]
    BY <1>2, <1>3, <2>1, CountIs DEF k
  <2>3. /\ SeedOrder[k][m.index] \in 1..BracketSize[k] /\ BracketSize[k + 1] = 2 * BracketSize[k]
        /\ SeedOrder[k + 1][2 * m.index - 1] = SeedOrder[k][m.index]
        /\ SeedOrder[k + 1][2 * m.index] = BracketSize[k + 1] + 1 - SeedOrder[k][m.index]
    BY <2>1, <2>2, SeedsHalve
  <2>4. PICK o \in {a, b} : o.winner = p
    BY <1>4
  <2>5. p <= BracketSize[k + 1] => p = SeedOrder[k + 1][o.index]
    BY <2>4, <1>1, <2>1 DEF Place, Seeding, d
  <2>6. p \in Nat /\ (o.index = 2 * m.index - 1 \/ o.index = 2 * m.index)
    BY <1>4, <2>4
  <2> DEFINE x == SeedOrder[k][m.index]  half == BracketSize[k]
  <2>7. half \in Nat /\ x \in 1..half /\ p <= half /\ (p = x \/ p = 2 * half + 1 - x)
    BY <2>1, <2>6, BracketSizeIs, <2>3, <2>5 DEF k
  <2> HIDE DEF x, half
  <2>8. p = x
    BY <2>6, <2>7
  <2> QED BY <2>8 DEF x, k
<1> QED BY <1>0, <1>1, <1>2, <1>3, <1>5 DEF Place

(* The round that a commit adds.                                           *)
RoundAdded(n, c, over, N, P) ==
    /\ c \in 1..Depth(n) /\ Promoted(P, c, over, Count(n, c)) /\ over \subseteq N
    /\ \A o \in over : o.round = c /\ o.winner \in 1..n /\ o.winner \in Rivals(o) /\ o.status # "pending"

LEMMA RoundAddedIs ==
    ASSUME config \in Configs, config.format = "knockout", NEW c, PlayRows(config, c, games, matches),
           InBracket(config.n, matches), NEW t, PlayPlan(config, c, matches, t.plan),
           OrderPlan(config, c, games, matches, t), NEW u, Rewrites(t, u),
           NEW d, NEW ties, NEW S, NEW N, WriteParts(u, config.n, c, d, ties, S, N), u.plan.matches # {}
    PROVE  \E over : RoundAdded(config.n, c, over, N, u.plan.matches)
<1> DEFINE n == config.n
           P == u.plan.matches
<1>0. n \in Nat \ {0, 1} /\ c \in Nat
  BY RoundsAssumption DEF PlayRows, Sound, Rows
<1>1. t.plan.matches # {}
  BY DEF Rewrites, Additions
<1>2. PICK r, over, K : ReadAgain(t, c, r, over, K)
  BY <1>1, RoundReadAgain
<1>3. NewRound(n, r + 1, u.plan.games, P) /\ Promoted(P, r, over, K)
  <2> DEFINE next == NextRound(config, r, over)
  <2>1. P = next.matches /\ u.plan.games = next.games
    BY <1>2 DEF Rewrites, ReadAgain
  <2>2. NewRound(n, r + 1, next.games, next.matches) /\ Promoted(next.matches, r, over, K)
    <3> HIDE DEF next
    <3> QED BY <1>2, NextRoundIs DEF ReadAgain, next
  <2> HIDE DEF next
  <2> QED BY <2>1, <2>2
<1> HIDE DEF P
<1>4. r = c
  <2>1. NewRound(n, c + 1, u.plan.games, P)
    BY DEF WriteParts, AddsNothing, P
  <2>2. \A m \in P : m.round = r + 1 /\ m.round = c + 1
    BY <1>3, <2>1 DEF NewRound, NewMatch
  <2>3. r \in Nat
    BY <1>0, <1>2 DEF ReadAgain
  <2> QED BY <1>0, <2>2, <2>3 DEF P
<1>5. c \in 1..Depth(n) /\ K = Count(n, c)
  <2>1. /\ K \in Nat /\ K >= 2 /\ Indices(At(c, matches)) = 1..K
    BY <1>2, <1>4 DEF ReadAgain
  <2>2. \A i \in 1..K : \E m \in matches : m.round = c /\ m.index = i
    BY <2>1 DEF Indices, At
  <2>3. PICK m \in matches : m.round = c /\ m.index = K
    BY <2>1, <2>2
  <2>4. c \in 1..Depth(n) /\ K \in 1..Count(n, c) /\ \A i \in 1..Count(n, c) : \E l \in matches : l.round = c /\ l.index = i
    BY <2>3 DEF InBracket, Place, Full, n
  <2>5. Count(n, c) \in Nat \ {0}
    BY <1>0, <2>4, CountIs
  <2>6. Count(n, c) \in 1..K
    BY <2>1, <2>4, <2>5 DEF Indices, At
  <2> QED BY <2>1, <2>4, <2>5, <2>6
<1>6. over \subseteq N
  BY <1>2 DEF ReadAgain, Rewrites, WriteParts, Deciding, Kept, Added
<1>7. RoundAdded(n, c, over, N, P)
  BY <1>2, <1>3, <1>4, <1>5, <1>6 DEF RoundAdded, ReadAgain
<1> QED BY <1>7 DEF P

LEMMA BracketKept ==
    ASSUME NEW n \in Nat \ {0, 1}, NEW M, InBracket(n, M), NEW N, Follows(M, N),
           \A m \in M : m.status # "pending" => m \in N, NEW P, NEW c,
           P # {} => \E over : RoundAdded(n, c, over, N, P)
    PROVE  InBracket(n, N \cup P)
<1> DEFINE R == N \cup P
<1>1. \A m \in M : Place(n, m) /\ Climbed(M, m)
  BY DEF InBracket
<1>2. ASSUME NEW m \in N
      PROVE  \E k \in M : k.round = m.round /\ k.index = m.index /\ k.first = m.first /\ k.second = m.second
  BY DEF Follows, SameMatch
<1>3. ASSUME NEW k \in M
      PROVE  \E m \in N : k.round = m.round /\ k.index = m.index /\ k.first = m.first /\ k.second = m.second
  BY DEF Follows, SameMatch
<1>4. ASSUME NEW m \in N PROVE Place(n, m) /\ Climbed(R, m)
  <2>1. PICK k \in M : k.round = m.round /\ k.index = m.index /\ k.first = m.first /\ k.second = m.second
    BY <1>2
  <2>2. Place(n, k) /\ Climbed(M, k)
    BY <1>1
  <2>3. Place(n, m)
    BY <2>1, <2>2 DEF Place, Seeding, Rivals
  <2>4. m.round > 1 => Meet(Done(R, m.round - 1), m.index, m.first, m.second)
    BY <2>1, <2>2 DEF Done, Climbed, Meet
  <2>5. ASSUME NEW r \in 1..m.round, NEW p \in Rivals(m) \ {Nobody}
        PROVE  \E l \in R : l.round = r /\ p \in Rivals(l)
    <3>1. PICK j \in M : j.round = r /\ p \in Rivals(j)
      BY <2>1, <2>2 DEF Climbed, Rivals
    <3>2. PICK l \in N : j.round = l.round /\ j.first = l.first /\ j.second = l.second
      BY <1>3
    <3> QED BY <3>1, <3>2 DEF Rivals
  <2> QED BY <2>3, <2>4, <2>5 DEF Climbed
<1>5. ASSUME NEW m \in P
      PROVE  /\ Place(n, m) /\ Climbed(R, m)
             /\ \A i \in 1..Count(n, m.round) : \E l \in P : l.round = m.round /\ l.index = i
  <2>1. PICK over : RoundAdded(n, c, over, N, P)
    OBVIOUS
  <2>2. /\ c \in 1..Depth(n) /\ Promoted(P, c, over, Count(n, c)) /\ over \subseteq N
        /\ \A o \in over : o.round = c /\ o.winner \in 1..n /\ o.winner \in Rivals(o) /\ o.status # "pending"
    BY <2>1 DEF RoundAdded
  <2>3. c < Depth(n) /\ Place(n, m)
    BY <1>4, <2>2, NextPlaces
  <2>4. /\ \A l \in P : l.round = c + 1
        /\ \A i \in 1..(Count(n, c) \div 2) : \E l \in P : l.index = i
        /\ Meet(over, m.index, m.first, m.second)
    BY <2>2 DEF Promoted
  <2>5. c \in Nat /\ Count(n, c) \div 2 = Count(n, c + 1)
    BY <2>2, <2>3, CountIs
  <2>6. Meet(Done(R, m.round - 1), m.index, m.first, m.second)
    BY <2>2, <2>4, <2>5 DEF Done, Meet
  <2>7. ASSUME NEW r \in 1..m.round, NEW p \in Rivals(m) \ {Nobody}
        PROVE  \E l \in R : l.round = r /\ p \in Rivals(l)
    <3>1. CASE r = c + 1
      BY <2>4, <3>1
    <3>2. CASE r # c + 1
      <4>1. r \in 1..c
        BY <2>4, <2>5, <3>2
      <4>2. PICK o \in over : o.winner = p
        BY <2>4 DEF Meet, Rivals
      <4>3. Climbed(R, o) /\ o.round = c /\ p \in Rivals(o)
        BY <1>4, <2>2, <4>2
      <4> QED BY <4>1, <4>3 DEF Climbed
    <3> QED BY <3>1, <3>2
  <2> QED BY <2>3, <2>4, <2>5, <2>6, <2>7 DEF Climbed
<1>6. Full(n, R)
  <2> SUFFICES ASSUME NEW m \in N, NEW i \in 1..Count(n, m.round)
               PROVE  \E l \in R : l.round = m.round /\ l.index = i
    BY <1>5 DEF Full
  <2>1. PICK k \in M : k.round = m.round
    BY <1>2
  <2>2. PICK j \in M : j.round = m.round /\ j.index = i
    BY <2>1 DEF InBracket, Full
  <2>3. PICK l \in N : j.round = l.round /\ j.index = l.index
    BY <1>3
  <2> QED BY <2>2, <2>3
<1> QED BY <1>4, <1>5, <1>6 DEF InBracket

-----------------------------------------------------------------------------
(* Armageddon games: who wins a match has more points in its other games,  *)
(* which are over, or as many and held his own in such a game; and such a  *)
(* game is played when the points are level.                               *)
Counted(G, m) == {g \in GamesOfMatch(G, m) : g.kind # "armageddon"}
Held(g, p) == g.result # Unplayed /\ (Victor(g) = p \/ (g.result = Draw /\ g.black = p))
Holds(G, m) == \E g \in GamesOfMatch(G, m) : g.kind = "armageddon" /\ Held(g, m.winner)
Scored(G, m, p) == MatchPoints(GamesOfMatch(G, m), p)
Upheld(G, m) ==
    \A p \in Rivals(m) \ {m.winner, Nobody} :
       \/ Scored(G, m, m.winner) > Scored(G, m, p)
       \/ Scored(G, m, m.winner) = Scored(G, m, p) /\ Holds(G, m)
Won(G, m) == Over(Counted(G, m)) /\ Upheld(G, m)
Level(G, m) == Over(Counted(G, m)) /\ Scored(G, m, m.first) = Scored(G, m, m.second)

Armed(G, M) ==
    \A m \in M : /\ m.status = "finished" => Won(G, m)
                 /\ (\E g \in GamesOfMatch(G, m) : g.kind = "armageddon") => Level(G, m)
ArmedPlan(V, M, plan) ==
    /\ \A d \in plan.decided : Won(V, d)
    /\ \A g \in plan.ties : /\ g.kind = "armageddon"
                            /\ \A m \in M : m.round = g.round /\ m.index = g.match => Level(V, m)

(* What is played later: a game that is over stays, and what counts comes  *)
(* in the round after the last or from a game that was not over.           *)
Later(V, W, c) ==
    /\ \A g \in V : g.result # Unplayed => g \in W
    /\ \A g \in W : \/ g \in V
                    \/ g.kind = "armageddon"
                    \/ g.round = c + 1
                    \/ \E h \in V : h.result = Unplayed /\ SameRow(h, g)

LEMMA LaterIs ==
    ASSUME NEW V, NEW W, NEW c, Later(V, W, c)
    PROVE  /\ \A m : m.round # c + 1 /\ Won(V, m) => Won(W, m)
           /\ \A m : m.round # c + 1 /\ Level(V, m) => Level(W, m)
<1>1. ASSUME NEW m, m.round # c + 1, Over(Counted(V, m))
      PROVE  /\ Over(Counted(W, m)) /\ \A p : Scored(W, m, p) = Scored(V, m, p)
             /\ Holds(V, m) => Holds(W, m)
  <2>1. Counted(W, m) = Counted(V, m)
    <3>1. ASSUME NEW g \in Counted(V, m) PROVE g \in Counted(W, m)
      BY <1>1 DEF Over, Counted, GamesOfMatch, Later
    <3>2. ASSUME NEW g \in Counted(W, m), g \notin V PROVE FALSE
      <4>1. g.round = m.round /\ g.match = m.index /\ g.kind # "armageddon"
        BY DEF Counted, GamesOfMatch
      <4>2. PICK h \in V : h.result = Unplayed /\ SameRow(h, g)
        BY <1>1, <3>2, <4>1 DEF Counted, GamesOfMatch, Later
      <4>3. h \in Counted(V, m)
        BY <4>1, <4>2 DEF SameRow, Counted, GamesOfMatch
      <4> QED BY <1>1, <4>2, <4>3 DEF Over
    <3> QED BY <3>1, <3>2 DEF Counted, GamesOfMatch
  <2>2. \A G, p : Scored(G, m, p) = 2 * Cardinality({g \in Counted(G, m) : Victor(g) = p})
                                    + Cardinality({g \in Counted(G, m) : g.result = Draw})
    BY DEF Scored, MatchPoints, Counted
  <2>3. Holds(V, m) => Holds(W, m)
    BY DEF Holds, Held, GamesOfMatch, Later
  <2> QED BY <1>1, <2>1, <2>2, <2>3
<1> QED BY <1>1 DEF Won, Upheld, Level

(* The rows as a transaction sees them.                                    *)
Seen(G, t) == IF t.game = NoGame THEN G ELSE With(G, t.game, t.result)

LEMMA SeenIs ==
    ASSUME NEW G, NEW t, t.game = NoGame \/ (t.game \in G /\ t.game.result = Unplayed), \A g \in G : IsRow(g)
    PROVE  /\ \A g \in G : g = t.game \/ g \in Seen(G, t)
           /\ \A g \in Seen(G, t) : \/ g \in G /\ (g # t.game \/ t.game = NoGame)
                                    \/ SameRow(t.game, g) /\ t.game \in G /\ t.game.result = Unplayed
<1>1. CASE t.game = NoGame
  BY <1>1 DEF Seen
<1>2. CASE t.game # NoGame
  <2> DEFINE l == [t.game EXCEPT !.result = t.result]
  <2>1. Seen(G, t) = (G \ {t.game}) \cup {l}
    BY <1>2 DEF Seen, With
  <2>2. SameRow(t.game, l)
    BY <1>2, ResultIs
  <2> HIDE DEF l
  <2> QED BY <1>2, <2>1, <2>2
<1> QED BY <1>1, <1>2

LEMMA LaterWritten ==
    ASSUME NEW G, \A g \in G : IsRow(g) /\ g # NoGame, NEW c,
           NEW u, u.game = NoGame \/ (u.game \in G /\ u.game.result = Unplayed),
           NEW B, \A g \in B : g.round = c + 1, NEW T, \A g \in T : g.kind = "armageddon",
           NEW H, H = B \cup T \cup Seen(G, u)
    PROVE  /\ Later(G, Seen(G, u), c) /\ Later(Seen(G, u), H, c) /\ Later(G, H, c)
           /\ \A v : v.game # u.game /\ (v.game = NoGame \/ (v.game \in G /\ v.game.result = Unplayed))
                        => Later(Seen(G, v), Seen(H, v), c)
<1>1. /\ \A g \in G : g = u.game \/ g \in Seen(G, u)
      /\ \A g \in Seen(G, u) : \/ g \in G /\ g # u.game
                               \/ SameRow(u.game, g) /\ u.game \in G /\ u.game.result = Unplayed
  BY SeenIs
<1>2. Later(G, Seen(G, u), c) /\ Later(Seen(G, u), H, c) /\ Later(G, H, c)
  BY <1>1 DEF Later, NoGame, Game
<1>3. ASSUME NEW v, v.game # u.game, v.game \in G, v.game # NoGame, v.game.result = Unplayed
      PROVE  Later(Seen(G, v), Seen(H, v), c)
  <2> DEFINE l == [v.game EXCEPT !.result = v.result]
  <2>1. Seen(G, v) = (G \ {v.game}) \cup {l} /\ Seen(H, v) = (H \ {v.game}) \cup {l}
    BY <1>3 DEF Seen, With
  <2> HIDE DEF l
  <2>2. ASSUME NEW g \in Seen(G, v), g.result # Unplayed PROVE g \in Seen(H, v)
    BY <1>2, <1>3, <2>1, <2>2 DEF Later
  <2>3. ASSUME NEW g \in Seen(H, v), g \notin Seen(G, v), g.kind # "armageddon", g.round # c + 1
        PROVE  \E h \in Seen(G, v) : h.result = Unplayed /\ SameRow(h, g)
    BY <2>1, <2>3, <1>1, <1>3
  <2> QED BY <2>2, <2>3 DEF Later
<1>4. ASSUME NEW v, v.game = NoGame PROVE Seen(G, v) = G /\ Seen(H, v) = H
  BY <1>4 DEF Seen
<1> QED BY <1>2, <1>3, <1>4

LEMMA ScoredType ==
    ASSUME NEW S, IsFiniteSet(S), NEW p
    PROVE  MatchPoints(S, p) \in Nat
<1> DEFINE C == {g \in S : g.kind # "armageddon"}
           A == {g \in C : Victor(g) = p}
           B == {g \in C : g.result = Draw}
<1>1. MatchPoints(S, p) = 2 * Cardinality(A) + Cardinality(B)
  BY DEF MatchPoints
<1>2. A \subseteq S /\ B \subseteq S
  OBVIOUS
<1> HIDE DEF A, B
<1>3. Cardinality(A) \in Nat /\ Cardinality(B) \in Nat
  BY <1>2, FS_Subset, FS_CardinalityType
<1> QED BY <1>1, <1>3

(* What the winner of a match says of its games, which are over.           *)
LEMMA ResolvedSays ==
    ASSUME NEW m, Nobody \notin Rivals(m), NEW S, IsFiniteSet(S),
           \A g \in S : {g.white, g.black} = Rivals(m) /\ g.pair \in Nat /\ g.result \in Results,
           NEW w, w = Resolved(m, S)
    PROVE  /\ \A g \in S : g.kind = "armageddon" => w # Nobody
           /\ \A g \in S : g.kind = "armageddon" => \E h \in S : h.kind = "armageddon" /\ Held(h, w)
           /\ w = Nobody => MatchPoints(S, m.first) = MatchPoints(S, m.second)
           /\ w # Nobody => \/ \E g \in S : g.kind = "armageddon"
                            \/ \A p \in Rivals(m) \ {w} : MatchPoints(S, w) > MatchPoints(S, p)
<1> DEFINE A == {g \in S : g.kind = "armageddon"}
           a == MatchPoints(S, m.first)  b == MatchPoints(S, m.second)
<1>1. a \in Nat /\ b \in Nat
  BY ScoredType
<1>2. ASSUME NEW g \in S, g.kind = "armageddon"
      PROVE  w # Nobody /\ \E h \in S : h.kind = "armageddon" /\ Held(h, w)
  <2>1. PICK h \in S : h.kind = "armageddon" /\ w = IF Victor(h) = Nobody THEN h.black ELSE Victor(h)
    BY <1>2, ResolvedIs
  <2>2. h.white # Nobody /\ h.black # Nobody
    OBVIOUS
  <2>3. h.result # Unplayed /\ (Victor(h) = Nobody => h.result = Draw)
    BY <2>2 DEF Victor, Results, White, Black, Draw, Unplayed
  <2> QED BY <2>1, <2>2, <2>3 DEF Held
<1>3. ASSUME A = {}
      PROVE  w = CASE a > b -> m.first [] a < b -> m.second [] OTHER -> Nobody
  BY <1>3 DEF Resolved
<1> HIDE DEF a, b
<1>4. m.first # Nobody /\ m.second # Nobody
  BY DEF Rivals
<1>5. ASSUME A = {}
      PROVE  /\ a > b => w = m.first
             /\ b > a => w = m.second
             /\ a = b => w = Nobody
  BY <1>1, <1>3, <1>5
<1>6. a > b \/ b > a \/ a = b
  BY <1>1
<1>7. ASSUME A = {}, w # Nobody, NEW p \in Rivals(m) \ {w} PROVE MatchPoints(S, w) > MatchPoints(S, p)
  BY <1>5, <1>6, <1>7 DEF Rivals, a, b
<1>8. ASSUME A = {}, w = Nobody PROVE a = b
  BY <1>4, <1>5, <1>6, <1>8
<1> QED BY <1>2, <1>7, <1>8 DEF a, b

(* What a match whose games are over comes to.                             *)
LEMMA EndedSays ==
    ASSUME NEW n, NEW c, NEW G, NEW M, Sound(n, c, G, M), Armed(G, M), NEW view, Mirrors(G, view), IsFiniteSet(view),
           Later(G, view, c), \A g \in view : g.result \in Results \cup {Unplayed},
           NEW m \in M, m.round = c, NEW w, Ended(m, view, w)
    PROVE  /\ w = Nobody => Level(view, m)
           /\ w # Nobody => /\ Over(Counted(view, m))
                            /\ \A p \in Rivals(m) \ {w} :
                                  \/ Scored(view, m, w) > Scored(view, m, p)
                                  \/ /\ Scored(view, m, w) = Scored(view, m, p)
                                     /\ \E g \in GamesOfMatch(view, m) : g.kind = "armageddon" /\ Held(g, w)
<1> DEFINE S == GamesOfMatch(view, m)
<1>1. m.status = "pending" /\ Over(S) /\ w = Resolved(m, S)
  BY DEF Ended
<1>2. Nobody \notin Rivals(m) /\ c # c + 1
  BY <1>1 DEF Sound, Rows, MatchesOK, MatchOK, Rivals, Nobody
<1>3. S \subseteq view /\ IsFiniteSet(S) /\ Counted(view, m) \subseteq S
  BY FS_Subset DEF GamesOfMatch, Counted
<1>4. ASSUME NEW g \in S
      PROVE  /\ {g.white, g.black} = Rivals(m) /\ g.pair \in Nat /\ g.result \in Results
             /\ \E h \in GamesOfMatch(G, m) : h.kind = g.kind
  <2>1. PICK h \in G : SameRow(h, g) /\ Plays(h, m) /\ Plays(g, m)
    BY <1>1, MatchGames
  <2>2. h.pair \in Nat
    BY DEF Sound, GamesOK, GameOK
  <2>3. h \in GamesOfMatch(G, m) /\ h.kind = g.kind
    BY <2>1 DEF GamesOfMatch, Plays, SameRow
  <2>4. g.result \in Results
    BY <1>1, <1>3 DEF Over
  <2> QED BY <2>1, <2>2, <2>3, <2>4 DEF Plays, SameRow, Rivals
<1>5. w \in Rivals(m) \cup {Nobody}
  <2> HIDE DEF S
  <2> QED BY <1>1, <1>4, ResolvedIs
<1>6. /\ \A g \in S : g.kind = "armageddon" => w # Nobody
      /\ \A g \in S : g.kind = "armageddon" => \E h \in S : h.kind = "armageddon" /\ Held(h, w)
      /\ w = Nobody => MatchPoints(S, m.first) = MatchPoints(S, m.second)
      /\ w # Nobody => \/ \E g \in S : g.kind = "armageddon"
                       \/ \A p \in Rivals(m) \ {w} : MatchPoints(S, w) > MatchPoints(S, p)
  <2> HIDE DEF S
  <2> QED BY <1>1, <1>2, <1>3, <1>4, ResolvedSays
<1>7. ASSUME NEW g \in S, g.kind = "armageddon" PROVE Level(view, m)
  BY <1>4, <1>7, <1>2, LaterIs DEF Armed
<1>8. Over(Counted(view, m))
  BY <1>1, <1>3 DEF Over
<1>9. \A p : Scored(view, m, p) = MatchPoints(S, p)
  BY DEF Scored
<1> HIDE DEF S
<1>10. ASSUME w # Nobody, NEW p \in Rivals(m) \ {w}
       PROVE  \/ Scored(view, m, w) > Scored(view, m, p)
              \/ /\ Scored(view, m, w) = Scored(view, m, p)
                 /\ \E g \in S : g.kind = "armageddon" /\ Held(g, w)
  <2>1. CASE \E g \in S : g.kind = "armageddon"
    BY <1>7, <2>1, <1>5, <1>6, <1>10 DEF Level, Rivals
  <2> QED BY <1>6, <1>9, <1>10, <2>1
<1> QED BY <1>6, <1>8, <1>9, <1>10 DEF Level, S

LEMMA ArmedBegins ==
    ASSUME NEW k \in Configs, k.format = "knockout", k.tiebreak = "armageddon", NEW c, NEW G, NEW M,
           Sound(k.n, c, G, M), KnockoutRows(c, M), Armed(G, M), NEW view, Mirrors(G, view), IsFiniteSet(view),
           Later(G, view, c), \A g \in view : g.result \in Results \cup {Unplayed},
           NEW plan, plan = Plan(k, view, M)
    PROVE  ArmedPlan(view, M, plan)
<1> DEFINE a == KnockoutPlan(k, view, M)
           end == Ends(a, view)
<1>1. plan = [a EXCEPT !.complete = end]
  BY DEF Plan
<1>2. AdvanceSound(a, k.n, c, M)
  BY KnockoutAdvanceSound
<1>3. PICK D, over, ties, last, next :
         Advances(a, k, c, M, D, over, ties, last, next) /\ Settles(D, ties, At(c, M), view, k.tiebreak)
  BY KnockoutAdvances
<1> HIDE DEF a, end
<1>4. plan.decided = a.decided /\ plan.ties = a.ties
  BY <1>1, <1>2, PlanFields
<1>5. a.decided = D /\ a.ties = ties
  <2>1. PICK N, B, e : Writes(a, D, N, B, ties, last, e)
    BY <1>3, AdvanceOutcome DEF Outcome
  <2> QED BY <2>1, WritesFields
<1>6. \A m \in At(c, M) : m \in M /\ m.round = c
  BY DEF At
<1>7. ASSUME NEW d \in D PROVE Won(view, d)
  <2>1. PICK m \in At(c, M) : SameMatch(m, d) /\ Ended(m, view, d.winner) /\ d.winner # Nobody
    BY <1>3 DEF Settles
  <2>2. GamesOfMatch(view, d) = GamesOfMatch(view, m) /\ Rivals(d) = Rivals(m)
    BY <2>1 DEF SameMatch, GamesOfMatch, Rivals
  <2>3. Counted(view, d) = Counted(view, m) /\ \A p : Scored(view, d, p) = Scored(view, m, p)
    BY <2>2 DEF Counted, Scored
  <2> QED BY <1>6, <2>1, <2>2, <2>3, EndedSays DEF Won, Upheld, Holds
<1>8. ASSUME NEW g \in ties, NEW m \in M, m.round = g.round, m.index = g.match PROVE Level(view, m)
  <2>1. PICK l \in At(c, M) : g.round = l.round /\ g.match = l.index /\ Ended(l, view, Nobody)
    BY <1>3 DEF Settles
  <2>2. l = m
    BY <1>6, <1>8, <2>1, Keys DEF Sound, MatchesOK
  <2> QED BY <1>6, <2>1, <2>2, EndedSays
<1>9. \A g \in ties : g.kind = "armageddon"
  BY <1>3 DEF Settles
<1> QED BY <1>4, <1>5, <1>7, <1>8, <1>9 DEF ArmedPlan

LEMMA LevelSame ==
    ASSUME NEW l, NEW m, SameMatch(l, m), NEW W
    PROVE  Level(W, l) <=> Level(W, m)
BY DEF SameMatch, Level, Counted, Scored, GamesOfMatch

LEMMA ArmedWrite ==
    ASSUME NEW n, NEW c, Sound(n, c, games, matches), Armed(games, matches), NEW u, PlanSound(u.plan, n, c, matches),
           u.game = NoGame \/ (u.game \in games /\ u.game.result = Unplayed),
           ArmedPlan(Seen(games, u), matches, u.plan),
           NEW d, NEW ties, NEW S, NEW N, WriteParts(u, n, c, d, ties, S, N)
    PROVE  /\ Armed(games', matches')
           /\ \A v : /\ v.game # u.game /\ (v.game = NoGame \/ (v.game \in games /\ v.game.result = Unplayed))
                     /\ PlanSound(v.plan, n, c, matches) /\ ArmedPlan(Seen(games, v), matches, v.plan)
                     => ArmedPlan(Seen(games', v), matches', v.plan)
<1> DEFINE H == games'
           B == u.plan.games
           P == u.plan.matches
           V == Seen(games, u)
<1>1. /\ H = B \cup ties \cup V /\ matches' = N \cup P /\ Follows(matches, N) /\ TieRows(u, ties)
      /\ N = Kept(matches, u.plan.decided) \cup Added(matches, u.plan.decided)
  BY DEF WriteParts, Written, Seen
<1>2. /\ c \in Nat /\ \A m \in matches : m.round \in 1..c
      /\ \A g \in games : IsRow(g) /\ g.round \in 1..c /\ g # NoGame
  BY NoGameIs DEF Sound, Rows
<1>3. /\ \A g \in B : g.round = c + 1 /\ g.kind = "base"
      /\ \A m \in P : m.round = c + 1 /\ m.status # "finished"
  BY DEF WriteParts, AddsNothing, NewRound, NewGame, NewMatch
<1>4. \A h \in ties : \E g \in u.plan.ties : h.round = g.round /\ h.match = g.match /\ h.kind = g.kind
  BY <1>1, TiesAre DEF PlanSound, PlanFits
<1>5. /\ \A x \in u.plan.decided : Won(V, x)
      /\ \A g \in u.plan.ties : /\ g.kind = "armageddon"
                                /\ \A m \in matches : m.round = g.round /\ m.index = g.match => Level(V, m)
  BY DEF ArmedPlan
<1>6. ASSUME NEW p, PlanSound(p, n, c, matches)
      PROVE  /\ \A x \in p.decided : x.round \in 1..c
             /\ \A g \in p.ties : g.round \in 1..c
  BY <1>2, <1>6 DEF PlanSound, PlanFits, Decides, SameMatch
<1>7. \A i \in 1..c : i # c + 1
  BY <1>2
<1>8. \A g \in V : \E x \in games : x.round = g.round /\ x.match = g.match /\ x.kind = g.kind
  BY <1>2, SeenIs DEF SameRow
<1>9. /\ Later(games, H, c) /\ Later(V, H, c)
      /\ \A v : v.game # u.game /\ (v.game = NoGame \/ (v.game \in games /\ v.game.result = Unplayed))
                   => Later(Seen(games, v), Seen(H, v), c)
  <2>1. \A g \in ties : g.kind = "armageddon"
    BY <1>4, <1>5
  <2> HIDE DEF H, V, B
  <2> QED BY <1>1, <1>2, <1>3, <2>1, LaterWritten DEF V
<1> HIDE DEF H, B, P, V
<1>10. ASSUME NEW m \in matches', m.round \in 1..c
       PROVE  m \in N /\ \E l \in matches : SameMatch(l, m) /\ l.round = m.round /\ l.index = m.index
  BY <1>1, <1>3, <1>7, <1>10 DEF Follows, SameMatch
<1>11. ASSUME NEW m \in matches', m.status = "finished" PROVE Won(H, m)
  <2>1. CASE m \in Kept(matches, u.plan.decided)
    BY <1>2, <1>7, <1>9, <1>11, <2>1, LaterIs DEF Armed, Kept
  <2>2. CASE m \in Added(matches, u.plan.decided)
    BY <1>5, <1>6, <1>7, <1>9, <2>2, LaterIs DEF Added
  <2> QED BY <1>1, <1>3, <1>11, <2>1, <2>2
<1>12. ASSUME NEW m \in matches', NEW g \in GamesOfMatch(H, m), g.kind = "armageddon" PROVE Level(H, m)
  <2>1. g.round = m.round /\ g.match = m.index /\ g \in ties \cup V
    BY <1>1, <1>3, <1>12 DEF GamesOfMatch
  <2>2. CASE g \in ties
    <3>1. PICK e \in u.plan.ties : g.round = e.round /\ g.match = e.match
      BY <1>4, <2>2
    <3>2. PICK l \in matches : SameMatch(l, m) /\ l.round = m.round /\ l.index = m.index
      BY <1>6, <1>10, <2>1, <3>1
    <3>3. Level(V, l)
      BY <1>5, <2>1, <3>1, <3>2
    <3> QED BY <1>2, <1>7, <1>9, <3>2, <3>3, LaterIs, LevelSame
  <2>3. CASE g \in V
    <3>1. PICK x \in games : x.round = g.round /\ x.match = g.match /\ x.kind = g.kind
      BY <1>8, <2>3
    <3>2. PICK l \in matches : SameMatch(l, m) /\ l.round = m.round /\ l.index = m.index
      BY <1>2, <1>10, <2>1, <3>1
    <3>3. Level(games, l)
      BY <1>12, <2>1, <3>1, <3>2 DEF Armed, GamesOfMatch
    <3> QED BY <1>2, <1>7, <1>9, <3>2, <3>3, LaterIs, LevelSame
  <2> QED BY <2>1, <2>2, <2>3
<1>13. ASSUME NEW v, v.game # u.game, v.game = NoGame \/ (v.game \in games /\ v.game.result = Unplayed),
              PlanSound(v.plan, n, c, matches), ArmedPlan(Seen(games, v), matches, v.plan)
       PROVE  ArmedPlan(Seen(H, v), matches', v.plan)
  <2>1. Later(Seen(games, v), Seen(H, v), c)
    BY <1>9, <1>13
  <2>2. ASSUME NEW x \in v.plan.decided PROVE Won(Seen(H, v), x)
    BY <1>6, <1>7, <1>13, <2>1, LaterIs DEF ArmedPlan
  <2>3. ASSUME NEW g \in v.plan.ties, NEW m \in matches', m.round = g.round, m.index = g.match
        PROVE  Level(Seen(H, v), m)
    <3>1. PICK l \in matches : SameMatch(l, m) /\ l.round = m.round /\ l.index = m.index
      BY <1>6, <1>10, <1>13, <2>3
    <3>2. Level(Seen(games, v), l)
      BY <1>13, <2>3, <3>1 DEF ArmedPlan
    <3> QED BY <1>2, <1>7, <2>1, <3>1, <3>2, LaterIs, LevelSame
  <2> QED BY <1>13, <2>2, <2>3 DEF ArmedPlan
<1> QED BY <1>11, <1>12, <1>13 DEF Armed, H

(* The bracket and the armageddon games of a knockout tournament.          *)
ArmedRows ==
    config.tiebreak = "armageddon" =>
        Armed(games, matches) /\ \A t \in transactions : ArmedPlan(Seen(games, t), matches, t.plan)
Knockout == config.format = "knockout" /\ status # "scheduled" => InBracket(config.n, matches) /\ ArmedRows

LEMMA KnockoutPrepared ==
    ASSUME config \in Configs, config.format = "knockout", Prepare, transactions = {}
    PROVE  Knockout'
<1> DEFINE n == config.n
           P == FirstPairings(n)
           r == KnockoutRound(1, P, config.per)
<1>0. n \in Nat \ {0, 1} /\ n \in Nat /\ config.per \in Nat \ {0}
  BY RoundsAssumption
<1>1. games' = r.games /\ matches' = r.matches /\ config' = config /\ transactions' = {}
  BY DEF Prepare, First
<1>2. PICK L : L = BracketSize[Depth(n)] \div 2 /\ Bracketed(P, n, L) /\ Paired2(P, Seeded(n, SeedOrder[Depth(n)]), L)
  BY <1>0, FirstPairingsAre
<1> HIDE DEF P, r
<1>3. KnockoutMatches(r.matches, 1, P) /\ NewRound(n, 1, r.games, r.matches)
  BY <1>0, <1>2, KnockoutRowsAre, KnockoutRoundIs DEF r
<1>4. InBracket(n, matches')
  BY <1>0, <1>1, <1>2, <1>3, FirstInBracket
<1>5. Armed(games', matches')
  BY <1>1, <1>3 DEF Armed, NewRound, NewGame, NewMatch, GamesOfMatch
<1> QED BY <1>1, <1>4, <1>5 DEF Knockout, ArmedRows, n

LEMMA KnockoutBegins ==
    ASSUME Writers, Ordered, Knockout, NEW t, NEW view, Begins(t, view),
           \/ t.game = NoGame /\ view = games
           \/ /\ t.game \in games /\ t.game.result = Unplayed /\ t.result \in Results
              /\ view = With(games, t.game, t.result)
    PROVE  Knockout'
<1> SUFFICES ASSUME config.format = "knockout" /\ config.tiebreak = "armageddon"
             PROVE  ArmedPlan(Seen(games, t), matches, t.plan)
  BY DEF Begins, Knockout, ArmedRows
<1>1. status = "running" /\ t.plan = Plan(config, view, matches) /\ config \in Configs
  BY DEF Begins, Writers
<1>2. PICK c : OrderFits(c)
  BY <1>1 DEF Ordered, HasMatches
<1>3. /\ Sound(config.n, c, games, matches) /\ KnockoutRows(c, matches) /\ Armed(games, matches)
      /\ IsFiniteSet(games) /\ \A g \in games : IsRow(g) /\ g # NoGame /\ g.result \in Results \cup {Unplayed}
  BY <1>1, <1>2, NoGameIs DEF OrderFits, PlayFits, PlayRows, Knockout, ArmedRows, Sound, Rows, GamesOK, GameOK
<1>4. view = Seen(games, t) /\ Written(t, view) /\ (t.game = NoGame \/ t.game \in games)
  BY <1>3 DEF Written, Seen
<1>5. Mirrors(games, view) /\ IsFiniteSet(view)
  BY <1>3, <1>4, WrittenMirrors, WrittenIs
<1>6. \A g \in view : g.result \in Results \cup {Unplayed}
  <2>1. t.game # NoGame => /\ view = (games \ {t.game}) \cup {[t.game EXCEPT !.result = t.result]}
                           /\ [t.game EXCEPT !.result = t.result].result \in Results
    BY <1>3, ResultIs DEF With
  <2> QED BY <1>3, <2>1
<1>7. Later(games, view, c)
  BY <1>3, <1>4, SeenIs DEF Later
<1> QED BY <1>1, <1>4, <1>3, <1>5, <1>6, <1>7, ArmedBegins

LEMMA KnockoutWrite ==
    ASSUME Writers, Ordered, Knockout, NEW t \in transactions, Commit(t)
    PROVE  Knockout'
<1>0. config' = config /\ transactions' = transactions \ {t} /\ status # "scheduled" /\ config \in Configs
  BY CommitWrites DEF Writers
<1> SUFFICES ASSUME config.format = "knockout" PROVE InBracket(config.n, matches') /\ ArmedRows'
  BY <1>0 DEF Knockout
<1>1. PICK c : OrderFits(c)
  BY <1>0 DEF Ordered, HasMatches
<1>2. PICK u, d, ties, S, N : Committed(c, t, u, d, ties, S, N)
  BY <1>0, <1>1, CommittedIs
<1>3. /\ PlayRows(config, c, games, matches) /\ PlayPlan(config, c, matches, t.plan)
      /\ OrderPlan(config, c, games, matches, t)
      /\ \A v \in transactions : PlanSound(v.plan, config.n, c, matches)
  BY <1>1 DEF OrderFits, PlayFits, PlayPlan
<1>4. /\ Rewrites(t, u) /\ WriteParts(u, config.n, c, d, ties, S, N)
      /\ Sound(config.n, c, games, matches) /\ PlanSound(u.plan, config.n, c, matches)
  BY <1>2, <1>3 DEF Committed, PlayPlan, PlayRows
<1>5. InBracket(config.n, matches')
  <2>1. u.plan.matches # {} => \E over : RoundAdded(config.n, c, over, N, u.plan.matches)
    BY <1>0, <1>3, <1>4, RoundAddedIs DEF Knockout
  <2>2. matches' = N \cup u.plan.matches /\ Follows(matches, N) /\ \A m \in matches : m.status # "pending" => m \in N
    BY <1>4 DEF WriteParts, Kept
  <2>3. config.n \in Nat \ {0, 1} /\ InBracket(config.n, matches)
    BY <1>0, RoundsAssumption DEF Knockout
  <2> QED BY <2>1, <2>2, <2>3, BracketKept
<1>6. ASSUME config.tiebreak = "armageddon"
      PROVE  /\ Armed(games', matches')
             /\ \A v \in transactions' : ArmedPlan(Seen(games', v), matches', v.plan)
  <2>1. Armed(games, matches) /\ \A v \in transactions : ArmedPlan(Seen(games, v), matches, v.plan)
    BY <1>0, <1>6 DEF Knockout, ArmedRows
  <2>2. u.game = t.game /\ ArmedPlan(Seen(games, u), matches, u.plan)
    BY <1>4, <2>1 DEF Rewrites, Seen, ArmedPlan
  <2>3. \A v \in transactions : v.game = NoGame \/ (v.game \in games /\ v.game.result = Unplayed)
    BY DEF Writers
  <2>4. \A v \in transactions' : v \in transactions /\ v.game # t.game
    BY <1>0 DEF Writers
  <2> QED BY <1>3, <1>4, <2>1, <2>2, <2>3, <2>4, ArmedWrite
<1> QED BY <1>0, <1>5, <1>6 DEF ArmedRows

LEMMA KnockoutInductive == Writers /\ Ordered /\ Knockout /\ [Next]_vars => Knockout'
<1> SUFFICES ASSUME Writers, Ordered, Knockout, [Next]_vars PROVE Knockout'
  OBVIOUS
<1>1. CASE Prepare
  BY <1>1, KnockoutPrepared DEF Prepare, Writers, Knockout
<1>2. CASE GameEnds
  <2>1. PICK g \in games, result \in config.results : FinishBegins(g, result)
    BY <1>2 DEF GameEnds
  <2>2. PICK t : Begins(t, With(games, g, result)) /\ t.game = g /\ t.result = result /\ g.result = Unplayed
    BY <2>1, BeginsIs
  <2>3. result \in Results
    BY RoundsAssumption DEF Writers
  <2> QED BY <2>2, <2>3, KnockoutBegins
<1>3. CASE CycleBegins
  <2>1. PICK t : Begins(t, games) /\ t.game = NoGame
    BY <1>3, BeginsIs
  <2> QED BY <2>1, KnockoutBegins
<1>4. CASE Commits
  BY <1>4, KnockoutWrite DEF Commits
<1>5. CASE RollsBack
  BY <1>5 DEF RollsBack, RollBack, Knockout, ArmedRows
<1>6. CASE UNCHANGED vars
  BY <1>6 DEF vars, Knockout, ArmedRows
<1> QED BY <1>1, <1>2, <1>3, <1>4, <1>5, <1>6 DEF Next

(* What the bracket means for losers, winners and seeds.                   *)
LEMMA BracketMeans ==
    ASSUME NEW n \in Nat \ {0, 1}, NEW c, NEW G, NEW M, Sound(n, c, G, M), KnockoutRows(c, M), InBracket(n, M),
           NEW m \in M
    PROVE  /\ \A l \in M : l.round > m.round => Rivals(l) \cap Rivals(m) \subseteq {m.winner, Nobody}
           /\ \A x \in M : x.round = m.round + 1 => \E l \in M :
                 {j \in M : j.round = m.round + 1 /\ m.winner \in Rivals(j)} = {l}
           /\ m.round < Depth(n) /\ m.second # Nobody => \E p \in Rivals(m) : p > BracketSize[Depth(n) - m.round]
<1> DEFINE r == m.round
<1>1. /\ \A x, y \in M : x.round = y.round /\ x.index = y.index => x = y
      /\ \A x \in M : MatchOK(n, x) /\ HasWinner(x)
      /\ \A x, y \in M : x.round = y.round /\ x.index # y.index => Rivals(x) \cap Rivals(y) \subseteq {Nobody}
  BY Keys DEF Sound, MatchesOK, KnockoutRows, ApartIn
<1>2. r \in Nat \ {0} /\ \A x \in M : x.round \in Nat /\ Place(n, x) /\ Climbed(M, x)
  BY DEF InBracket, Place, Sound, Rows
<1>3. ASSUME NEW x \in M, x.round = r + 1
      PROVE  \E a, b \in M : /\ a.round = r /\ a.index = 2 * x.index - 1 /\ a.winner = x.first
                             /\ b.round = r /\ b.index = 2 * x.index /\ b.winner = x.second
                             /\ {a.winner, b.winner} = Rivals(x) /\ a.winner \in Rivals(a) /\ b.winner \in Rivals(b)
  <2>1. Meet(Done(M, r), x.index, x.first, x.second)
    BY <1>2, <1>3 DEF Climbed
  <2>2. PICK a, b \in Done(M, r) : /\ a.index = 2 * x.index - 1 /\ a.winner = x.first
                                   /\ b.index = 2 * x.index /\ b.winner = x.second
    BY <2>1 DEF Meet
  <2>3. \A y \in Done(M, r) : y \in M /\ y.round = r /\ y.winner \in Rivals(y)
    BY <1>1 DEF Done, HasWinner, MatchOK, Rivals
  <2> QED BY <2>2, <2>3 DEF Rivals
<1>4. ASSUME NEW l \in M, l.round > r, NEW p \in Rivals(l) \cap Rivals(m), p # Nobody PROVE p = m.winner
  <2>1. PICK x \in M : x.round = r + 1 /\ p \in Rivals(x)
    BY <1>2, <1>4 DEF Climbed
  <2>2. PICK a \in M : a.round = r /\ a.winner = p /\ p \in Rivals(a)
    BY <1>3, <2>1
  <2> QED BY <1>1, <1>4, <2>2
<1>5. ASSUME NEW x \in M, x.round = r + 1
      PROVE  \E l \in M : {j \in M : j.round = r + 1 /\ m.winner \in Rivals(j)} = {l}
  <2> DEFINE K == Count(n, r + 1)
             i == (m.index + 1) \div 2
  <2>1. r \in 1..Depth(n) /\ m.index \in 1..Count(n, r) /\ r + 1 \in 1..Depth(n)
    BY <1>2, <1>5 DEF Place
  <2>2. Count(n, r) = 2 * K /\ K \in Nat
    BY DepthIs, <2>1, CountIs
  <2>3. i \in 1..K /\ (m.index = 2 * i - 1 \/ m.index = 2 * i)
    <3> HIDE DEF K
    <3> QED BY <2>1, <2>2
  <2> HIDE DEF K, i
  <2>4. PICK l \in M : l.round = r + 1 /\ l.index = i
    BY <1>5, <2>3 DEF InBracket, Full, K
  <2>5. m.winner \in Rivals(l) /\ m.winner # Nobody
    <3>1. PICK a, b \in M : /\ a.round = r /\ a.index = 2 * i - 1 /\ a.winner \in Rivals(l)
                            /\ b.round = r /\ b.index = 2 * i /\ b.winner \in Rivals(l)
                            /\ a.winner = l.first /\ b.winner = l.second
      BY <1>3, <2>4
    <3>2. m = a \/ m = b
      BY <1>1, <2>3, <3>1
    <3>3. l.first # Nobody /\ l.second # Nobody
      BY <1>1, <1>2, <2>4 DEF MatchOK, Nobody, Place
    <3> QED BY <3>1, <3>2, <3>3
  <2>6. \A j \in M : j.round = r + 1 /\ m.winner \in Rivals(j) => j = l
    BY <1>1, <2>4, <2>5
  <2>7. {j \in M : j.round = r + 1 /\ m.winner \in Rivals(j)} = {l}
    BY <2>4, <2>5, <2>6
  <2> QED BY <2>7
<1>6. ASSUME r < Depth(n), m.second # Nobody PROVE \E p \in Rivals(m) : p > BracketSize[Depth(n) - r]
  <2> DEFINE k == Depth(n) - r
  <2>1. k \in Nat \ {0}
    BY <1>2, <1>6, DepthIs
  <2>2. BracketSize[k] \in Nat
    BY <2>1, BracketSizeIs
  <2>3. /\ m.first \in Nat /\ m.second \in Nat /\ m.first # m.second /\ m.first # Nobody
        /\ \A p \in Rivals(m) \ {Nobody} : p <= BracketSize[k] => p = SeedOrder[k][m.index]
    BY <1>1, <1>2, <1>6 DEF MatchOK, Nobody, Place, Seeding
  <2> HIDE DEF k
  <2>4. ~(m.first <= BracketSize[k]) \/ ~(m.second <= BracketSize[k])
    BY <1>6, <2>3 DEF Rivals
  <2> QED BY <2>2, <2>3, <2>4 DEF Rivals, k
<1> QED BY <1>4, <1>5, <1>6

(* Whichever transactions commit in whichever order, a knockout tournament *)
(* keeps to its bracket (scheduler.py:262-280, 352-475, 693-700): losers   *)
(* are out, winners play exactly one match of the next round, the best     *)
(* seeds are kept apart, and an armageddon game decides level matches.     *)
THEOREM KnockoutStaysFair == Spec => []KnockoutIsFair
<1> DEFINE Inv == Writers /\ Ordered /\ Knockout
<1>1. Init => Inv
  BY WritersInitially DEF Init, Ordered, HasMatches, Knockout
<1>2. Inv /\ [Next]_vars => Inv'
  BY WritersInductive, OrderedInductive, KnockoutInductive
<1>3. Inv => KnockoutIsFair
  <2> SUFFICES ASSUME Inv, config.format = "knockout", matches # {} PROVE LosersAreOut /\ SeedsAreKeptApart
    BY DEF KnockoutIsFair, LosersAreOut, SeedsAreKeptApart
  <2>1. PICK c : Sound(config.n, c, games, matches) /\ KnockoutRows(c, matches)
    BY DEF Ordered, HasMatches, Writers, OrderFits, PlayFits, PlayRows
  <2>2. config.n \in Nat \ {0, 1} /\ InBracket(config.n, matches) /\ ArmedRows
    BY RoundsAssumption DEF Writers, Knockout
  <2>3. ASSUME NEW m \in matches
        PROVE  /\ \A round \in {x.round : x \in {x \in matches : x.round > m.round}} :
                     /\ \A p \in {m.first, m.second} \ {m.winner, Nobody} :
                           {x \in matches : x.round = round /\ p \in {x.first, x.second}} = {}
                     /\ round = m.round + 1 =>
                           Cardinality({x \in matches : x.round = round /\ m.winner \in {x.first, x.second}}) = 1
               /\ config.tiebreak = "armageddon" /\ m.status = "finished" =>
                     \A p \in {m.first, m.second} \ {m.winner, Nobody} :
                        \/ MatchPoints(GamesOfMatch(games, m), m.winner) > MatchPoints(GamesOfMatch(games, m), p)
                        \/ /\ MatchPoints(GamesOfMatch(games, m), m.winner) = MatchPoints(GamesOfMatch(games, m), p)
                           /\ \E g \in GamesOfMatch(games, m) : g.kind = "armageddon" /\
                                 (Victor(g) = m.winner \/ (g.result = Draw /\ g.black = m.winner))
    <3>1. /\ \A l \in matches : l.round > m.round => Rivals(l) \cap Rivals(m) \subseteq {m.winner, Nobody}
          /\ \A x \in matches : x.round = m.round + 1 => \E l \in matches :
                {j \in matches : j.round = m.round + 1 /\ m.winner \in Rivals(j)} = {l}
      BY <2>1, <2>2, BracketMeans
    <3>2. ASSUME NEW y \in matches, y.round = m.round + 1
          PROVE  Cardinality({x \in matches : x.round = m.round + 1 /\ m.winner \in {x.first, x.second}}) = 1
      BY <3>1, <3>2, FS_Singleton DEF Rivals
    <3>3. config.tiebreak = "armageddon" /\ m.status = "finished" => Upheld(games, m)
      BY <2>2 DEF ArmedRows, Armed, Won
    <3> QED BY <3>1, <3>2, <3>3 DEF Rivals, Upheld, Scored, Holds, Held
  <2>4. LosersAreOut
    BY <2>3 DEF LosersAreOut
  <2>5. SeedsAreKeptApart
    BY <2>1, <2>2, BracketMeans DEF SeedsAreKeptApart, InBracket, Place, Rivals
  <2> QED BY <2>4, <2>5
<1> QED BY <1>1, <1>2, <1>3, PTL DEF Spec
=============================================================================
