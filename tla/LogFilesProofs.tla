--------------------------- MODULE LogFilesProofs ---------------------------
(***************************************************************************)
(* Proofs about LogFiles, for any limits, lines, days, restarts and either *)
(* platform: however names sort and whoever keeps a file open, the folder  *)
(* is bounded.                                                             *)
(***************************************************************************)
EXTENDS LogFiles, FiniteSetTheorems, TLAPS

\* The day and the limits, and what the logger remembers of its file.
LogTyped ==
    /\ day \in 0..MaxDay /\ removeOpen \in BOOLEAN
    /\ open \in [name : Names \cup {NoName}, size : Nat]
    /\ DOMAIN files \subseteq Names /\ IsFiniteSet(DOMAIN files)
    /\ files \in [DOMAIN files -> Nat]

LogInv == LogTyped /\ FolderBounded

\* How many of the names sort before f.
Earlier(names, f) == {g \in names : Rank(g) < Rank(f)}

\* No two names sort alike.
LEMMA RankFacts ==
  /\ \A f \in Names : Rank(f) \in Nat
  /\ \A f, g \in Names : Rank(f) = Rank(g) => f = g
<1>1. ASSUME NEW f \in Names
      PROVE  f[1] \in Nat /\ f[2] \in 0..8 /\ f = <<f[1], f[2]>>
      BY LogConstants DEF Names, MaxNum
<1>2. ASSUME NEW f \in Names
      PROVE  Rank(f) = 9 * f[1] + (IF f[2] = 0 THEN 8 ELSE f[2] - 1)
      BY DEF Rank, MaxNum
<1>3. ASSUME NEW f \in Names
      PROVE  Rank(f) \in Nat
      BY <1>1, <1>2
<1>4. ASSUME NEW f \in Names, NEW g \in Names, Rank(f) = Rank(g)
      PROVE  f = g
  <2>1. f[1] = g[1] /\ f[2] = g[2]
        BY <1>1, <1>2, <1>4
  <2> QED BY <1>1, <2>1
<1> QED BY <1>3, <1>4

\* f's place in the order, which tells it from the other names.
Place(names, f) == Cardinality(Earlier(names, f))

LEMMA Places ==
  ASSUME NEW names \in SUBSET Names, IsFiniteSet(names)
  PROVE  /\ \A f \in names : Place(names, f) \in 0..(Cardinality(names) - 1)
         /\ \A f, g \in names : Rank(f) < Rank(g) => Place(names, f) < Place(names, g)
         /\ \A f, g \in names : Place(names, f) = Place(names, g) => f = g
<1> DEFINE N == Cardinality(names)
           place(f) == Cardinality(Earlier(names, f))
<1>1. N \in Nat
      BY FS_CardinalityType
<1>2. ASSUME NEW f \in names
      PROVE  IsFiniteSet(Earlier(names, f)) /\ place(f) \in 0..(N - 1)
  <2>1. Earlier(names, f) \in SUBSET names /\ f \notin Earlier(names, f)
        BY RankFacts DEF Earlier
  <2>2. IsFiniteSet(Earlier(names, f)) /\ place(f) <= N /\ place(f) # N
        BY <2>1, FS_Subset
  <2>3. place(f) \in Nat
        BY <2>2, FS_CardinalityType
  <2> QED BY <1>1, <2>2, <2>3
<1>3. ASSUME NEW f \in names, NEW g \in names, Rank(f) < Rank(g)
      PROVE  place(f) < place(g)
  <2>1. Rank(f) \in Nat /\ Rank(g) \in Nat /\ \A e \in names : Rank(e) \in Nat
        BY RankFacts
  <2>2. Earlier(names, f) \in SUBSET Earlier(names, g)
        BY <1>3, <2>1 DEF Earlier
  <2>3. f \in Earlier(names, g) /\ f \notin Earlier(names, f)
        BY <1>3, <2>1 DEF Earlier
  <2>4. IsFiniteSet(Earlier(names, g)) /\ place(f) \in Nat /\ place(g) \in Nat
        BY <1>1, <1>2
  <2>5. place(f) <= place(g) /\ place(f) # place(g)
        BY <2>2, <2>3, <2>4, FS_Subset
  <2> QED BY <2>4, <2>5
<1>4. ASSUME NEW f \in names, NEW g \in names, place(f) = place(g)
      PROVE  f = g
  <2>1. Rank(f) \in Nat /\ Rank(g) \in Nat /\ place(f) \in Nat /\ place(g) \in Nat
        BY <1>1, <1>2, RankFacts
  <2>2. ~(Rank(f) < Rank(g)) /\ ~(Rank(g) < Rank(f))
        BY <1>3, <1>4, <2>1
  <2> QED BY <2>1, <2>2, RankFacts
<1> QED BY <1>2, <1>3, <1>4 DEF Place

(***************************************************************************)
(* cleanup keeps at most keepFiles names: those with the last places.      *)
(***************************************************************************)
LEMMA SurplusLeavesFew ==
  ASSUME NEW names \in SUBSET Names, IsFiniteSet(names)
  PROVE  /\ IsFiniteSet(names \ Surplus(names))
         /\ Cardinality(names \ Surplus(names)) <= KeepFiles
<1> DEFINE N == Cardinality(names)
           kept == names \ Surplus(names)
           place(f) == Place(names, f)
<1>1. N \in Nat /\ KeepFiles \in Nat
      BY FS_CardinalityType, LogConstants
<1>2. \A f \in names : place(f) \in 0..(N - 1)
      BY Places
<1>4. \A f, g \in names : place(f) = place(g) => f = g
      BY Places
<1>5. ASSUME NEW f \in kept
      PROVE  f \in names /\ place(f) \in (N - KeepFiles)..(N - 1)
  <2>1. f \in names /\ ~(place(f) + KeepFiles < N)
        BY DEF Surplus, Place, Earlier
  <2>2. place(f) \in 0..(N - 1)
        BY <1>2, <2>1
  <2> HIDE DEF place
  <2> QED BY <1>1, <2>1, <2>2
<1> DEFINE T == (N - KeepFiles)..(N - 1)
           p == [f \in kept |-> place(f)]
<1>6. p \in Injection(kept, T)
  <2>1. p \in [kept -> T]
        BY <1>5
  <2>2. \A f, g \in kept : p[f] = p[g] => f = g
        BY <1>4, <1>5
  <2> QED BY <2>1, <2>2 DEF Injection, IsInjective
<1>7. IsFiniteSet(T) /\ Cardinality(T) = KeepFiles
  <2>1. N - KeepFiles \in Int /\ N - 1 \in Int /\ KeepFiles > 0
        BY <1>1, LogConstants
  <2>2. IsFiniteSet(T) /\ Cardinality(T) = IF N - KeepFiles > N - 1 THEN 0 ELSE (N - 1) - (N - KeepFiles) + 1
        BY <2>1, FS_Interval
  <2> HIDE DEF T
  <2> QED BY <1>1, <2>1, <2>2
<1> HIDE DEF kept, p, T
<1>8. IsFiniteSet(kept) /\ Cardinality(kept) <= Cardinality(T)
      BY <1>6, <1>7, FS_Injection
<1> QED BY <1>7, <1>8 DEF kept

\* Some name sorts last: each place is taken.
LEMMA LastName ==
  ASSUME NEW names \in SUBSET Names, IsFiniteSet(names), names # {}
  PROVE  \E g \in names : \A f \in names : Rank(f) <= Rank(g)
<1> DEFINE N == Cardinality(names)
           T == 0..(N - 1)
           p == [f \in names |-> Place(names, f)]
<1>1. N \in Nat /\ N # 0
      BY FS_CardinalityType, FS_EmptySet
<1>2. p \in Injection(names, T)
  <2>1. p \in [names -> T]
        BY Places
  <2>2. \A f, g \in names : p[f] = p[g] => f = g
        BY Places
  <2> QED BY <2>1, <2>2 DEF Injection, IsInjective
<1>3. IsFiniteSet(T) /\ Cardinality(T) = N
  <2>1. 0 \in Int /\ N - 1 \in Int
        BY <1>1
  <2>2. IsFiniteSet(T) /\ Cardinality(T) = IF 0 > N - 1 THEN 0 ELSE (N - 1) - 0 + 1
        BY <2>1, FS_Interval
  <2> HIDE DEF T
  <2> QED BY <1>1, <2>1, <2>2
<1>4. N - 1 \in T
      BY <1>1
<1> HIDE DEF p, T
<1>5. p \in Surjection(names, T)
      BY <1>2, <1>3, FS_Injection
<1>6. PICK g \in names : p[g] = N - 1
      BY <1>4, <1>5 DEF Surjection
<1>7. Place(names, g) = N - 1
      BY <1>6 DEF p
<1>8. ASSUME NEW f \in names, Rank(g) < Rank(f)
      PROVE  FALSE
  <2>1. Place(names, f) \in 0..(N - 1) /\ Place(names, g) < Place(names, f)
        BY <1>8, Places
  <2> HIDE DEF N
  <2> QED BY <1>1, <1>7, <2>1
<1>9. \A f \in names : Rank(f) \in Nat
      BY RankFacts
<1> QED BY <1>8, <1>9

\* Two more files cannot be removed while they are open.
LEMMA TwoMore ==
  ASSUME NEW S, IsFiniteSet(S), NEW a, NEW b
  PROVE  IsFiniteSet(S \cup {a, b}) /\ Cardinality(S \cup {a, b}) <= Cardinality(S) + 2
<1>1. Cardinality(S) \in Nat
      BY FS_CardinalityType
<1>2. IsFiniteSet(S \cup {a}) /\ Cardinality(S \cup {a}) \in {Cardinality(S), Cardinality(S) + 1}
      BY FS_AddElement
<1>3. /\ IsFiniteSet((S \cup {a}) \cup {b})
      /\ Cardinality((S \cup {a}) \cup {b}) \in {Cardinality(S \cup {a}), Cardinality(S \cup {a}) + 1}
      BY <1>2, FS_AddElement
<1>4. (S \cup {a}) \cup {b} = S \cup {a, b}
      OBVIOUS
<1> QED BY <1>1, <1>2, <1>3, <1>4

LEMMA CleanupBounds ==
  ASSUME NEW names \in SUBSET Names, IsFiniteSet(names), NEW opened
  PROVE  LET left == Cleanup(names, opened) IN
         /\ left \in SUBSET names /\ IsFiniteSet(left)
         /\ Cardinality(left) <= KeepFiles + (IF removeOpen THEN 0 ELSE 2)
<1> DEFINE left == Cleanup(names, opened)
           outdated == {f \in names : f[1] + KeepDays < day}
           rest == names \ outdated
           doomed == outdated \cup Surplus(rest)
           few == rest \ Surplus(rest)
<1>1. rest \in SUBSET Names /\ IsFiniteSet(rest)
      BY FS_Subset
<1>2. IsFiniteSet(few) /\ Cardinality(few) <= KeepFiles /\ Cardinality(few) \in Nat
  <2>1. IsFiniteSet(few) /\ Cardinality(few) <= KeepFiles
        BY <1>1, SurplusLeavesFew
  <2> QED BY <2>1, FS_CardinalityType
<1>3. left = names \ (IF removeOpen THEN doomed ELSE doomed \ {opened, tail})
      BY DEF Cleanup
<1>4. left \in SUBSET names
      BY <1>3
<1>5. IsFiniteSet(left)
      BY <1>4, FS_Subset
<1>6. names \ doomed = few
      OBVIOUS
<1>7. KeepFiles \in Nat
      BY LogConstants
<1>8. CASE removeOpen
  <2>1. left = few
        BY <1>3, <1>6, <1>8
  <2> QED BY <1>2, <1>4, <1>5, <1>7, <1>8, <2>1
<1>9. CASE ~removeOpen
  <2>1. left \in SUBSET (few \cup {opened, tail})
        BY <1>3, <1>6, <1>9
  <2>2. IsFiniteSet(few \cup {opened, tail}) /\ Cardinality(few \cup {opened, tail}) <= Cardinality(few) + 2
        BY <1>2, TwoMore
  <2>3. Cardinality(left) <= Cardinality(few \cup {opened, tail})
        BY <2>1, <2>2, FS_Subset
  <2>4. Cardinality(left) \in Nat /\ Cardinality(few \cup {opened, tail}) \in Nat
        BY <1>5, <2>2, FS_CardinalityType
  <2> HIDE DEF left, few
  <2>5. Cardinality(left) <= KeepFiles + 2
        BY <1>2, <1>7, <2>2, <2>3, <2>4
  <2> QED BY <1>4, <1>5, <1>9, <2>5 DEF left
<1> QED BY <1>8, <1>9

\* openFile finds a name of today that is free or below the limit.
LEMMA OpenFileUsable ==
  ASSUME day \in 0..MaxDay, OpenFile # NoName
  PROVE  OpenFile \in Names /\ Usable(OpenFile)
<1> DEFINE free == {n \in 0..MaxNum : Usable(<<day, n>>)}
<1>1. free # {} /\ OpenFile = <<day, Min(free)>>
      BY DEF OpenFile
<1>2. free \in SUBSET (0..8) /\ \A n \in free : Usable(<<day, n>>)
      BY DEF MaxNum
<1> HIDE DEF free
<1>3. \E x \in free : \A y \in free : x =< y
  <2>1. SUFFICES ASSUME \A x \in free : \E y \in free : y < x
                 PROVE  FALSE
        BY <1>2
  <2>2. 0 \notin free
        BY <1>2, <2>1
  <2>3. 1 \notin free /\ 2 \notin free
        BY <1>2, <2>1, <2>2
  <2>4. 3 \notin free /\ 4 \notin free
        BY <1>2, <2>1, <2>2, <2>3
  <2>5. 5 \notin free /\ 6 \notin free
        BY <1>2, <2>1, <2>2, <2>3, <2>4
  <2>6. 7 \notin free /\ 8 \notin free
        BY <1>2, <2>1, <2>2, <2>3, <2>4, <2>5
  <2>7. ASSUME NEW n \in free
        PROVE  n \in {0, 1, 2, 3, 4, 5, 6, 7, 8}
    <3>1. n \in 0..8
          BY <1>2
    <3> QED BY <3>1
  <2> QED BY <1>1, <2>2, <2>3, <2>4, <2>5, <2>6, <2>7
<1>4. Min(free) \in free
      BY <1>3 DEF Min
<1>5. Usable(<<day, Min(free)>>) /\ Min(free) \in 0..MaxNum
      BY <1>2, <1>4 DEF MaxNum
<1> QED BY <1>1, <1>5 DEF Names

LEMMA WriteLineInv ==
  ASSUME LogInv, NEW len \in 1..MaxLine, WriteLine(len)
  PROVE  LogInv'
<1> DEFINE rotate == open = Closed \/ open.name[1] # day \/ open.size + len > RotateSize
           target == IF rotate THEN OpenFile ELSE open.name
           present == IF rotate THEN DOMAIN files \cup {target} ELSE DOMAIN files
           kept == IF rotate THEN Cleanup(present, target) ELSE present
           oldSize == IF ~rotate THEN open.size
                      ELSE IF target \in DOMAIN files THEN files[target] ELSE 0
           alive == IF rotate THEN target \in kept ELSE linked
<1>1. /\ target # NoName
      /\ files' = [f \in kept |-> IF f = target /\ alive THEN oldSize + len ELSE files[f]]
      /\ open' = [name |-> target, size |-> oldSize + len]
      /\ UNCHANGED <<removeOpen, day>>
      BY DEF WriteLine
<1>2. LogTyped /\ FolderBounded /\ RotateSize \in Nat \ {0} /\ MaxLine \in Nat /\ len \in Nat /\ len <= MaxLine /\ KeepFiles \in Nat
      BY LogConstants DEF LogInv
<1>3. target \in Names /\ (rotate => Usable(target))
  <2>1. CASE rotate
        BY <1>1, <1>2, <2>1, OpenFileUsable DEF LogTyped
  <2>2. CASE ~rotate
        BY <1>1, <1>2, <2>2 DEF LogTyped
  <2> QED BY <2>1, <2>2
<1>4. oldSize \in Nat /\ oldSize + len < RotateSize + MaxLine
  <2>1. CASE rotate
    <3>1. oldSize \in Nat /\ oldSize < RotateSize
          BY <1>2, <1>3, <2>1 DEF Usable, LogTyped
    <3> HIDE DEF oldSize
    <3> QED BY <1>2, <3>1
  <2>2. CASE ~rotate
    <3>1. oldSize = open.size /\ open.size \in Nat /\ ~(open.size + len > RotateSize)
          BY <1>2, <2>2 DEF LogTyped
    <3> HIDE DEF oldSize
    <3> QED BY <1>2, <3>1
  <2> QED BY <2>1, <2>2
<1>5. /\ kept \subseteq Names /\ IsFiniteSet(kept)
      /\ Cardinality(kept) <= KeepFiles + (IF removeOpen THEN 0 ELSE 2)
      /\ \A f \in kept : f \in DOMAIN files \/ (f = target /\ rotate)
  <2>1. CASE rotate
    <3>1. present \in SUBSET Names /\ IsFiniteSet(present)
      <4>1. present = DOMAIN files \cup {target} /\ IsFiniteSet(DOMAIN files) /\ DOMAIN files \subseteq Names
            BY <1>2, <2>1 DEF LogTyped
      <4> QED BY <1>3, <4>1, FS_AddElement
    <3>2. kept = Cleanup(present, target) /\ present = DOMAIN files \cup {target}
          BY <2>1
    <3> HIDE DEF kept, present, target
    <3>3. /\ kept \in SUBSET present /\ IsFiniteSet(kept)
          /\ Cardinality(kept) <= KeepFiles + (IF removeOpen THEN 0 ELSE 2)
          BY <3>1, <3>2, CleanupBounds
    <3> QED BY <2>1, <3>1, <3>2, <3>3
  <2>2. CASE ~rotate
        BY <1>2, <2>2 DEF LogTyped, FolderBounded
  <2> QED BY <2>1, <2>2
<1>6. rotate /\ target \in kept => alive
      OBVIOUS
<1> HIDE DEF rotate, target, present, kept, oldSize, alive
<1>7. DOMAIN files' = kept /\ files' \in [kept -> Nat] /\ \A f \in kept : files'[f] < RotateSize + MaxLine
  <2>1. ASSUME NEW f \in kept
        PROVE  LET n == IF f = target /\ alive THEN oldSize + len ELSE files[f] IN n \in Nat /\ n < RotateSize + MaxLine
    <3>1. CASE f = target /\ alive
          BY <1>2, <1>4, <3>1
    <3>2. CASE ~(f = target /\ alive)
      <4>1. f \in DOMAIN files
            BY <1>5, <1>6, <3>2
      <4> QED BY <1>2, <3>2, <4>1 DEF LogTyped, FolderBounded
    <3> QED BY <3>1, <3>2
  <2> QED BY <1>1, <2>1
<1>8. LogTyped'
  <2>1. oldSize + len \in Nat
        BY <1>2, <1>4
  <2>2. open' \in [name : Names \cup {NoName}, size : Nat]
        BY <1>1, <1>3, <2>1
  <2> QED BY <1>1, <1>2, <1>5, <1>7, <2>2 DEF LogTyped
<1>9. FolderBounded'
      BY <1>1, <1>5, <1>7 DEF FolderBounded
<1> QED BY <1>8, <1>9 DEF LogInv

LEMMA LogInvInit ==
  ASSUME LogInit
  PROVE  LogInv
<1>1. DOMAIN files = {}
      BY DEF LogInit
<1>2. IsFiniteSet(DOMAIN files) /\ Cardinality(DOMAIN files) = 0
      BY <1>1, FS_EmptySet
<1>3. files \in [DOMAIN files -> Nat]
  <2>1. <<>> \in [{} -> Nat]
        OBVIOUS
  <2> QED BY <1>1, <2>1 DEF LogInit
<1>4. open \in [name : Names \cup {NoName}, size : Nat]
      BY DEF LogInit, Closed
<1>5. LogTyped
      BY <1>1, <1>2, <1>3, <1>4, LogConstants DEF LogInit, LogTyped
<1>6. FolderBounded
      BY <1>1, <1>2, LogConstants DEF FolderBounded
<1> QED BY <1>5, <1>6 DEF LogInv

LEMMA LogInvStep ==
  ASSUME LogInv, [LogNext]_logVars
  PROVE  LogInv'
<1>1. CASE \E len \in 1..MaxLine : WriteLine(len)
      BY <1>1, WriteLineInv
<1>2. CASE Restart
  <2>1. open' \in [name : Names \cup {NoName}, size : Nat] /\ UNCHANGED <<files, removeOpen, day>>
        BY <1>2 DEF Restart, Closed
  <2> QED BY <2>1 DEF LogInv, LogTyped, FolderBounded
<1>3. CASE NewDay \/ DayBack
  <2>1. day' \in 0..MaxDay /\ UNCHANGED <<files, removeOpen, open>>
        BY <1>3, LogConstants DEF NewDay, DayBack, LogInv, LogTyped
  <2> QED BY <2>1 DEF LogInv, LogTyped, FolderBounded
<1>4. CASE TailSwitch \/ UNCHANGED logVars
  <2>1. UNCHANGED <<files, removeOpen, open, day>>
        BY <1>4 DEF TailSwitch, logVars
  <2> QED BY <2>1 DEF LogInv, LogTyped, FolderBounded
<1> QED BY <1>1, <1>2, <1>3, <1>4 DEF LogNext

(***************************************************************************)
(* The folder is bounded for every limit and length of a line: openFile    *)
(* and writeFile together let no file grow beyond the limit and a line,    *)
(* and cleanup leaves keepFiles names, and on Windows the two open files.  *)
(***************************************************************************)
THEOREM FolderStaysBounded == LogSpec => []FolderBounded
<1>1. LogInv => FolderBounded
      BY DEF LogInv
<1> QED BY <1>1, LogInvInit, LogInvStep, PTL DEF LogSpec

-----------------------------------------------------------------------------
(* The tail *)

(***************************************************************************)
(* The tail never goes back to a name that sorts before the one it has     *)
(* left (openLatest), although cleanup removes names under it.             *)
(***************************************************************************)
TailNeverGoesBack == [][tail' # tail => tail = NoName \/ Rank(tail) < Rank(tail')]_logVars

(***************************************************************************)
(* Whatever cleanup removed, the name that sorts last is of the day being  *)
(* logged, so that one checkNewer brings the tail there, or of a later one *)
(* if the clock was set back (latestLogFile).                              *)
(***************************************************************************)
LatestIsCurrent ==
    open # Closed => /\ files # <<>> /\ Latest[1] >= open.name[1]
                     /\ Latest[1] > open.name[1] => turns > 0

TailInv ==
    /\ tail \in Names \cup {NoName}
    /\ tail # NoName => \E f \in DOMAIN files : Rank(tail) <= Rank(f)
    /\ turns \in Nat
    /\ turns = 0 => \A f \in DOMAIN files : f[1] <= day
    /\ open # Closed =>
         /\ open.name \in Names
         /\ \E f \in DOMAIN files : f[1] >= open.name[1]
         /\ turns = 0 => \A f \in DOMAIN files : f[1] <= open.name[1]

\* Names sort by date first.
LEMMA RankDay ==
  ASSUME NEW f \in Names, NEW g \in Names, Rank(f) <= Rank(g)
  PROVE  f[1] \in Nat /\ g[1] \in Nat /\ f[1] <= g[1]
<1>1. f[1] \in Nat /\ f[2] \in 0..8 /\ g[1] \in Nat /\ g[2] \in 0..8
      BY LogConstants DEF Names, MaxNum
<1>2. /\ Rank(f) = 9 * f[1] + (IF f[2] = 0 THEN 8 ELSE f[2] - 1)
      /\ Rank(g) = 9 * g[1] + (IF g[2] = 0 THEN 8 ELSE g[2] - 1)
      BY DEF Rank, MaxNum
<1> QED BY <1>1, <1>2

\* What cleanup leaves includes the name that sorts last.
LEMMA CleanupKeepsLast ==
  ASSUME NEW names \in SUBSET Names, IsFiniteSet(names),
         NEW opened \in names, opened[1] = day, day \in Nat
  PROVE  \E g \in Cleanup(names, opened) : \A f \in names : Rank(f) <= Rank(g)
<1> DEFINE outdated == {f \in names : f[1] + KeepDays < day}
           rest == names \ outdated
           N == Cardinality(rest)
<1>1. PICK g \in names : \A f \in names : Rank(f) <= Rank(g)
      BY LastName
<1>2. KeepDays \in Nat /\ KeepFiles \in Nat \ {0}
      BY LogConstants
<1>3. g[1] \in Nat /\ day <= g[1]
      BY <1>1, RankDay
<1>4. g \in rest
      BY <1>2, <1>3
<1>5. rest \in SUBSET Names /\ IsFiniteSet(rest)
      BY FS_Subset
<1>6. Earlier(rest, g) = rest \ {g}
  <2>1. \A f \in rest : Rank(f) \in Nat /\ Rank(g) \in Nat
        BY RankFacts
  <2>2. \A f \in rest : f # g => Rank(f) < Rank(g)
        BY <1>1, <2>1, RankFacts
  <2>3. ~(Rank(g) < Rank(g))
        BY <2>1, <1>4
  <2> HIDE DEF rest
  <2> QED BY <2>2, <2>3 DEF Earlier
<1> HIDE DEF rest
<1>7. N \in Nat /\ Cardinality(rest \ {g}) = N - 1
      BY <1>4, <1>5, FS_RemoveElement, FS_CardinalityType
<1>8. g \notin Surplus(rest)
  <2>1. ~(Cardinality(Earlier(rest, g)) + KeepFiles < N)
        BY <1>2, <1>6, <1>7
  <2> QED BY <2>1 DEF Surplus, Earlier
<1>9. g \in Cleanup(names, opened)
      BY <1>4, <1>8 DEF Cleanup, rest
<1> QED BY <1>1, <1>9

LEMMA OpenFileToday == OpenFile # NoName => OpenFile[1] = day
BY DEF OpenFile

LEMMA WriteLineTail ==
  ASSUME LogInv, TailInv, NEW len \in 1..MaxLine, WriteLine(len)
  PROVE  TailInv'
<1> DEFINE rotate == open = Closed \/ open.name[1] # day \/ open.size + len > RotateSize
           target == IF rotate THEN OpenFile ELSE open.name
           present == IF rotate THEN DOMAIN files \cup {target} ELSE DOMAIN files
           kept == IF rotate THEN Cleanup(present, target) ELSE present
<1>1. /\ target # NoName /\ DOMAIN files' = kept /\ open'.name = target
      /\ UNCHANGED <<day, turns, tail>>
      BY DEF WriteLine
<1>2. /\ day \in Nat /\ DOMAIN files \subseteq Names /\ IsFiniteSet(DOMAIN files)
      /\ tail \in Names \cup {NoName} /\ (turns = 0 => \A f \in DOMAIN files : f[1] <= day)
      /\ day \in 0..MaxDay /\ turns \in Nat
      BY LogConstants DEF LogInv, LogTyped, TailInv
<1>3. CASE rotate
  <2>1. target = OpenFile /\ present = DOMAIN files \cup {target} /\ kept = Cleanup(present, target)
        BY <1>3
  <2>2. target \in Names /\ target[1] = day
        BY <1>1, <1>2, <2>1, OpenFileUsable, OpenFileToday
  <2> HIDE DEF rotate, target, kept, present
  <2>3. present \in SUBSET Names /\ IsFiniteSet(present) /\ target \in present
        BY <1>2, <2>1, <2>2, FS_AddElement
  <2>4. kept \in SUBSET present
        BY <2>1, <2>3, CleanupBounds
  <2>5. PICK g \in kept : \A f \in present : Rank(f) <= Rank(g)
        BY <1>2, <2>1, <2>2, <2>3, CleanupKeepsLast
  <2>6. turns = 0 => \A f \in kept : f[1] <= day
    <3>1. turns = 0 => \A f \in present : f[1] <= day
          BY <1>2, <2>1, <2>2
    <3> QED BY <2>4, <3>1
  <2>7. g[1] >= day
    <3>1. Rank(target) <= Rank(g) /\ target \in Names /\ g \in Names
          BY <2>2, <2>3, <2>4, <2>5
    <3>2. g[1] \in Nat /\ day <= g[1]
          BY <2>2, <3>1, RankDay
    <3> QED BY <1>2, <3>2
  <2>8. tail # NoName => \E f \in kept : Rank(tail) <= Rank(f)
    <3> SUFFICES ASSUME tail # NoName PROVE Rank(tail) <= Rank(g)
        OBVIOUS
    <3>1. PICK f \in DOMAIN files : Rank(tail) <= Rank(f)
          BY DEF TailInv
    <3>2. f \in present /\ Rank(f) <= Rank(g)
          BY <2>1, <2>5
    <3>3. Rank(tail) \in Nat /\ Rank(f) \in Nat /\ Rank(g) \in Nat
          BY <1>2, <2>3, <2>4, RankFacts
    <3> QED BY <3>1, <3>2, <3>3
  <2> QED BY <1>1, <1>2, <2>2, <2>6, <2>7, <2>8 DEF TailInv
<1>4. CASE ~rotate
  <2>1. open # Closed /\ target = open.name /\ kept = DOMAIN files
        BY <1>4
  <2> HIDE DEF rotate, target, kept, present
  <2> QED BY <1>1, <1>2, <2>1 DEF TailInv
<1> QED BY <1>3, <1>4

\* latestLogFile finds the name that sorts last.
LEMMA LatestFacts ==
  ASSUME LogInv, files # <<>>
  PROVE  Latest \in DOMAIN files /\ \A f \in DOMAIN files : Rank(f) <= Rank(Latest)
<1>1. DOMAIN files \in SUBSET Names /\ IsFiniteSet(DOMAIN files) /\ files \in [DOMAIN files -> Nat]
      BY DEF LogInv, LogTyped
<1>2. ASSUME DOMAIN files = {} PROVE FALSE
  <2>1. files \in [{} -> Nat] /\ <<>> \in [{} -> Nat]
        BY <1>1, <1>2
  <2>2. \A f, g \in [{} -> Nat] : f = g
        OBVIOUS
  <2> QED BY <2>1, <2>2
<1>3. \E g \in DOMAIN files : \A f \in DOMAIN files : Rank(f) <= Rank(g)
      BY <1>1, <1>2, LastName
<1> QED BY <1>3 DEF Latest

LEMMA TailInvInit ==
  ASSUME LogInit
  PROVE  TailInv
BY DEF LogInit, TailInv

LEMMA TailInvStep ==
  ASSUME LogInv, TailInv, [LogNext]_logVars
  PROVE  TailInv'
<1>1. CASE \E len \in 1..MaxLine : WriteLine(len)
      BY <1>1, WriteLineTail
<1>2. CASE Restart
  <2>1. open' = Closed /\ UNCHANGED <<files, day, turns, tail>>
        BY <1>2 DEF Restart
  <2> QED BY <2>1 DEF TailInv
<1>3. CASE NewDay
  <2>1. day' = day + 1 /\ UNCHANGED <<files, open, turns, tail>> /\ day \in Nat
        BY <1>3, LogConstants DEF NewDay, LogInv, LogTyped
  <2>2. ASSUME NEW f \in DOMAIN files, turns = 0 PROVE f[1] <= day'
    <3>1. f \in Names /\ f[1] <= day
          BY <2>2 DEF LogInv, LogTyped, TailInv
    <3>2. f[1] \in Nat
          BY <3>1, LogConstants DEF Names
    <3> QED BY <2>1, <3>1, <3>2
  <2> QED BY <2>1, <2>2 DEF TailInv
<1>6. CASE DayBack
  <2>1. turns' = turns + 1 /\ UNCHANGED <<files, open, tail>>
        BY <1>6 DEF DayBack
  <2>2. turns' \in Nat /\ turns' # 0
        BY <2>1 DEF TailInv
  <2> QED BY <2>1, <2>2 DEF TailInv
<1>4. CASE TailSwitch
  <2>1. Latest \in DOMAIN files /\ tail' = Latest /\ UNCHANGED <<files, open, day, turns>>
        BY <1>4, LatestFacts DEF TailSwitch
  <2>2. Latest \in Names /\ Rank(Latest) <= Rank(Latest)
        BY <2>1, RankFacts DEF LogInv, LogTyped
  <2> QED BY <2>1, <2>2 DEF TailInv
<1>5. CASE UNCHANGED logVars
      BY <1>5 DEF logVars, TailInv
<1> QED BY <1>1, <1>2, <1>3, <1>4, <1>5, <1>6 DEF LogNext

LEMMA TailInvariance == LogSpec => [](LogInv /\ TailInv)
BY LogInvInit, LogInvStep, TailInvInit, TailInvStep, PTL DEF LogSpec

(***************************************************************************)
(* On both platforms and for every limit the tail only moves to names that *)
(* sort later, also when the file it reads has been removed: cleanup never *)
(* removes the last name (tailLogs, cleanup).                              *)
(***************************************************************************)
THEOREM TailMovesOn == LogSpec => TailNeverGoesBack
<1>1. LogInv /\ TailInv /\ [LogNext]_logVars
        => [tail' # tail => tail = NoName \/ Rank(tail) < Rank(tail')]_logVars
  <2> SUFFICES ASSUME LogInv, TailInv, LogNext, tail' # tail, tail # NoName
               PROVE  Rank(tail) < Rank(tail')
      OBVIOUS
  <2>1. TailSwitch
        BY DEF LogNext, WriteLine, Restart, NewDay, DayBack
  <2>2. files # <<>> /\ tail' = Latest
        BY <2>1 DEF TailSwitch
  <2>3. PICK f \in DOMAIN files : Rank(tail) <= Rank(f)
        BY DEF TailInv
  <2>4. Rank(f) <= Rank(Latest) /\ Latest \in Names /\ f \in Names /\ tail \in Names
        BY <2>2, LatestFacts DEF LogInv, LogTyped, TailInv
  <2>5. Rank(tail) \in Nat /\ Rank(f) \in Nat /\ Rank(Latest) \in Nat
        BY <2>4, RankFacts
  <2>6. Rank(tail) # Rank(Latest)
        BY <2>2, <2>4, RankFacts
  <2> QED BY <2>2, <2>3, <2>4, <2>5, <2>6
<1> QED BY <1>1, TailInvariance, PTL DEF LogSpec, TailNeverGoesBack

(***************************************************************************)
(* The safety part of TailReachesDay, for every limit: whenever the logger *)
(* has a file, the name that sorts last is of that file's day or, only if  *)
(* the clock was set back, of a later one, even if the file itself was     *)
(* removed as it was opened (latestLogFile, cleanup).                      *)
(***************************************************************************)
THEOREM TailIsOneStepAway == LogSpec => []LatestIsCurrent
<1>1. LogInv /\ TailInv => LatestIsCurrent
  <2> SUFFICES ASSUME LogInv, TailInv, open # Closed
               PROVE  /\ files # <<>> /\ Latest[1] >= open.name[1]
                      /\ Latest[1] > open.name[1] => turns > 0
      BY DEF LatestIsCurrent
  <2>1. PICK f \in DOMAIN files : f[1] >= open.name[1]
        BY DEF TailInv
  <2>2. files # <<>>
        BY <2>1
  <2>3. Latest \in DOMAIN files /\ Rank(f) <= Rank(Latest)
        BY <2>1, <2>2, LatestFacts
  <2>4. /\ f \in Names /\ Latest \in Names /\ open.name \in Names
        /\ turns \in Nat /\ (turns = 0 => Latest[1] <= open.name[1])
        BY <2>1, <2>3 DEF LogInv, LogTyped, TailInv
  <2>5. f[1] \in Nat /\ Latest[1] \in Nat /\ f[1] <= Latest[1]
        BY <2>3, <2>4, RankDay
  <2>6. open.name[1] \in Nat
        BY <2>4, LogConstants DEF Names
  <2> QED BY <2>1, <2>2, <2>4, <2>5, <2>6
<1> QED BY <1>1, TailInvariance, PTL
=============================================================================
