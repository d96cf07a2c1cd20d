--------------------------- MODULE AuditTrailProofs ---------------------------
(***************************************************************************)
(* Theorems about AuditTrail, for every value of its constants.  The rows  *)
(* of a log are ordered by pairs (time, id).  A finite set of rows is put  *)
(* in that order by the rank of a row, the number of rows before it: ranks *)
(* are all different, so that every number below the size of the set is    *)
(* the rank of a row.                                                      *)
(***************************************************************************)
EXTENDS AuditTrail, FiniteSetTheorems, SequenceTheorems, TLAPS

(***************************************************************************)
(* Sets ordered by a key and, where keys are equal, by number              *)
(***************************************************************************)
Lex(K, x, y) == K[x] < K[y] \/ (K[x] = K[y] /\ x < y)
Below(K, T, x) == {y \in T : Lex(K, y, x)}
Rank(K, T, x) == Cardinality(Below(K, T, x))
Finite(U, K, T) == U \subseteq Nat /\ K \in [U -> Nat] /\ T \subseteq U /\ IsFiniteSet(T)

LEMMA LexOrder ==
    ASSUME NEW U, NEW K, NEW T, Finite(U, K, T), NEW x \in T, NEW y \in T, NEW z \in T
    PROVE  /\ ~ Lex(K, x, x)
           /\ Lex(K, x, y) => ~ Lex(K, y, x)
           /\ Lex(K, x, y) /\ Lex(K, y, z) => Lex(K, x, z)
           /\ x = y \/ Lex(K, x, y) \/ Lex(K, y, x)
  <1>. K[x] \in Nat /\ K[y] \in Nat /\ K[z] \in Nat /\ x \in Nat /\ y \in Nat /\ z \in Nat
    BY DEF Finite
  <1>. QED
    BY DEF Lex

\* Ranks are different and below the size of the set.
LEMMA RankOrder ==
    ASSUME NEW U, NEW K, NEW T, Finite(U, K, T), NEW x \in T
    PROVE  /\ Cardinality(T) \in Nat /\ Rank(K, T, x) \in Nat
           /\ Rank(K, T, x) < Cardinality(T)
           /\ \A y \in T : Lex(K, x, y) <=> Rank(K, T, x) < Rank(K, T, y)
  <1>0. ASSUME NEW y \in T
        PROVE  IsFiniteSet(Below(K, T, y)) /\ Rank(K, T, y) \in Nat
    <2>1. Below(K, T, y) \in SUBSET T
      BY DEF Below
    <2>2. IsFiniteSet(Below(K, T, y))
      BY <2>1, FS_Subset DEF Finite
    <2>. QED
      BY <2>2, FS_CardinalityType DEF Rank
  <1>1. Cardinality(T) \in Nat
    BY FS_CardinalityType DEF Finite
  <1>2. Rank(K, T, x) < Cardinality(T)
    <2>1. Below(K, T, x) \in SUBSET T
      BY DEF Below
    <2>2. x \notin Below(K, T, x)
      <3>1. x \in T
        OBVIOUS
      <3>2. ~ Lex(K, x, x)
        BY <3>1, LexOrder
      <3>. QED
        BY <3>2 DEF Below
    <2>3. Cardinality(Below(K, T, x)) <= Cardinality(T) /\ Cardinality(Below(K, T, x)) # Cardinality(T)
      BY <2>1, <2>2, FS_Subset DEF Finite
    <2>. QED
      BY <1>0, <1>1, <2>3 DEF Rank
  <1>3. ASSUME NEW a \in T, NEW b \in T, Lex(K, a, b)
        PROVE  Rank(K, T, a) < Rank(K, T, b)
    <2>1. a \in T /\ b \in T
      OBVIOUS
    <2>2. \A c \in T : Lex(K, c, a) => Lex(K, c, b)
      BY <1>3, <2>1, LexOrder
    <2>3. Below(K, T, a) \in SUBSET Below(K, T, b)
      BY <2>2 DEF Below
    <2>4. a \in Below(K, T, b) /\ a \notin Below(K, T, a)
      <3>1. ~ Lex(K, a, a)
        BY <2>1, LexOrder
      <3>. QED
        BY <1>3, <3>1 DEF Below
    <2>5. IsFiniteSet(Below(K, T, b))
      BY <1>0
    <2>6. /\ Cardinality(Below(K, T, a)) <= Cardinality(Below(K, T, b))
          /\ Cardinality(Below(K, T, b)) # Cardinality(Below(K, T, a))
      BY <2>3, <2>4, <2>5, FS_Subset
    <2>7. Rank(K, T, a) \in Nat /\ Rank(K, T, b) \in Nat
      BY <1>0
    <2>. QED
      BY <2>6, <2>7 DEF Rank
  <1>4. ASSUME NEW y \in T PROVE Lex(K, x, y) <=> Rank(K, T, x) < Rank(K, T, y)
    <2>1. x \in T /\ y \in T
      OBVIOUS
    <2>2. x = y \/ Lex(K, x, y) \/ Lex(K, y, x)
      BY <2>1, LexOrder
    <2>3. Rank(K, T, x) \in Nat /\ Rank(K, T, y) \in Nat
      BY <1>0
    <2>4. Lex(K, y, x) => Rank(K, T, y) < Rank(K, T, x)
      BY <1>3
    <2>5. Lex(K, x, y) => Rank(K, T, x) < Rank(K, T, y)
      BY <1>3
    <2>. QED
      BY <2>2, <2>3, <2>4, <2>5
  <1>. QED
    BY <1>0, <1>1, <1>2, <1>4

\* Every number below the size of the set is a rank.
LEMMA RankOnto ==
    ASSUME NEW U, NEW K, NEW T, Finite(U, K, T), NEW n \in Nat, n < Cardinality(T)
    PROVE  \E x \in T : Rank(K, T, x) = n
  <1>. DEFINE rank == [x \in T |-> Rank(K, T, x)]
              ranks == 0..(Cardinality(T) - 1)
  <1>1. Cardinality(T) \in Nat
    BY FS_CardinalityType DEF Finite
  <1>2. ASSUME NEW x \in T PROVE Rank(K, T, x) \in ranks
    <2>1. Rank(K, T, x) \in Nat /\ Rank(K, T, x) < Cardinality(T)
      BY RankOrder
    <2>. QED
      BY <1>1, <2>1
  <1>3. ASSUME NEW x \in T, NEW y \in T, Rank(K, T, x) = Rank(K, T, y)
        PROVE  x = y
    <2>1. x \in T /\ y \in T
      OBVIOUS
    <2>2. x = y \/ Lex(K, x, y) \/ Lex(K, y, x)
      BY <2>1, LexOrder
    <2>3. Lex(K, x, y) <=> Rank(K, T, x) < Rank(K, T, y)
      BY RankOrder
    <2>4. Lex(K, y, x) <=> Rank(K, T, y) < Rank(K, T, x)
      BY RankOrder
    <2>5. Rank(K, T, x) \in Nat /\ Rank(K, T, y) \in Nat
      BY RankOrder
    <2>. QED
      BY <1>3, <2>2, <2>3, <2>4, <2>5
  <1>4. rank \in Injection(T, ranks)
    BY <1>2, <1>3 DEF Injection, IsInjective
  <1>5. IsFiniteSet(ranks) /\ Cardinality(ranks) = Cardinality(T)
    <2>1. 0 \in Int /\ Cardinality(T) - 1 \in Int
      BY <1>1
    <2>2. IsFiniteSet(ranks) /\ Cardinality(ranks) = IF 0 > Cardinality(T) - 1 THEN 0 ELSE Cardinality(T) - 1 - 0 + 1
      BY <2>1, FS_Interval
    <2>. QED
      BY <1>1, <2>2
  <1>6. rank \in Surjection(T, ranks)
    BY <1>4, <1>5, FS_Injection DEF Finite
  <1>7. n \in ranks
    BY <1>1
  <1>. QED
    BY <1>6, <1>7 DEF Surjection

\* A set that is not empty has a last element, and only one.
LEMMA LexLast ==
    ASSUME NEW U, NEW K, NEW T, Finite(U, K, T), T # {}
    PROVE  \E x \in T : /\ \A y \in T \ {x} : Lex(K, y, x)
                        /\ \A z \in T : (\A y \in T \ {z} : Lex(K, y, z)) => z = x
  <1>1. Cardinality(T) \in Nat /\ Cardinality(T) # 0
    BY FS_CardinalityType, FS_EmptySet DEF Finite
  <1>2. PICK n \in Nat : n = Cardinality(T) - 1
    BY <1>1
  <1>3. PICK x \in T : Rank(K, T, x) = n
    <2>1. n < Cardinality(T)
      BY <1>1, <1>2
    <2>. QED
      BY <2>1, RankOnto
  <1>4. ASSUME NEW y \in T \ {x} PROVE Lex(K, y, x) /\ ~ Lex(K, x, y)
    <2>1. x \in T /\ y \in T
      OBVIOUS
    <2>2. Rank(K, T, y) \in Nat /\ Rank(K, T, y) < Cardinality(T)
      BY <2>1, RankOrder
    <2>3. Lex(K, x, y) <=> Rank(K, T, x) < Rank(K, T, y)
      BY <2>1, RankOrder
    <2>4. ~ Lex(K, x, y)
      BY <1>1, <1>2, <1>3, <2>2, <2>3
    <2>. QED
      BY <2>1, <2>4, LexOrder
  <1>5. ASSUME NEW z \in T, \A y \in T \ {z} : Lex(K, y, z) PROVE z = x
    BY <1>4, <1>5
  <1>. QED
    BY <1>4, <1>5

\* The first n of a set: closed downwards, and n of them if one is left out.
LEMMA LexFirst ==
    ASSUME NEW U, NEW K, NEW T, Finite(U, K, T), NEW n \in Nat,
           NEW F, F = {x \in T : Rank(K, T, x) < n}
    PROVE  /\ F \subseteq T
           /\ \A x \in F, y \in T : Lex(K, y, x) => y \in F
           /\ \A x \in T \ F : Cardinality(F) = n /\ \A y \in F : Lex(K, y, x)
  <1>1. ASSUME NEW x \in T, NEW y \in T
        PROVE  /\ Rank(K, T, x) \in Nat /\ Rank(K, T, y) \in Nat
               /\ Lex(K, y, x) <=> Rank(K, T, y) < Rank(K, T, x)
    BY RankOrder
  <1>2. ASSUME NEW x \in F, NEW y \in T, Lex(K, y, x) PROVE y \in F
    <2>1. x \in T /\ Rank(K, T, x) < n
      OBVIOUS
    <2>. QED
      BY <1>1, <1>2, <2>1
  <1>3. ASSUME NEW x \in T \ F, NEW y \in F PROVE Lex(K, y, x)
    <2>1. x \in T /\ y \in T /\ ~ Rank(K, T, x) < n /\ Rank(K, T, y) < n
      OBVIOUS
    <2>. QED
      BY <1>1, <2>1
  <1>4. ASSUME NEW x \in T \ F PROVE Cardinality(F) = n
    <2>. DEFINE rank == [y \in F |-> Rank(K, T, y)]
                ranks == 0..(n - 1)
    <2>1. Cardinality(T) \in Nat /\ n < Cardinality(T)
      <3>1. /\ Rank(K, T, x) \in Nat /\ Cardinality(T) \in Nat
            /\ Rank(K, T, x) < Cardinality(T)
        BY RankOrder
      <3>. QED
        BY <3>1
    <2>2. IsFiniteSet(F)
      BY FS_Subset DEF Finite
    <2>3. \A y \in F : Rank(K, T, y) \in ranks
      BY <1>1
    <2>4. ASSUME NEW k \in ranks PROVE \E y \in F : rank[y] = k
      <3>1. k \in Nat /\ k < Cardinality(T) /\ k < n
        BY <2>1
      <3>2. PICK y \in T : Rank(K, T, y) = k
        BY <3>1, RankOnto
      <3>. QED
        BY <3>1, <3>2
    <2>5. rank \in Surjection(F, ranks)
      BY <2>3, <2>4 DEF Surjection
    <2>6. ASSUME NEW y \in F, NEW z \in F, rank[y] = rank[z] PROVE y = z
      <3>1. y \in T /\ z \in T
        OBVIOUS
      <3>2. y = z \/ Lex(K, y, z) \/ Lex(K, z, y)
        BY <3>1, LexOrder
      <3>. QED
        BY <1>1, <2>6, <3>1, <3>2
    <2>7. rank \in Injection(F, ranks)
      BY <2>3, <2>6 DEF Injection, IsInjective
    <2>8. Cardinality(ranks) = Cardinality(F)
      BY <2>2, <2>5, <2>7, FS_Surjection
    <2>9. Cardinality(ranks) = n
      <3>1. 0 \in Int /\ n - 1 \in Int
        OBVIOUS
      <3>2. Cardinality(ranks) = IF 0 > n - 1 THEN 0 ELSE n - 1 - 0 + 1
        BY <3>1, FS_Interval
      <3>. QED
        BY <3>2
    <2>. QED
      BY <2>8, <2>9
  <1>. QED
    BY <1>2, <1>3, <1>4

\* The elements of a set at their ranks.
LEMMA SortedRanks ==
    ASSUME NEW U, NEW K, NEW T, Finite(U, K, T), NEW i \in 1..Cardinality(T),
           NEW x, x = CHOOSE y \in T : Rank(K, T, y) = i - 1
    PROVE  x \in T /\ Rank(K, T, x) = i - 1
  <1>1. Cardinality(T) \in Nat
    BY FS_CardinalityType DEF Finite
  <1>2. PICK k \in Nat : k = i - 1
    BY <1>1
  <1>3. k < Cardinality(T)
    BY <1>1, <1>2
  <1>4. \E y \in T : Rank(K, T, y) = k
    BY <1>3, RankOnto
  <1>. QED
    BY <1>2, <1>4

\* The sequence of a set in its order: all of it, and every element but the
\* first follows the last of those before it.
LEMMA LexSorted ==
    ASSUME NEW U, NEW K, NEW T, Finite(U, K, T), 
           NEW S, \A i \in 1..Cardinality(T) : S[i] \in T /\ Rank(K, T, S[i]) = i - 1
    PROVE  /\ \A x \in T : \E i \in 1..Cardinality(T) : S[i] = x
           /\ \A i, j \in 1..Cardinality(T) : Lex(K, S[i], S[j]) <=> i < j
           /\ \A i \in 1..Cardinality(T) : Below(K, T, S[i]) = {} <=> i = 1
           /\ \A i \in 1..Cardinality(T) : i # 1 =>
                 /\ S[i - 1] \in Below(K, T, S[i])
                 /\ \A y \in Below(K, T, S[i]) \ {S[i - 1]} : Lex(K, y, S[i - 1])
  <1>. DEFINE n == Cardinality(T)
  <1>0. n \in Nat
    BY FS_CardinalityType DEF Finite
  <1>. HIDE DEF n
  <1>1. \A i \in 1..n : S[i] \in T /\ Rank(K, T, S[i]) = i - 1
    BY DEF n
  <1>3. ASSUME NEW x \in T, NEW y \in T
        PROVE  /\ Rank(K, T, x) \in Nat /\ Rank(K, T, x) < n /\ Rank(K, T, y) \in Nat
               /\ Lex(K, x, y) <=> Rank(K, T, x) < Rank(K, T, y)
    BY RankOrder DEF n
  <1>4. ASSUME NEW x \in T PROVE \E i \in 1..n : S[i] = x
    <2>1. Rank(K, T, x) \in Nat /\ Rank(K, T, x) < n
      BY <1>3
    <2>2. PICK i \in 1..n : i = Rank(K, T, x) + 1
      BY <1>0, <2>1
    <2>3. S[i] \in T /\ Rank(K, T, S[i]) = Rank(K, T, x)
      BY <1>1, <2>1, <2>2
    <2>4. x \in T /\ S[i] \in T
      BY <2>3
    <2>5. x = S[i] \/ Lex(K, x, S[i]) \/ Lex(K, S[i], x)
      BY <2>4, LexOrder
    <2>. QED
      BY <1>3, <2>1, <2>3, <2>5
  <1>5. ASSUME NEW i \in 1..n, NEW j \in 1..n PROVE Lex(K, S[i], S[j]) <=> i < j
    <2>1. S[i] \in T /\ Rank(K, T, S[i]) = i - 1 /\ S[j] \in T /\ Rank(K, T, S[j]) = j - 1
      BY <1>1
    <2>2. Lex(K, S[i], S[j]) <=> i - 1 < j - 1
      BY <1>3, <2>1
    <2>. QED
      BY <1>0, <2>2
  <1>6. ASSUME NEW i \in 1..n PROVE Below(K, T, S[i]) = {S[j] : j \in 1..(i - 1)}
    <2>1. ASSUME NEW j \in 1..(i - 1) PROVE S[j] \in Below(K, T, S[i])
      <3>1. j \in 1..n /\ j < i
        BY <1>0
      <3>. QED
        BY <1>1, <1>5, <3>1 DEF Below
    <2>2. ASSUME NEW y \in Below(K, T, S[i]) PROVE \E j \in 1..(i - 1) : S[j] = y
      <3>1. y \in T /\ Lex(K, y, S[i])
        BY DEF Below
      <3>2. PICK j \in 1..n : S[j] = y
        BY <1>4, <3>1
      <3>3. j < i
        BY <1>5, <3>1, <3>2
      <3>. QED
        BY <1>0, <3>2, <3>3
    <2>. QED
      BY <2>1, <2>2
  <1>7. ASSUME NEW i \in 1..n PROVE Below(K, T, S[i]) = {} <=> i = 1
    <2>1. i # 1 => 1 \in 1..(i - 1)
      BY <1>0
    <2>2. i = 1 => 1..(i - 1) = {}
      OBVIOUS
    <2>3. ASSUME i # 1 PROVE Below(K, T, S[i]) # {}
      <3>1. S[1] \in {S[j] : j \in 1..(i - 1)}
        BY <2>1, <2>3
      <3>. QED
        BY <1>6, <3>1
    <2>4. ASSUME i = 1 PROVE Below(K, T, S[i]) = {}
      <3>1. {S[j] : j \in 1..(i - 1)} = {}
        BY <2>2, <2>4
      <3>. QED
        BY <1>6, <3>1
    <2>. QED
      BY <2>3, <2>4
  <1>8. ASSUME NEW i \in 1..n, i # 1
        PROVE  /\ S[i - 1] \in Below(K, T, S[i])
               /\ \A y \in Below(K, T, S[i]) \ {S[i - 1]} : Lex(K, y, S[i - 1])
    <2>1. i - 1 \in 1..(i - 1) /\ i - 1 \in 1..n
      BY <1>0, <1>8
    <2>2. S[i - 1] \in Below(K, T, S[i])
      BY <1>6, <2>1
    <2>3. ASSUME NEW y \in Below(K, T, S[i]) \ {S[i - 1]} PROVE Lex(K, y, S[i - 1])
      <3>1. PICK j \in 1..(i - 1) : S[j] = y
        BY <1>6
      <3>2. j \in 1..n /\ j < i - 1
        BY <1>0, <2>3, <3>1
      <3>. QED
        BY <1>5, <2>1, <3>1, <3>2
    <2>. QED
      BY <2>2, <2>3
  <1>. QED
    BY <1>4, <1>5, <1>7, <1>8 DEF n

(***************************************************************************)
(* The inductive invariants                                                *)
(***************************************************************************)
EntriesOK ==
    /\ clock \in 1..MaxClock
    /\ entry \in [Entries -> [pc : {"idle", "stamped", "queued", "logged"},
                              ts : 0..MaxClock, at : 0..MaxClock, prev : Entries \cup {0}]]
LogOK == log \in [Sources -> Seq(Entries)] /\ \A s \in Sources : log[s] \in Seq(Of(s))
ChainersOK ==
    /\ chainer \in [Chainers -> [pc : {"idle", "append"}, batch : SUBSET Events, head : Events \cup {0}]]
    /\ chainLock \in Chainers \cup {None}
CursorOK ==
    /\ cursor \in [Sources -> [ts : 0..MaxClock, id : Entries \cup {0}]]
    /\ \A s \in Sources : cursor[s].id \in Logged(s) \cup {0}
    /\ planted \in [Sources -> 0..MaxClock]
RunType ==
    [pc : {"idle", "activity", "event", "preflight", "deliver", "commit"},
     polled : SUBSET Entries, seen : [Sources -> Nat], batch : SUBSET Entries,
     acked : SUBSET Entries, tries : 0..MaxRetries, cut : BOOLEAN]
RunsOK ==
    /\ run \in [Runs -> RunType]
    /\ \A r \in Runs : run[r].acked \subseteq run[r].batch
RestOK ==
    /\ lock \in Runs \cup {None}
    /\ got \subseteq Entries /\ attested \subseteq Entries
    /\ alarm \subseteq Sources /\ lost \in BOOLEAN
    /\ faults \in 0..MaxFaults

LEMMA Parts == TypeOK <=> EntriesOK /\ LogOK /\ ChainersOK /\ CursorOK /\ RunsOK /\ RestOK
  BY DEF TypeOK, EntriesOK, LogOK, ChainersOK, CursorOK, RunsOK, RunType, RestOK

\* A row is in its log once, from when it is chained; finitely many have begun.
Begun == {e \in Entries : entry[e].pc # "idle"}
RowsInv ==
    /\ IsFiniteSet(Begun) /\ \A e \in Begun : entry[e].ts >= 1
    /\ \A s \in Sources : Logged(s) = {e \in Of(s) : entry[e].pc = "logged"}
    /\ \A s \in Sources : \A i, j \in DOMAIN log[s] : log[s][i] = log[s][j] => i = j

\* The chainer with the lock has rows that are still queued, and the head.
ChainerOwns(c) ==
    /\ chainer[c].pc = "append" <=> chainLock = c
    /\ chainer[c].pc = "append" => chainer[c].batch \subseteq Queued /\ chainer[c].head = ChainHead("event")

WriteInv == RowsInv /\ ChainLinear /\ \A c \in Chainers : ChainerOwns(c)

\* A cursor stands on its row, or where it was planted.
CursorInv ==
    \A s \in Sources :
        /\ planted[s] = 0 <=> cursor[s].ts = 0
        /\ cursor[s].id = 0 => cursor[s].ts = planted[s]
        /\ cursor[s].id # 0 => cursor[s].ts = entry[cursor[s].id].ts

\* What a run has in hand, by where it is.
Held(r) == run[r].polled \cup run[r].batch
HeldInv(r) ==
    /\ run[r].pc \in {"idle", "activity"} => run[r].polled = {}
    /\ run[r].pc \in {"idle", "activity", "event"} => run[r].batch = {}
    /\ run[r].pc = "event" => run[r].polled \subseteq Activities
    /\ run[r].pc \in {"preflight", "deliver", "commit"} => run[r].polled = {}
    /\ run[r].pc = "preflight" => run[r].acked = {}
    /\ run[r].acked \subseteq got
    /\ \A e \in run[r].acked, x \in run[r].batch : Ahead(x, e) => x \in run[r].acked
    /\ \A s \in Sources :
          /\ Held(r) \cap Of(s) \subseteq Logged(s)
          /\ Held(r) \cap Of(s) # {} => planted[s] # 0
          /\ run[r].seen[s] <= Len(log[s])
          /\ run[r].seen[s] # 0 => planted[s] # 0

\* What is owed and older than a row in hand is in hand as well, or attested.
Covers(r) ==
    \A s \in Sources : \A e \in Held(r) \cap Of(s), x \in Owed(s) :
        Before(x, e) => x \in Held(r) \cup attested

\* The run that has the lock has one stretch of an ordered log in hand, the one
\* that follows the cursor.
Stretch(r) ==
    ~ lost /\ run[r].pc \in {"event", "preflight"} =>
        \A s \in Sources : OutOfOrder(s) = {} => \A x \in Held(r) \cap Of(s) :
            /\ Beyond(x, cursor[s])
            /\ \A y \in Logged(s) : Before(y, x) /\ Beyond(y, cursor[s]) => y \in Held(r)

\* A row that was in a log when a run polled it, and owed.
Seen(r, s) == {log[s][i] : i \in 1..run[r].seen[s]} \cap Owed(s)

\* What was seen of the activities is received or in hand, or the log filled its
\* share with rows that are no newer.
Filled(r) ==
    run[r].pc = "event" =>
        \A x \in Seen(r, "activity") :
            \/ x \in got \cup run[r].polled
            \/ Cardinality(run[r].polled) = Batch /\ \A y \in run[r].polled : entry[y].ts <= entry[x].ts

Watermark(r) ==
    run[r].pc \in {"preflight", "deliver"} =>
        \A e \in run[r].batch, s \in Sources : \A x \in Seen(r, s) :
            entry[x].ts < entry[e].ts => x \in got \cup run[r].batch

LockInv == ~ lost => \A r \in Runs : run[r].pc # "idle" => lock = r

RunInv(r) == HeldInv(r) /\ Covers(r) /\ Stretch(r) /\ Filled(r) /\ Watermark(r)

SendInv ==
    /\ CursorInv /\ LockInv /\ CursorAttested /\ AlarmsHaveCause
    /\ \A r \in Runs : RunInv(r)

(***************************************************************************)
(* Orders of rows                                                          *)
(***************************************************************************)
Ts == [e \in Entries |-> entry[e].ts]
At == [e \in Entries |-> entry[e].at]

QueuedEarlier(S, x) == {y \in S : QueuedBefore(y, x)}
FirstBefore(S, n) == FirstOf(S, n, Before)
LastBefore(S) == LastOf(S, Before)
LastQueued(S) == LastOf(S, QueuedBefore)

LEMMA EntryTyped ==
    ASSUME EntriesOK, NEW e \in Entries
    PROVE  /\ entry[e].ts \in Nat /\ entry[e].at \in Nat /\ e \in Nat /\ e # 0
           /\ entry[e].prev \in Entries \cup {0}
           /\ entry[e].pc \in {"idle", "stamped", "queued", "logged"}
           /\ Ts[e] = entry[e].ts /\ At[e] = entry[e].at
  <1>1. entry[e] \in [pc : {"idle", "stamped", "queued", "logged"},
                      ts : 0..MaxClock, at : 0..MaxClock, prev : Entries \cup {0}]
    BY DEF EntriesOK
  <1>2. e \in Nat \ {0}
    BY AuditAssumption DEF Entries
  <1>3. MaxClock \in Nat
    BY AuditAssumption
  <1>. QED
    BY <1>1, <1>2, <1>3 DEF Ts, At

LEMMA Keys ==
    ASSUME EntriesOK, NEW T, T \subseteq Entries, IsFiniteSet(T)
    PROVE  Finite(Entries, Ts, T) /\ Finite(Entries, At, T)
  <1>1. \A e \in Entries : entry[e].ts \in Nat /\ entry[e].at \in Nat /\ e \in Nat
    BY EntryTyped
  <1>2. Ts \in [Entries -> Nat] /\ At \in [Entries -> Nat] /\ Entries \subseteq Nat
    BY <1>1 DEF Ts, At
  <1>. QED
    BY <1>2 DEF Finite

LEMMA BeforeLex ==
    ASSUME EntriesOK, NEW x \in Entries, NEW y \in Entries
    PROVE  /\ Before(x, y) <=> Lex(Ts, x, y)
           /\ QueuedBefore(x, y) <=> Lex(At, x, y)
  BY EntryTyped DEF Before, QueuedBefore, Lex

LEMMA BeforeOrder ==
    ASSUME EntriesOK, NEW x \in Entries, NEW y \in Entries, NEW z \in Entries
    PROVE  /\ ~ Before(x, x)
           /\ Before(x, y) => ~ Before(y, x)
           /\ Before(x, y) /\ Before(y, z) => Before(x, z)
           /\ x = y \/ Before(x, y) \/ Before(y, x)
           /\ Before(x, y) => entry[x].ts <= entry[y].ts
           /\ Before(x, y) /\ (x \in Activities <=> y \in Activities) => Ahead(x, y)
  <1>. /\ entry[x].ts \in Nat /\ entry[y].ts \in Nat /\ entry[z].ts \in Nat
       /\ x \in Nat /\ y \in Nat /\ z \in Nat
    BY EntryTyped
  <1>. QED
    BY DEF Before, Ahead

\* The first n rows of a set.
LEMMA FirstRows ==
    ASSUME EntriesOK, NEW S, S \subseteq Entries, IsFiniteSet(S), NEW n \in Nat,
           NEW F, F = FirstBefore(S, n)
    PROVE  /\ F \subseteq S
           /\ \A x \in F, y \in S : Before(y, x) => y \in F
           /\ \A x \in S \ F : Cardinality(F) = n /\ \A y \in F : Before(y, x)
  <1>1. Finite(Entries, Ts, S)
    BY Keys
  <1>2. ASSUME NEW x \in S PROVE {y \in S : Before(y, x)} = Below(Ts, S, x)
    <2>1. \A y \in S : Before(y, x) <=> Lex(Ts, y, x)
      BY BeforeLex
    <2>. QED
      BY <2>1 DEF Below
  <1>3. F = {x \in S : Cardinality({y \in S : Before(y, x)}) < n}
    BY DEF FirstBefore, FirstOf
  <1>4. F = {x \in S : Rank(Ts, S, x) < n}
    BY <1>2, <1>3 DEF Rank
  <1>5. /\ F \subseteq S
        /\ \A x \in F, y \in S : Lex(Ts, y, x) => y \in F
        /\ \A x \in S \ F : Cardinality(F) = n /\ \A y \in F : Lex(Ts, y, x)
    BY <1>1, <1>4, LexFirst
  <1>6. \A x, y \in S : Before(y, x) <=> Lex(Ts, y, x)
    BY BeforeLex
  <1>. QED
    BY <1>5, <1>6

\* The last row of a set.
LEMMA LastRow ==
    ASSUME EntriesOK, NEW S, S \subseteq Entries, IsFiniteSet(S), S # {},
           NEW x, x = LastBefore(S)
    PROVE  /\ x \in S /\ \A y \in S \ {x} : Before(y, x)
           /\ \A z \in S : (\A y \in S \ {z} : Before(y, z)) => z = x
  <1>1. Finite(Entries, Ts, S)
    BY Keys
  <1>2. \A u, v \in S : Before(u, v) <=> Lex(Ts, u, v)
    BY BeforeLex
  <1>3. PICK w \in S : /\ \A y \in S \ {w} : Lex(Ts, y, w)
                       /\ \A z \in S : (\A y \in S \ {z} : Lex(Ts, y, z)) => z = w
    BY <1>1, LexLast
  <1>4. \A y \in S \ {w} : Before(y, w)
    BY <1>2, <1>3
  <1>5. \A z \in S : (\A y \in S \ {z} : Before(y, z)) => z = w
    BY <1>2, <1>3
  <1>6. x = CHOOSE z \in S : \A y \in S \ {z} : Before(y, z)
    BY DEF LastBefore, LastOf
  <1>7. x \in S /\ \A y \in S \ {x} : Before(y, x)
    BY <1>4, <1>6
  <1>. QED
    BY <1>5, <1>7

\* The rows of a log.
LEMMA LogRows ==
    ASSUME LogOK, NEW s \in Sources
    PROVE  /\ Len(log[s]) \in Nat /\ DOMAIN log[s] = 1..Len(log[s])
           /\ Logged(s) = {log[s][i] : i \in 1..Len(log[s])}
           /\ Logged(s) \subseteq Of(s) /\ Of(s) \subseteq Entries
           /\ \A i \in 1..Len(log[s]) : log[s][i] \in Of(s)
  <1>1. log[s] \in Seq(Of(s))
    BY DEF LogOK
  <1>2. Len(log[s]) \in Nat /\ DOMAIN log[s] = 1..Len(log[s])
    BY <1>1
  <1>3. \A i \in 1..Len(log[s]) : log[s][i] \in Of(s)
    BY <1>1
  <1>4. Of(s) \subseteq Entries
    BY DEF Of, Entries
  <1>. QED
    BY <1>2, <1>3, <1>4 DEF Logged

LEMMA LoggedFinite ==
    ASSUME LogOK, NEW s \in Sources
    PROVE  IsFiniteSet(Logged(s))
  <1>. DEFINE n == Len(log[s])
  <1>1. n \in Nat /\ DOMAIN log[s] = 1..n /\ Logged(s) = {log[s][i] : i \in 1..n}
    BY LogRows
  <1>2. IsFiniteSet(1..n)
    <2>1. 1 \in Int /\ n \in Int
      BY <1>1
    <2>. QED
      BY <2>1, FS_Interval
  <1>3. log[s] \in Surjection(1..n, Logged(s))
    <2>1. log[s] \in Seq(Of(s))
      BY DEF LogOK
    <2>2. log[s] = [i \in 1..n |-> log[s][i]]
      BY <2>1
    <2>. QED
      BY <1>1, <2>2 DEF Surjection
  <1>. QED
    BY <1>2, <1>3, FS_Surjection

\* What makes a row the last.
LEMMA IsLast ==
    ASSUME EntriesOK, NEW S, S \subseteq Entries, NEW w \in S
    PROVE  /\ (\A y \in S \ {w} : Before(y, w)) => LastBefore(S) = w
           /\ (\A y \in S \ {w} : QueuedBefore(y, w)) => LastQueued(S) = w
  <1>1. \A u, v \in S : Before(u, v) => ~ Before(v, u)
    BY BeforeOrder
  <1>2. \A u, v \in S : QueuedBefore(u, v) => ~ QueuedBefore(v, u)
    <2>1. \A u \in S : entry[u].at \in Nat /\ u \in Nat
      BY EntryTyped
    <2>. QED
      BY <2>1 DEF QueuedBefore
  <1>3. ASSUME \A y \in S \ {w} : Before(y, w) PROVE LastBefore(S) = w
    <2>1. \A z \in S : (\A y \in S \ {z} : Before(y, z)) => z = w
      BY <1>1, <1>3
    <2>. QED
      BY <1>3, <2>1 DEF LastBefore, LastOf
  <1>4. ASSUME \A y \in S \ {w} : QueuedBefore(y, w) PROVE LastQueued(S) = w
    <2>1. \A z \in S : (\A y \in S \ {z} : QueuedBefore(y, z)) => z = w
      BY <1>2, <1>4
    <2>. QED
      BY <1>4, <2>1 DEF LastQueued, LastOf
  <1>. QED
    BY <1>3, <1>4

\* A queue in its order: all of it, once, and each linked to the one before.
Sequenced(T, Q) ==
    /\ Q \in Seq(T) /\ Len(Q) = Cardinality(T)
    /\ \A x \in T : \E i \in 1..Len(Q) : Q[i] = x
    /\ \A i, j \in 1..Len(Q) : Q[i] = Q[j] => i = j
    /\ \A i \in 1..Len(Q) :
          /\ QueuedEarlier(T, Q[i]) = {} <=> i = 1
          /\ i # 1 => LastQueued(QueuedEarlier(T, Q[i])) = Q[i - 1]

LEMMA QueueInOrder ==
    ASSUME EntriesOK, NEW T, T \subseteq Entries, IsFiniteSet(T), NEW Q, Q = InOrder(T)
    PROVE  Sequenced(T, Q)
  <1>. DEFINE n == Cardinality(T)
  <1>0. Finite(Entries, At, T) /\ n \in Nat
    BY Keys, FS_CardinalityType
  <1>1. ASSUME NEW x \in T PROVE {y \in T : QueuedBefore(y, x)} = Below(At, T, x)
    <2>1. \A y \in T : QueuedBefore(y, x) <=> Lex(At, y, x)
      BY BeforeLex
    <2>. QED
      BY <2>1 DEF Below
  <1>2. ASSUME NEW i \in 1..n PROVE Q[i] \in T /\ Rank(At, T, Q[i]) = i - 1
    <2>1. Q[i] = CHOOSE x \in T : Cardinality({y \in T : QueuedBefore(y, x)}) = i - 1
      BY DEF InOrder
    <2>2. PICK x : x = CHOOSE y \in T : Rank(At, T, y) = i - 1
      OBVIOUS
    <2>3. x \in T /\ Rank(At, T, x) = i - 1
      BY <1>0, <2>2, SortedRanks
    <2>4. \E y \in T : Cardinality({z \in T : QueuedBefore(z, y)}) = i - 1
      BY <1>1, <2>3 DEF Rank
    <2>5. Q[i] \in T /\ Cardinality({z \in T : QueuedBefore(z, Q[i])}) = i - 1
      BY <2>1, <2>4
    <2>. QED
      BY <1>1, <2>5 DEF Rank
  <1>3. Q \in [1..n -> T]
    <2>. DEFINE at(i) == CHOOSE x \in T : Cardinality({y \in T : QueuedBefore(y, x)}) = i - 1
    <2>1. Q = [i \in 1..n |-> at(i)]
      BY DEF InOrder
    <2>. HIDE DEF at
    <2>2. \A i \in 1..n : at(i) \in T
      BY <1>2, <2>1
    <2>. QED
      BY <2>1, <2>2
  <1>. HIDE DEF n
  <1>4. Q \in Seq(T) /\ Len(Q) = n
    BY <1>0, <1>3, SeqDef
  <1>5. /\ \A x \in T : \E i \in 1..n : Q[i] = x
        /\ \A i, j \in 1..n : Lex(At, Q[i], Q[j]) <=> i < j
        /\ \A i \in 1..n : Below(At, T, Q[i]) = {} <=> i = 1
        /\ \A i \in 1..n : i # 1 =>
              /\ Q[i - 1] \in Below(At, T, Q[i])
              /\ \A y \in Below(At, T, Q[i]) \ {Q[i - 1]} : Lex(At, y, Q[i - 1])
    BY <1>0, <1>2, LexSorted DEF n
  <1>6. ASSUME NEW i \in 1..n, NEW j \in 1..n, Q[i] = Q[j] PROVE i = j
    <2>1. Rank(At, T, Q[i]) = i - 1 /\ Rank(At, T, Q[j]) = j - 1
      BY <1>2
    <2>. QED
      BY <1>0, <1>6, <2>1
  <1>7. ASSUME NEW i \in 1..n, NEW earlier, earlier = QueuedEarlier(T, Q[i])
        PROVE  /\ earlier = {} <=> i = 1
               /\ i # 1 => LastQueued(earlier) = Q[i - 1]
    <2>1. earlier = Below(At, T, Q[i])
      BY <1>1, <1>2, <1>7 DEF QueuedEarlier
    <2>2. ASSUME i # 1 PROVE LastQueued(earlier) = Q[i - 1]
      <3>0. T \subseteq Entries
        OBVIOUS
      <3>1. Q[i - 1] \in earlier /\ earlier \subseteq Entries
        BY <1>5, <2>1, <2>2, <3>0 DEF Below
      <3>2. \A y \in earlier \ {Q[i - 1]} : Lex(At, y, Q[i - 1])
        BY <1>5, <2>1, <2>2
      <3>3. \A y \in earlier \ {Q[i - 1]} : QueuedBefore(y, Q[i - 1])
        BY <3>1, <3>2, BeforeLex
      <3>. QED
        BY <3>1, <3>3, IsLast
    <2>. QED
      BY <1>5, <2>1, <2>2
  <1>8. \A i \in 1..n :
           /\ QueuedEarlier(T, Q[i]) = {} <=> i = 1
           /\ i # 1 => LastQueued(QueuedEarlier(T, Q[i])) = Q[i - 1]
    BY <1>7
  <1>9. Len(Q) = Cardinality(T)
    BY <1>4 DEF n
  <1>. QED
    BY <1>4, <1>5, <1>6, <1>8, <1>9 DEF Sequenced

(***************************************************************************)
(* Rows are chained                                                        *)
(***************************************************************************)
\* The rows Q, which were not in log s, are appended to it and linked.
Chained(s, Q) ==
    /\ Q \in Seq(Of(s)) /\ \A i, j \in 1..Len(Q) : Q[i] = Q[j] => i = j
    /\ \A i \in 1..Len(Q) : Q[i] \in Begun /\ Q[i] \notin Logged(s)
    /\ log' = [log EXCEPT ![s] = log[s] \o Q]
    /\ \A e \in Entries :
          /\ entry'[e].ts = entry[e].ts
          /\ (\E i \in 1..Len(Q) : Q[i] = e) => entry'[e].pc = "logged"
          /\ ~ (\E i \in 1..Len(Q) : Q[i] = e) =>
                entry'[e].pc = entry[e].pc /\ entry'[e].prev = entry[e].prev
    /\ \A i \in 1..Len(Q) : entry'[Q[i]].prev = (IF i = 1 THEN ChainHead(s) ELSE Q[i - 1])

\* A log only grows, and the times of its rows stay.
Grown ==
    \A s \in Sources :
        /\ Len(log[s]) <= Len(log'[s])
        /\ \A i \in 1..Len(log[s]) : log'[s][i] = log[s][i]
        /\ \A e \in Logged(s) : entry'[e].ts = entry[e].ts

LEMMA ChainedLog ==
    ASSUME LogOK, NEW s \in Sources, NEW Q, Chained(s, Q)
    PROVE  /\ LogOK' /\ Grown
           /\ Len(Q) \in Nat /\ \A i \in 1..Len(Q) : Q[i] \in Of(s)
           /\ \A t \in Sources \ {s} : log'[t] = log[t]
           /\ Len(log'[s]) = Len(log[s]) + Len(Q)
           /\ \A i \in 1..Len(log[s]) : log'[s][i] = log[s][i]
           /\ \A i \in 1..Len(Q) : log'[s][Len(log[s]) + i] = Q[i]
  <1>1. Q \in Seq(Of(s)) /\ log[s] \in Seq(Of(s)) /\ Of(s) \subseteq Entries
    BY LogRows DEF Chained, LogOK
  <1>2. log' = [log EXCEPT ![s] = log[s] \o Q] /\ log \in [Sources -> Seq(Entries)]
    BY DEF Chained, LogOK
  <1>3. log'[s] = log[s] \o Q /\ \A t \in Sources \ {s} : log'[t] = log[t]
    BY <1>2
  <1>4. /\ log[s] \o Q \in Seq(Of(s))
        /\ Len(log[s] \o Q) = Len(log[s]) + Len(Q)
        /\ \A i \in 1..Len(log[s]) + Len(Q) :
              (log[s] \o Q)[i] = IF i <= Len(log[s]) THEN log[s][i] ELSE Q[i - Len(log[s])]
    BY <1>1, ConcatProperties
  <1>5. Len(log[s]) \in Nat /\ Len(Q) \in Nat /\ \A i \in 1..Len(Q) : Q[i] \in Of(s)
    BY <1>1
  <1>6. \A i \in 1..Len(log[s]) : log'[s][i] = log[s][i]
    BY <1>3, <1>4, <1>5
  <1>7. ASSUME NEW i \in 1..Len(Q) PROVE log'[s][Len(log[s]) + i] = Q[i]
    <2>1. Len(log[s]) + i \in 1..Len(log[s]) + Len(Q) /\ ~ Len(log[s]) + i <= Len(log[s])
      BY <1>5
    <2>2. Len(log[s]) + i - Len(log[s]) = i
      BY <1>5
    <2>. QED
      BY <1>3, <1>4, <2>1, <2>2
  <1>8. log[s] \o Q \in Seq(Entries)
    BY <1>1, <1>4, SeqMonotonic
  <1>9. LogOK'
    <2>1. log' \in [Sources -> Seq(Entries)]
      BY <1>2, <1>8
    <2>2. \A t \in Sources : log'[t] \in Seq(Of(t))
      BY <1>3, <1>4 DEF LogOK
    <2>. QED
      BY <2>1, <2>2 DEF LogOK, Of
  <1>10. Grown
    <2>1. ASSUME NEW t \in Sources, NEW e \in Logged(t) PROVE entry'[e].ts = entry[e].ts
      <3>1. e \in Entries
        BY LogRows
      <3>. QED
        BY <3>1 DEF Chained
    <2>2. ASSUME NEW t \in Sources
          PROVE  Len(log[t]) <= Len(log'[t]) /\ \A i \in 1..Len(log[t]) : log'[t][i] = log[t][i]
      <3>1. CASE t = s
        BY <1>3, <1>4, <1>5, <1>6, <3>1
      <3>2. CASE t # s
        <4>1. log'[t] = log[t] /\ Len(log[t]) \in Nat
          BY <1>3, <3>2, LogRows
        <4>. QED
          BY <4>1
      <3>. QED
        BY <3>1, <3>2
    <2>. QED
      BY <2>1, <2>2 DEF Grown
  <1>. QED
    BY <1>3, <1>4, <1>5, <1>6, <1>7, <1>9, <1>10

LEMMA Disjoint ==
    ASSUME NEW s \in Sources, NEW t \in Sources, s # t
    PROVE  Of(s) \cap Of(t) = {}
  BY AuditAssumption DEF Sources, Of

\* Every row of the logs still links to the row before it.
LEMMA ChainedLinks ==
    ASSUME LogOK, RowsInv, ChainLinear, NEW s \in Sources, NEW Q, Chained(s, Q)
    PROVE  ChainLinear'
  <1>. SUFFICES ASSUME NEW t \in Sources, NEW i \in DOMAIN log'[t]
                PROVE  entry'[log'[t][i]].prev = (IF i = 1 THEN 0 ELSE log'[t][i - 1])
    BY DEF ChainLinear
  <1>1. /\ LogOK' /\ Len(log'[s]) = Len(log[s]) + Len(Q)
        /\ \A u \in Sources \ {s} : log'[u] = log[u]
        /\ \A j \in 1..Len(log[s]) : log'[s][j] = log[s][j]
        /\ \A j \in 1..Len(Q) : log'[s][Len(log[s]) + j] = Q[j]
        /\ Len(Q) \in Nat /\ \A j \in 1..Len(Q) : Q[j] \in Of(s)
    BY ChainedLog
  <1>2. /\ Len(log[t]) \in Nat /\ DOMAIN log[t] = 1..Len(log[t]) /\ Of(t) \subseteq Entries
        /\ \A j \in 1..Len(log[t]) : log[t][j] \in Of(t) /\ log[t][j] \in Logged(t)
    BY LogRows
  <1>3. DOMAIN log'[t] = 1..Len(log'[t]) /\ Len(log'[t]) \in Nat
    <2>1. log'[t] \in Seq(Of(t)')
      BY <1>1 DEF LogOK
    <2>. QED
      BY <2>1
  <1>4. ASSUME NEW e \in Logged(t) PROVE entry'[e].prev = entry[e].prev
    <2>1. e \in Of(t) /\ e \in Entries
      BY LogRows
    <2>2. ~ \E j \in 1..Len(Q) : Q[j] = e
      <3>1. CASE t = s
        BY <3>1 DEF Chained
      <3>2. CASE t # s
        <4>1. Of(s) \cap Of(t) = {}
          BY <3>2, Disjoint
        <4>. QED
          BY <1>1, <2>1, <4>1
      <3>. QED
        BY <3>1, <3>2
    <2>. QED
      BY <2>1, <2>2 DEF Chained
  <1>5. ASSUME i \in 1..Len(log[t]), \A j \in 1..Len(log[t]) : log'[t][j] = log[t][j]
        PROVE  entry'[log'[t][i]].prev = (IF i = 1 THEN 0 ELSE log'[t][i - 1])
    <2>1. entry[log[t][i]].prev = (IF i = 1 THEN 0 ELSE log[t][i - 1])
      BY <1>2, <1>5 DEF ChainLinear
    <2>2. entry'[log'[t][i]].prev = entry[log[t][i]].prev
      BY <1>2, <1>4, <1>5
    <2>3. i # 1 => log'[t][i - 1] = log[t][i - 1]
      BY <1>2, <1>5
    <2>. QED
      BY <2>1, <2>2, <2>3
  <1>6. CASE t # s
    BY <1>1, <1>2, <1>3, <1>5, <1>6
  <1>7. CASE t = s /\ i \in 1..Len(log[s])
    BY <1>1, <1>5, <1>7
  <1>8. CASE t = s /\ i \notin 1..Len(log[s])
    <2>1. PICK j \in 1..Len(Q) : i = Len(log[s]) + j
      <3>1. i \in 1..Len(log[s]) + Len(Q) /\ Len(log[s]) \in Nat
        BY <1>1, <1>2, <1>3, <1>8
      <3>2. i - Len(log[s]) \in 1..Len(Q) /\ i = Len(log[s]) + (i - Len(log[s]))
        BY <1>1, <1>8, <3>1, SMTT(30)
      <3>. QED
        BY <3>2
    <2>2. log'[s][i] = Q[j]
      BY <1>1, <2>1
    <2>3. entry'[Q[j]].prev = (IF j = 1 THEN ChainHead(s) ELSE Q[j - 1])
      BY DEF Chained
    <2>4. CASE j # 1
      <3>1. j - 1 \in 1..Len(Q) /\ i - 1 = Len(log[s]) + (j - 1) /\ i # 1
        BY <1>1, <1>2, <1>8, <2>1, <2>4
      <3>2. log'[s][i - 1] = Q[j - 1]
        BY <1>1, <3>1
      <3>. QED
        BY <1>8, <2>2, <2>3, <2>4, <3>1, <3>2
    <2>5. CASE j = 1 /\ Len(log[s]) = 0
      <3>1. log[s] = << >> /\ i = 1
        BY <2>1, <2>5, EmptySeq DEF LogOK
      <3>2. ChainHead(s) = 0
        BY <3>1 DEF ChainHead
      <3>. QED
        BY <1>8, <2>2, <2>3, <2>5, <3>1, <3>2
    <2>6. CASE j = 1 /\ Len(log[s]) # 0
      <3>1. log[s] # << >> /\ i # 1 /\ i - 1 = Len(log[s]) /\ i - 1 \in 1..Len(log[s])
        BY <1>2, <1>8, <2>1, <2>6
      <3>2. ChainHead(s) = log'[s][i - 1]
        BY <1>1, <3>1 DEF ChainHead
      <3>. QED
        BY <1>8, <2>2, <2>3, <2>6, <3>1, <3>2
    <2>. QED
      BY <2>4, <2>5, <2>6
  <1>. QED
    BY <1>6, <1>7, <1>8

\* Every row is in its log once.
LEMMA ChainedRows ==
    ASSUME LogOK, RowsInv, NEW s \in Sources, NEW Q, Chained(s, Q)
    PROVE  RowsInv'
  <1>1. /\ LogOK' /\ Len(log'[s]) = Len(log[s]) + Len(Q)
        /\ \A u \in Sources \ {s} : log'[u] = log[u]
        /\ \A j \in 1..Len(log[s]) : log'[s][j] = log[s][j]
        /\ \A j \in 1..Len(Q) : log'[s][Len(log[s]) + j] = Q[j]
        /\ Len(Q) \in Nat /\ \A j \in 1..Len(Q) : Q[j] \in Of(s)
    BY ChainedLog
  <1>2. /\ Len(log[s]) \in Nat /\ DOMAIN log[s] = 1..Len(log[s]) /\ Of(s) \subseteq Entries
        /\ Logged(s) = {log[s][i] : i \in 1..Len(log[s])}
    BY LogRows
  <1>3. DOMAIN log'[s] = 1..Len(log[s]) + Len(Q)
    <2>1. log'[s] \in Seq(Of(s)')
      BY <1>1 DEF LogOK
    <2>. QED
      BY <1>1, <2>1
  <1>4. ASSUME NEW i \in DOMAIN log'[s]
        PROVE  \/ i \in 1..Len(log[s]) /\ log'[s][i] = log[s][i] /\ log[s][i] \in Logged(s)
               \/ \E j \in 1..Len(Q) : i = Len(log[s]) + j /\ log'[s][i] = Q[j] /\ Q[j] \notin Logged(s)
    <2>1. CASE i \in 1..Len(log[s])
      BY <1>1, <1>2, <2>1
    <2>2. CASE i \notin 1..Len(log[s])
      <3>1. i - Len(log[s]) \in 1..Len(Q) /\ i = Len(log[s]) + (i - Len(log[s]))
        BY <1>1, <1>2, <1>3, <2>2
      <3>2. PICK j \in 1..Len(Q) : i = Len(log[s]) + j
        BY <3>1
      <3>3. log'[s][i] = Q[j] /\ Q[j] \notin Logged(s)
        BY <1>1, <3>2 DEF Chained
      <3>. QED
        BY <3>2, <3>3
    <2>. QED
      BY <2>1, <2>2
  <1>5. Begun' = Begun
    <2>1. ASSUME NEW e \in Entries PROVE entry'[e].pc # "idle" <=> entry[e].pc # "idle"
      BY DEF Chained, Begun
    <2>. QED
      BY <2>1 DEF Begun, Entries
  <1>6. \A e \in Begun : entry'[e].ts >= 1
    BY DEF RowsInv, Chained, Begun
  <1>7. ASSUME NEW i \in DOMAIN log'[s], NEW j \in DOMAIN log'[s], log'[s][i] = log'[s][j]
        PROVE  i = j
    <2>1. \A a, b \in 1..Len(log[s]) : log[s][a] = log[s][b] => a = b
      BY <1>2 DEF RowsInv
    <2>2. \A a, b \in 1..Len(Q) : Q[a] = Q[b] => a = b
      BY DEF Chained
    <2>3. CASE i \in 1..Len(log[s]) /\ log'[s][i] = log[s][i] /\ log[s][i] \in Logged(s)
      <3>1. j \in 1..Len(log[s]) /\ log'[s][j] = log[s][j]
        BY <1>4, <1>7, <2>3
      <3>. QED
        BY <1>7, <2>1, <2>3, <3>1
    <2>4. CASE \E a \in 1..Len(Q) : i = Len(log[s]) + a /\ log'[s][i] = Q[a] /\ Q[a] \notin Logged(s)
      <3>1. PICK a \in 1..Len(Q) : i = Len(log[s]) + a /\ log'[s][i] = Q[a] /\ Q[a] \notin Logged(s)
        BY <2>4
      <3>2. PICK b \in 1..Len(Q) : j = Len(log[s]) + b /\ log'[s][j] = Q[b]
        BY <1>4, <1>7, <3>1
      <3>. QED
        BY <1>7, <2>2, <3>1, <3>2
    <2>. QED
      BY <1>4, <2>3, <2>4
  <1>8. Logged(s)' = Logged(s) \cup {Q[j] : j \in 1..Len(Q)}
    <2>1. Logged(s)' = {log'[s][i] : i \in DOMAIN log'[s]}
      BY DEF Logged
    <2>2. ASSUME NEW i \in DOMAIN log'[s] PROVE log'[s][i] \in Logged(s) \cup {Q[j] : j \in 1..Len(Q)}
      BY <1>4
    <2>3. ASSUME NEW i \in 1..Len(log[s]) PROVE log[s][i] \in Logged(s)'
      <3>1. i \in DOMAIN log'[s]
        BY <1>1, <1>2, <1>3
      <3>. QED
        BY <1>1, <2>1, <3>1
    <2>4. ASSUME NEW j \in 1..Len(Q) PROVE Q[j] \in Logged(s)'
      <3>1. Len(log[s]) + j \in DOMAIN log'[s]
        BY <1>1, <1>2, <1>3
      <3>. QED
        BY <1>1, <2>1, <3>1
    <2>. QED
      BY <1>2, <2>1, <2>2, <2>3, <2>4
  <1>9. ASSUME NEW t \in Sources PROVE Logged(t)' = {e \in Of(t) : entry'[e].pc = "logged"}
    <2>0. Logged(t) = {e \in Of(t) : entry[e].pc = "logged"} /\ Of(t) \subseteq Entries
      BY LogRows DEF RowsInv
    <2>1. CASE t = s
      <3>1. ASSUME NEW e \in Of(s)
            PROVE  e \in Logged(s)' <=> entry'[e].pc = "logged"
        <4>1. e \in Entries
          BY <2>0, <2>1
        <4>2. CASE \E i \in 1..Len(Q) : Q[i] = e
          BY <1>8, <4>1, <4>2 DEF Chained
        <4>3. CASE ~ \E i \in 1..Len(Q) : Q[i] = e
          <5>1. entry'[e].pc = entry[e].pc
            BY <4>1, <4>3 DEF Chained
          <5>2. e \in Logged(s)' <=> e \in Logged(s)
            BY <1>8, <4>3
          <5>. QED
            BY <2>0, <2>1, <5>1, <5>2
        <4>. QED
          BY <4>2, <4>3
      <3>2. Logged(s)' \subseteq Of(s)
        BY <1>1, <1>8, <2>0, <2>1
      <3>. QED
        BY <2>1, <3>1, <3>2
    <2>2. CASE t # s
      <3>1. Logged(t)' = Logged(t)
        BY <1>1, <2>2 DEF Logged
      <3>2. ASSUME NEW e \in Of(t) PROVE entry'[e].pc = entry[e].pc
        <4>1. Of(s) \cap Of(t) = {} /\ e \in Entries
          BY <2>0, <2>2, Disjoint
        <4>2. ~ \E i \in 1..Len(Q) : Q[i] = e
          BY <1>1, <4>1
        <4>. QED
          BY <4>1, <4>2 DEF Chained
      <3>. QED
        BY <2>0, <3>1, <3>2
    <2>. QED
      BY <2>1, <2>2
  <1>10. ASSUME NEW t \in Sources, NEW i \in DOMAIN log'[t], NEW j \in DOMAIN log'[t], log'[t][i] = log'[t][j]
         PROVE  i = j
    <2>1. CASE t = s
      BY <1>7, <1>10, <2>1
    <2>2. CASE t # s
      BY <1>1, <1>10, <2>2 DEF RowsInv
    <2>. QED
      BY <2>1, <2>2
  <1>. QED
    <2>1. \A t \in Sources : Of(t)' = Of(t)
      BY DEF Of
    <2>. QED
      BY <1>5, <1>6, <1>9, <1>10, <2>1 DEF RowsInv

\* No row is chained, and the times of what has begun stay.
LEMMA NothingChained ==
    ASSUME EntriesOK, LogOK, RowsInv, ChainLinear, UNCHANGED log,
           \A e \in Entries : /\ entry'[e].prev = entry[e].prev
                              /\ entry'[e].pc = "logged" <=> entry[e].pc = "logged"
                              /\ e \in Begun => e \in Begun' /\ entry'[e].ts = entry[e].ts,
           IsFiniteSet(Begun'), \A e \in Begun' \ Begun : entry'[e].ts >= 1
    PROVE  LogOK' /\ RowsInv' /\ ChainLinear' /\ Grown
  <1>1. LogOK'
    BY DEF LogOK, Of
  <1>2. ASSUME NEW s \in Sources
        PROVE  /\ Logged(s)' = Logged(s) /\ Of(s)' = Of(s) /\ Of(s) \subseteq Entries
               /\ \A i \in DOMAIN log[s] : log[s][i] \in Entries
               /\ Len(log[s]) \in Nat
               /\ Logged(s) \subseteq Begun
    <2>1. Logged(s) \subseteq Begun
      BY LogRows DEF RowsInv, Begun
    <2>. QED
      BY <2>1, LogRows DEF Logged, Of
  <1>3. RowsInv'
    <2>1. \A e \in Begun' : entry'[e].ts >= 1
      BY DEF RowsInv, Begun
    <2>2. ASSUME NEW s \in Sources PROVE Logged(s)' = {e \in Of(s) : entry'[e].pc = "logged"}
      <3>1. \A e \in Of(s) : entry'[e].pc = "logged" <=> entry[e].pc = "logged"
        BY <1>2
      <3>2. Logged(s) = {e \in Of(s) : entry[e].pc = "logged"}
        BY DEF RowsInv
      <3>. QED
        BY <1>2, <3>1, <3>2
    <2>3. \A s \in Sources : \A i, j \in DOMAIN log'[s] : log'[s][i] = log'[s][j] => i = j
      BY DEF RowsInv
    <2>. QED
      BY <1>2, <2>1, <2>2, <2>3 DEF RowsInv
  <1>4. ChainLinear'
    BY <1>2 DEF ChainLinear
  <1>5. Grown
    <2>1. ASSUME NEW s \in Sources, NEW e \in Logged(s) PROVE entry'[e].ts = entry[e].ts
      BY <1>2 DEF Begun
    <2>. QED
      BY <1>2, <2>1 DEF Grown
  <1>. QED
    BY <1>1, <1>3, <1>4, <1>5

(***************************************************************************)
(* The steps of the writers                                                *)
(***************************************************************************)
EntryType ==
    [pc : {"idle", "stamped", "queued", "logged"}, ts : 0..MaxClock, at : 0..MaxClock,
     prev : Entries \cup {0}]
ChainerType == [pc : {"idle", "append"}, batch : SUBSET Events, head : Events \cup {0}]

LEMMA EntryStep ==
    ASSUME EntriesOK, UNCHANGED clock, NEW e \in Entries, NEW x \in EntryType,
           entry' = [entry EXCEPT ![e] = x]
    PROVE  EntriesOK' /\ entry'[e] = x /\ \A f \in Entries \ {e} : entry'[f] = entry[f]
  <1>1. entry' = [entry EXCEPT ![e] = x] /\ entry \in [Entries -> EntryType]
    BY DEF EntriesOK, EntryType
  <1>2. entry' \in [Entries -> EntryType] /\ Entries' = Entries
    BY <1>1 DEF Entries
  <1>3. EntriesOK'
    BY <1>2 DEF EntriesOK, EntryType
  <1>. QED
    BY <1>1, <1>3

LEMMA FaultType == RestOK /\ Fault => faults' \in 0..MaxFaults
  BY AuditAssumption DEF RestOK, Fault

\* The chainer with the lock keeps what it has while nothing leaves the queue.
LEMMA OwnsKept ==
    ASSUME \A c \in Chainers : ChainerOwns(c), UNCHANGED <<chainer, chainLock>>,
           log'["event"] = log["event"],
           \A e \in Events : entry[e].pc = "queued" => entry'[e].pc = "queued"
    PROVE  \A c \in Chainers : ChainerOwns(c)'
  <1>1. Queued \subseteq Queued'
    BY DEF Queued
  <1>2. ChainHead("event")' = ChainHead("event")
    BY DEF ChainHead
  <1>. QED
    BY <1>1, <1>2 DEF ChainerOwns

WriteGoal == EntriesOK' /\ LogOK' /\ ChainersOK' /\ WriteInv' /\ Grown

LEMMA TickWrites ==
    ASSUME TypeOK, WriteInv, Tick
    PROVE  WriteGoal
  <1>0. EntriesOK /\ LogOK /\ ChainersOK /\ RowsInv /\ ChainLinear
    BY Parts DEF WriteInv
  <1>1. UNCHANGED <<entry, log, chainer, chainLock>> /\ clock' = clock + 1 /\ clock < MaxClock
    BY DEF Tick, writing
  <1>2. EntriesOK' /\ ChainersOK'
    BY <1>0, <1>1, AuditAssumption DEF EntriesOK, ChainersOK, Entries
  <1>3. \A c \in Chainers : ChainerOwns(c)'
    BY <1>1, OwnsKept DEF WriteInv
  <1>4. Begun' = Begun /\ IsFiniteSet(Begun)
    BY <1>0, <1>1 DEF Begun, RowsInv, Entries
  <1>5. LogOK' /\ RowsInv' /\ ChainLinear' /\ Grown
    BY <1>0, <1>1, <1>4, NothingChained
  <1>. QED
    BY <1>2, <1>3, <1>5 DEF WriteGoal, WriteInv

LEMMA StampWrites ==
    ASSUME TypeOK, WriteInv, NEW e \in Entries, Stamp(e)
    PROVE  WriteGoal
  <1>0. EntriesOK /\ LogOK /\ ChainersOK /\ RowsInv /\ ChainLinear
    BY Parts DEF WriteInv
  <1>1. UNCHANGED <<clock, log, chainer, chainLock>> /\ entry[e].pc = "idle" /\ clock \in 1..MaxClock
    BY <1>0 DEF Stamp, EntriesOK
  <1>2. PICK x : x = [entry[e] EXCEPT !.pc = "stamped", !.ts = clock]
    OBVIOUS
  <1>3. x \in EntryType /\ x.pc = "stamped" /\ x.prev = entry[e].prev /\ x.ts = clock
    <2>1. clock \in 0..MaxClock
      BY <1>1, AuditAssumption
    <2>2. entry[e] \in EntryType
      BY <1>0 DEF EntriesOK, EntryType
    <2>. QED
      BY <1>2, <2>1, <2>2 DEF EntryType
  <1>4. entry' = [entry EXCEPT ![e] = x]
    BY <1>0, <1>2 DEF Stamp, EntriesOK
  <1>5. EntriesOK' /\ entry'[e] = x /\ \A f \in Entries \ {e} : entry'[f] = entry[f]
    BY <1>0, <1>1, <1>3, <1>4, EntryStep
  <1>6. ChainersOK'
    BY <1>0, <1>1 DEF ChainersOK
  <1>7. \A c \in Chainers : ChainerOwns(c)'
    <2>1. \A f \in Events : entry[f].pc = "queued" => entry'[f].pc = "queued"
      BY <1>1, <1>5 DEF Entries
    <2>. QED
      BY <1>1, <2>1, OwnsKept DEF WriteInv
  <1>8. Begun' = Begun \cup {e} /\ e \notin Begun
    BY <1>1, <1>3, <1>5 DEF Begun, Entries
  <1>9. IsFiniteSet(Begun')
    BY <1>0, <1>8, FS_AddElement DEF RowsInv
  <1>10. \A f \in Begun' \ Begun : entry'[f].ts >= 1
    BY <1>1, <1>3, <1>5, <1>8, AuditAssumption
  <1>11. \A f \in Entries : /\ entry'[f].prev = entry[f].prev
                            /\ entry'[f].pc = "logged" <=> entry[f].pc = "logged"
                            /\ f \in Begun => f \in Begun' /\ entry'[f].ts = entry[f].ts
    BY <1>1, <1>3, <1>5, <1>8
  <1>12. LogOK' /\ RowsInv' /\ ChainLinear' /\ Grown
    BY <1>0, <1>1, <1>9, <1>10, <1>11, NothingChained
  <1>. QED
    BY <1>5, <1>6, <1>7, <1>12 DEF WriteGoal, WriteInv

LEMMA EnqueueWrites ==
    ASSUME TypeOK, WriteInv, NEW e \in Entries, Enqueue(e)
    PROVE  WriteGoal
  <1>0. EntriesOK /\ LogOK /\ ChainersOK /\ RowsInv /\ ChainLinear
    BY Parts DEF WriteInv
  <1>1. UNCHANGED <<clock, log, chainer, chainLock>> /\ entry[e].pc = "stamped"
    BY DEF Enqueue
  <1>2. PICK t \in entry[e].ts..clock : entry' = [entry EXCEPT ![e].pc = "queued", ![e].at = t]
    BY DEF Enqueue
  <1>3. t \in 0..MaxClock
    BY <1>0, EntryTyped, AuditAssumption DEF EntriesOK
  <1>4. PICK x : x = [entry[e] EXCEPT !.pc = "queued", !.at = t]
    OBVIOUS
  <1>5. x \in EntryType /\ x.pc = "queued" /\ x.prev = entry[e].prev /\ x.ts = entry[e].ts
    BY <1>0, <1>3, <1>4 DEF EntriesOK, EntryType
  <1>6. entry' = [entry EXCEPT ![e] = x]
    BY <1>0, <1>2, <1>4 DEF EntriesOK
  <1>7. EntriesOK' /\ entry'[e] = x /\ \A f \in Entries \ {e} : entry'[f] = entry[f]
    BY <1>0, <1>1, <1>5, <1>6, EntryStep
  <1>8. ChainersOK'
    BY <1>0, <1>1 DEF ChainersOK
  <1>9. \A c \in Chainers : ChainerOwns(c)'
    <2>1. \A f \in Events : entry[f].pc = "queued" => entry'[f].pc = "queued"
      BY <1>5, <1>7 DEF Entries
    <2>. QED
      BY <1>1, <2>1, OwnsKept DEF WriteInv
  <1>10. Begun' = Begun
    BY <1>1, <1>5, <1>7 DEF Begun, Entries
  <1>11. \A f \in Entries : /\ entry'[f].prev = entry[f].prev
                            /\ entry'[f].pc = "logged" <=> entry[f].pc = "logged"
                            /\ f \in Begun => f \in Begun' /\ entry'[f].ts = entry[f].ts
    BY <1>1, <1>5, <1>7, <1>10
  <1>12. IsFiniteSet(Begun') /\ \A f \in Begun' \ Begun : entry'[f].ts >= 1
    BY <1>0, <1>10 DEF RowsInv
  <1>13. LogOK' /\ RowsInv' /\ ChainLinear' /\ Grown
    BY <1>0, <1>1, <1>11, <1>12, NothingChained
  <1>. QED
    BY <1>7, <1>8, <1>9, <1>13 DEF WriteGoal, WriteInv

LEMMA LogActivityWrites ==
    ASSUME TypeOK, WriteInv, NEW e \in Entries, LogActivity(e)
    PROVE  WriteGoal
  <1>. DEFINE Q == << e >>
  <1>0. EntriesOK /\ LogOK /\ ChainersOK /\ RowsInv /\ ChainLinear
    BY Parts DEF WriteInv
  <1>1. /\ UNCHANGED <<clock, chainer, chainLock>> /\ entry[e].pc = "stamped" /\ e \in Activities
        /\ log' = [log EXCEPT !["activity"] = Append(@, e)]
        /\ entry' = [entry EXCEPT ![e].pc = "logged", ![e].prev = ChainHead("activity")]
    BY DEF LogActivity
  <1>2. /\ "activity" \in Sources /\ "event" \in Sources /\ Of("activity") = Activities
        /\ log["activity"] \in Seq(Of("activity"))
    BY <1>0 DEF Sources, Of, LogOK
  <1>3. ChainHead("activity") \in Entries \cup {0}
    <2>1. CASE log["activity"] = << >>
      BY <2>1 DEF ChainHead
    <2>2. CASE log["activity"] # << >>
      <3>1. Len(log["activity"]) \in 1..Len(log["activity"])
        BY <1>2, <2>2, EmptySeq
      <3>. QED
        BY <1>0, <1>2, <2>2, <3>1, LogRows DEF ChainHead
    <2>. QED
      BY <2>1, <2>2
  <1>4. PICK x : x = [entry[e] EXCEPT !.pc = "logged", !.prev = ChainHead("activity")]
    OBVIOUS
  <1>5. x \in EntryType /\ x.pc = "logged" /\ x.prev = ChainHead("activity") /\ x.ts = entry[e].ts
    BY <1>0, <1>3, <1>4 DEF EntriesOK, EntryType
  <1>6. entry' = [entry EXCEPT ![e] = x]
    BY <1>0, <1>1, <1>4 DEF EntriesOK
  <1>7. EntriesOK' /\ entry'[e] = x /\ \A f \in Entries \ {e} : entry'[f] = entry[f]
    BY <1>0, <1>1, <1>5, <1>6, EntryStep
  <1>8. ChainersOK'
    BY <1>0, <1>1 DEF ChainersOK
  <1>9. \A c \in Chainers : ChainerOwns(c)'
    <2>1. \A f \in Events : entry[f].pc = "queued" => entry'[f].pc = "queued"
      BY <1>1, <1>7 DEF Entries
    <2>2. log'["event"] = log["event"]
      BY <1>0, <1>1, <1>2 DEF LogOK
    <2>. QED
      BY <1>1, <2>1, <2>2, OwnsKept DEF WriteInv
  <1>10. Chained("activity", Q)
    <2>1. Q \in Seq(Of("activity")) /\ Len(Q) = 1 /\ Q[1] = e
      BY <1>1, <1>2
    <2>2. e \in Begun /\ e \notin Logged("activity")
      BY <1>0, <1>1, <1>2 DEF RowsInv, Begun
    <2>3. log' = [log EXCEPT !["activity"] = log["activity"] \o Q]
      <3>1. Append(log["activity"], e) = log["activity"] \o Q
        BY <1>1, <1>2, AppendIsConcat
      <3>. QED
        BY <1>1, <3>1
    <2>4. \A i \in 1..Len(Q) : i = 1 /\ Q[i] = e
      BY <2>1
    <2>5. \A f \in Entries : (\E i \in 1..Len(Q) : Q[i] = f) <=> f = e
      BY <2>1, <2>4
    <2>. HIDE DEF Q
    <2>6. \A f \in Entries :
             /\ entry'[f].ts = entry[f].ts
             /\ (\E i \in 1..Len(Q) : Q[i] = f) => entry'[f].pc = "logged"
             /\ ~ (\E i \in 1..Len(Q) : Q[i] = f) =>
                   entry'[f].pc = entry[f].pc /\ entry'[f].prev = entry[f].prev
      BY <1>5, <1>7, <2>5
    <2>7. \A i \in 1..Len(Q) : entry'[Q[i]].prev = (IF i = 1 THEN ChainHead("activity") ELSE Q[i - 1])
      BY <1>5, <1>7, <2>4
    <2>8. \A i, j \in 1..Len(Q) : Q[i] = Q[j] => i = j
      BY <2>4
    <2>9. \A i \in 1..Len(Q) : Q[i] \in Begun /\ Q[i] \notin Logged("activity")
      BY <2>2, <2>4
    <2>. QED
      BY <2>1, <2>3, <2>6, <2>7, <2>8, <2>9 DEF Chained
  <1>11. LogOK' /\ Grown /\ RowsInv' /\ ChainLinear'
    BY <1>0, <1>2, <1>10, ChainedLog, ChainedRows, ChainedLinks
  <1>. QED
    BY <1>7, <1>8, <1>9, <1>11 DEF WriteGoal, WriteInv

LEMMA ChainerTyped ==
    ASSUME ChainersOK, NEW c \in Chainers
    PROVE  /\ chainer[c] \in ChainerType /\ c # None
           /\ chainer[c].pc \in {"idle", "append"} /\ chainer[c].batch \subseteq Events
  BY AuditAssumption DEF ChainersOK, ChainerType

LEMMA ChainerMove ==
    ASSUME ChainersOK, NEW c \in Chainers, NEW x \in ChainerType,
           chainer' = [chainer EXCEPT ![c] = x], chainLock' \in Chainers \cup {None}
    PROVE  /\ ChainersOK' /\ chainer'[c] = x
           /\ \A d \in Chainers \ {c} : chainer'[d] = chainer[d]
  <1>1. chainer \in [Chainers -> ChainerType]
    BY DEF ChainersOK, ChainerType
  <1>2. chainer' \in [Chainers -> ChainerType]
    BY <1>1
  <1>. QED
    BY <1>1, <1>2 DEF ChainersOK, ChainerType

LEMMA DrainWrites ==
    ASSUME TypeOK, WriteInv, NEW c \in Chainers, Drain(c)
    PROVE  WriteGoal
  <1>0. EntriesOK /\ LogOK /\ ChainersOK /\ RowsInv /\ ChainLinear
    BY Parts DEF WriteInv
  <1>1. /\ chainer[c].pc = "idle" /\ chainLock = None /\ chainLock' = c
        /\ UNCHANGED <<clock, entry, log>>
    BY DEF Drain, MayChain
  <1>2. PICK x : x = [pc |-> "append", batch |-> FirstOf(Queued, ChainBatch, QueuedBefore),
                      head |-> ChainHead("event")]
    OBVIOUS
  <1>3. x.pc = "append" /\ x.batch \subseteq Queued /\ x.head = ChainHead("event")
    BY <1>2 DEF FirstOf
  <1>4. x \in ChainerType
    <2>1. ChainHead("event") \in Events \cup {0}
      <3>1. CASE log["event"] = << >>
        BY <3>1 DEF ChainHead
      <3>2. CASE log["event"] # << >>
        <4>1. "event" \in Sources /\ Of("event") = Events
          BY DEF Sources, Of
        <4>2. log["event"] \in Seq(Events)
          BY <1>0, <4>1 DEF LogOK
        <4>3. Len(log["event"]) \in 1..Len(log["event"])
          BY <3>2, <4>2, EmptySeq
        <4>. QED
          BY <3>2, <4>2, <4>3 DEF ChainHead
      <3>. QED
        BY <3>1, <3>2
    <2>2. Queued \subseteq Events
      BY DEF Queued
    <2>. QED
      BY <1>2, <1>3, <2>1, <2>2 DEF ChainerType
  <1>5. chainer' = [chainer EXCEPT ![c] = x]
    BY <1>2 DEF Drain
  <1>6. /\ ChainersOK' /\ chainer'[c] = x
        /\ \A d \in Chainers \ {c} : chainer'[d] = chainer[d]
    BY <1>0, <1>1, <1>4, <1>5, ChainerMove
  <1>7. EntriesOK' /\ Queued' = Queued /\ ChainHead("event")' = ChainHead("event")
    BY <1>0, <1>1 DEF EntriesOK, Queued, ChainHead, Entries
  <1>8. \A d \in Chainers : ChainerOwns(d)'
    <2>1. ASSUME NEW d \in Chainers PROVE ChainerOwns(d)'
      <3>1. ChainerOwns(d) /\ d # None
        BY <1>0, ChainerTyped DEF WriteInv
      <3>. QED
        BY <1>1, <1>3, <1>6, <1>7, <3>1 DEF ChainerOwns
    <2>. QED
      BY <2>1
  <1>9. Begun' = Begun /\ IsFiniteSet(Begun)
    BY <1>0, <1>1 DEF Begun, RowsInv, Entries
  <1>10. LogOK' /\ RowsInv' /\ ChainLinear' /\ Grown
    BY <1>0, <1>1, <1>9, NothingChained
  <1>. QED
    BY <1>6, <1>7, <1>8, <1>10 DEF WriteGoal, WriteInv

\* Who has the lock when a chainer is done.
LEMMA DoneOwns ==
    ASSUME TypeOK, WriteInv, NEW c \in Chainers, chainer[c].pc = "append", ChainDone(c)
    PROVE  ChainersOK' /\ \A d \in Chainers : ChainerOwns(d)'
  <1>0. ChainersOK
    BY Parts
  <1>1. PICK x : x = [pc |-> "idle", batch |-> {}, head |-> 0]
    OBVIOUS
  <1>2. x \in ChainerType /\ x.pc = "idle"
    BY <1>1 DEF ChainerType
  <1>3. chainLock = c /\ chainLock' = None
    BY DEF WriteInv, ChainerOwns, ChainDone
  <1>4. chainer' = [chainer EXCEPT ![c] = x]
    BY <1>1 DEF ChainDone
  <1>5. /\ ChainersOK' /\ chainer'[c] = x
        /\ \A d \in Chainers \ {c} : chainer'[d] = chainer[d]
    BY <1>0, <1>2, <1>3, <1>4, ChainerMove
  <1>6. ASSUME NEW d \in Chainers PROVE ChainerOwns(d)'
    <2>1. ChainerOwns(d) /\ d # None /\ chainer[d].pc \in {"idle", "append"}
      BY <1>0, ChainerTyped DEF WriteInv
    <2>2. chainer'[d].pc # "append"
      BY <1>2, <1>3, <1>5, <2>1 DEF ChainerOwns
    <2>. QED
      BY <1>3, <2>1, <2>2 DEF ChainerOwns
  <1>. QED
    BY <1>5, <1>6

LEMMA CrashChainerWrites ==
    ASSUME TypeOK, WriteInv, NEW c \in Chainers, CrashChainer(c)
    PROVE  WriteGoal
  <1>0. EntriesOK /\ LogOK /\ ChainersOK /\ RowsInv /\ ChainLinear
    BY Parts DEF WriteInv
  <1>1. chainer[c].pc = "append" /\ ChainDone(c) /\ UNCHANGED <<clock, entry, log>>
    BY <1>0, ChainerTyped DEF CrashChainer
  <1>2. ChainersOK' /\ \A d \in Chainers : ChainerOwns(d)'
    BY <1>1, DoneOwns
  <1>3. EntriesOK' /\ Begun' = Begun /\ IsFiniteSet(Begun)
    BY <1>0, <1>1 DEF EntriesOK, Begun, RowsInv, Entries
  <1>4. LogOK' /\ RowsInv' /\ ChainLinear' /\ Grown
    BY <1>0, <1>1, <1>3, NothingChained
  <1>. QED
    BY <1>2, <1>3, <1>4 DEF WriteGoal, WriteInv

\* What the lock holder drained is still queued, and all of it is chained.
LEMMA AppendChains ==
    ASSUME TypeOK, WriteInv, NEW c \in Chainers, chainer[c].pc = "append", Appended(c), UNCHANGED clock
    PROVE  EntriesOK' /\ \E Q : Chained("event", Q)
  <1>t. PICK T : T = chainer[c].batch
    OBVIOUS
  <1>q. PICK Q : Q = InOrder(T)
    OBVIOUS
  <1>. DEFINE link(x) == IF QueuedEarlier(T, x) = {} THEN chainer[c].head ELSE LastQueued(QueuedEarlier(T, x))
  <1>0. EntriesOK /\ LogOK /\ ChainersOK /\ RowsInv
    BY Parts DEF WriteInv
  <1>1. T \subseteq Queued /\ chainer[c].head = ChainHead("event")
    BY <1>t DEF WriteInv, ChainerOwns
  <1>2. chainer[c].head \in Entries \cup {0}
    BY <1>0, ChainerTyped DEF ChainerType, Entries
  <1>3. T \subseteq Events /\ T \subseteq Entries /\ T \subseteq Begun /\ \A x \in T : entry[x].pc = "queued"
    BY <1>1 DEF Queued, Entries, Begun
  <1>4. IsFiniteSet(T)
    BY <1>0, <1>3, FS_Subset DEF RowsInv
  <1>5. log' = [log EXCEPT !["event"] = log["event"] \o Q]
    BY <1>t, <1>q DEF Appended
  <1>6. entry' = [e \in Entries |->
            IF e \in T THEN [entry[e] EXCEPT !.pc = "logged", !.prev = link(e)] ELSE entry[e]]
    BY <1>t DEF Appended, LastQueued, QueuedEarlier
  <1>p. EntriesOK /\ T \subseteq Entries /\ IsFiniteSet(T)
    BY <1>0, <1>3, <1>4
  <1>s. Sequenced(T, Q)
    BY <1>p, <1>q, QueueInOrder
  <1>7. Q \in Seq(T)
    BY <1>s DEF Sequenced
  <1>a. \A x \in T : \E i \in 1..Len(Q) : Q[i] = x
    BY <1>s DEF Sequenced
  <1>b. \A i, j \in 1..Len(Q) : Q[i] = Q[j] => i = j
    BY <1>s DEF Sequenced
  <1>c. \A i \in 1..Len(Q) : /\ QueuedEarlier(T, Q[i]) = {} <=> i = 1
                             /\ i # 1 => LastQueued(QueuedEarlier(T, Q[i])) = Q[i - 1]
    BY <1>s DEF Sequenced
  <1>8. \A i \in 1..Len(Q) : link(Q[i]) = (IF i = 1 THEN chainer[c].head ELSE Q[i - 1])
    BY <1>c
  <1>. HIDE DEF link
  <1>9. Len(Q) \in Nat /\ \A i \in 1..Len(Q) : Q[i] \in T
    BY <1>7
  <1>10. ASSUME NEW i \in 1..Len(Q) PROVE (IF i = 1 THEN chainer[c].head ELSE Q[i - 1]) \in Entries \cup {0}
    <2>1. i # 1 => i - 1 \in 1..Len(Q)
      BY <1>9
    <2>. QED
      BY <1>2, <1>3, <1>9, <2>1
  <1>11. ASSUME NEW x \in T PROVE link(x) \in Entries \cup {0}
    <2>1. PICK i \in 1..Len(Q) : Q[i] = x
      BY <1>a
    <2>2. link(Q[i]) \in Entries \cup {0}
      BY <1>8, <1>10
    <2>. QED
      BY <2>1, <2>2
  <1>12. ASSUME NEW e \in Entries
         PROVE  /\ entry'[e] \in EntryType /\ entry'[e].ts = entry[e].ts
                /\ e \in T => entry'[e].pc = "logged" /\ entry'[e].prev = link(e)
                /\ e \notin T => entry'[e] = entry[e]
    <2>0. entry[e] \in EntryType
      BY <1>0 DEF EntriesOK, EntryType
    <2>1. CASE e \in T
      <3>1. entry'[e] = [entry[e] EXCEPT !.pc = "logged", !.prev = link(e)]
        BY <1>6, <2>1
      <3>2. link(e) \in Entries \cup {0}
        BY <1>11, <2>1
      <3>. QED
        BY <2>0, <2>1, <3>1, <3>2 DEF EntryType
    <2>2. CASE e \notin T
      BY <1>6, <2>0, <2>2
    <2>. QED
      BY <2>1, <2>2
  <1>13. EntriesOK'
    <2>1. entry' \in [Entries -> EntryType]
      <3>1. entry' = [e \in Entries |-> entry'[e]]
        BY <1>6
      <3>. QED
        BY <1>12, <3>1
    <2>. QED
      BY <1>0, <2>1 DEF EntriesOK, EntryType, Entries
  <1>14. Chained("event", Q)
    <2>1. "event" \in Sources /\ Of("event") = Events
      BY DEF Sources, Of
    <2>2. Q \in Seq(Of("event"))
      BY <1>3, <1>7, <2>1, SeqMonotonic
    <2>3. \A x \in T : x \in Begun /\ x \notin Logged("event")
      BY <1>0, <1>3, <2>1 DEF RowsInv
    <2>4. ASSUME NEW e \in Entries
          PROVE  /\ entry'[e].ts = entry[e].ts
                 /\ (\E i \in 1..Len(Q) : Q[i] = e) => entry'[e].pc = "logged"
                 /\ ~ (\E i \in 1..Len(Q) : Q[i] = e) =>
                       entry'[e].pc = entry[e].pc /\ entry'[e].prev = entry[e].prev
      <3>1. (\E i \in 1..Len(Q) : Q[i] = e) <=> e \in T
        BY <1>a, <1>9
      <3>. QED
        BY <1>12, <3>1
    <2>5. ASSUME NEW i \in 1..Len(Q)
          PROVE  entry'[Q[i]].prev = (IF i = 1 THEN ChainHead("event") ELSE Q[i - 1])
      <3>1. Q[i] \in T /\ Q[i] \in Entries
        BY <1>3, <1>9
      <3>2. entry'[Q[i]].prev = link(Q[i])
        BY <1>12, <3>1
      <3>. QED
        BY <1>1, <1>8, <3>2
    <2>. QED
      BY <1>5, <1>b, <1>9, <2>2, <2>3, <2>4, <2>5 DEF Chained
  <1>. QED
    BY <1>13, <1>14

LEMMA AppendBatchWrites ==
    ASSUME TypeOK, WriteInv, NEW c \in Chainers, AppendBatch(c)
    PROVE  WriteGoal
  <1>0. EntriesOK /\ LogOK /\ ChainersOK /\ RowsInv /\ ChainLinear /\ "event" \in Sources
    BY Parts DEF WriteInv, Sources
  <1>1. /\ chainer[c].pc = "append" /\ ChainDone(c) /\ UNCHANGED clock
        /\ chainer[c].batch \subseteq Queued
    BY DEF AppendBatch, WriteInv, ChainerOwns
  <1>2. Appended(c)
    BY <1>1 DEF AppendBatch
  <1>3. ChainersOK' /\ \A d \in Chainers : ChainerOwns(d)'
    BY <1>1, DoneOwns
  <1>4. EntriesOK' /\ \E Q : Chained("event", Q)
    BY <1>1, <1>2, AppendChains
  <1>5. PICK Q : Chained("event", Q)
    BY <1>4
  <1>6. LogOK' /\ Grown /\ RowsInv' /\ ChainLinear'
    BY <1>0, <1>5, ChainedLog, ChainedRows, ChainedLinks
  <1>. QED
    BY <1>3, <1>4, <1>6 DEF WriteGoal, WriteInv

Writes == Tick \/ (\E e \in Entries : Write(e)) \/ (\E c \in Chainers : ChainStep(c))

LEMMA WritesKeep ==
    ASSUME TypeOK, WriteInv, Writes
    PROVE  WriteGoal
  BY TickWrites, StampWrites, EnqueueWrites, LogActivityWrites, DrainWrites, AppendBatchWrites,
     CrashChainerWrites DEF Writes, Write, ChainStep

(***************************************************************************)
(* What the delivery holds while the logs grow                             *)
(***************************************************************************)
\* A row that is chained now and not out of order is no earlier than any row
\* that was there before.
LEMMA GrownRows ==
    ASSUME EntriesOK, LogOK, LogOK', Grown, NEW s \in Sources
    PROVE  /\ Logged(s) \subseteq Logged(s)'
           /\ OutOfOrder(s) \subseteq OutOfOrder(s)'
           /\ \A x, y \in Logged(s) : Before(x, y)' <=> Before(x, y)
           /\ \A x \in Logged(s)' \ Logged(s), y \in Logged(s) :
                 x \notin OutOfOrder(s)' => ~ Before(x, y)'
  <1>1. /\ Len(log[s]) \in Nat /\ DOMAIN log[s] = 1..Len(log[s]) /\ Of(s) \subseteq Entries
        /\ Logged(s) = {log[s][i] : i \in 1..Len(log[s])}
        /\ Logged(s) \subseteq Of(s)
    BY LogRows
  <1>2. /\ Len(log'[s]) \in Nat /\ DOMAIN log'[s] = 1..Len(log'[s])
        /\ Logged(s)' = {log'[s][i] : i \in DOMAIN log'[s]}
    <2>1. log'[s] \in Seq(Of(s)')
      BY DEF LogOK
    <2>. QED
      BY <2>1 DEF Logged
  <1>3. /\ Len(log[s]) <= Len(log'[s])
        /\ \A i \in 1..Len(log[s]) : log'[s][i] = log[s][i]
        /\ \A e \in Logged(s) : entry'[e].ts = entry[e].ts
    BY DEF Grown
  <1>4. \A i \in 1..Len(log[s]) : i \in DOMAIN log'[s]
    BY <1>1, <1>2, <1>3
  <1>5. Logged(s) \subseteq Logged(s)'
    BY <1>1, <1>2, <1>3, <1>4
  <1>6. ASSUME NEW x \in Logged(s), NEW y \in Logged(s) PROVE Before(x, y)' <=> Before(x, y)
    BY <1>3 DEF Before
  <1>7. ASSUME NEW x \in OutOfOrder(s) PROVE x \in OutOfOrder(s)'
    <2>1. PICK i \in DOMAIN log[s], j \in DOMAIN log[s] : i < j /\ log[s][j] = x /\ Before(x, log[s][i])
      BY DEF OutOfOrder
    <2>2. x \in Logged(s) /\ log[s][i] \in Logged(s)
      BY <1>1, <2>1
    <2>3. i \in DOMAIN log'[s] /\ j \in DOMAIN log'[s] /\ log'[s][j] = x /\ log'[s][i] = log[s][i]
      BY <1>1, <1>3, <1>4, <2>1
    <2>4. Before(x, log[s][i])'
      <3>1. PICK y : y = log[s][i]
        OBVIOUS
      <3>2. Before(x, y)'
        BY <1>6, <2>1, <2>2, <3>1
      <3>. QED
        BY <2>3, <3>1, <3>2 DEF Before
    <2>. QED
      BY <1>5, <2>1, <2>2, <2>3, <2>4 DEF OutOfOrder, Before
  <1>8. ASSUME NEW x \in Logged(s)' \ Logged(s), NEW y \in Logged(s), Before(x, y)'
        PROVE  x \in OutOfOrder(s)'
    <2>1. PICK i \in 1..Len(log[s]) : log[s][i] = y
      BY <1>1
    <2>2. PICK j \in DOMAIN log'[s] : log'[s][j] = x
      BY <1>2
    <2>3. j \notin 1..Len(log[s])
      BY <1>1, <1>3, <2>2
    <2>4. i < j /\ i \in DOMAIN log'[s] /\ log'[s][i] = y
      BY <1>1, <1>2, <1>3, <1>4, <2>1, <2>2, <2>3
    <2>. QED
      BY <1>8, <2>2, <2>4 DEF OutOfOrder, Before
  <1>. QED
    BY <1>5, <1>6, <1>7, <1>8

\* What is owed and was there before was owed before.
LEMMA GrownOwed ==
    ASSUME EntriesOK, LogOK, LogOK', Grown, NEW s \in Sources, planted'[s] = planted[s],
           NEW x \in Owed(s)'
    PROVE  /\ x \in Logged(s) => x \in Owed(s)
           /\ x \notin Logged(s) => \A y \in Logged(s) : ~ Before(x, y)'
           /\ x \in Logged(s)' /\ x \notin OutOfOrder(s)'
  <1>1. x \in Logged(s)' /\ x \notin OutOfOrder(s)' /\ planted'[s] # 0 /\ entry'[x].ts >= planted'[s]
    BY DEF Owed
  <1>2. ASSUME x \in Logged(s) PROVE x \in Owed(s)
    <2>1. x \notin OutOfOrder(s)
      BY <1>1, GrownRows
    <2>2. entry'[x].ts = entry[x].ts
      BY <1>2 DEF Grown
    <2>. QED
      BY <1>1, <1>2, <2>1, <2>2 DEF Owed
  <1>3. ASSUME x \notin Logged(s) PROVE \A y \in Logged(s) : ~ Before(x, y)'
    BY <1>1, <1>3, GrownRows
  <1>. QED
    BY <1>1, <1>2, <1>3

LEMMA RunTyped ==
    ASSUME RunsOK, NEW r \in Runs
    PROVE  /\ run[r] \in RunType /\ r # None
           /\ run[r].polled \subseteq Entries /\ run[r].batch \subseteq Entries
           /\ run[r].acked \subseteq run[r].batch /\ Held(r) \subseteq Entries
           /\ \A s \in Sources : run[r].seen[s] \in Nat
           /\ run[r].pc \in {"idle", "activity", "event", "preflight", "deliver", "commit"}
  BY AuditAssumption DEF RunsOK, RunType, Held

LEMMA HeldLogged ==
    ASSUME RunsOK, NEW r \in Runs, HeldInv(r), NEW e \in Held(r)
    PROVE  \E s \in Sources : e \in Of(s) /\ e \in Logged(s)
  <1>1. e \in Entries
    BY RunTyped
  <1>2. PICK s \in Sources : e \in Of(s)
    BY <1>1 DEF Entries, Sources, Of
  <1>3. Held(r) \cap Of(s) \subseteq Logged(s)
    BY DEF HeldInv
  <1>. QED
    BY <1>2, <1>3

LEMMA CursorTyped ==
    ASSUME CursorOK, EntriesOK, NEW s \in Sources
    PROVE  /\ cursor[s].ts \in Nat /\ cursor[s].id \in Entries \cup {0} /\ cursor[s].id \in Nat
           /\ cursor[s].id \in Logged(s) \cup {0} /\ planted[s] \in Nat
  <1>1. cursor[s] \in [ts : 0..MaxClock, id : Entries \cup {0}] /\ planted[s] \in 0..MaxClock
    BY DEF CursorOK
  <1>2. Entries \subseteq Nat
    BY AuditAssumption DEF Entries
  <1>3. cursor[s].ts \in Nat /\ planted[s] \in Nat
    BY <1>1, AuditAssumption
  <1>4. cursor[s].id \in Entries \cup {0}
    BY <1>1
  <1>5. cursor[s].id \in Logged(s) \cup {0}
    BY DEF CursorOK
  <1>6. cursor[s].id \in Nat
    <2>1. \A e \in Entries \cup {0} : e \in Nat
      BY <1>2
    <2>. QED
      BY <1>4, <2>1
  <1>. QED
    BY <1>3, <1>4, <1>5, <1>6

LEMMA GrownSending ==
    ASSUME TypeOK, WriteInv, SendInv, WriteGoal, UNCHANGED sending
    PROVE  CursorOK' /\ RunsOK' /\ SendInv'
  <1>0. /\ EntriesOK /\ LogOK /\ CursorOK /\ RunsOK /\ RowsInv
        /\ EntriesOK' /\ LogOK' /\ RowsInv' /\ Grown
    BY Parts DEF WriteInv, WriteGoal
  <1>1. UNCHANGED <<cursor, planted, run, lock, got, attested, alarm, lost>>
    BY DEF sending
  <1>2. CursorInv /\ LockInv /\ CursorAttested /\ AlarmsHaveCause
    BY DEF SendInv
  <1>3. ASSUME NEW r \in Runs
        PROVE  HeldInv(r) /\ Covers(r) /\ Stretch(r) /\ Filled(r) /\ Watermark(r) /\ Held(r)' = Held(r)
    BY <1>1 DEF SendInv, RunInv, Held
  <1>4. ASSUME NEW s \in Sources
        PROVE  /\ Of(s)' = Of(s) /\ Of(s) \subseteq Entries /\ Logged(s) \subseteq Of(s)
               /\ Logged(s) \subseteq Logged(s)' /\ Logged(s)' \subseteq Of(s)
               /\ \A e \in Logged(s) : entry'[e].ts = entry[e].ts
               /\ \A e \in Logged(s) : Beyond(e, cursor[s])' <=> Beyond(e, cursor[s])
               /\ \A x, y \in Logged(s) : Before(x, y)' <=> Before(x, y)
    <2>1. Logged(s) \subseteq Logged(s)' /\ \A x, y \in Logged(s) : Before(x, y)' <=> Before(x, y)
      BY <1>0, GrownRows
    <2>2. \A e \in Logged(s) : entry'[e].ts = entry[e].ts
      BY <1>0 DEF Grown
    <2>3. Of(s) \subseteq Entries /\ Logged(s) \subseteq Of(s) /\ Of(s)' = Of(s)
      BY <1>0, LogRows DEF Of
    <2>4. \A e \in Logged(s) : Beyond(e, cursor[s])' <=> Beyond(e, cursor[s])
      BY <1>1, <2>2 DEF Beyond
    <2>5. Logged(s)' \subseteq Of(s)
      BY <1>0, <2>3 DEF RowsInv
    <2>. QED
      BY <2>1, <2>2, <2>3, <2>4, <2>5
  <1>5. CursorOK'
    <2>1. \A s \in Sources : cursor'[s].id \in Logged(s)' \cup {0}
      BY <1>0, <1>1, <1>4 DEF CursorOK
    <2>. QED
      BY <1>0, <1>1, <2>1 DEF CursorOK, Entries
  <1>6. RunsOK'
    BY <1>0, <1>1 DEF RunsOK, RunType, Entries
  <1>7. CursorInv'
    <2>1. ASSUME NEW s \in Sources
          PROVE  /\ planted'[s] = 0 <=> cursor'[s].ts = 0
                 /\ cursor'[s].id = 0 => cursor'[s].ts = planted'[s]
                 /\ cursor'[s].id # 0 => cursor'[s].ts = entry'[cursor'[s].id].ts
      <3>1. cursor[s].id # 0 => cursor[s].id \in Logged(s)
        BY <1>0, CursorTyped
      <3>2. cursor[s].id # 0 => entry'[cursor[s].id].ts = entry[cursor[s].id].ts
        BY <1>4, <3>1
      <3>. QED
        BY <1>1, <1>2, <3>2 DEF CursorInv
    <2>. QED
      BY <2>1 DEF CursorInv
  <1>8. LockInv'
    BY <1>1, <1>2 DEF LockInv
  <1>9. CursorAttested'
    <2>1. ASSUME NEW s \in Sources, NEW x \in Passed(s)' PROVE x \in attested
      <3>1. x \in Owed(s)' /\ ~ Beyond(x, cursor[s])'
        BY DEF Passed
      <3>2. planted'[s] = planted[s]
        BY <1>1
      <3>3. /\ x \in Logged(s) => x \in Owed(s)
            /\ x \notin Logged(s) => \A y \in Logged(s) : ~ Before(x, y)'
            /\ x \in Logged(s)'
        BY <1>0, <3>1, <3>2, GrownOwed
      <3>4. CASE x \in Logged(s)
        BY <1>2, <1>4, <3>1, <3>3, <3>4 DEF CursorAttested, Passed
      <3>5. CASE x \notin Logged(s)
        <4>1. x \in Entries
          BY <1>4, <3>3
        <4>2. /\ entry'[x].ts \in Nat /\ x \in Nat /\ x # 0 /\ cursor[s].ts \in Nat /\ cursor[s].id \in Nat
              /\ cursor'[s] = cursor[s]
          <5>1. entry'[x].ts \in Nat
            <6>1. entry'[x].ts \in 0..MaxClock
              BY <1>0, <4>1 DEF EntriesOK, Entries
            <6>. QED
              BY <6>1, AuditAssumption
          <5>2. x \in Nat /\ x # 0
            BY <4>1, AuditAssumption DEF Entries
          <5>. QED
            BY <1>0, <1>1, <5>1, <5>2, CursorTyped
        <4>3. entry'[x].ts < cursor[s].ts \/ (entry'[x].ts = cursor[s].ts /\ x <= cursor[s].id)
          BY <3>1, <4>2 DEF Beyond
        <4>4. CASE cursor[s].id = 0
          <5>1. entry'[x].ts >= planted[s] /\ planted[s] = cursor[s].ts
            BY <1>1, <1>2, <3>1, <4>4 DEF Owed, CursorInv
          <5>. QED
            BY <4>2, <4>3, <4>4, <5>1
        <4>5. CASE cursor[s].id # 0
          <5>1. cursor[s].id \in Logged(s)
            BY <1>0, <4>5, CursorTyped
          <5>2. entry'[cursor[s].id].ts = cursor[s].ts
            BY <1>2, <1>4, <4>5, <5>1 DEF CursorInv
          <5>3. PICK y \in Logged(s) : y = cursor[s].id
            BY <5>1
          <5>4. ~ Before(x, y)' /\ x # y
            BY <3>3, <3>5, <5>3
          <5>. QED
            BY <4>2, <4>3, <5>2, <5>3, <5>4 DEF Before
        <4>. QED
          BY <4>4, <4>5
      <3>. QED
        BY <3>4, <3>5
    <2>2. attested \subseteq got
      BY <1>2 DEF CursorAttested
    <2>. QED
      BY <1>1, <2>1, <2>2 DEF CursorAttested
  <1>10. AlarmsHaveCause'
    <2>1. ASSUME NEW s \in Sources PROVE OutOfOrder(s) \subseteq OutOfOrder(s)'
      BY <1>0, GrownRows
    <2>2. alarm \subseteq Sources
      BY Parts DEF RestOK
    <2>. QED
      BY <1>1, <1>2, <2>1, <2>2 DEF AlarmsHaveCause
  <1>11. ASSUME NEW r \in Runs, NEW e \in Held(r) PROVE entry'[e].ts = entry[e].ts
    <2>1. PICK s \in Sources : e \in Logged(s)
      BY <1>0, <1>3, HeldLogged
    <2>. QED
      BY <1>4, <2>1
  <1>12. ASSUME NEW r \in Runs PROVE HeldInv(r)'
    <2>1. \A e \in run[r].acked, x \in run[r].batch : Ahead(x, e)' <=> Ahead(x, e)
      <3>1. ASSUME NEW e \in run[r].acked, NEW x \in run[r].batch PROVE Ahead(x, e)' <=> Ahead(x, e)
        <4>1. e \in Held(r) /\ x \in Held(r)
          BY <1>0, RunTyped DEF Held
        <4>2. entry'[e].ts = entry[e].ts /\ entry'[x].ts = entry[x].ts
          BY <1>11, <4>1
        <4>. QED
          BY <4>2 DEF Ahead, Before
      <3>. QED
        BY <3>1
    <2>2. \A s \in Sources :
             /\ Held(r)' \cap Of(s) \subseteq Logged(s)'
             /\ Held(r)' \cap Of(s) # {} => planted'[s] # 0
             /\ run'[r].seen[s] <= Len(log'[s])
             /\ run'[r].seen[s] # 0 => planted'[s] # 0
      <3>1. ASSUME NEW s \in Sources
            PROVE  run[r].seen[s] <= Len(log'[s])
        <4>1. Len(log'[s]) \in Nat
          <5>1. log'[s] \in Seq(Of(s)')
            BY <1>0 DEF LogOK
          <5>. QED
            BY <5>1
        <4>2. Len(log[s]) \in Nat /\ run[r].seen[s] \in Nat
          BY <1>0, LogRows, RunTyped
        <4>3. run[r].seen[s] <= Len(log[s]) /\ Len(log[s]) <= Len(log'[s])
          BY <1>0, <1>3 DEF HeldInv, Grown
        <4>. QED
          BY <4>1, <4>2, <4>3
      <3>. QED
        BY <1>1, <1>3, <1>4, <3>1 DEF HeldInv
    <2>3. HeldInv(r)
      BY <1>3
    <2>. QED
      BY <1>1, <1>4, <2>1, <2>2, <2>3 DEF HeldInv, Held
  <1>13. ASSUME NEW r \in Runs PROVE Covers(r)'
    <2>1. ASSUME NEW s \in Sources, NEW e \in Held(r) \cap Of(s), NEW x \in Owed(s)', Before(x, e)'
          PROVE  x \in Held(r) \cup attested
      <3>1. planted'[s] = planted[s] /\ e \in Logged(s)
        BY <1>1, <1>3 DEF HeldInv
      <3>2. /\ x \in Logged(s) => x \in Owed(s)
            /\ x \notin Logged(s) => \A y \in Logged(s) : ~ Before(x, y)'
        BY <1>0, <3>1, GrownOwed
      <3>3. x \in Logged(s) /\ x \in Owed(s)
        BY <2>1, <3>1, <3>2
      <3>4. Before(x, e)
        BY <1>4, <2>1, <3>1, <3>3
      <3>. QED
        BY <1>3, <3>3, <3>4 DEF Covers
    <2>. QED
      BY <1>1, <1>3, <1>4, <2>1 DEF Covers
  <1>14. ASSUME NEW r \in Runs PROVE Stretch(r)'
    <2>1. ASSUME ~ lost, run[r].pc \in {"event", "preflight"}, NEW s \in Sources, OutOfOrder(s)' = {},
                 NEW x \in Held(r) \cap Of(s)
          PROVE  /\ Beyond(x, cursor[s])'
                 /\ \A y \in Logged(s)' : Before(y, x)' /\ Beyond(y, cursor[s])' => y \in Held(r)
      <3>1. OutOfOrder(s) = {} /\ x \in Logged(s)
        BY <1>0, <1>3, <2>1, GrownRows DEF HeldInv
      <3>2. /\ Beyond(x, cursor[s])
            /\ \A y \in Logged(s) : Before(y, x) /\ Beyond(y, cursor[s]) => y \in Held(r)
        BY <1>3, <2>1, <3>1 DEF Stretch
      <3>3. ASSUME NEW y \in Logged(s)', Before(y, x)', Beyond(y, cursor[s])'
            PROVE  y \in Held(r)
        <4>1. y \in Logged(s)
          BY <1>0, <2>1, <3>1, <3>3, GrownRows
        <4>. QED
          BY <1>4, <3>1, <3>2, <3>3, <4>1
      <3>. QED
        BY <1>4, <3>1, <3>2, <3>3
    <2>. QED
      BY <1>1, <1>3, <1>4, <2>1 DEF Stretch
  <1>15. ASSUME NEW r \in Runs, NEW s \in Sources, NEW x \in Seen(r, s)'
         PROVE  x \in Seen(r, s) /\ entry'[x].ts = entry[x].ts
    <2>1. x \in Owed(s)' /\ planted'[s] = planted[s]
      BY <1>1 DEF Seen
    <2>2. PICK i \in 1..run[r].seen[s] : x = log'[s][i]
      BY <1>1 DEF Seen
    <2>3. Len(log[s]) \in Nat /\ run[r].seen[s] \in Nat /\ run[r].seen[s] <= Len(log[s])
      BY <1>0, <1>3, LogRows, RunTyped DEF HeldInv
    <2>4. i \in 1..Len(log[s])
      BY <2>3
    <2>5. x = log[s][i] /\ x \in Logged(s)
      BY <1>0, <2>2, <2>4, LogRows DEF Grown
    <2>6. x \in Owed(s)
      BY <1>0, <2>1, <2>5, GrownOwed
    <2>. QED
      BY <1>4, <2>5, <2>6 DEF Seen
  <1>16. ASSUME NEW r \in Runs PROVE Filled(r)'
    <2>1. "activity" \in Sources
      BY DEF Sources
    <2>2. \A y \in run[r].polled : entry'[y].ts = entry[y].ts
      BY <1>11 DEF Held
    <2>. QED
      BY <1>1, <1>3, <1>15, <2>1, <2>2 DEF Filled
  <1>17. ASSUME NEW r \in Runs PROVE Watermark(r)'
    <2>1. \A e \in run[r].batch : entry'[e].ts = entry[e].ts
      BY <1>11 DEF Held
    <2>. QED
      BY <1>1, <1>3, <1>15, <2>1 DEF Watermark
  <1>. QED
    BY <1>5, <1>6, <1>7, <1>8, <1>9, <1>10, <1>12, <1>13, <1>14, <1>16, <1>17 DEF SendInv, RunInv

(***************************************************************************)
(* The steps of the delivery                                               *)
(***************************************************************************)
\* While nothing is written, rows and their order stay.
LEMMA RowsStay ==
    ASSUME UNCHANGED <<entry, log>>, NEW s \in Sources
    PROVE  /\ Of(s)' = Of(s) /\ Logged(s)' = Logged(s) /\ OutOfOrder(s)' = OutOfOrder(s)
           /\ planted'[s] = planted[s] => Owed(s)' = Owed(s)
  <1>1. Of(s)' = Of(s) /\ Logged(s)' = Logged(s)
    BY DEF Of, Logged
  <1>2. OutOfOrder(s)' = OutOfOrder(s)
    BY <1>1 DEF OutOfOrder, Before
  <1>. QED
    BY <1>1, <1>2 DEF Owed

\* A run that has nothing in hand.
LEMMA EmptyHanded ==
    ASSUME NEW r \in Runs, run'[r].pc \in {"idle", "activity"},
           run'[r].polled = {}, run'[r].batch = {}, run'[r].acked = {},
           \A s \in Sources : /\ run'[r].seen[s] <= Len(log'[s])
                              /\ run'[r].seen[s] # 0 => planted'[s] # 0
    PROVE  RunInv(r)'
  <1>1. Held(r)' = {}
    BY DEF Held
  <1>2. HeldInv(r)'
    BY <1>1 DEF HeldInv
  <1>3. Covers(r)'
    BY <1>1 DEF Covers
  <1>4. Stretch(r)' /\ Filled(r)' /\ Watermark(r)'
    BY DEF Stretch, Filled, Watermark
  <1>. QED
    BY <1>2, <1>3, <1>4 DEF RunInv

\* A run that does not move keeps what it has: cursors are planted only where
\* nothing was sent, and another run moves one only if a lock was lost.
LEMMA OtherRun ==
    ASSUME TypeOK, NEW r \in Runs, RunInv(r), UNCHANGED <<entry, log>>, run'[r] = run[r],
           got \subseteq got', attested \subseteq attested', lost => lost',
           \A s \in Sources : planted[s] # 0 => planted'[s] = planted[s],
           \/ lost' \/ run[r].pc \notin {"event", "preflight"}
           \/ \A s \in Sources : planted[s] # 0 => cursor'[s] = cursor[s]
    PROVE  RunInv(r)'
  <1>0. LogOK /\ RunsOK /\ HeldInv(r) /\ Covers(r) /\ Stretch(r) /\ Filled(r) /\ Watermark(r)
    BY Parts DEF RunInv
  <1>1. Held(r)' = Held(r)
    BY DEF Held
  <1>2. ASSUME NEW s \in Sources
        PROVE  /\ Of(s)' = Of(s) /\ Logged(s)' = Logged(s) /\ OutOfOrder(s)' = OutOfOrder(s)
               /\ planted[s] # 0 => Owed(s)' = Owed(s)
               /\ Held(r) \cap Of(s) # {} => planted[s] # 0
               /\ run[r].seen[s] # 0 => planted[s] # 0
               /\ run[r].seen[s] <= Len(log[s])
               /\ Held(r) \cap Of(s) \subseteq Logged(s)
    BY <1>0, RowsStay DEF HeldInv
  <1>3. HeldInv(r)'
    <2>1. \A e \in run[r].acked, x \in run[r].batch : Ahead(x, e)' <=> Ahead(x, e)
      BY DEF Ahead, Before
    <2>2. \A s \in Sources :
             /\ Held(r)' \cap Of(s)' \subseteq Logged(s)'
             /\ Held(r)' \cap Of(s)' # {} => planted'[s] # 0
             /\ run'[r].seen[s] <= Len(log'[s])
             /\ run'[r].seen[s] # 0 => planted'[s] # 0
      BY <1>1, <1>2
    <2>. QED
      BY <1>0, <2>1, <2>2 DEF HeldInv
  <1>4. Covers(r)'
    <2>1. ASSUME NEW s \in Sources, NEW e \in Held(r) \cap Of(s), NEW x \in Owed(s)', Before(x, e)'
          PROVE  x \in Held(r) \cup attested'
      <3>1. x \in Owed(s) /\ Before(x, e)
        BY <1>2, <2>1 DEF Before
      <3>. QED
        BY <1>0, <3>1 DEF Covers
    <2>. QED
      BY <1>1, <1>2, <2>1 DEF Covers
  <1>5. Stretch(r)'
    <2>1. CASE lost' \/ run[r].pc \notin {"event", "preflight"}
      BY <2>1 DEF Stretch
    <2>2. CASE ~ lost' /\ run[r].pc \in {"event", "preflight"} /\ \A s \in Sources : planted[s] # 0 => cursor'[s] = cursor[s]
      <3>1. ASSUME NEW s \in Sources, OutOfOrder(s)' = {}, NEW x \in Held(r) \cap Of(s)
            PROVE  /\ Beyond(x, cursor[s])'
                   /\ \A y \in Logged(s)' : Before(y, x)' /\ Beyond(y, cursor[s])' => y \in Held(r)
        <4>1. cursor'[s] = cursor[s] /\ OutOfOrder(s) = {} /\ Logged(s)' = Logged(s)
          BY <1>2, <2>2, <3>1
        <4>2. /\ Beyond(x, cursor[s])
              /\ \A y \in Logged(s) : Before(y, x) /\ Beyond(y, cursor[s]) => y \in Held(r)
          BY <1>0, <2>2, <3>1, <4>1 DEF Stretch
        <4>. QED
          BY <4>1, <4>2 DEF Beyond, Before
      <3>. QED
        BY <1>1, <1>2, <3>1 DEF Stretch
    <2>. QED
      BY <2>1, <2>2
  <1>6. ASSUME NEW s \in Sources, NEW x \in Seen(r, s)' PROVE x \in Seen(r, s)
    <2>1. x \in Owed(s)' /\ run[r].seen[s] # 0
      <3>1. run[r].seen[s] \in Nat /\ \E i \in 1..run[r].seen[s] : TRUE
        BY <1>0, RunTyped DEF Seen
      <3>. QED
        BY <3>1 DEF Seen
    <2>2. Owed(s)' = Owed(s)
      BY <1>2, <2>1
    <2>. QED
      BY <2>2 DEF Seen
  <1>7. Filled(r)'
    <2>1. "activity" \in Sources
      BY DEF Sources
    <2>. QED
      BY <1>0, <1>6, <2>1 DEF Filled
  <1>8. Watermark(r)'
    BY <1>0, <1>6 DEF Watermark
  <1>. QED
    BY <1>3, <1>4, <1>5, <1>7, <1>8 DEF RunInv

LEMMA RunMove ==
    ASSUME RunsOK, NEW r \in Runs, NEW x \in RunType, x.acked \subseteq x.batch,
           run' = [run EXCEPT ![r] = x]
    PROVE  RunsOK' /\ run'[r] = x /\ \A q \in Runs \ {r} : run'[q] = run[q]
  <1>1. run \in [Runs -> RunType]
    BY DEF RunsOK
  <1>2. run' \in [Runs -> RunType] /\ run'[r] = x /\ \A q \in Runs \ {r} : run'[q] = run[q]
    BY <1>1
  <1>3. RunsOK'
    <2>1. RunType' = RunType
      BY DEF RunType, Entries
    <2>. QED
      BY <1>2, <2>1 DEF RunsOK
  <1>. QED
    BY <1>2, <1>3

LEMMA NoRunType == NoRun \in RunType /\ NoRun.pc = "idle" /\ NoRun.polled = {} /\ NoRun.batch = {}
                   /\ NoRun.acked = {} /\ \A s \in Sources : NoRun.seen[s] = 0
  <1>1. [s \in Sources |-> 0] \in [Sources -> Nat]
    OBVIOUS
  <1>2. 0 \in 0..MaxRetries
    BY AuditAssumption
  <1>. QED
    BY <1>1, <1>2 DEF NoRun, RunType

\* A run that is over.
LEMMA Ended ==
    ASSUME TypeOK, LockInv, NEW r \in Runs, EndRun(r), UNCHANGED <<log, lost>>
    PROVE  /\ RunsOK' /\ lock' \in Runs \cup {None} /\ LockInv' /\ RunInv(r)'
           /\ \A q \in Runs \ {r} : run'[q] = run[q]
  <1>0. LogOK /\ RunsOK /\ RestOK
    BY Parts
  <1>1. run' = [run EXCEPT ![r] = NoRun] /\ lock' = IF lock = r THEN None ELSE lock
    BY DEF EndRun
  <1>2. NoRun.acked \subseteq NoRun.batch
    BY NoRunType
  <1>3. RunsOK' /\ run'[r] = NoRun /\ \A q \in Runs \ {r} : run'[q] = run[q]
    BY <1>0, <1>1, <1>2, NoRunType, RunMove
  <1>4. LockInv'
    BY <1>1, <1>3, NoRunType DEF LockInv
  <1>5. \A s \in Sources : run'[r].seen[s] = 0 /\ 0 <= Len(log'[s])
    <2>1. \A s \in Sources : Len(log[s]) \in Nat
      BY <1>0, LogRows
    <2>. QED
      BY <1>3, <2>1, NoRunType
  <1>6. RunInv(r)'
    BY <1>3, <1>5, NoRunType, EmptyHanded
  <1>7. lock' \in Runs \cup {None}
    BY <1>0, <1>1 DEF RestOK
  <1>. QED
    BY <1>3, <1>4, <1>6, <1>7

(***************************************************************************)
(* Polling                                                                 *)
(***************************************************************************)
\* What a run makes of the rows it has polled of a log, in terms of the rows
\* owed, of the cursor and of the rows that were there.
Complete(P, s, owed) ==
    \A e \in P \cap Of(s), x \in owed : Before(x, e) => x \in P \cup attested
Adjacent(P, s, c) ==
    ~ lost /\ OutOfOrder(s) = {} =>
        \A x \in P \cap Of(s) :
            /\ Beyond(x, c)
            /\ \A y \in Logged(s) : Before(y, x) /\ Beyond(y, c) => y \in P
Taken(P, s, there) ==
    \A x \in there :
        \/ x \in got \cup P
        \/ Cardinality(P \cap Of(s)) = Batch /\ \A y \in P \cap Of(s) : entry[y].ts <= entry[x].ts
PolledWell(P, s, owed, c, there) ==
    /\ P \cap Of(s) \subseteq Logged(s) /\ there \subseteq Logged(s)
    /\ Complete(P, s, owed) /\ Adjacent(P, s, c) /\ Taken(P, s, there)

\* The rows a poll takes are the next ones after the cursor.
LEMMA PolledRows ==
    ASSUME TypeOK, CursorAttested, NEW s \in Sources, NEW P, P \cap Of(s) = Rows(s)
    PROVE  PolledWell(P, s, Owed(s), cursor[s], Logged(s) \cap Owed(s))
  <1>s. PICK S : S = {e \in Logged(s) : Beyond(e, cursor[s])}
    OBVIOUS
  <1>0. EntriesOK /\ LogOK
    BY Parts
  <1>1. S \subseteq Entries /\ IsFiniteSet(S) /\ Logged(s) \subseteq Entries /\ Logged(s) \subseteq Of(s)
    <2>1. S \in SUBSET Logged(s)
      BY <1>s
    <2>. QED
      BY <1>0, <2>1, LogRows, LoggedFinite, FS_Subset
  <1>2. Batch \in Nat
    BY AuditAssumption
  <1>3. PICK F : F = FirstBefore(S, Batch)
    OBVIOUS
  <1>4. F = P \cap Of(s)
    BY <1>s, <1>3 DEF Rows, FirstBefore
  <1>5. \A x \in Logged(s) : x \in S <=> Beyond(x, cursor[s])
    BY <1>s
  <1>6. S \subseteq Logged(s)
    BY <1>s
  <1>7. /\ F \subseteq S
        /\ \A x \in F, y \in S : Before(y, x) => y \in F
        /\ \A x \in S \ F : Cardinality(F) = Batch /\ \A y \in F : Before(y, x)
    BY <1>0, <1>1, <1>2, <1>3, FirstRows
  <1>8. \A x \in Owed(s) : x \in Logged(s) /\ (~ Beyond(x, cursor[s]) => x \in attested)
    BY DEF Owed, Passed, CursorAttested
  <1>9. Complete(P, s, Owed(s))
    BY <1>4, <1>5, <1>7, <1>8 DEF Complete
  <1>10. Adjacent(P, s, cursor[s])
    BY <1>4, <1>5, <1>6, <1>7 DEF Adjacent
  <1>11. Taken(P, s, Logged(s) \cap Owed(s))
    <2>1. ASSUME NEW x \in Logged(s) \cap Owed(s), x \notin got \cup P
          PROVE  Cardinality(F) = Batch /\ \A y \in F : entry[y].ts <= entry[x].ts
      <3>1. attested \subseteq got
        BY DEF CursorAttested
      <3>2. x \in S \ F
        BY <1>4, <1>5, <1>8, <2>1, <3>1
      <3>3. Cardinality(F) = Batch /\ \A y \in F : Before(y, x)
        BY <1>7, <3>2
      <3>4. \A y \in F : y \in Entries /\ x \in Entries
        BY <1>1, <1>7, <2>1
      <3>. QED
        BY <1>0, <3>3, <3>4, BeforeOrder
    <2>. QED
      BY <1>4, <2>1 DEF Taken
  <1>12. P \cap Of(s) \subseteq Logged(s)
    BY <1>4, <1>6, <1>7
  <1>. QED
    BY <1>9, <1>10, <1>11, <1>12 DEF PolledWell

LEMMA NothingPolled ==
    ASSUME NEW s \in Sources, NEW P, P \cap Of(s) = {}, NEW owed, NEW c
    PROVE  PolledWell(P, s, owed, c, {})
  BY DEF PolledWell, Complete, Adjacent, Taken

\* What is held back is newer than a row that goes.
LEMMA ShippableRows ==
    ASSUME EntriesOK, NEW P, P \subseteq Entries, IsFiniteSet(P), NEW B, B = Shippable(P)
    PROVE  /\ B \subseteq P
           /\ \A e \in B, y \in P : entry[y].ts <= entry[e].ts => y \in B
           /\ \A e \in B, s \in Sources :
                 Cardinality(P \cap Of(s)) = Batch => \E z \in P \cap Of(s) : entry[e].ts <= entry[z].ts
  <1>1. B \subseteq P
    BY DEF Shippable
  <1>2. \A e \in P : e \in B <=> \A s \in Sources :
           Cardinality(P \cap Of(s)) = Batch => entry[e].ts <= entry[LastBefore(P \cap Of(s))].ts
    BY DEF Shippable, LastBefore
  <1>3. ASSUME NEW s \in Sources, Cardinality(P \cap Of(s)) = Batch
        PROVE  LastBefore(P \cap Of(s)) \in P \cap Of(s)
    <2>1. PICK S : S = P \cap Of(s)
      OBVIOUS
    <2>2. S # {}
      BY <1>3, <2>1, FS_EmptySet, AuditAssumption
    <2>3. S \subseteq Entries /\ IsFiniteSet(S)
      BY <2>1, FS_Subset
    <2>4. LastBefore(S) \in S
      BY <2>2, <2>3, LastRow
    <2>. QED
      BY <2>1, <2>4
  <1>4. \A e \in P : entry[e].ts \in Nat
    BY EntryTyped
  <1>5. ASSUME NEW e \in B, NEW y \in P, entry[y].ts <= entry[e].ts PROVE y \in B
    <2>1. ASSUME NEW s \in Sources, Cardinality(P \cap Of(s)) = Batch
          PROVE  entry[y].ts <= entry[LastBefore(P \cap Of(s))].ts
      <3>1. PICK z \in P : z = LastBefore(P \cap Of(s))
        BY <1>3, <2>1
      <3>2. entry[e].ts <= entry[z].ts /\ e \in P
        BY <1>1, <1>2, <2>1, <3>1
      <3>3. entry[y].ts \in Nat /\ entry[e].ts \in Nat /\ entry[z].ts \in Nat
        BY <1>4, <3>2
      <3>. QED
        BY <1>5, <3>1, <3>2, <3>3
    <2>. QED
      BY <1>2, <2>1
  <1>. QED
    BY <1>1, <1>2, <1>3, <1>5

\* What is sent of what was polled leaves nothing older behind.
LEMMA Shipped ==
    ASSUME EntriesOK, NEW P, P \subseteq Entries, IsFiniteSet(P), NEW B, B = Shippable(P),
           NEW s \in Sources, NEW owed, owed \subseteq Entries, NEW c, NEW there, Logged(s) \subseteq Entries,
           PolledWell(P, s, owed, c, there)
    PROVE  /\ Complete(B, s, owed) /\ Adjacent(B, s, c) /\ B \cap Of(s) \subseteq Logged(s)
           /\ \A e \in B : \A x \in there : entry[x].ts < entry[e].ts => x \in got \cup B
  <1>1. /\ B \subseteq P
        /\ \A e \in B, y \in P : entry[y].ts <= entry[e].ts => y \in B
        /\ \A e \in B : Cardinality(P \cap Of(s)) = Batch => \E z \in P \cap Of(s) : entry[e].ts <= entry[z].ts
    BY ShippableRows
  <1>2. /\ P \cap Of(s) \subseteq Logged(s) /\ there \subseteq Logged(s)
        /\ Complete(P, s, owed) /\ Adjacent(P, s, c) /\ Taken(P, s, there)
    BY DEF PolledWell
  <1>3. ASSUME NEW e \in B, NEW y \in P, Before(y, e) PROVE y \in B
    <2>1. entry[y].ts <= entry[e].ts
      BY <1>1, <1>3, BeforeOrder
    <2>. QED
      BY <1>1, <2>1
  <1>4. Complete(B, s, owed)
    BY <1>1, <1>2, <1>3 DEF Complete
  <1>5. Adjacent(B, s, c)
    BY <1>1, <1>2, <1>3 DEF Adjacent
  <1>6. ASSUME NEW e \in B, NEW x \in there, entry[x].ts < entry[e].ts, x \notin got
        PROVE  x \in B
    <2>0. e \in Entries /\ x \in Entries
      BY <1>1, <1>2
    <2>1. entry[e].ts \in Nat /\ entry[x].ts \in Nat
      BY <2>0, EntryTyped
    <2>2. CASE x \in P
      BY <1>1, <1>6, <2>1, <2>2
    <2>3. CASE /\ Cardinality(P \cap Of(s)) = Batch
               /\ \A y \in P \cap Of(s) : entry[y].ts <= entry[x].ts
      <3>1. PICK z \in P \cap Of(s) : entry[e].ts <= entry[z].ts
        BY <1>1, <2>3
      <3>2. entry[z].ts \in Nat /\ entry[z].ts <= entry[x].ts
        BY <2>3, EntryTyped
      <3>. QED
        BY <1>6, <2>1, <3>1, <3>2
    <2>. QED
      BY <1>2, <1>6, <2>2, <2>3 DEF Taken
  <1>. QED
    BY <1>1, <1>2, <1>4, <1>5, <1>6

SendGoal == CursorOK' /\ RunsOK' /\ RestOK' /\ SendInv'

\* While no cursor moves.
LEMMA CursorsStay ==
    ASSUME TypeOK, SendInv, UNCHANGED <<entry, log, cursor, planted, alarm>>,
           attested \subseteq attested', attested' \subseteq got', lost => lost'
    PROVE  CursorOK' /\ CursorInv' /\ CursorAttested' /\ AlarmsHaveCause'
  <1>0. CursorOK /\ CursorInv /\ CursorAttested /\ AlarmsHaveCause
    BY Parts DEF SendInv
  <1>1. ASSUME NEW s \in Sources
        PROVE  /\ Of(s)' = Of(s) /\ Logged(s)' = Logged(s) /\ OutOfOrder(s)' = OutOfOrder(s)
               /\ Owed(s)' = Owed(s) /\ Passed(s)' = Passed(s)
    BY RowsStay DEF Passed, Beyond
  <1>2. CursorOK' /\ CursorInv'
    BY <1>0, <1>1 DEF CursorOK, CursorInv, Entries
  <1>3. CursorAttested'
    BY <1>0, <1>1 DEF CursorAttested
  <1>4. AlarmsHaveCause'
    <2>1. alarm \subseteq Sources
      BY Parts DEF RestOK
    <2>. QED
      BY <1>0, <1>1, <2>1 DEF AlarmsHaveCause
  <1>. QED
    BY <1>2, <1>3, <1>4

LEMMA StartRunSends ==
    ASSUME TypeOK, SendInv, NEW r \in Runs, StartRun(r)
    PROVE  SendGoal
  <1>0. LogOK /\ CursorOK /\ RunsOK /\ RestOK /\ LockInv /\ \A q \in Runs : RunInv(q)
    BY Parts DEF SendInv
  <1>1. /\ run[r].pc = "idle" /\ lock = None /\ lock' = r
        /\ UNCHANGED <<entry, log, cursor, planted, got, attested, alarm, lost, faults>>
    BY DEF StartRun, writing
  <1>2. PICK x : x = [run[r] EXCEPT !.pc = "activity"]
    OBVIOUS
  <1>3. /\ x \in RunType /\ x.pc = "activity" /\ x.polled = run[r].polled /\ x.batch = run[r].batch
        /\ x.acked = run[r].acked /\ x.seen = run[r].seen
    BY <1>0, <1>2, RunTyped DEF RunType
  <1>4. run' = [run EXCEPT ![r] = x]
    BY <1>0, <1>2 DEF StartRun, RunsOK
  <1>5. run[r].polled = {} /\ run[r].batch = {} /\ run[r].acked = {}
    BY <1>0, <1>1, RunTyped DEF RunInv, HeldInv
  <1>6. RunsOK' /\ run'[r] = x /\ \A q \in Runs \ {r} : run'[q] = run[q]
    BY <1>0, <1>3, <1>4, <1>5, RunMove
  <1>7. RunInv(r)'
    <2>1. \A s \in Sources : /\ run'[r].seen[s] <= Len(log'[s])
                             /\ run'[r].seen[s] # 0 => planted'[s] # 0
      BY <1>0, <1>1, <1>3, <1>6 DEF RunInv, HeldInv
    <2>. QED
      BY <1>3, <1>5, <1>6, <2>1, EmptyHanded
  <1>8. \A q \in Runs \ {r} : RunInv(q)'
    <2>1. ASSUME NEW q \in Runs \ {r} PROVE RunInv(q)'
      <3>1. run'[q] = run[q] /\ RunInv(q) /\ q \in Runs
        BY <1>0, <1>6
      <3>. QED
        BY <1>1, <3>1, OtherRun
    <2>. QED
      BY <2>1
  <1>9. LockInv'
    <2>1. ~ lost => \A q \in Runs : run[q].pc = "idle"
      <3>1. \A q \in Runs : q # None
        BY AuditAssumption
      <3>. QED
        BY <1>0, <1>1, <3>1 DEF LockInv
    <2>. QED
      BY <1>1, <1>6, <2>1 DEF LockInv
  <1>10. attested \subseteq got
    BY DEF SendInv, CursorAttested
  <1>11. CursorOK' /\ CursorInv' /\ CursorAttested' /\ AlarmsHaveCause'
    BY <1>1, <1>10, CursorsStay
  <1>12. RestOK'
    BY <1>0, <1>1 DEF RestOK, Entries, Sources
  <1>. QED
    BY <1>6, <1>7, <1>8, <1>9, <1>11, <1>12 DEF SendGoal, SendInv

LEMMA DeliverSends ==
    ASSUME TypeOK, SendInv, NEW r \in Runs, Deliver(r) \/ DeliverPart(r)
    PROVE  SendGoal
  <1>0. LogOK /\ CursorOK /\ RunsOK /\ RestOK /\ LockInv /\ \A q \in Runs : RunInv(q)
    BY Parts DEF SendInv
  <1>1. /\ run[r].pc = "deliver" /\ faults' \in 0..MaxFaults
        /\ UNCHANGED <<entry, log, cursor, planted, lock, attested, alarm, lost>>
    BY <1>0, FaultType DEF Deliver, DeliverPart, writing, RestOK
  <1>2. /\ run[r].polled = {} /\ run[r].acked \subseteq run[r].batch /\ run[r].acked \subseteq got
        /\ \A e \in run[r].acked, y \in run[r].batch : Ahead(y, e) => y \in run[r].acked
        /\ run[r].batch \subseteq Entries
    BY <1>0, <1>1, RunTyped DEF RunInv, HeldInv
  <1>3. PICK R \in SUBSET Rest(r), A \in SUBSET Rest(r), x \in RunType :
           /\ A \subseteq R /\ got' = got \cup R /\ run' = [run EXCEPT ![r] = x]
           /\ x.pc \in {"deliver", "commit"} /\ x.polled = run[r].polled /\ x.batch = run[r].batch
           /\ x.seen = run[r].seen /\ x.acked = run[r].acked \cup A
           /\ \A e \in A, y \in Rest(r) : Ahead(y, e) => y \in A
    <2>0. run[r] \in RunType /\ Rest(r) \subseteq run[r].batch
      BY <1>0, RunTyped DEF Rest
    <2>1. CASE Deliver(r)
      <3>1. PICK x : x = [run[r] EXCEPT !.pc = "commit", !.acked = run[r].batch]
        OBVIOUS
      <3>2. /\ x \in RunType /\ x.pc = "commit" /\ x.polled = run[r].polled /\ x.batch = run[r].batch
            /\ x.seen = run[r].seen /\ x.acked = run[r].batch
        BY <2>0, <3>1 DEF RunType
      <3>3. run' = [run EXCEPT ![r] = x] /\ got' = got \cup Rest(r)
        BY <1>0, <2>1, <3>1 DEF Deliver, RunsOK
      <3>4. run[r].batch = run[r].acked \cup Rest(r)
        BY <1>2 DEF Rest
      <3>. QED
        BY <3>2, <3>3, <3>4
    <2>2. CASE DeliverPart(r)
      <3>1. PICK R \in Prefixes(Rest(r)) : \E A \in Prefixes(R) :
               /\ got' = got \cup R
               /\ \/ /\ run[r].tries < MaxRetries
                     /\ run' = [run EXCEPT ![r].acked = @ \cup A, ![r].tries = @ + 1]
                  \/ run' = [run EXCEPT ![r].acked = @ \cup A, ![r].pc = "commit"]
        BY <2>2 DEF DeliverPart
      <3>a. PICK A \in Prefixes(R) :
               /\ got' = got \cup R
               /\ \/ /\ run[r].tries < MaxRetries
                     /\ run' = [run EXCEPT ![r].acked = @ \cup A, ![r].tries = @ + 1]
                  \/ run' = [run EXCEPT ![r].acked = @ \cup A, ![r].pc = "commit"]
        BY <3>1
      <3>2. R \subseteq Rest(r) /\ A \subseteq R /\ \A e \in A, y \in Rest(r) : Ahead(y, e) => y \in A
        BY <3>a DEF Prefixes
      <3>3. run[r].acked \cup A \subseteq Entries
        BY <1>2, <2>0, <3>2
      <3>4. CASE /\ run[r].tries < MaxRetries
                 /\ run' = [run EXCEPT ![r].acked = @ \cup A, ![r].tries = @ + 1]
        <4>1. PICK x : x = [run[r] EXCEPT !.acked = run[r].acked \cup A, !.tries = run[r].tries + 1]
          OBVIOUS
        <4>2. run[r].tries + 1 \in 0..MaxRetries
          BY <2>0, <3>4, AuditAssumption DEF RunType
        <4>3. /\ x \in RunType /\ x.pc = "deliver" /\ x.polled = run[r].polled /\ x.batch = run[r].batch
              /\ x.seen = run[r].seen /\ x.acked = run[r].acked \cup A
          BY <1>1, <2>0, <3>3, <4>1, <4>2 DEF RunType
        <4>4. run' = [run EXCEPT ![r] = x]
          BY <1>0, <3>4, <4>1 DEF RunsOK
        <4>. QED
          BY <3>a, <3>2, <4>3, <4>4
      <3>5. CASE run' = [run EXCEPT ![r].acked = @ \cup A, ![r].pc = "commit"]
        <4>1. PICK x : x = [run[r] EXCEPT !.acked = run[r].acked \cup A, !.pc = "commit"]
          OBVIOUS
        <4>2. /\ x \in RunType /\ x.pc = "commit" /\ x.polled = run[r].polled /\ x.batch = run[r].batch
              /\ x.seen = run[r].seen /\ x.acked = run[r].acked \cup A
          BY <2>0, <3>3, <4>1 DEF RunType
        <4>3. run' = [run EXCEPT ![r] = x]
          BY <1>0, <3>5, <4>1 DEF RunsOK
        <4>. QED
          BY <3>a, <3>2, <4>2, <4>3
      <3>. QED
        BY <3>a, <3>4, <3>5
    <2>. QED
      BY <2>1, <2>2
  <1>4. Rest(r) = run[r].batch \ run[r].acked
    BY DEF Rest
  <1>5. x.acked \subseteq x.batch /\ x.acked \subseteq got'
    BY <1>2, <1>3, <1>4
  <1>6. RunsOK' /\ run'[r] = x /\ \A q \in Runs \ {r} : run'[q] = run[q]
    BY <1>0, <1>3, <1>5, RunMove
  <1>7. HeldInv(r) /\ Covers(r) /\ Watermark(r) /\ Held(r)' = Held(r) /\ Held(r) = run[r].batch
    BY <1>0, <1>2, <1>3, <1>6 DEF RunInv, Held
  <1>8. ASSUME NEW s \in Sources
        PROVE  /\ Of(s)' = Of(s) /\ Logged(s)' = Logged(s) /\ Owed(s)' = Owed(s)
    BY <1>1, RowsStay
  <1>9. HeldInv(r)'
    <2>1. ASSUME NEW e \in x.acked, NEW y \in x.batch, Ahead(y, e)' PROVE y \in x.acked
      <3>1. Ahead(y, e)
        BY <1>1, <2>1 DEF Ahead, Before
      <3>. QED
        BY <1>2, <1>3, <1>4, <3>1
    <2>. QED
      BY <1>1, <1>2, <1>3, <1>5, <1>6, <1>7, <1>8, <2>1 DEF HeldInv
  <1>10. Covers(r)'
    <2>1. \A e, y : Before(y, e)' <=> Before(y, e)
      BY <1>1 DEF Before
    <2>. QED
      BY <1>1, <1>7, <1>8, <2>1 DEF Covers
  <1>11. Stretch(r)' /\ Filled(r)'
    BY <1>3, <1>6 DEF Stretch, Filled
  <1>12. Watermark(r)'
    <2>1. \A s \in Sources : Seen(r, s)' = Seen(r, s)
      BY <1>1, <1>3, <1>6, <1>8 DEF Seen
    <2>. QED
      BY <1>1, <1>3, <1>6, <1>7, <2>1 DEF Watermark
  <1>13. \A q \in Runs \ {r} : RunInv(q)'
    <2>1. ASSUME NEW q \in Runs \ {r} PROVE RunInv(q)'
      <3>1. run'[q] = run[q] /\ RunInv(q) /\ q \in Runs /\ got \subseteq got'
        BY <1>0, <1>3, <1>6
      <3>. QED
        BY <1>1, <3>1, OtherRun
    <2>. QED
      BY <2>1
  <1>14. LockInv'
    BY <1>0, <1>1, <1>6 DEF LockInv
  <1>15. attested \subseteq got'
    BY <1>3 DEF SendInv, CursorAttested
  <1>16. CursorOK' /\ CursorInv' /\ CursorAttested' /\ AlarmsHaveCause'
    BY <1>1, <1>15, CursorsStay
  <1>17. RestOK'
    <2>1. got' \subseteq Entries
      BY <1>0, <1>2, <1>3, <1>4 DEF RestOK
    <2>. QED
      BY <1>0, <1>1, <2>1 DEF RestOK, Entries, Sources
  <1>. QED
    BY <1>6, <1>9, <1>10, <1>11, <1>12, <1>13, <1>14, <1>16, <1>17 DEF SendGoal, SendInv, RunInv

LEMMA CrashRunSends ==
    ASSUME TypeOK, SendInv, NEW r \in Runs, CrashRun(r)
    PROVE  SendGoal
  <1>0. RestOK /\ LockInv /\ \A q \in Runs : RunInv(q)
    BY Parts DEF SendInv
  <1>1. EndRun(r) /\ Fault /\ UNCHANGED <<entry, log, cursor, planted, got, attested, alarm, lost>>
    BY DEF CrashRun, writing
  <1>2. /\ RunsOK' /\ lock' \in Runs \cup {None} /\ LockInv' /\ RunInv(r)'
        /\ \A q \in Runs \ {r} : run'[q] = run[q]
    BY <1>0, <1>1, Ended
  <1>3. \A q \in Runs : RunInv(q)'
    <2>1. ASSUME NEW q \in Runs \ {r} PROVE RunInv(q)'
      <3>1. run'[q] = run[q] /\ RunInv(q) /\ q \in Runs
        BY <1>0, <1>2
      <3>. QED
        BY <1>1, <3>1, OtherRun
    <2>. QED
      BY <1>2, <2>1
  <1>4. attested \subseteq got
    BY DEF SendInv, CursorAttested
  <1>5. CursorOK' /\ CursorInv' /\ CursorAttested' /\ AlarmsHaveCause'
    BY <1>1, <1>4, CursorsStay
  <1>6. RestOK'
    BY <1>0, <1>1, <1>2, FaultType DEF RestOK, Entries, Sources
  <1>. QED
    BY <1>2, <1>3, <1>5, <1>6 DEF SendGoal, SendInv

LEMMA LoseLockSends ==
    ASSUME TypeOK, SendInv, NEW r \in Runs, LoseLock(r)
    PROVE  SendGoal
  <1>0. LogOK /\ CursorOK /\ RunsOK /\ RestOK /\ LockInv /\ \A q \in Runs : RunInv(q)
    BY Parts DEF SendInv
  <1>1. /\ lock' = None /\ lost' = TRUE /\ Fault
        /\ UNCHANGED <<entry, log, cursor, planted, got, attested, alarm>>
    BY DEF LoseLock, writing
  <1>2. PICK x : x = [run[r] EXCEPT !.cut = TRUE]
    OBVIOUS
  <1>3. /\ x \in RunType /\ x.pc = run[r].pc /\ x.polled = run[r].polled /\ x.batch = run[r].batch
        /\ x.acked = run[r].acked /\ x.seen = run[r].seen
    BY <1>0, <1>2, RunTyped DEF RunType
  <1>4. run' = [run EXCEPT ![r] = x]
    BY <1>0, <1>2 DEF LoseLock, RunsOK
  <1>5. RunsOK' /\ run'[r] = x /\ \A q \in Runs \ {r} : run'[q] = run[q]
    BY <1>0, <1>3, <1>4, RunMove, RunTyped
  <1>6. ASSUME NEW s \in Sources
        PROVE  /\ Of(s)' = Of(s) /\ Logged(s)' = Logged(s) /\ Owed(s)' = Owed(s)
    BY <1>1, RowsStay
  <1>7. RunInv(r)'
    <2>1. HeldInv(r) /\ Covers(r) /\ Filled(r) /\ Watermark(r) /\ Held(r)' = Held(r)
      BY <1>0, <1>3, <1>5 DEF RunInv, Held
    <2>2. \A e, y : (Before(y, e)' <=> Before(y, e)) /\ (Ahead(y, e)' <=> Ahead(y, e))
      BY <1>1 DEF Before, Ahead
    <2>3. \A s \in Sources : Seen(r, s)' = Seen(r, s)
      BY <1>1, <1>3, <1>5, <1>6 DEF Seen
    <2>4. HeldInv(r)'
      BY <1>1, <1>3, <1>5, <1>6, <2>1, <2>2 DEF HeldInv
    <2>5. Covers(r)'
      BY <1>1, <1>6, <2>1, <2>2 DEF Covers
    <2>6. Stretch(r)'
      BY <1>1 DEF Stretch
    <2>7. Filled(r)' /\ Watermark(r)'
      <3>1. "activity" \in Sources
        BY DEF Sources
      <3>2. Filled(r)'
        BY <1>1, <1>3, <1>5, <2>1, <2>3, <3>1 DEF Filled
      <3>3. Watermark(r)'
        BY <1>1, <1>3, <1>5, <2>1, <2>3 DEF Watermark
      <3>. QED
        BY <3>2, <3>3
    <2>. QED
      BY <2>4, <2>5, <2>6, <2>7 DEF RunInv
  <1>8. \A q \in Runs \ {r} : RunInv(q)'
    <2>1. ASSUME NEW q \in Runs \ {r} PROVE RunInv(q)'
      <3>1. run'[q] = run[q] /\ RunInv(q) /\ q \in Runs
        BY <1>0, <1>5
      <3>. QED
        BY <1>1, <3>1, OtherRun
    <2>. QED
      BY <2>1
  <1>9. LockInv'
    BY <1>1 DEF LockInv
  <1>10. attested \subseteq got
    BY DEF SendInv, CursorAttested
  <1>11. CursorOK' /\ CursorInv' /\ CursorAttested' /\ AlarmsHaveCause'
    BY <1>1, <1>10, CursorsStay
  <1>12. RestOK'
    BY <1>0, <1>1, FaultType DEF RestOK, Entries, Sources
  <1>. QED
    BY <1>5, <1>7, <1>8, <1>9, <1>11, <1>12 DEF SendGoal, SendInv

\* The cursors move to the last row of each log that was delivered: what they
\* pass was in hand or attested, and what was in hand and older was delivered.
LEMMA CommitSends ==
    ASSUME TypeOK, RowsInv, SendInv, NEW r \in Runs, Commit(r)
    PROVE  SendGoal
  <1>0. EntriesOK /\ LogOK /\ CursorOK /\ RunsOK /\ RestOK /\ LockInv /\ \A q \in Runs : RunInv(q)
    BY Parts DEF SendInv
  <1>1. /\ run[r].pc = "commit" /\ attested' = attested \cup run[r].acked /\ EndRun(r)
        /\ UNCHANGED <<entry, log, planted, got, alarm, lost, faults>>
    BY DEF Commit, writing
  <1>2. /\ RunsOK' /\ lock' \in Runs \cup {None} /\ LockInv' /\ RunInv(r)'
        /\ \A q \in Runs \ {r} : run'[q] = run[q]
    BY <1>0, <1>1, Ended
  <1>3. /\ run[r].acked \subseteq run[r].batch /\ run[r].acked \subseteq got /\ run[r].acked \subseteq Held(r)
        /\ \A e \in run[r].acked, y \in run[r].batch : Ahead(y, e) => y \in run[r].acked
        /\ Held(r) = run[r].batch /\ Held(r) \subseteq Entries
        /\ Covers(r)
    BY <1>0, <1>1, RunTyped DEF RunInv, HeldInv, Held
  <1>4. ASSUME NEW s \in Sources
        PROVE  /\ Of(s)' = Of(s) /\ Logged(s)' = Logged(s) /\ OutOfOrder(s)' = OutOfOrder(s)
               /\ Owed(s)' = Owed(s) /\ Of(s) \subseteq Entries /\ Logged(s) \subseteq Of(s)
               /\ Held(r) \cap Of(s) \subseteq Logged(s)
               /\ Held(r) \cap Of(s) # {} => planted[s] # 0
    BY <1>0, <1>1, RowsStay, LogRows DEF RunInv, HeldInv
  <1>5. ASSUME NEW s \in Sources, run[r].acked \cap Of(s) = {} PROVE cursor'[s] = cursor[s]
    BY <1>5 DEF Commit, Delivered
  <1>6. ASSUME NEW s \in Sources, run[r].acked \cap Of(s) # {}
        PROVE  \E e \in run[r].acked \cap Of(s) :
                  /\ cursor'[s] = [ts |-> entry[e].ts, id |-> e]
                  /\ \A y \in (run[r].acked \cap Of(s)) \ {e} : Before(y, e)
    <2>1. PICK S : S = run[r].acked \cap Of(s)
      OBVIOUS
    <2>2. S \in SUBSET Logged(s) /\ S \subseteq Entries /\ S # {}
      BY <1>3, <1>4, <1>6, <2>1
    <2>3. IsFiniteSet(S)
      BY <1>0, <2>2, LoggedFinite, FS_Subset
    <2>4. PICK e : e = LastBefore(S)
      OBVIOUS
    <2>5. e \in S /\ \A y \in S \ {e} : Before(y, e)
      BY <1>0, <2>2, <2>3, <2>4, LastRow
    <2>6. e = LastDelivered(s, Delivered(r))
      BY <2>1, <2>4 DEF LastDelivered, Delivered, LastBefore
    <2>7. cursor'[s] = [ts |-> entry[e].ts, id |-> e]
      BY <1>6, <2>6 DEF Commit, Delivered
    <2>. QED
      BY <2>1, <2>5, <2>7
  <1>7. CursorOK'
    <2>1. ASSUME NEW s \in Sources
          PROVE  /\ cursor'[s] \in [ts : 0..MaxClock, id : Entries \cup {0}]
                 /\ cursor'[s].id \in Logged(s) \cup {0}
      <3>1. CASE run[r].acked \cap Of(s) = {}
        BY <1>0, <1>5, <3>1 DEF CursorOK
      <3>2. CASE run[r].acked \cap Of(s) # {}
        <4>1. PICK e \in run[r].acked \cap Of(s) : cursor'[s] = [ts |-> entry[e].ts, id |-> e]
          BY <1>6, <3>2
        <4>2. e \in Entries /\ e \in Logged(s)
          BY <1>3, <1>4
        <4>3. entry[e].ts \in 0..MaxClock
          BY <1>0, <4>2 DEF EntriesOK
        <4>. QED
          BY <4>1, <4>2, <4>3
      <3>. QED
        BY <3>1, <3>2
    <2>2. cursor' = [s \in Sources |-> cursor'[s]]
      BY DEF Commit
    <2>3. cursor' \in [Sources -> [ts : 0..MaxClock, id : Entries \cup {0}]]
      BY <2>1, <2>2
    <2>4. \A s \in Sources : cursor'[s].id \in Logged(s)' \cup {0}
      BY <1>4, <2>1
    <2>5. planted' \in [Sources -> 0..MaxClock]
      BY <1>0, <1>1 DEF CursorOK
    <2>. QED
      BY <2>3, <2>4, <2>5 DEF CursorOK, Entries
  <1>8. CursorInv'
    <2>1. ASSUME NEW s \in Sources
          PROVE  /\ planted[s] = 0 <=> cursor'[s].ts = 0
                 /\ cursor'[s].id = 0 => cursor'[s].ts = planted[s]
                 /\ cursor'[s].id # 0 => cursor'[s].ts = entry[cursor'[s].id].ts
      <3>1. CASE run[r].acked \cap Of(s) = {}
        BY <1>5, <3>1 DEF SendInv, CursorInv
      <3>2. CASE run[r].acked \cap Of(s) # {}
        <4>1. PICK e \in run[r].acked \cap Of(s) : cursor'[s] = [ts |-> entry[e].ts, id |-> e]
          BY <1>6, <3>2
        <4>2. e \in Entries /\ e \in Logged(s) /\ planted[s] # 0
          BY <1>3, <1>4, <3>2
        <4>3. e \in Begun
          BY <4>2 DEF RowsInv, Begun
        <4>4. entry[e].ts \in Nat /\ entry[e].ts >= 1 /\ e # 0
          BY <1>0, <4>2, <4>3, EntryTyped DEF RowsInv
        <4>. QED
          BY <4>1, <4>2, <4>4
      <3>. QED
        BY <3>1, <3>2
    <2>. QED
      BY <1>1, <2>1 DEF CursorInv
  <1>9. CursorAttested'
    <2>1. ASSUME NEW s \in Sources, NEW x \in Passed(s)' PROVE x \in attested'
      <3>1. x \in Owed(s) /\ ~ Beyond(x, cursor[s])'
        BY <1>4 DEF Passed
      <3>2. CASE run[r].acked \cap Of(s) = {}
        <4>1. ~ Beyond(x, cursor[s])
          BY <1>1, <1>5, <3>1, <3>2 DEF Beyond
        <4>. QED
          BY <1>1, <3>1, <4>1 DEF Passed, SendInv, CursorAttested
      <3>3. CASE run[r].acked \cap Of(s) # {}
        <4>1. PICK e \in run[r].acked \cap Of(s) :
                 /\ cursor'[s] = [ts |-> entry[e].ts, id |-> e]
                 /\ \A y \in (run[r].acked \cap Of(s)) \ {e} : Before(y, e)
          BY <1>6, <3>3
        <4>2. x \in Of(s) /\ x \in Entries /\ e \in Entries
          BY <1>3, <1>4, <3>1 DEF Owed
        <4>3. ~ (entry[x].ts > entry[e].ts \/ (entry[x].ts = entry[e].ts /\ x > e))
          BY <1>1, <3>1, <4>1 DEF Beyond
        <4>4. x = e \/ Before(x, e)
          BY <1>0, <4>2, <4>3, EntryTyped DEF Before
        <4>5. CASE Before(x, e)
          <5>1. x \in Held(r) \cup attested
            BY <1>3, <3>1, <4>5 DEF Covers
          <5>2. x \in Activities <=> e \in Activities
            BY <4>2, AuditAssumption DEF Of
          <5>3. Ahead(x, e)
            BY <1>0, <4>2, <4>5, <5>2, BeforeOrder
          <5>. QED
            BY <1>1, <1>3, <5>1, <5>3
        <4>. QED
          BY <1>1, <4>4, <4>5
      <3>. QED
        BY <3>2, <3>3
    <2>2. attested' \subseteq got'
      BY <1>1, <1>3 DEF SendInv, CursorAttested
    <2>. QED
      BY <2>1, <2>2 DEF CursorAttested
  <1>10. AlarmsHaveCause'
    <2>1. alarm \subseteq Sources
      BY <1>0 DEF RestOK
    <2>. QED
      BY <1>1, <1>4, <2>1 DEF SendInv, AlarmsHaveCause
  <1>11. \A q \in Runs : RunInv(q)'
    <2>1. ASSUME NEW q \in Runs \ {r} PROVE RunInv(q)'
      <3>1. run'[q] = run[q] /\ RunInv(q) /\ q \in Runs
        BY <1>0, <1>2
      <3>2. lost' \/ run[q].pc \notin {"event", "preflight"}
        <4>1. ~ lost => lock = r
          BY <1>0, <1>1 DEF LockInv
        <4>2. ~ lost => run[q].pc = "idle"
          BY <1>0, <4>1 DEF LockInv
        <4>. QED
          BY <1>1, <4>2
      <3>. QED
        BY <1>1, <3>1, <3>2, OtherRun
    <2>. QED
      BY <1>2, <2>1
  <1>12. RestOK'
    BY <1>0, <1>1, <1>2, <1>3 DEF RestOK, Entries, Sources
  <1>. QED
    BY <1>2, <1>7, <1>8, <1>9, <1>10, <1>11, <1>12 DEF SendGoal, SendInv

\* A log without rows out of order is ordered.
LEMMA OrderedLog ==
    ASSUME EntriesOK, LogOK, RowsInv, NEW s \in Sources, OutOfOrder(s) = {},
           NEW i \in 1..Len(log[s]), NEW j \in 1..Len(log[s])
    PROVE  Before(log[s][i], log[s][j]) <=> i < j
  <1>1. /\ DOMAIN log[s] = 1..Len(log[s]) /\ Len(log[s]) \in Nat /\ Of(s) \subseteq Entries
        /\ \A k \in 1..Len(log[s]) : log[s][k] \in Of(s) /\ log[s][k] \in Logged(s)
    BY LogRows
  <1>2. ASSUME NEW k \in 1..Len(log[s]), NEW m \in 1..Len(log[s]), k < m
        PROVE  Before(log[s][k], log[s][m]) /\ ~ Before(log[s][m], log[s][k])
    <2>1. log[s][k] # log[s][m]
      BY <1>1, <1>2 DEF RowsInv
    <2>2. ~ Before(log[s][m], log[s][k])
      BY <1>1, <1>2 DEF OutOfOrder
    <2>3. log[s][k] \in Entries /\ log[s][m] \in Entries
      BY <1>1
    <2>. QED
      BY <2>1, <2>2, <2>3, BeforeOrder
  <1>3. ~ Before(log[s][i], log[s][i])
    <2>1. log[s][i] \in Entries
      BY <1>1
    <2>. QED
      BY <2>1, BeforeOrder
  <1>4. i < j \/ i = j \/ j < i
    BY <1>1
  <1>. QED
    BY <1>1, <1>2, <1>3, <1>4

\* A stretch of an ordered chain that follows the cursor's row links to it.
LEMMA StretchLinks ==
    ASSUME EntriesOK, LogOK, CursorOK, RowsInv, ChainLinear, CursorInv, NEW s \in Sources,
           OutOfOrder(s) = {}, cursor[s].id # 0, NEW T, T \subseteq Logged(s),
           \A x \in T : /\ Beyond(x, cursor[s])
                        /\ \A y \in Logged(s) : Before(y, x) /\ Beyond(y, cursor[s]) => y \in T
    PROVE  Linked(T, cursor[s].id)
  <1>. DEFINE n == Len(log[s])
              row(i) == log[s][i]
  <1>1. /\ DOMAIN log[s] = 1..n /\ n \in Nat /\ Of(s) \subseteq Entries /\ Logged(s) \subseteq Of(s)
        /\ \A i \in 1..n : row(i) \in Entries /\ row(i) \in Logged(s)
        /\ \A x \in Logged(s) : \E i \in 1..n : row(i) = x
    BY LogRows
  <1>2. \A i, j \in 1..n : Before(row(i), row(j)) <=> i < j
    BY OrderedLog
  <1>3. \A i \in 1..n : entry[row(i)].prev = (IF i = 1 THEN 0 ELSE row(i - 1))
    BY <1>1 DEF ChainLinear
  <1>. HIDE DEF n, row
  <1>4. PICK k \in 1..n : row(k) = cursor[s].id
    <2>1. cursor[s].id \in Logged(s)
      BY CursorTyped
    <2>. QED
      BY <1>1, <2>1
  <1>5. ASSUME NEW x \in Logged(s) PROVE Beyond(x, cursor[s]) <=> Before(row(k), x)
    <2>1. entry[row(k)].ts = cursor[s].ts /\ entry[x].ts \in Nat /\ cursor[s].ts \in Nat
          /\ x \in Nat /\ row(k) \in Nat
      <3>1. x \in Entries /\ row(k) \in Entries
        BY <1>1
      <3>. QED
        BY <1>4, <3>1, EntryTyped, CursorTyped DEF CursorInv
    <2>. QED
      BY <1>4, <2>1 DEF Beyond, Before
  <1>6. ASSUME NEW x \in T, NEW earlier, earlier = {y \in T : Before(y, x)}
        PROVE  entry[x].prev = (IF earlier = {} THEN cursor[s].id ELSE LastBefore(earlier))
    <2>1. PICK i \in 1..n : row(i) = x
      BY <1>1
    <2>2. k < i
      BY <1>2, <1>5, <2>1
    <2>3. i # 1 /\ i - 1 \in 1..n /\ k <= i - 1
      BY <1>1, <2>2
    <2>4. entry[x].prev = row(i - 1)
      BY <1>3, <2>1, <2>3
    <2>5. ASSUME NEW z \in earlier
          PROVE  \E m \in 1..n : row(m) = z /\ k < m /\ m < i
      <3>1. z \in T /\ Before(z, x) /\ z \in Logged(s)
        BY <1>6
      <3>2. PICK m \in 1..n : row(m) = z
        BY <1>1, <3>1
      <3>. QED
        BY <1>2, <1>5, <2>1, <3>1, <3>2
    <2>6. CASE i - 1 = k
      <3>1. earlier = {}
        <4>1. ASSUME NEW z \in earlier PROVE FALSE
          <5>1. PICK m \in 1..n : row(m) = z /\ k < m /\ m < i
            BY <2>5
          <5>. QED
            BY <1>1, <2>6, <5>1
        <4>. QED
          BY <4>1
      <3>. QED
        BY <1>4, <2>4, <2>6, <3>1
    <2>7. CASE i - 1 # k
      <3>1. k < i - 1 /\ i - 1 < i
        BY <1>1, <2>3, <2>7
      <3>2. PICK y : y = row(i - 1)
        OBVIOUS
      <3>3. y \in Logged(s) /\ Before(y, x) /\ Before(row(k), y)
        BY <1>1, <1>2, <2>1, <2>3, <3>1, <3>2
      <3>4. y \in earlier
        BY <1>5, <1>6, <3>3
      <3>5. ASSUME NEW z \in earlier \ {y} PROVE Before(z, y)
        <4>1. PICK m \in 1..n : row(m) = z /\ k < m /\ m < i
          BY <2>5
        <4>2. m < i - 1
          BY <1>1, <3>2, <4>1
        <4>. QED
          BY <1>2, <2>3, <3>2, <4>1, <4>2
      <3>6. earlier \subseteq Entries
        BY <1>1, <1>6
      <3>7. LastBefore(earlier) = y
        BY <3>4, <3>5, <3>6, IsLast
      <3>. QED
        BY <2>4, <3>2, <3>4, <3>7
    <2>. QED
      BY <2>6, <2>7
  <1>7. ASSUME NEW x \in T
        PROVE  LET earlier == {y \in T : Before(y, x)}
               IN  entry[x].prev = (IF earlier = {} THEN cursor[s].id ELSE LastOf(earlier, Before))
    <2>1. PICK earlier : earlier = {y \in T : Before(y, x)}
      OBVIOUS
    <2>2. entry[x].prev = (IF earlier = {} THEN cursor[s].id ELSE LastBefore(earlier))
      BY <1>6, <2>1
    <2>3. entry[x].prev = (IF earlier = {} THEN cursor[s].id ELSE LastOf(earlier, Before))
      BY <2>2 DEF LastBefore
    <2>. QED
      BY <2>1, <2>3
  <1>. QED
    BY <1>7 DEF Linked

LEMMA PreflightSends ==
    ASSUME TypeOK, RowsInv, ChainLinear, SendInv, NEW r \in Runs, Preflight(r)
    PROVE  SendGoal
  <1>0. EntriesOK /\ LogOK /\ CursorOK /\ RunsOK /\ RestOK /\ CursorInv /\ LockInv /\ \A q \in Runs : RunInv(q)
    BY Parts DEF SendInv
  <1>1. /\ run[r].pc = "preflight"
        /\ UNCHANGED <<entry, log, cursor, planted, got, attested, lost, faults>>
    BY DEF Preflight, writing
  <1>2. attested \subseteq got /\ CursorAttested /\ AlarmsHaveCause
    BY DEF SendInv, CursorAttested
  <1>3. ASSUME \A q \in Runs \ {r} : run'[q] = run[q]
        PROVE  \A q \in Runs \ {r} : RunInv(q)'
    <2>1. ASSUME NEW q \in Runs \ {r} PROVE RunInv(q)'
      <3>1. run'[q] = run[q] /\ RunInv(q) /\ q \in Runs
        BY <1>0, <1>3
      <3>. QED
        BY <1>1, <3>1, OtherRun
    <2>. QED
      BY <2>1
  <1>4. CASE EndRun(r) /\ UNCHANGED alarm
    <2>1. /\ RunsOK' /\ lock' \in Runs \cup {None} /\ LockInv' /\ RunInv(r)'
          /\ \A q \in Runs \ {r} : run'[q] = run[q]
      BY <1>0, <1>1, <1>4, Ended
    <2>2. CursorOK' /\ CursorInv' /\ CursorAttested' /\ AlarmsHaveCause'
      BY <1>1, <1>2, <1>4, CursorsStay
    <2>3. RestOK'
      BY <1>0, <1>1, <1>4, <2>1 DEF RestOK, Entries, Sources
    <2>4. \A q \in Runs : RunInv(q)'
      BY <1>3, <2>1
    <2>. QED
      BY <2>1, <2>2, <2>3, <2>4 DEF SendGoal, SendInv
  <1>5. CASE /\ Broken(r) # {} /\ EndRun(r)
             /\ alarm' = alarm \cup {IF "activity" \in Broken(r) THEN "activity" ELSE "event"}
    <2>1. /\ RunsOK' /\ lock' \in Runs \cup {None} /\ LockInv' /\ RunInv(r)'
          /\ \A q \in Runs \ {r} : run'[q] = run[q]
      BY <1>0, <1>1, <1>5, Ended
    <2>2. PICK s \in Broken(r) : alarm' = alarm \cup {s}
      BY <1>5 DEF Broken, Sources
    <2>3. /\ s \in Sources /\ run[r].batch \cap Of(s) # {}
          /\ cursor[s].id # 0 /\ ~ Linked(run[r].batch \cap Of(s), cursor[s].id)
      BY <2>2 DEF Broken, Anchored
    <2>4. lost \/ OutOfOrder(s) # {}
      <3>1. ASSUME ~ lost, OutOfOrder(s) = {} PROVE FALSE
        <4>1. PICK T : T = run[r].batch \cap Of(s)
          OBVIOUS
        <4>2. Held(r) = run[r].batch /\ T \subseteq Logged(s) /\ Stretch(r) /\ Logged(s) \subseteq Of(s)
          BY <1>0, <1>1, <2>3, <4>1, LogRows DEF RunInv, HeldInv, Held
        <4>3. \A x \in T : /\ Beyond(x, cursor[s])
                           /\ \A y \in Logged(s) : Before(y, x) /\ Beyond(y, cursor[s]) => y \in T
          BY <1>1, <2>3, <3>1, <4>1, <4>2 DEF Stretch
        <4>4. Linked(T, cursor[s].id)
          BY <1>0, <2>3, <3>1, <4>2, <4>3, StretchLinks
        <4>. QED
          BY <2>3, <4>1, <4>4
      <3>. QED
        BY <3>1
    <2>5. \A t \in Sources : OutOfOrder(t)' = OutOfOrder(t) /\ Logged(t)' = Logged(t) /\ Owed(t)' = Owed(t)
                             /\ Passed(t)' = Passed(t)
      BY <1>1, RowsStay DEF Passed, Beyond
    <2>6. AlarmsHaveCause'
      <3>1. alarm \subseteq Sources
        BY <1>0 DEF RestOK
      <3>. QED
        BY <1>1, <1>2, <2>2, <2>3, <2>4, <2>5, <3>1 DEF AlarmsHaveCause
    <2>7. CursorAttested'
      BY <1>1, <1>2, <2>5 DEF CursorAttested
    <2>8. CursorOK' /\ CursorInv'
      BY <1>0, <1>1, <2>5 DEF CursorOK, CursorInv, Entries
    <2>9. RestOK'
      BY <1>0, <1>1, <2>1, <2>2, <2>3 DEF RestOK, Entries, Sources
    <2>10. \A q \in Runs : RunInv(q)'
      BY <1>3, <2>1
    <2>. QED
      BY <2>1, <2>6, <2>7, <2>8, <2>9, <2>10 DEF SendGoal, SendInv
  <1>6. CASE run' = [run EXCEPT ![r].pc = "deliver"] /\ UNCHANGED <<lock, alarm>>
    <2>1. PICK x : x = [run[r] EXCEPT !.pc = "deliver"]
      OBVIOUS
    <2>2. /\ x \in RunType /\ x.pc = "deliver" /\ x.polled = run[r].polled /\ x.batch = run[r].batch
          /\ x.acked = run[r].acked /\ x.seen = run[r].seen
      BY <1>0, <2>1, RunTyped DEF RunType
    <2>3. run' = [run EXCEPT ![r] = x]
      BY <1>0, <1>6, <2>1 DEF RunsOK
    <2>4. RunsOK' /\ run'[r] = x /\ \A q \in Runs \ {r} : run'[q] = run[q]
      BY <1>0, <2>2, <2>3, RunMove, RunTyped
    <2>5. ASSUME NEW s \in Sources
          PROVE  /\ Of(s)' = Of(s) /\ Logged(s)' = Logged(s) /\ Owed(s)' = Owed(s)
      BY <1>1, RowsStay
    <2>6. RunInv(r)'
      <3>1. HeldInv(r) /\ Covers(r) /\ Watermark(r) /\ Held(r)' = Held(r)
        BY <1>0, <2>2, <2>4 DEF RunInv, Held
      <3>2. \A e, y : (Before(y, e)' <=> Before(y, e)) /\ (Ahead(y, e)' <=> Ahead(y, e))
        BY <1>1 DEF Before, Ahead
      <3>3. \A s \in Sources : Seen(r, s)' = Seen(r, s)
        BY <1>1, <2>2, <2>4, <2>5 DEF Seen
      <3>4. HeldInv(r)'
        BY <1>1, <2>2, <2>4, <2>5, <3>1, <3>2 DEF HeldInv
      <3>5. Covers(r)'
        BY <1>1, <2>5, <3>1, <3>2 DEF Covers
      <3>6. Stretch(r)' /\ Filled(r)'
        BY <2>2, <2>4 DEF Stretch, Filled
      <3>7. Watermark(r)'
        BY <1>1, <2>2, <2>4, <3>1, <3>3 DEF Watermark
      <3>. QED
        BY <3>4, <3>5, <3>6, <3>7 DEF RunInv
    <2>7. \A q \in Runs : RunInv(q)'
      BY <1>3, <2>4, <2>6
    <2>8. CursorOK' /\ CursorInv' /\ CursorAttested' /\ AlarmsHaveCause'
      BY <1>1, <1>2, <1>6, CursorsStay
    <2>9. RestOK'
      BY <1>0, <1>1, <1>6 DEF RestOK, Entries, Sources
    <2>10. LockInv'
      BY <1>0, <1>1, <1>6, <2>2, <2>4 DEF LockInv
    <2>. QED
      BY <2>4, <2>7, <2>8, <2>9, <2>10 DEF SendGoal, SendInv
  <1>. QED
    BY <1>4, <1>5, <1>6 DEF Preflight

\* What planting a cursor and polling with one have in common: the rows P that
\* the run has, the n rows of the log that were there, and the state of the
\* log's cursor.
PollGives(r, s, P, n, owed) ==
    /\ run[r].pc = s /\ Polled(r, s, P, n)
    /\ UNCHANGED <<entry, log, got, attested, alarm, lost, faults>>
    /\ \A t \in Sources : planted[t] # 0 \/ t # s => planted'[t] = planted[t] /\ cursor'[t] = cursor[t]
    /\ CursorOK' /\ CursorInv' /\ CursorAttested' /\ AlarmsHaveCause'
    /\ n \in Nat /\ n <= Len(log[s]) /\ (n # 0 => planted'[s] # 0)
    /\ run[r].polled \subseteq P /\ P \subseteq run[r].polled \cup Logged(s)
    /\ P # run[r].polled => planted'[s] # 0
    /\ owed = Owed(s)'
    /\ P \cap Of(s) # {} => planted'[s] # 0
    /\ PolledWell(P, s, owed, cursor'[s], {log[s][i] : i \in 1..n} \cap owed)

\* A run that is about to poll a log has nothing of it in hand.
LEMMA NothingYet ==
    ASSUME TypeOK, SendInv, NEW r \in Runs, NEW s \in Sources, run[r].pc = s
    PROVE  /\ run[r].batch = {} /\ run[r].acked = {} /\ run[r].polled \cap Of(s) = {}
           /\ run[r].polled \subseteq Logged("activity")
  <1>0. RunsOK /\ LogOK /\ HeldInv(r)
    BY Parts DEF SendInv, RunInv
  <1>1. run[r].batch = {} /\ run[r].acked = {}
    BY <1>0, RunTyped DEF HeldInv, Sources
  <1>2. CASE s = "activity"
    BY <1>0, <1>1, <1>2 DEF HeldInv
  <1>3. CASE s = "event"
    <2>1. run[r].polled \subseteq Activities /\ Held(r) = run[r].polled
      BY <1>0, <1>1, <1>3 DEF HeldInv, Held
    <2>2. Held(r) \cap Of("activity") \subseteq Logged("activity")
      BY <1>0 DEF HeldInv, Sources
    <2>. QED
      BY <1>1, <1>3, <2>1, <2>2, AuditAssumption DEF Of
  <1>. QED
    BY <1>2, <1>3 DEF Sources

LEMMA PlantGives ==
    ASSUME TypeOK, RowsInv, SendInv, NEW r \in Runs, NEW s \in Sources, Plant(r, s),
           NEW owed, owed = Owed(s)'
    PROVE  PollGives(r, s, run[r].polled, 0, owed)
  <1>0. /\ EntriesOK /\ LogOK /\ CursorOK /\ RunsOK /\ RestOK
        /\ CursorInv /\ CursorAttested /\ AlarmsHaveCause
    BY Parts DEF SendInv
  <1>1. /\ run[r].pc = s /\ cursor[s].ts = 0
        /\ cursor' = [cursor EXCEPT ![s] = [ts |-> clock, id |-> 0]]
        /\ planted' = [planted EXCEPT ![s] = clock]
        /\ Polled(r, s, run[r].polled, 0)
        /\ UNCHANGED <<entry, log, got, attested, alarm, lost, faults>>
    BY DEF Plant, writing
  <1>2. clock \in 1..MaxClock /\ clock \in Nat /\ clock # 0 /\ clock \in 0..MaxClock
    BY <1>0, AuditAssumption DEF EntriesOK
  <1>3. /\ cursor'[s] = [ts |-> clock, id |-> 0] /\ planted'[s] = clock
        /\ \A t \in Sources : t # s => planted'[t] = planted[t] /\ cursor'[t] = cursor[t]
    BY <1>0, <1>1 DEF CursorOK
  <1>4. planted[s] = 0
    BY <1>0, <1>1 DEF CursorInv
  <1>5. ASSUME NEW t \in Sources
        PROVE  /\ Of(t)' = Of(t) /\ Logged(t)' = Logged(t) /\ OutOfOrder(t)' = OutOfOrder(t)
               /\ t # s => Owed(t)' = Owed(t) /\ Passed(t)' = Passed(t)
    <2>1. /\ Of(t)' = Of(t) /\ Logged(t)' = Logged(t) /\ OutOfOrder(t)' = OutOfOrder(t)
          /\ planted'[t] = planted[t] => Owed(t)' = Owed(t)
      BY <1>1, RowsStay
    <2>2. t # s => Owed(t)' = Owed(t) /\ Passed(t)' = Passed(t)
      BY <1>1, <1>3, <2>1 DEF Passed, Beyond
    <2>. QED
      BY <2>1, <2>2
  <1>6. CursorOK'
    <2>1. [ts |-> clock, id |-> 0] \in [ts : 0..MaxClock, id : Entries \cup {0}]
      BY <1>2
    <2>2. /\ cursor' \in [Sources -> [ts : 0..MaxClock, id : Entries \cup {0}]]
          /\ planted' \in [Sources -> 0..MaxClock]
      BY <1>0, <1>1, <1>2, <2>1 DEF CursorOK
    <2>3. \A t \in Sources : cursor'[t].id \in Logged(t)' \cup {0}
      BY <1>0, <1>3, <1>5 DEF CursorOK
    <2>. QED
      BY <2>2, <2>3 DEF CursorOK, Entries
  <1>7. CursorInv'
    BY <1>0, <1>1, <1>2, <1>3 DEF CursorInv
  <1>8. Passed(s)' = {}
    <2>1. ASSUME NEW x \in Owed(s)' PROVE Beyond(x, cursor[s])'
      <3>1. x \in Logged(s) /\ entry'[x].ts >= clock
        BY <1>3, <1>5 DEF Owed
      <3>2. x \in Entries
        BY <1>0, <3>1, LogRows
      <3>3. entry[x].ts \in Nat /\ x \in Nat /\ x # 0
        BY <1>0, <3>2, EntryTyped
      <3>. QED
        BY <1>1, <1>2, <1>3, <3>1, <3>3 DEF Beyond
    <2>. QED
      BY <2>1 DEF Passed
  <1>9. CursorAttested'
    BY <1>0, <1>1, <1>5, <1>8 DEF CursorAttested
  <1>10. AlarmsHaveCause'
    <2>1. alarm \subseteq Sources
      BY <1>0 DEF RestOK
    <2>. QED
      BY <1>0, <1>1, <1>5, <2>1 DEF AlarmsHaveCause
  <1>11. 0 <= Len(log[s])
    BY <1>0, LogRows
  <1>12. run[r].polled \cap Of(s) = {}
    BY <1>1, NothingYet
  <1>13. {log[s][i] : i \in 1..0} \cap owed = {}
    OBVIOUS
  <1>14. PolledWell(run[r].polled, s, owed, cursor'[s], {log[s][i] : i \in 1..0} \cap owed)
    <2>1. PICK c : c = cursor'[s]
      OBVIOUS
    <2>2. PolledWell(run[r].polled, s, owed, c, {})
      BY <1>12, NothingPolled
    <2>. QED
      BY <1>13, <2>1, <2>2
  <1>. QED
    BY <1>1, <1>3, <1>4, <1>6, <1>7, <1>9, <1>10, <1>11, <1>12, <1>14 DEF PollGives

LEMMA RowsTaken ==
    ASSUME LogOK, NEW s \in Sources, EntriesOK
    PROVE  Rows(s) \subseteq Logged(s)
  BY DEF Rows, FirstOf

LEMMA PollGivesRows ==
    ASSUME TypeOK, RowsInv, SendInv, NEW r \in Runs, NEW s \in Sources, Poll(r, s),
           NEW owed, owed = Owed(s)'
    PROVE  PollGives(r, s, run[r].polled \cup Rows(s), Len(log[s]), owed)
  <1>0. /\ EntriesOK /\ LogOK /\ CursorOK /\ RunsOK /\ RestOK
        /\ CursorInv /\ CursorAttested /\ AlarmsHaveCause
    BY Parts DEF SendInv
  <1>1. /\ run[r].pc = s /\ cursor[s].ts # 0 /\ cursor' = cursor /\ planted' = planted
        /\ Polled(r, s, run[r].polled \cup Rows(s), Len(log[s]))
        /\ UNCHANGED <<entry, log, cursor, planted, got, attested, alarm, lost, faults>>
    BY DEF Poll, writing
  <1>2. attested \subseteq got
    BY <1>0 DEF CursorAttested
  <1>3. CursorOK' /\ CursorInv' /\ CursorAttested' /\ AlarmsHaveCause'
    BY <1>1, <1>2, CursorsStay
  <1>4. planted[s] # 0
    BY <1>0, <1>1 DEF CursorInv
  <1>5. owed = Owed(s)
    BY <1>1, RowsStay
  <1>6. /\ Len(log[s]) \in Nat /\ Logged(s) = {log[s][i] : i \in 1..Len(log[s])}
        /\ Logged(s) \subseteq Of(s)
    BY <1>0, LogRows
  <1>7. run[r].polled \cap Of(s) = {}
    BY <1>1, NothingYet
  <1>8. Rows(s) \subseteq Logged(s)
    BY <1>0, RowsTaken
  <1>9. PICK P : P = run[r].polled \cup Rows(s)
    OBVIOUS
  <1>10. P \cap Of(s) = Rows(s)
    BY <1>6, <1>7, <1>8, <1>9
  <1>11. PolledWell(P, s, owed, cursor[s], Logged(s) \cap owed)
    BY <1>0, <1>5, <1>10, PolledRows
  <1>12. PolledWell(P, s, owed, cursor'[s], {log[s][i] : i \in 1..Len(log[s])} \cap owed)
    BY <1>1, <1>6, <1>11
  <1>. QED
    BY <1>1, <1>3, <1>4, <1>6, <1>8, <1>9, <1>12 DEF PollGives

\* After the activities: what was polled is in hand.
LEMMA ActivitiesPolled ==
    ASSUME TypeOK, SendInv, NEW r \in Runs, NEW P, NEW n, NEW owed,
           PollGives(r, "activity", P, n, owed)
    PROVE  RunsOK' /\ RunInv(r)' /\ UNCHANGED lock /\ \A q \in Runs \ {r} : run'[q] = run[q]
  <1>0. LogOK /\ RunsOK /\ HeldInv(r) /\ "activity" \in Sources
    BY Parts DEF SendInv, RunInv, Sources
  <1>1. /\ run[r].pc = "activity" /\ UNCHANGED <<entry, log, got, attested, lost, lock>>
        /\ run' = [run EXCEPT ![r].pc = "event", ![r].polled = P, ![r].seen["activity"] = n]
        /\ n \in Nat /\ n <= Len(log["activity"]) /\ (n # 0 => planted'["activity"] # 0)
        /\ P \cap Of("activity") # {} => planted'["activity"] # 0
        /\ P \subseteq run[r].polled \cup Logged("activity")
        /\ owed = Owed("activity")'
        /\ \A t \in Sources : planted[t] # 0 \/ t # "activity" => planted'[t] = planted[t]
        /\ PolledWell(P, "activity", owed, cursor'["activity"], {log["activity"][i] : i \in 1..n} \cap owed)
    BY DEF PollGives, Polled
  <1>2. run[r].batch = {} /\ run[r].acked = {} /\ P \subseteq Logged("activity")
    BY <1>0, <1>1, NothingYet
  <1>3. /\ Logged("activity") \subseteq Activities /\ Activities \subseteq Entries
        /\ Of("activity") = Activities /\ Of("event") = Events /\ Activities \cap Events = {}
    BY <1>0, LogRows, AuditAssumption DEF Of
  <1>4. P \subseteq Entries /\ P \cap Of("activity") = P /\ P \cap Of("event") = {}
    BY <1>2, <1>3
  <1>5. PICK seen : seen = [run[r].seen EXCEPT !["activity"] = n]
    OBVIOUS
  <1>6. /\ seen \in [Sources -> Nat] /\ seen["activity"] = n
        /\ \A s \in Sources : s # "activity" => seen[s] = run[r].seen[s]
    <2>1. run[r].seen \in [Sources -> Nat]
      BY <1>0, RunTyped DEF RunType
    <2>. QED
      BY <1>0, <1>1, <1>5, <2>1
  <1>7. PICK x : x = [run[r] EXCEPT !.pc = "event", !.polled = P, !.seen = seen]
    OBVIOUS
  <1>8. /\ x \in RunType /\ x.pc = "event" /\ x.polled = P /\ x.batch = {} /\ x.acked = {} /\ x.seen = seen
    BY <1>0, <1>2, <1>4, <1>6, <1>7, RunTyped DEF RunType
  <1>9. run' = [run EXCEPT ![r] = x]
    BY <1>0, <1>1, <1>5, <1>7 DEF RunsOK
  <1>10. RunsOK' /\ run'[r] = x /\ \A q \in Runs \ {r} : run'[q] = run[q]
    <2>1. x.acked \subseteq x.batch
      BY <1>8
    <2>. QED
      BY <1>0, <1>8, <1>9, <2>1, RunMove
  <1>11. Held(r)' = P
    BY <1>8, <1>10 DEF Held
  <1>12. ASSUME NEW s \in Sources
         PROVE  /\ Of(s)' = Of(s) /\ Logged(s)' = Logged(s) /\ OutOfOrder(s)' = OutOfOrder(s)
                /\ s = "activity" \/ P \cap Of(s) = {}
    BY <1>1, <1>4, RowsStay DEF Sources
  <1>13. HeldInv(r)'
    <2>1. ASSUME NEW s \in Sources
          PROVE  /\ P \cap Of(s) \subseteq Logged(s)
                 /\ P \cap Of(s) # {} => planted'[s] # 0
                 /\ seen[s] <= Len(log[s])
                 /\ seen[s] # 0 => planted'[s] # 0
      <3>1. CASE s = "activity"
        BY <1>1, <1>2, <1>6, <3>1
      <3>2. CASE s # "activity"
        BY <1>0, <1>1, <1>6, <1>12, <3>2 DEF HeldInv
      <3>. QED
        BY <3>1, <3>2
    <2>2. P \subseteq Activities
      BY <1>2, <1>3
    <2>. QED
      BY <1>1, <1>8, <1>10, <1>11, <1>12, <2>1, <2>2, ZenonT(60) DEF HeldInv
  <1>14. /\ Complete(P, "activity", owed) /\ Adjacent(P, "activity", cursor'["activity"])
         /\ Taken(P, "activity", {log["activity"][i] : i \in 1..n} \cap owed)
    BY <1>1 DEF PolledWell
  <1>15. Covers(r)'
    <2>1. ASSUME NEW s \in Sources, NEW e \in P \cap Of(s), NEW y \in Owed(s)', Before(y, e)'
          PROVE  y \in P \cup attested
      <3>1. Before(y, e) /\ s = "activity"
        BY <1>1, <1>12, <2>1 DEF Before
      <3>. QED
        BY <1>1, <1>14, <3>1 DEF Complete
    <2>. QED
      BY <1>1, <1>11, <1>12, <2>1 DEF Covers
  <1>16. Stretch(r)'
    <2>1. ASSUME ~ lost, NEW s \in Sources, OutOfOrder(s) = {}, NEW y \in P \cap Of(s)
          PROVE  /\ Beyond(y, cursor[s])'
                 /\ \A z \in Logged(s) : Before(z, y)' /\ Beyond(z, cursor[s])' => z \in P
      <3>1. s = "activity"
        BY <1>12, <2>1
      <3>2. PICK c : c = cursor'["activity"]
        OBVIOUS
      <3>3. \A z : (Before(z, y)' <=> Before(z, y)) /\ (Beyond(z, cursor[s])' <=> Beyond(z, c))
        BY <1>1, <3>1, <3>2 DEF Before, Beyond
      <3>4. Adjacent(P, "activity", c)
        BY <1>14, <3>2
      <3>. QED
        BY <2>1, <3>1, <3>3, <3>4 DEF Adjacent
    <2>. QED
      BY <1>1, <1>11, <1>12, <2>1 DEF Stretch
  <1>17. Filled(r)'
    <2>1. Seen(r, "activity")' = {log["activity"][i] : i \in 1..n} \cap owed
      BY <1>1, <1>6, <1>8, <1>10, ZenonT(60) DEF Seen
    <2>2. \A y \in {log["activity"][i] : i \in 1..n} \cap owed :
             \/ y \in got \cup P
             \/ Cardinality(P) = Batch /\ \A z \in P : entry[z].ts <= entry[y].ts
      BY <1>4, <1>14 DEF Taken
    <2>. QED
      BY <1>1, <1>8, <1>10, <2>1, <2>2 DEF Filled
  <1>18. Watermark(r)'
    BY <1>8, <1>10 DEF Watermark
  <1>. QED
    BY <1>1, <1>10, <1>13, <1>15, <1>16, <1>17, <1>18 DEF RunInv

\* After the events: what may be sent of what was polled is in hand.
LEMMA EventsPolled ==
    ASSUME TypeOK, SendInv, NEW r \in Runs, NEW P, NEW n, NEW owed,
           PollGives(r, "event", P, n, owed)
    PROVE  \/ EndRun(r)
           \/ RunsOK' /\ RunInv(r)' /\ UNCHANGED lock /\ \A q \in Runs \ {r} : run'[q] = run[q]
  <1>0. /\ EntriesOK /\ LogOK /\ RunsOK /\ HeldInv(r) /\ Covers(r) /\ Stretch(r) /\ Filled(r)
        /\ "activity" \in Sources /\ "event" \in Sources
    BY Parts DEF SendInv, RunInv, Sources
  <1>b. PICK B : B = Shippable(P)
    OBVIOUS
  <1>e. SUFFICES ASSUME ~ EndRun(r)
                 PROVE  RunsOK' /\ RunInv(r)' /\ UNCHANGED lock /\ \A q \in Runs \ {r} : run'[q] = run[q]
    OBVIOUS
  <1>1. /\ run[r].pc = "event" /\ UNCHANGED <<entry, log, got, attested, lost, lock>>
        /\ run' = [run EXCEPT ![r].pc = "preflight", ![r].polled = {}, ![r].batch = B, ![r].seen["event"] = n]
        /\ n \in Nat /\ n <= Len(log["event"]) /\ (n # 0 => planted'["event"] # 0)
        /\ P \cap Of("event") # {} => planted'["event"] # 0
        /\ run[r].polled \subseteq P /\ P \subseteq run[r].polled \cup Logged("event")
        /\ owed = Owed("event")'
        /\ \A t \in Sources : planted[t] # 0 \/ t # "event" => planted'[t] = planted[t]
        /\ cursor'["activity"] = cursor["activity"] /\ planted'["activity"] = planted["activity"]
        /\ PolledWell(P, "event", owed, cursor'["event"], {log["event"][i] : i \in 1..n} \cap owed)
    BY <1>b, <1>e DEF PollGives, Polled, Sources
  <1>2. run[r].batch = {} /\ run[r].acked = {} /\ run[r].polled \subseteq Logged("activity")
    BY <1>0, <1>1, NothingYet
  <1>3. /\ Logged("activity") \subseteq Activities /\ Activities \subseteq Entries
        /\ Logged("event") \subseteq Events /\ Events \subseteq Entries
        /\ Of("activity") = Activities /\ Of("event") = Events /\ Activities \cap Events = {}
    BY <1>0, LogRows, AuditAssumption DEF Of
  <1>4. P \subseteq Entries /\ P \cap Of("activity") = run[r].polled
    BY <1>1, <1>2, <1>3
  <1>5. IsFiniteSet(P)
    <2>1. IsFiniteSet(Logged("activity") \cup Logged("event"))
      BY <1>0, LoggedFinite, FS_Union
    <2>2. P \in SUBSET (Logged("activity") \cup Logged("event"))
      BY <1>1, <1>2
    <2>. QED
      BY <2>1, <2>2, FS_Subset
  <1>6. PICK seen : seen = [run[r].seen EXCEPT !["event"] = n]
    OBVIOUS
  <1>7. seen \in [Sources -> Nat] /\ seen["event"] = n /\ seen["activity"] = run[r].seen["activity"]
    <2>1. run[r].seen \in [Sources -> Nat]
      BY <1>0, RunTyped DEF RunType
    <2>. QED
      BY <1>0, <1>1, <1>6, <2>1
  <1>8. B \subseteq P /\ B \subseteq Entries
    BY <1>b, <1>4 DEF Shippable
  <1>9. PICK x : x = [run[r] EXCEPT !.pc = "preflight", !.polled = {}, !.batch = B, !.seen = seen]
    OBVIOUS
  <1>10. /\ x \in RunType /\ x.pc = "preflight" /\ x.polled = {} /\ x.batch = B /\ x.acked = {} /\ x.seen = seen
    BY <1>0, <1>2, <1>7, <1>8, <1>9, RunTyped DEF RunType
  <1>11. run' = [run EXCEPT ![r] = x]
    BY <1>0, <1>1, <1>6, <1>9, ZenonT(60) DEF RunsOK
  <1>12. RunsOK' /\ run'[r] = x /\ \A q \in Runs \ {r} : run'[q] = run[q]
    <2>1. x.acked \subseteq x.batch
      BY <1>10
    <2>. QED
      BY <1>0, <1>10, <1>11, <2>1, RunMove
  <1>13. Held(r)' = B /\ Held(r) = run[r].polled
    BY <1>2, <1>10, <1>12 DEF Held
  <1>14. ASSUME NEW s \in Sources
         PROVE  /\ Of(s)' = Of(s) /\ Logged(s)' = Logged(s) /\ OutOfOrder(s)' = OutOfOrder(s)
                /\ (s = "activity" \/ s = "event") /\ Logged(s) \subseteq Entries
                /\ Owed(s) \subseteq Entries /\ Owed(s)' \subseteq Entries
    BY <1>1, <1>3, RowsStay DEF Sources, Owed
  <1>15. Owed("activity")' = Owed("activity")
    BY <1>0, <1>1, RowsStay
  <1>16. PolledWell(P, "activity", Owed("activity"), cursor["activity"], Seen(r, "activity"))
    <2>1. Complete(P, "activity", Owed("activity"))
      BY <1>0, <1>1, <1>4, <1>13, <1>3 DEF Complete, Covers
    <2>2. Adjacent(P, "activity", cursor["activity"])
      BY <1>0, <1>1, <1>4, <1>13, <1>3 DEF Adjacent, Stretch
    <2>3. Taken(P, "activity", Seen(r, "activity"))
      BY <1>0, <1>1, <1>4 DEF Taken, Filled
    <2>4. Seen(r, "activity") \subseteq Logged("activity")
      BY DEF Seen, Owed
    <2>. QED
      BY <1>2, <1>4, <2>1, <2>2, <2>3, <2>4 DEF PolledWell
  <1>17. PICK there : there = {log["event"][i] : i \in 1..n} \cap owed
    OBVIOUS
  <1>18. PICK c : c = cursor'["event"]
    OBVIOUS
  <1>19. /\ Complete(B, "activity", Owed("activity")) /\ Adjacent(B, "activity", cursor["activity"])
         /\ B \cap Of("activity") \subseteq Logged("activity")
         /\ \A e \in B : \A y \in Seen(r, "activity") : entry[y].ts < entry[e].ts => y \in got \cup B
    <2>1. Logged("activity") \subseteq Entries /\ Owed("activity") \subseteq Entries
      BY <1>0, <1>3, <1>14
    <2>. QED
      BY <1>0, <1>b, <1>4, <1>5, <1>16, <2>1, Shipped
  <1>20. /\ Complete(B, "event", owed) /\ Adjacent(B, "event", c) /\ B \cap Of("event") \subseteq Logged("event")
         /\ \A e \in B : \A y \in there : entry[y].ts < entry[e].ts => y \in got \cup B
    <2>1. PolledWell(P, "event", owed, c, there)
      BY <1>1, <1>17, <1>18
    <2>2. Logged("event") \subseteq Entries /\ owed \subseteq Entries
      BY <1>0, <1>1, <1>3, <1>14
    <2>. QED
      BY <1>0, <1>b, <1>4, <1>5, <2>1, <2>2, Shipped
  <1>21. HeldInv(r)'
    <2>1. ASSUME NEW s \in Sources
          PROVE  /\ B \cap Of(s) \subseteq Logged(s)
                 /\ B \cap Of(s) # {} => planted'[s] # 0
                 /\ seen[s] <= Len(log[s])
                 /\ seen[s] # 0 => planted'[s] # 0
      <3>1. CASE s = "activity"
        <4>1. B \cap Of(s) # {} => Held(r) \cap Of(s) # {}
          BY <1>4, <1>8, <1>13, <3>1
        <4>. QED
          BY <1>0, <1>1, <1>7, <1>19, <3>1, <4>1 DEF HeldInv
      <3>2. CASE s = "event"
        BY <1>1, <1>7, <1>8, <1>20, <3>2
      <3>. QED
        BY <1>14, <3>1, <3>2
    <2>2. /\ run'[r].pc = "preflight" /\ run'[r].polled = {} /\ run'[r].acked = {} /\ run'[r].batch = B
          /\ run'[r].seen = seen
      BY <1>10, <1>12
    <2>3. \A s \in Sources :
             /\ (Held(r) \cap Of(s) \subseteq Logged(s))'
             /\ (Held(r) \cap Of(s) # {} => planted[s] # 0)'
      BY <1>13, <1>14, <2>1
    <2>4. \A s \in Sources :
             /\ run'[r].seen[s] <= Len(log'[s])
             /\ run'[r].seen[s] # 0 => planted'[s] # 0
      BY <1>1, <2>1, <2>2
    <2>. QED
      BY <2>2, <2>3, <2>4 DEF HeldInv
  <1>22. \A y, z : Before(y, z)' <=> Before(y, z)
    BY <1>1 DEF Before
  <1>23. Covers(r)'
    <2>1. ASSUME NEW s \in Sources, NEW e \in B \cap Of(s), NEW y \in Owed(s)', Before(y, e)
          PROVE  y \in B \cup attested
      <3>1. CASE s = "activity"
        BY <1>15, <1>19, <2>1, <3>1 DEF Complete
      <3>2. CASE s = "event"
        BY <1>1, <1>20, <2>1, <3>2 DEF Complete
      <3>. QED
        BY <1>14, <3>1, <3>2
    <2>. QED
      BY <1>1, <1>13, <1>14, <1>22, <2>1 DEF Covers
  <1>24. Stretch(r)'
    <2>1. ASSUME ~ lost, NEW s \in Sources, OutOfOrder(s) = {}, NEW y \in B \cap Of(s)
          PROVE  /\ Beyond(y, cursor[s])'
                 /\ \A z \in Logged(s) : Before(z, y) /\ Beyond(z, cursor[s])' => z \in B
      <3>1. PICK d : d = cursor'[s]
        OBVIOUS
      <3>2. \A z : Beyond(z, cursor[s])' <=> Beyond(z, d)
        BY <1>1, <3>1 DEF Beyond
      <3>3. Adjacent(B, s, d)
        <4>1. s = "activity" => d = cursor["activity"]
          BY <1>1, <3>1
        <4>2. s = "event" => d = c
          BY <1>18, <3>1
        <4>. QED
          BY <1>14, <1>19, <1>20, <4>1, <4>2
      <3>. QED
        BY <2>1, <3>2, <3>3 DEF Adjacent
    <2>. QED
      BY <1>1, <1>13, <1>14, <1>22, <2>1 DEF Stretch
  <1>25. Filled(r)'
    BY <1>10, <1>12 DEF Filled
  <1>26. Watermark(r)'
    <2>1. Seen(r, "activity")' = Seen(r, "activity")
      BY <1>1, <1>7, <1>10, <1>12, <1>15 DEF Seen
    <2>2. Seen(r, "event")' = there
      BY <1>1, <1>7, <1>10, <1>12, <1>17, ZenonT(60) DEF Seen
    <2>3. ASSUME NEW e \in B, NEW s \in Sources, NEW y \in Seen(r, s)', entry[y].ts < entry[e].ts
          PROVE  y \in got \cup B
      <3>1. CASE s = "activity"
        BY <1>19, <2>1, <2>3, <3>1
      <3>2. CASE s = "event"
        BY <1>20, <2>2, <2>3, <3>2
      <3>. QED
        BY <1>14, <3>1, <3>2
    <2>. QED
      BY <1>1, <1>10, <1>12, <2>3 DEF Watermark
  <1>. QED
    BY <1>1, <1>12, <1>21, <1>23, <1>24, <1>25, <1>26 DEF RunInv

LEMMA PollSends ==
    ASSUME TypeOK, RowsInv, SendInv, NEW r \in Runs, PollStep(r)
    PROVE  SendGoal
  <1>0. LogOK /\ RestOK /\ RunsOK /\ LockInv /\ CursorInv /\ \A q \in Runs : RunInv(q)
    BY Parts DEF SendInv
  <1>1. PICK s \in Sources : Plant(r, s) \/ Poll(r, s)
    BY DEF PollStep
  <1>2. PICK owed : owed = Owed(s)'
    OBVIOUS
  <1>3. PICK P, n : PollGives(r, s, P, n, owed)
    BY <1>1, <1>2, PlantGives, PollGivesRows
  <1>4. /\ UNCHANGED <<entry, log, got, attested, alarm, lost, faults>> /\ run[r].pc = s
        /\ \A t \in Sources : planted[t] # 0 => planted'[t] = planted[t] /\ cursor'[t] = cursor[t]
        /\ CursorOK' /\ CursorInv' /\ CursorAttested' /\ AlarmsHaveCause'
    BY <1>3 DEF PollGives
  <1>5. /\ RunsOK' /\ RunInv(r)' /\ \A q \in Runs \ {r} : run'[q] = run[q]
        /\ lock' \in Runs \cup {None} /\ LockInv'
    <2>1. CASE EndRun(r)
      BY <1>0, <1>4, <2>1, Ended
    <2>2. CASE RunsOK' /\ RunInv(r)' /\ UNCHANGED lock /\ \A q \in Runs \ {r} : run'[q] = run[q]
      <3>1. run[r].pc # "idle"
        BY <1>4 DEF Sources
      <3>. QED
        BY <1>0, <1>4, <2>2, <3>1 DEF LockInv, RestOK
    <2>3. s = "activity" \/ s = "event"
      BY DEF Sources
    <2>. QED
      BY <1>3, <2>1, <2>2, <2>3, ActivitiesPolled, EventsPolled
  <1>6. \A q \in Runs : RunInv(q)'
    <2>1. ASSUME NEW q \in Runs \ {r} PROVE RunInv(q)'
      <3>1. run'[q] = run[q] /\ RunInv(q) /\ q \in Runs
        BY <1>0, <1>5
      <3>. QED
        BY <1>4, <3>1, OtherRun
    <2>. QED
      BY <1>5, <2>1
  <1>7. RestOK'
    BY <1>0, <1>4, <1>5 DEF RestOK, Entries, Sources
  <1>. QED
    BY <1>4, <1>5, <1>6, <1>7 DEF SendGoal, SendInv

(***************************************************************************)
(* The invariants of the specification                                     *)
(***************************************************************************)
LEMMA InitInv ==
    ASSUME Init
    PROVE  TypeOK /\ WriteInv /\ SendInv
  <1>1. /\ clock = 1 /\ chainLock = None /\ lock = None
        /\ entry = [e \in Entries |-> [pc |-> "idle", ts |-> 0, at |-> 0, prev |-> 0]]
        /\ log = [s \in Sources |-> << >>]
        /\ chainer = [c \in Chainers |-> [pc |-> "idle", batch |-> {}, head |-> 0]]
        /\ cursor = [s \in Sources |-> [ts |-> 0, id |-> 0]]
        /\ planted = [s \in Sources |-> 0]
        /\ run = [r \in Runs |-> NoRun]
        /\ got = {} /\ attested = {} /\ alarm = {} /\ lost = FALSE /\ faults = 0
    BY DEF Init
  <1>2. 1 \in 1..MaxClock /\ 0 \in 0..MaxClock /\ 0 \in 0..MaxFaults
    BY AuditAssumption
  <1>3. \A s \in Sources : log[s] = << >> /\ Len(log[s]) = 0 /\ DOMAIN log[s] = {} /\ Logged(s) = {}
    BY <1>1 DEF Logged
  <1>4. EntriesOK
    BY <1>1, <1>2 DEF EntriesOK
  <1>5. LogOK
    BY <1>1 DEF LogOK
  <1>6. ChainersOK
    BY <1>1 DEF ChainersOK
  <1>7. CursorOK
    BY <1>1, <1>2 DEF CursorOK
  <1>8. RunsOK
    BY <1>1, NoRunType DEF RunsOK
  <1>9. RestOK
    BY <1>1, <1>2 DEF RestOK
  <1>10. RowsInv
    <2>1. Begun = {}
      BY <1>1 DEF Begun
    <2>2. \A s \in Sources : {e \in Of(s) : entry[e].pc = "logged"} = {}
      BY <1>1 DEF Of, Entries
    <2>. QED
      BY <1>3, <2>1, <2>2, FS_EmptySet DEF RowsInv
  <1>11. WriteInv
    <2>1. \A c \in Chainers : c # None
      BY AuditAssumption
    <2>2. \A c \in Chainers : ChainerOwns(c)
      BY <1>1, <2>1 DEF ChainerOwns
    <2>3. ChainLinear
      BY <1>3 DEF ChainLinear
    <2>. QED
      BY <1>10, <2>2, <2>3 DEF WriteInv
  <1>12. \A s \in Sources : Owed(s) = {} /\ Passed(s) = {}
    BY <1>3 DEF Owed, Passed
  <1>13. ASSUME NEW r \in Runs PROVE RunInv(r)
    <2>1. /\ run[r].pc = "idle" /\ run[r].polled = {} /\ run[r].batch = {} /\ run[r].acked = {}
          /\ \A s \in Sources : run[r].seen[s] = 0
      BY <1>1, NoRunType
    <2>2. Held(r) = {}
      BY <2>1 DEF Held
    <2>. QED
      BY <1>3, <2>1, <2>2 DEF RunInv, HeldInv, Covers, Stretch, Filled, Watermark
  <1>14. CursorInv
    BY <1>1 DEF CursorInv
  <1>15. LockInv /\ CursorAttested /\ AlarmsHaveCause
    BY <1>1, <1>12, NoRunType DEF LockInv, CursorAttested, AlarmsHaveCause
  <1>. QED
    BY <1>4, <1>5, <1>6, <1>7, <1>8, <1>9, <1>11, <1>13, <1>14, <1>15, Parts DEF SendInv

\* While nothing is written, what holds of the rows stays.
LEMMA NothingWritten ==
    ASSUME TypeOK, WriteInv, UNCHANGED <<clock, writing>>
    PROVE  EntriesOK' /\ LogOK' /\ ChainersOK' /\ WriteInv'
  <1>0. EntriesOK /\ LogOK /\ ChainersOK
    BY Parts
  <1>1. UNCHANGED <<clock, entry, log, chainer, chainLock>>
    BY DEF writing
  <1>2. EntriesOK' /\ LogOK' /\ ChainersOK'
    BY <1>0, <1>1 DEF EntriesOK, LogOK, ChainersOK, Of, Entries, Sources
  <1>3. RowsInv'
    BY <1>1 DEF WriteInv, RowsInv, Begun, Logged, Of, Entries, Sources
  <1>4. ChainLinear'
    BY <1>1 DEF WriteInv, ChainLinear
  <1>5. \A c \in Chainers : ChainerOwns(c)'
    BY <1>1 DEF WriteInv, ChainerOwns, Queued, ChainHead
  <1>. QED
    BY <1>2, <1>3, <1>4, <1>5 DEF WriteInv

LEMMA NextInv ==
    ASSUME TypeOK, WriteInv, SendInv, [Next]_vars
    PROVE  TypeOK' /\ WriteInv' /\ SendInv'
  <1>0. CursorOK /\ RunsOK /\ RestOK /\ RowsInv /\ ChainLinear
    BY Parts DEF WriteInv
  <1>1. CASE Writes
    <2>1. WriteGoal
      BY <1>1, WritesKeep
    <2>2. UNCHANGED sending /\ (faults' = faults \/ Fault)
      BY <1>1 DEF Writes, Tick, Write, Stamp, LogActivity, Enqueue, ChainStep, Drain, AppendBatch, CrashChainer
    <2>3. CursorOK' /\ RunsOK' /\ SendInv'
      BY <2>1, <2>2, GrownSending
    <2>4. RestOK'
      <3>1. faults' \in 0..MaxFaults
        BY <1>0, <2>2, FaultType DEF RestOK
      <3>2. UNCHANGED <<lock, got, attested, alarm, lost>>
        BY <2>2 DEF sending
      <3>. QED
        BY <1>0, <3>1, <3>2 DEF RestOK, Entries, Sources
    <2>5. TypeOK'
      BY <2>1, <2>3, <2>4 DEF WriteGoal, TypeOK, EntriesOK, LogOK, ChainersOK, CursorOK, RunsOK, RunType, RestOK
    <2>. QED
      BY <2>1, <2>3, <2>5 DEF WriteGoal
  <1>2. ASSUME SendGoal, UNCHANGED <<clock, writing>>
        PROVE  TypeOK' /\ WriteInv' /\ SendInv'
    <2>1. EntriesOK' /\ LogOK' /\ ChainersOK' /\ WriteInv'
      BY <1>2, NothingWritten
    <2>2. CursorOK' /\ RunsOK' /\ RestOK' /\ SendInv'
      BY <1>2 DEF SendGoal
    <2>3. TypeOK'
      BY <2>1, <2>2 DEF TypeOK, EntriesOK, LogOK, ChainersOK, CursorOK, RunsOK, RunType, RestOK
    <2>. QED
      BY <2>1, <2>2, <2>3
  <1>3. CASE \E r \in Runs : RunStep(r)
    <2>1. PICK r \in Runs : RunStep(r)
      BY <1>3
    <2>2. UNCHANGED <<clock, writing>>
      BY <2>1 DEF RunStep, StartRun, PollStep, Plant, Poll, Preflight, Deliver, DeliverPart, Commit,
                  CrashRun, LoseLock
    <2>3. SendGoal
      BY <1>0, <2>1, StartRunSends, PollSends, PreflightSends, DeliverSends, CommitSends, CrashRunSends,
         LoseLockSends DEF RunStep
    <2>. QED
      BY <1>2, <2>2, <2>3
  <1>4. CASE UNCHANGED vars
    <2>1. /\ UNCHANGED <<clock, writing>>
          /\ UNCHANGED <<entry, log, cursor, planted, run, lock, got, attested, alarm, lost, faults>>
      BY <1>4 DEF vars, writing, sending
    <2>2. attested \subseteq got /\ LockInv /\ \A r \in Runs : RunInv(r)
      BY DEF SendInv, CursorAttested
    <2>3. CursorOK' /\ CursorInv' /\ CursorAttested' /\ AlarmsHaveCause'
      BY <2>1, <2>2, CursorsStay
    <2>4. \A r \in Runs : RunInv(r)'
      <3>1. ASSUME NEW r \in Runs PROVE RunInv(r)'
        BY <2>1, <2>2, OtherRun
      <3>. QED
        BY <3>1
    <2>5. LockInv' /\ RunsOK' /\ RestOK'
      BY <1>0, <2>1, <2>2 DEF LockInv, RunsOK, RunType, RestOK, Entries, Sources
    <2>6. SendGoal
      BY <2>3, <2>4, <2>5 DEF SendGoal, SendInv
    <2>. QED
      BY <1>2, <2>1, <2>6
  <1>. QED
    BY <1>1, <1>3, <1>4 DEF Next, Writes

LEMMA Invariants == Spec => [](TypeOK /\ WriteInv /\ SendInv)
  <1>1. Init => TypeOK /\ WriteInv /\ SendInv
    BY InitInv
  <1>2. TypeOK /\ WriteInv /\ SendInv /\ [Next]_vars => (TypeOK /\ WriteInv /\ SendInv)'
    BY NextInv
  <1>. QED
    BY <1>1, <1>2, PTL DEF Spec

\* Every variable has its type; a log holds rows of its own kind, and a cursor
\* stands on a row of its own log or on none.
THEOREM TypeCorrect == Spec => []TypeOK
  BY Invariants, PTL

\* No fork: whatever chains, runs or dies, every row of either log links to the
\* row before it (activity-logger.ts:508, audit-chainer-worker.ts:311).
THEOREM ChainNeverForks == Spec => []ChainLinear
  <1>1. WriteInv => ChainLinear
    BY DEF WriteInv
  <1>. QED
    BY <1>1, Invariants, PTL

\* A cursor passes nothing that is owed and not attested, and what is attested
\* was received, with or without the lock and whatever fails
\* (siem-delivery-worker.ts:649).
THEOREM CursorNeverSkips == Spec => []CursorAttested
  <1>1. SendInv => CursorAttested
    BY DEF SendInv
  <1>. QED
    BY <1>1, Invariants, PTL

\* An alarm that no tampering explains has one of the two causes named: a run
\* without its lock, or rows that were logged out of order
\* (siem-chain-verifier.ts, siem-delivery-preflight.ts).
THEOREM AlarmsExplained == Spec => []AlarmsHaveCause
  <1>1. SendInv => AlarmsHaveCause
    BY DEF SendInv
  <1>. QED
    BY <1>1, Invariants, PTL

\* What is about to be sent leaves nothing older behind that the run could have
\* seen, of either log (the safety watermark, siem-delivery-worker.ts:460).
THEOREM OldestGoFirst == Spec => []OldestFirst
  <1>1. TypeOK /\ SendInv => OldestFirst
    <2>1. ASSUME TypeOK, SendInv, NEW r \in Runs, run[r].pc = "deliver", NEW e \in run[r].batch,
                 NEW s \in Sources, NEW i \in 1..run[r].seen[s],
                 log[s][i] \in Owed(s), entry[log[s][i]].ts < entry[e].ts
          PROVE  log[s][i] \in got \cup run[r].batch
      <3>1. Watermark(r)
        BY <2>1 DEF SendInv, RunInv
      <3>2. log[s][i] \in Seen(r, s)
        BY <2>1 DEF Seen
      <3>. QED
        BY <2>1, <3>1, <3>2 DEF Watermark
    <2>. QED
      BY <2>1 DEF OldestFirst
  <1>. QED
    BY <1>1, Invariants, PTL
==============================================================================
