---------------------------- MODULE Batch_proofs ----------------------------
(***************************************************************************)
(* Theorems about Batch and the counter in it: for any invocations, pairs, *)
(* subjects and token counters, and processes that raise, are stopped or   *)
(* die at any step.                                                        *)
(***************************************************************************)
EXTENDS Batch, FiniteSetTheorems, TLAPS

\* An invocation reserves its index in a batch as it would alone.
LEMMA CounterGoesOn == Spec \/ BatchSpec => Init /\ [][Next]_vars
<1>1. [BatchNext]_batchVars => [Next]_vars
  BY DEF BatchNext, batchVars, Reserving, BatchStep, Begin, Size, Load, OpenJsonl, WriteJsonl,
         OpenProfile, WriteProfile, OpenSummary, WriteSummary, RunRaises, Stopped, Over, Next
<1> QED
  BY <1>1, PTL DEF Spec, BatchSpec, BatchInit

-----------------------------------------------------------------------------
(* The counter.                                                            *)

Holding == {"locked", "read", "truncated", "written"}

(***************************************************************************)
(* The lock is held by exactly the invocation inside the file; what it has *)
(* read is what the file says, and the file, or the index about to be      *)
(* written, is beyond every index handed out.                              *)
(***************************************************************************)
OneInside ==
    /\ TypeOK
    /\ \A i \in Invocations : pc[i] \in Holding <=> lock = i
    /\ \A i \in Invocations : pc[i] \in {"read", "truncated", "written", "reserved"} =>
          index[i] \in Nat
    /\ ~torn =>
       /\ \A i \in Invocations : pc[i] = "truncated" => file = None
       /\ \A i \in Invocations : pc[i] = "written" => file = index[i] + 1
       /\ \A i \in Invocations : pc[i] = "read" =>
             index[i] = IF file = None THEN 0 ELSE file
       /\ \A i \in Invocations : pc[i] \in {"read", "truncated", "written"} =>
             \A j \in Reserved : index[j] < index[i]
       /\ file = None /\ ~(\E i \in Invocations : pc[i] = "truncated") => Reserved = {}
       /\ CounterAhead
       /\ Distinct

\* OneInside holds at the beginning.
LEMMA InsideInit == Init => OneInside
BY RotationAssumption DEF Init, OneInside, TypeOK, Holding, Reserved, CounterAhead, Distinct

\* No invocation but the one inside the file touches it.
LEMMA InsideNext == OneInside /\ [Next]_vars => OneInside'
<1> SUFFICES ASSUME OneInside, [Next]_vars PROVE OneInside'
  OBVIOUS
<1> USE RotationAssumption DEF OneInside, TypeOK, Holding, Reserved, CounterAhead, Distinct
<1>0. ASSUME NEW i \in Invocations, Replay(i) PROVE OneInside'
  BY <1>0 DEF Replay, Move
<1>1. ASSUME NEW i \in Invocations, Lock(i) PROVE OneInside'
  BY <1>1 DEF Lock, Move
<1>2. ASSUME NEW i \in Invocations, Read(i) PROVE OneInside'
  BY <1>2 DEF Read, Move
<1>3. ASSUME NEW i \in Invocations, Truncate(i) PROVE OneInside'
  BY <1>3 DEF Truncate, Move
<1>4. ASSUME NEW i \in Invocations, Write(i) PROVE OneInside'
  BY <1>4 DEF Write, Move
<1>5. ASSUME NEW i \in Invocations, Close(i) PROVE OneInside'
  BY <1>5 DEF Close, Move
<1>6. ASSUME NEW i \in Invocations, Die(i) PROVE OneInside'
  BY <1>6 DEF Die, Move
<1>7. CASE Ended \/ UNCHANGED vars
  BY <1>7 DEF Ended, vars
<1> QED
  BY <1>0, <1>1, <1>2, <1>3, <1>4, <1>5, <1>6, <1>7 DEF Next, Work

\* The counter and its users are well formed, the counter is beyond every index
\* handed out, and no two live invocations run the same rotation.
THEOREM RotationsDiffer ==
    Spec \/ BatchSpec => []TypeOK /\ []CounterAhead /\ []Distinct
<1>1. OneInside => TypeOK /\ CounterAhead /\ Distinct
  <2> SUFFICES ASSUME OneInside PROVE CounterAhead /\ Distinct
    BY DEF OneInside
  <2> QED
    BY DEF OneInside, CounterAhead, Distinct
<1> QED
  BY CounterGoesOn, InsideInit, InsideNext, <1>1, PTL

(***************************************************************************)
(* As long as nobody died, every number below an index that was handed out *)
(* has been handed out as well.                                            *)
(***************************************************************************)
Taken(x) == \E j \in Reserved : index[j] = x

Gapless ==
    (\A i \in Invocations : pc[i] # "dead") =>
    /\ ~torn
    /\ \A i \in Invocations : pc[i] \in {"read", "truncated", "written", "reserved"} =>
          \A x \in Nat : x < index[i] => Taken(x)
    /\ file # None /\ ~(\E i \in Invocations : pc[i] = "written") =>
          \A x \in Nat : x < file => Taken(x)

LEMMA GaplessInit == Init => Gapless
BY DEF Init, Gapless

LEMMA GaplessNext == OneInside /\ Gapless /\ [Next]_vars => Gapless'
<1> SUFFICES ASSUME OneInside, Gapless, [Next]_vars, \A i \in Invocations : pc'[i] # "dead"
             PROVE  Gapless'
  BY DEF Gapless
<1>0. /\ \A i \in Invocations : pc[i] # "dead"
      /\ ~torn
  <2>1. \A i \in Invocations : pc[i] # "dead"
    BY DEF Next, Work, Replay, Lock, Read, Truncate, Write, Close, Die, Move, Ended, vars,
           OneInside, TypeOK
  <2> QED
    BY <2>1 DEF Gapless
<1> USE RotationAssumption, <1>0 DEF OneInside, TypeOK, Holding, Reserved, Gapless, Taken
<1>1. ASSUME NEW i \in Invocations, Replay(i) PROVE Gapless'
  BY <1>1 DEF Replay, Move
<1>2. ASSUME NEW i \in Invocations, Lock(i) PROVE Gapless'
  BY <1>2 DEF Lock, Move
<1>3. ASSUME NEW i \in Invocations, Read(i) PROVE Gapless'
  BY <1>3 DEF Read, Move
<1>4. ASSUME NEW i \in Invocations, Truncate(i) PROVE Gapless'
  BY <1>4 DEF Truncate, Move
<1>5. ASSUME NEW i \in Invocations, Write(i) PROVE Gapless'
  BY <1>5 DEF Write, Move
<1>6. ASSUME NEW i \in Invocations, Close(i) PROVE Gapless'
  <2>1. /\ pc[i] = "written" /\ index' = index /\ file' = file /\ torn' = torn
        /\ pc'[i] = "reserved" /\ \A j \in Invocations \ {i} : pc'[j] = pc[j]
        /\ file = index[i] + 1 /\ index[i] \in Nat
    BY <1>6 DEF Close, Move
  <2>2. \A x : Taken(x) => Taken(x)'
    BY <2>1
  <2>3. Taken(index[i])'
    BY <2>1
  <2>4. \A x \in Nat : x < file => x < index[i] \/ x = index[i]
    BY <2>1
  <2>5. \A x \in Nat : x < file => Taken(x)'
    <3> HIDE DEF Taken
    <3> QED
      BY <2>1, <2>2, <2>3, <2>4
  <2>6. ASSUME NEW j \in Invocations, pc'[j] \in {"read", "truncated", "written", "reserved"},
               NEW x \in Nat, x < index[j]
        PROVE  Taken(x)'
    <3>1. pc[j] \in {"read", "truncated", "written", "reserved"}
      BY <2>1, <2>6
    <3>2. Taken(x)
      <4> HIDE DEF Taken
      <4> QED
        BY <2>6, <3>1
    <3> QED
      BY <2>2, <3>2
  <2> QED
    BY <2>1, <2>5, <2>6
<1>7. ASSUME NEW i \in Invocations, Die(i) PROVE FALSE
  BY <1>7 DEF Die, Move
<1>8. CASE Ended \/ UNCHANGED vars
  BY <1>8 DEF Ended, vars
<1> QED
  BY <1>1, <1>2, <1>3, <1>4, <1>5, <1>6, <1>7, <1>8 DEF Next, Work

-----------------------------------------------------------------------------
(* Sizing a prompt.                                                        *)

\* A finite or infinite set of numbers has a least member.
LEMMA LeastOf ==
    ASSUME NEW S \in SUBSET Nat, S # {}
    PROVE  Min(S) \in S /\ \A y \in S : Min(S) <= y
<1>1. PICK x \in S : \A y \in S : ~(<<y, x>> \in OpToRel(<, Nat))
  BY NatLessThanWellFounded, WFMin
<1>2. ASSUME NEW y \in S, y < x PROVE FALSE
  <2>1. <<y, x>> \in OpToRel(<, Nat)
    BY <1>2 DEF OpToRel
  <2> QED
    BY <1>1, <2>1
<1>3. \A y \in S : x <= y
  BY <1>2
<1> QED
  BY <1>3 DEF Min

\* f has the value a for 1, and for a later k what next says of k and f[k - 1].
Iterates(f, a, next, m) == \A k \in 1..m : f[k] = IF k = 1 THEN a ELSE next[<<k, f[k - 1]>>]

\* Tried and Closest are defined by recursion: an iteration exists, however long,
\* or the shortest that does not could be made from the one before it.
LEMMA IterationExists ==
    ASSUME NEW S, NEW a \in S, NEW next \in [Nat \X S -> S]
    PROVE  \A m \in Nat : \E f \in [1..m -> S] : Iterates(f, a, next, m)
<1> DEFINE Bad == {m \in Nat : \A f \in [1..m -> S] : ~Iterates(f, a, next, m)}
<1> SUFFICES ASSUME Bad # {} PROVE FALSE
  OBVIOUS
<1>1. Min(Bad) \in Bad /\ \A y \in Bad : Min(Bad) <= y
  BY LeastOf
<1> DEFINE m == Min(Bad)
<1> HIDE DEF m
<1>2. /\ m \in Nat /\ (\A f \in [1..m -> S] : ~Iterates(f, a, next, m))
      /\ \A n \in Nat : n < m => \E f \in [1..n -> S] : Iterates(f, a, next, n)
  <2>1. m \in Bad /\ \A y \in Bad : m <= y
    BY <1>1 DEF m
  <2>2. m \in Nat /\ \A f \in [1..m -> S] : ~Iterates(f, a, next, m)
    BY <2>1
  <2>3. ASSUME NEW n \in Nat, n < m PROVE \E f \in [1..n -> S] : Iterates(f, a, next, n)
    <3>1. ~(m <= n)
      BY <2>2, <2>3
    <3>2. n \notin Bad
      BY <2>1, <3>1
    <3> QED
      BY <3>2
  <2> QED
    BY <2>2, <2>3
<1>3. m # 0
  <2> SUFFICES ASSUME m = 0 PROVE FALSE
    OBVIOUS
  <2> DEFINE none == [k \in 1..0 |-> a]
  <2>1. none \in [1..0 -> S] /\ Iterates(none, a, next, 0)
    BY DEF Iterates
  <2> QED
    BY <1>2, <2>1
<1>4. PICK g \in [1..(m - 1) -> S] : Iterates(g, a, next, m - 1)
  BY <1>2, <1>3
<1> DEFINE last == IF m = 1 THEN a ELSE next[<<m, g[m - 1]>>]
           longer == [k \in 1..m |-> IF k < m THEN g[k] ELSE last]
<1>5. last \in S
  <2>1. CASE m = 1
    BY <2>1
  <2>2. CASE m # 1
    <3>1. m - 1 \in 1..(m - 1)
      BY <1>2, <1>3, <2>2
    <3> QED
      BY <1>2, <1>4, <2>2, <3>1
  <2> QED
    BY <2>1, <2>2
<1>6. longer \in [1..m -> S]
  BY <1>2, <1>4, <1>5
<1>7. ASSUME NEW k \in 1..m
      PROVE  longer[k] = IF k = 1 THEN a ELSE next[<<k, longer[k - 1]>>]
  <2>1. k = 1 \/ (k - 1 \in 1..m /\ k - 1 < m /\ longer[k - 1] = g[k - 1])
    BY <1>2
  <2>2. CASE k < m
    <3>1. k \in 1..(m - 1) /\ longer[k] = g[k]
      BY <1>2, <2>2
    <3>2. g[k] = IF k = 1 THEN a ELSE next[<<k, g[k - 1]>>]
      BY <1>4, <3>1 DEF Iterates
    <3> QED
      BY <2>1, <3>1, <3>2
  <2>3. CASE ~(k < m)
    <3>1. k = m /\ longer[k] = last
      BY <1>2, <2>3
    <3> QED
      BY <2>1, <3>1
  <2> QED
    BY <2>2, <2>3
<1>8. Iterates(longer, a, next, m)
  <2> HIDE DEF longer
  <2> QED
    BY <1>7 DEF Iterates
<1> QED
  BY <1>2, <1>6, <1>8

\* A number of characters, or none.
Chars == Nat \cup {Stop}

\* Numbers of tokens are counted, and their distance from the target with them.
LEMMA CountsAreNumbers ==
    ASSUME NEW p \in Providers, NEW t \in Nat \ {0}, NEW c \in Nat
    PROVE  Count(p, c) \in Nat /\ Error(p, t, c) \in Nat
<1>1. p.suffix \in Nat /\ p.per \in Nat \ {0} /\ p.grain \in Nat \ {0}
  BY BatchAssumption
<1>2. Padding(c) \in Nat
  BY DEF Padding, Bigger
<1>3. p.per * p.grain \in Nat \ {0}
  BY <1>1
<1>4. Padding(c) \div (p.per * p.grain) \in Nat
  BY <1>2, <1>3
<1>5. p.grain * (Padding(c) \div (p.per * p.grain)) \in Nat
  BY <1>1, <1>4
<1>6. Count(p, c) \in Nat
  BY <1>1, <1>5 DEF Count
<1> QED
  BY <1>6 DEF Error, Distance

\* What is tried is a length that a prompt can have.
LEMMA AfterIsLength ==
    ASSUME NEW p \in Providers, NEW t \in Nat \ {0}, NEW c \in Chars
    PROVE  After(p, t, c) \in Chars
<1> SUFFICES ASSUME c \in Nat, Count(p, c) # 0, ~Sized(p, t, c)
             PROVE  NextTry(p, t, c) \in Chars
  BY DEF After, Chars, NextTry, Stop
<1>1. \A n \in Int : Within(t, n) \in Nat
  BY DEF Within, Bigger
<1>2. Count(p, c) \in Nat \ {0}
  BY CountsAreNumbers
<1>3. \A n \in Nat, d \in Nat \ {0} : Round(n, d) \in Int
  BY DEF Round
<1>4. c * t \in Nat
  OBVIOUS
<1>5. Rescaled(p, t, c) \in Int
  BY <1>2, <1>3, <1>4 DEF Rescaled
<1>6. Nudged(p, t, c) \in Int
  BY DEF Nudged, Bigger
<1>7. Within(t, Rescaled(p, t, c)) \in Nat /\ Within(t, Nudged(p, t, c)) \in Nat
  BY <1>1, <1>5, <1>6
<1> QED
  BY <1>7 DEF NextTry, Chars, Stop

Lengths == [Providers -> [Subjects -> Chars]]

\* The attempts are made as calibrate_profile makes them.
LEMMA TriedOf ==
    ASSUME NEW k \in 1..Iterations, NEW p \in Providers, NEW s \in Subjects
    PROVE  /\ Tried[k][p][s] = IF k = 1 THEN Estimated(Target[s])
                               ELSE After(p, Target[s], Tried[k - 1][p][s])
           /\ Tried[k][p][s] \in Chars
<1>0. \A q \in Subjects : Target[q] \in Nat \ {0} /\ Estimated(Target[q]) \in Chars
  BY BatchAssumption DEF Estimated, Chars
<1> DEFINE try(f, j) == [q \in Providers |-> [u \in Subjects |->
                           IF j = 1 THEN Estimated(Target[u])
                           ELSE After(q, Target[u], f[j - 1][q][u])]]
           one  == [q \in Providers |-> [u \in Subjects |-> Estimated(Target[u])]]
           more == [x \in Nat \X Lengths |->
                      [q \in Providers |-> [u \in Subjects |-> After(q, Target[u], x[2][q][u])]]]
<1>1. one \in Lengths
  BY <1>0 DEF Lengths
<1>2. more \in [Nat \X Lengths -> Lengths]
  <2> SUFFICES ASSUME NEW x \in Nat \X Lengths, NEW q \in Providers, NEW u \in Subjects
               PROVE  After(q, Target[u], x[2][q][u]) \in Chars
    BY DEF Lengths
  <2>1. x[2][q][u] \in Chars
    BY DEF Lengths
  <2> QED
    BY <1>0, <2>1, AfterIsLength
<1>3. PICK f \in [1..Iterations -> Lengths] : Iterates(f, one, more, Iterations)
  <2> HIDE DEF one, more
  <2>1. Iterations \in Nat
    BY DEF Iterations
  <2> QED
    BY <1>1, <1>2, <2>1, IterationExists
<1>4. ASSUME NEW j \in 1..Iterations PROVE f[j] = try(f, j)
  <2>1. f[j] = IF j = 1 THEN one ELSE more[<<j, f[j - 1]>>]
    <3> HIDE DEF one, more
    <3> QED
      BY <1>3 DEF Iterates
  <2>2. CASE j = 1
    BY <2>1, <2>2
  <2>3. CASE j # 1
    <3>1. j - 1 \in 1..Iterations /\ j \in Nat
      BY <2>3 DEF Iterations
    <3>2. <<j, f[j - 1]>> \in Nat \X Lengths
      BY <1>3, <3>1
    <3> QED
      BY <2>1, <2>3, <3>2
  <2> QED
    BY <2>2, <2>3
<1>5. f = [j \in 1..Iterations |-> try(f, j)]
  <2> HIDE DEF try
  <2> QED
    BY <1>3, <1>4
<1>6. Tried = [j \in 1..Iterations |-> try(Tried, j)]
  BY <1>5 DEF Tried
<1>7. \A j \in 1..Iterations : Tried[j] = try(Tried, j)
  <2> HIDE DEF try
  <2> QED
    BY <1>6
<1>8. \A j \in 1..Iterations, q \in Providers, u \in Subjects :
         Tried[j][q][u] = IF j = 1 THEN Estimated(Target[u])
                          ELSE After(q, Target[u], Tried[j - 1][q][u])
  <2> SUFFICES ASSUME NEW j \in 1..Iterations, NEW q \in Providers, NEW u \in Subjects
               PROVE  Tried[j][q][u] = IF j = 1 THEN Estimated(Target[u])
                                       ELSE After(q, Target[u], Tried[j - 1][q][u])
    OBVIOUS
  <2>1. Tried[j] = try(Tried, j)
    BY <1>7
  <2>2. try(Tried, j)[q][u] = IF j = 1 THEN Estimated(Target[u])
                              ELSE After(q, Target[u], Tried[j - 1][q][u])
    OBVIOUS
  <2> QED
    BY <2>1, <2>2
<1>9. Tried[k][p][s] \in Chars
  <2> DEFINE Bad == {j \in 1..Iterations : Tried[j][p][s] \notin Chars}
  <2> SUFFICES ASSUME Bad # {} PROVE FALSE
    OBVIOUS
  <2>1. Min(Bad) \in Bad /\ \A y \in Bad : Min(Bad) <= y
    BY LeastOf DEF Iterations
  <2> DEFINE m == Min(Bad)
  <2> HIDE DEF m
  <2>2. m \in 1..Iterations /\ Tried[m][p][s] \notin Chars /\ (m = 1 \/ m - 1 \notin Bad)
    BY <2>1 DEF m, Iterations
  <2>3. m = 1 \/ Tried[m - 1][p][s] \in Chars
    BY <2>2 DEF Iterations
  <2> QED
    BY <1>0, <1>8, <2>2, <2>3, AfterIsLength
<1> QED
  BY <1>8, <1>9

\* The closest attempt is chosen as calibrate_profile chooses it.
LEMMA ClosestOf ==
    ASSUME NEW k \in 1..Iterations, NEW p \in Providers, NEW s \in Subjects
    PROVE  Closest[k][p][s] = IF k = 1 THEN Tried[1][p][s]
                              ELSE Better(p, Target[s], Closest[k - 1][p][s], Tried[k][p][s])
<1> DEFINE choose(f, j) == [q \in Providers |-> [u \in Subjects |->
                              IF j = 1 THEN Tried[1][q][u]
                              ELSE Better(q, Target[u], f[j - 1][q][u], Tried[j][q][u])]]
           one  == [q \in Providers |-> [u \in Subjects |-> Tried[1][q][u]]]
           at_(x) == IF x \in 1..Iterations THEN x ELSE 1
           more == [x \in Nat \X Lengths |->
                      [q \in Providers |-> [u \in Subjects |->
                         Better(q, Target[u], x[2][q][u], Tried[at_(x[1])][q][u])]]]
<1>0. \A j \in 1..Iterations, q \in Providers, u \in Subjects : Tried[j][q][u] \in Chars
  BY TriedOf
<1>1. one \in Lengths
  BY <1>0 DEF Lengths, Iterations
<1>2. more \in [Nat \X Lengths -> Lengths]
  <2> SUFFICES ASSUME NEW x \in Nat \X Lengths, NEW q \in Providers, NEW u \in Subjects
               PROVE  Better(q, Target[u], x[2][q][u], Tried[at_(x[1])][q][u]) \in Chars
    BY DEF Lengths
  <2>1. x[2][q][u] \in Chars
    BY DEF Lengths
  <2>2. at_(x[1]) \in 1..Iterations
    BY DEF Iterations
  <2>3. Tried[at_(x[1])][q][u] \in Chars
    <3> HIDE DEF at_
    <3> QED
      BY <1>0, <2>2
  <2> QED
    BY <2>1, <2>3 DEF Better
<1>3. PICK f \in [1..Iterations -> Lengths] : Iterates(f, one, more, Iterations)
  <2> HIDE DEF one, more
  <2>1. Iterations \in Nat
    BY DEF Iterations
  <2> QED
    BY <1>1, <1>2, <2>1, IterationExists
<1>4. ASSUME NEW j \in 1..Iterations PROVE f[j] = choose(f, j)
  <2>1. f[j] = IF j = 1 THEN one ELSE more[<<j, f[j - 1]>>]
    <3> HIDE DEF one, more
    <3> QED
      BY <1>3 DEF Iterates
  <2>2. CASE j = 1
    BY <2>1, <2>2
  <2>3. CASE j # 1
    <3>1. j - 1 \in 1..Iterations /\ j \in Nat
      BY <2>3 DEF Iterations
    <3>2. <<j, f[j - 1]>> \in Nat \X Lengths
      BY <1>3, <3>1
    <3>3. at_(j) = j
      OBVIOUS
    <3> QED
      BY <2>1, <2>3, <3>2, <3>3
  <2> QED
    BY <2>2, <2>3
<1>5. f = [j \in 1..Iterations |-> choose(f, j)]
  <2> HIDE DEF choose
  <2> QED
    BY <1>3, <1>4
<1>6. Closest = [j \in 1..Iterations |-> choose(Closest, j)]
  BY <1>5 DEF Closest
<1>7. Closest[k] = choose(Closest, k)
  <2> HIDE DEF choose
  <2> QED
    BY <1>6
<1>8. choose(Closest, k)[p][s] = IF k = 1 THEN Tried[1][p][s]
                     ELSE Better(p, Target[s], Closest[k - 1][p][s], Tried[k][p][s])
  OBVIOUS
<1> QED
  BY <1>7, <1>8

\* What is kept after k attempts is at least as close as each of them.
LEMMA KeptIsClosest ==
    ASSUME NEW k \in 1..Iterations, NEW p \in Providers, NEW s \in Subjects
    PROVE  /\ Closest[k][p][s] \in Nat
           /\ \A j \in 1..k : Tried[j][p][s] # Stop =>
                 Error(p, Target[s], Closest[k][p][s]) <= Error(p, Target[s], Tried[j][p][s])
<1> DEFINE kept(n)  == Closest[n][p][s]
           tried(n) == Tried[n][p][s]
           off(c)   == Error(p, Target[s], c)
           Best(n)  == /\ kept(n) \in Nat
                       /\ \A j \in 1..n : tried(j) # Stop => off(kept(n)) <= off(tried(j))
           Bad      == {n \in 1..Iterations : ~Best(n)}
<1>0. Target[s] \in Nat \ {0}
  BY BatchAssumption
<1>1. \A n \in 1..Iterations : tried(n) \in Chars
  BY TriedOf
<1>2. \A c \in Nat : off(c) \in Nat
  BY <1>0, CountsAreNumbers
<1>3. tried(1) = 4 * Target[s] /\ kept(1) = tried(1)
  BY TriedOf, ClosestOf DEF Iterations, Estimated
<1>4. \A n \in 1..Iterations : n # 1 => kept(n) = Better(p, Target[s], kept(n - 1), tried(n))
  BY ClosestOf
<1> SUFFICES ASSUME Bad # {} PROVE FALSE
  OBVIOUS
<1>5. Min(Bad) \in Bad /\ \A y \in Bad : Min(Bad) <= y
  <2>1. Bad \in SUBSET Nat
    BY DEF Iterations
  <2> HIDE DEF Bad
  <2> QED
    BY <2>1, LeastOf
<1> DEFINE m == Min(Bad)
<1> HIDE DEF m
<1>6. m \in 1..Iterations /\ ~Best(m) /\ (m # 1 => Best(m - 1))
  <2>1. m \in Bad /\ \A y \in Bad : m <= y
    BY <1>5 DEF m
  <2>2. m \in 1..Iterations /\ m - 1 \notin Bad
    BY <2>1 DEF Iterations
  <2>3. m # 1 => m - 1 \in 1..Iterations
    BY <2>2 DEF Iterations
  <2> HIDE DEF Best
  <2> QED
    BY <2>1, <2>2, <2>3
<1> HIDE DEF kept, tried, off
<1>7. CASE m = 1
  <2>1. kept(1) \in Nat
    BY <1>0, <1>3
  <2>2. \A j \in 1..1 : off(kept(1)) <= off(tried(j))
    BY <1>2, <1>3, <2>1
  <2> QED
    BY <1>6, <1>7, <2>1, <2>2
<1>8. CASE m # 1
  <2>1. /\ kept(m - 1) \in Nat
        /\ \A j \in 1..(m - 1) : tried(j) # Stop => off(kept(m - 1)) <= off(tried(j))
    BY <1>6, <1>8
  <2>2. kept(m) = IF tried(m) # Stop /\ off(tried(m)) < off(kept(m - 1)) THEN tried(m)
                  ELSE kept(m - 1)
    BY <1>4, <1>6, <1>8 DEF Better, off, kept, tried
  <2>3. tried(m) = Stop \/ tried(m) \in Nat
    BY <1>1, <1>6 DEF Chars
  <2>4. m \in Nat
    BY <1>6 DEF Iterations
  <2>5. kept(m) \in Nat
    BY <2>1, <2>2, <2>3
  <2>6. off(kept(m)) <= off(kept(m - 1)) /\ (tried(m) # Stop => off(kept(m)) <= off(tried(m)))
    BY <1>2, <2>1, <2>2, <2>3
  <2>7. ASSUME NEW j \in 1..m, tried(j) # Stop PROVE off(kept(m)) <= off(tried(j))
    <3>1. CASE j = m
      BY <2>6, <2>7, <3>1
    <3>2. CASE j # m
      <4>1. j \in 1..(m - 1) /\ j \in 1..Iterations
        BY <1>6, <2>4, <3>2 DEF Iterations
      <4>2. tried(j) \in Nat
        BY <1>1, <2>7, <4>1 DEF Chars
      <4>3. off(kept(m - 1)) <= off(tried(j))
        BY <2>1, <2>7, <4>1
      <4> QED
        BY <1>2, <2>1, <2>5, <2>6, <4>2, <4>3
    <3> QED
      BY <3>1, <3>2
  <2> QED
    BY <1>6, <2>5, <2>7
<1> QED
  BY <1>7, <1>8

\* The prompt of a subject says how it was sized, and truly.
LEMMA PromptsAreClosest ==
    ASSUME NEW p \in Providers, NEW s \in Subjects, NEW r \in Raises
    PROVE  LET prompt == Prompts[p][s][r]
           IN  IF prompt.method = "estimate" THEN prompt.chars = 4 * Target[s]
               ELSE /\ \A k \in Attempts(p, s) :
                          Error(p, Target[s], prompt.chars) <= Error(p, Target[s], Tried[k][p][s])
                    /\ prompt.converged <=> Sized(p, Target[s], prompt.chars)
<1> DEFINE method == Resolve(Strategy, p)
           chars  == Closest[Iterations][p][s]
<1>1. Prompts[p][s][r] = Prompt(p, s, r)
  BY DEF Prompts
<1>2. CASE method = "estimate" \/ r \in Attempts(p, s)
  <2>1. Prompt(p, s, r) = [method |-> "estimate", chars |-> 4 * Target[s], converged |-> FALSE]
    BY <1>2 DEF Prompt, Unsized, Estimated
  <2> QED
    BY <1>1, <2>1
<1>3. CASE ~(method = "estimate" \/ r \in Attempts(p, s))
  <2>1. Prompt(p, s, r) = [method |-> method, chars |-> chars,
                           converged |-> Sized(p, Target[s], chars)]
    BY <1>3 DEF Prompt
  <2>2. \A k \in Attempts(p, s) : Error(p, Target[s], chars) <= Error(p, Target[s], Tried[k][p][s])
    <3>1. Iterations \in 1..Iterations
      BY DEF Iterations
    <3> QED
      BY <3>1, KeptIsClosest DEF Attempts
  <2> HIDE DEF method, chars
  <2>3. Prompt(p, s, r).method = method /\ Prompt(p, s, r).chars = chars
        /\ Prompt(p, s, r).converged = Sized(p, Target[s], chars)
    BY <2>1
  <2> QED
    BY <1>1, <1>3, <2>2, <2>3
<1> QED
  BY <1>2, <1>3
-----------------------------------------------------------------------------
(* The search for a prompt of the right size, in numbers.  A prompt of c     *)
(* characters is counted as n tokens: s for the instruction after it, and    *)
(* one for every `per` characters.  The target t is met by C = per * (t - s) *)
(* of them; d = c * t / n, rounded, is tried next.                           *)

Counted(s, per, c, n) == per * (n - s) <= c /\ c <= per * (n - s) + per
Scaled(t, c, n, d)    == 2 * c * t - n <= 2 * n * d /\ 2 * n * d <= 2 * c * t + n

\* c is below C by no more than b / a of c, and a little.
Below(a, b, v, C, c)  == 2 * a * (C - c) <= 2 * b * c + v

\* Both sides of an inequality are multiplied ...
LEMMA NoLess ==
    ASSUME NEW a \in Int, NEW b \in Int, NEW m \in Nat, a <= b
    PROVE  m * a <= m * b
  BY SMT

\* ... and divided.
LEMMA Cancel ==
    ASSUME NEW a \in Int, NEW b \in Int, NEW m \in Nat \ {0}, m * a <= m * b
    PROVE  a <= b
<1> SUFFICES ASSUME b <= a - 1 PROVE FALSE
  OBVIOUS
<1>1. m * b <= m * (a - 1)
  BY NoLess
<1>2. m * (a - 1) = m * a - m
  OBVIOUS
<1> QED
  BY <1>1, <1>2

\* What a round makes of the distance c - C.
LEMMA Exchange ==
    ASSUME NEW t \in Int, NEW s \in Int, NEW per \in Int, NEW c \in Int, NEW n \in Int
    PROVE  c * t - per * (t - s) * n = s * (c - per * (t - s)) + (t - s) * (c - per * (n - s))
  OBVIOUS

\* Above the target a round halves what is too long, but for a token, and does
\* not go below it.
LEMMA OverOnce ==
    ASSUME NEW t \in Nat, NEW s \in Nat, NEW per \in Nat, 2 * s <= t,
           NEW c \in Nat, NEW n \in Nat, NEW d \in Nat,
           Counted(s, per, c, n), Scaled(t, c, n, d), n >= t + 2
    PROVE  /\ d >= per * (t - s)
           /\ 2 * (d - per * (t - s) - per - 1) <= c - per * (t - s) - per - 1
<1> DEFINE C == per * (t - s)
           x == c - per * (n - s)
           H == c - C - per
<1>1. C \in Nat /\ x \in 0..per /\ H \in Int
  BY DEF Counted
<1>2. H >= 0
  <2>1. per * (n - s) >= per * (t + 2 - s)
    BY NoLess
  <2>2. per * (t + 2 - s) = C + 2 * per
    OBVIOUS
  <2>3. c >= per * (n - s)
    BY DEF Counted
  <2> QED
    BY <1>1, <2>1, <2>2, <2>3
<1>3. c * t - C * n = s * (H + per) + (t - s) * x
  BY Exchange
<1>4. s * (H + per) \in Nat /\ (t - s) * x \in Nat /\ n * C \in Nat /\ n * d \in Nat /\ n \in Nat \ {0}
  BY <1>1, <1>2
<1>5. d >= C
  <2> SUFFICES ASSUME d <= C - 1 PROVE FALSE
    BY <1>1
  <2>1. n * d <= n * (C - 1)
    BY <1>1, NoLess
  <2>2. n * (C - 1) = n * C - n
    BY <1>1
  <2>3. 2 * (c * t) - n <= 2 * (n * d)
    BY DEF Scaled
  <2>4. c * t = C * n + s * (H + per) + (t - s) * x
    BY <1>1, <1>3
  <2> HIDE DEF C, x, H
  <2>5. C * n = n * C
    BY <1>1
  <2> QED
    BY <1>1, <1>4, <2>1, <2>2, <2>3, <2>4, <2>5
<1>6. 2 * (d - C - per) - 1 <= H
  <2>1. 2 * s * (H + per) <= t * H + 2 * s * per
    <3>1. (2 * s) * H <= t * H
      BY <1>1, <1>2, NoLess
    <3> QED
      BY <1>1, <3>1
  <2>2. 2 * (t - s) * x <= 2 * (t - s) * per
    BY <1>1, NoLess
  <2>3. 2 * (n * (d - C)) <= t * H + 2 * s * per + 2 * (t - s) * per + n
    <3>1. 2 * (n * d) <= 2 * (c * t) + n
      BY DEF Scaled
    <3>2. n * (d - C) = n * d - C * n
      BY <1>1
    <3> HIDE DEF C, x, H
    <3> QED
      BY <1>1, <1>3, <1>4, <2>1, <2>2, <3>1, <3>2
  <2>4. t * H + 2 * s * per + 2 * (t - s) * per = t * (H + 2 * per)
    BY <1>1
  <2>5. t * (H + 2 * per) <= n * (H + 2 * per)
    BY <1>1, <1>2, NoLess
  <2>6. n * (2 * (d - C) - 1) <= n * (H + 2 * per)
    <3> HIDE DEF C, x, H
    <3>1. n * (2 * (d - C) - 1) = 2 * (n * (d - C)) - n
      BY <1>1
    <3>2. 2 * (n * (d - C)) \in Int /\ t * (H + 2 * per) \in Int /\ n * (H + 2 * per) \in Int
      BY <1>1
    <3> QED
      BY <1>1, <2>3, <2>4, <2>5, <3>1, <3>2
  <2>7. 2 * (d - C) - 1 <= H + 2 * per
    <3> HIDE DEF C, x, H
    <3> QED
      BY <1>1, <1>4, <2>6, Cancel
  <2> QED
    BY <1>1, <2>7
<1> QED
  BY <1>1, <1>5, <1>6

\* The number of characters that are counted as n tokens, and what it grows to.
LEMMA Grows ==
    ASSUME NEW t \in Nat, NEW s \in Nat, NEW per \in Nat,
           NEW c \in Nat, NEW n \in Nat, NEW d \in Nat,
           Counted(s, per, c, n), Scaled(t, c, n, d)
    PROVE  /\ 2 * per * t * c <= (2 * d + 1) * (per * s + c)
           /\ (2 * per * (t - s) - (2 * d + 1)) * (per * s + c) <= 2 * per * s * (per * (t - s) - c)
<1> DEFINE N == per * s + c
<1>1. per * n <= N
  <2>1. per * (n - s) = per * n - per * s
    OBVIOUS
  <2> QED
    BY <2>1 DEF Counted
<1>2. (2 * d + 1) * (per * n) <= (2 * d + 1) * N
  <2>1. per * n \in Int /\ N \in Int /\ 2 * d + 1 \in Nat
    OBVIOUS
  <2> HIDE DEF N
  <2> QED
    BY <1>1, <2>1, NoLess
<1>3. per * (2 * (c * t)) <= per * ((2 * d + 1) * n)
  <2>1. 2 * (c * t) <= (2 * d + 1) * n
    <3>1. (2 * d + 1) * n = 2 * (n * d) + n
      OBVIOUS
    <3> QED
      BY <3>1 DEF Scaled
  <2>2. 2 * (c * t) \in Int /\ (2 * d + 1) * n \in Int
    OBVIOUS
  <2> QED
    BY <2>1, <2>2, NoLess
<1>4. per * ((2 * d + 1) * n) = (2 * d + 1) * (per * n) /\ per * (2 * (c * t)) = 2 * per * t * c
  OBVIOUS
<1>5. 2 * per * t * c <= (2 * d + 1) * N
  <2>1. (2 * d + 1) * (per * n) \in Int /\ (2 * d + 1) * N \in Int /\ 2 * per * t * c \in Int
    OBVIOUS
  <2> HIDE DEF N
  <2> QED
    BY <1>2, <1>3, <1>4, <2>1
<1>6. (2 * per * (t - s) - (2 * d + 1)) * N
         = 2 * per * s * (per * (t - s) - c) + 2 * per * t * c - (2 * d + 1) * N
  OBVIOUS
<1>7. /\ (2 * d + 1) * N \in Int /\ 2 * per * t * c \in Int
      /\ 2 * per * s * (per * (t - s) - c) \in Int
  OBVIOUS
<1> HIDE DEF N
<1>8. (2 * per * (t - s) - (2 * d + 1)) * N <= 2 * per * s * (per * (t - s) - c)
  BY <1>5, <1>6, <1>7
<1> QED
  BY <1>5, <1>8 DEF N

\* Below the target the distance shrinks, against the length, as s shrinks
\* against t.
LEMMA UnderOnce ==
    ASSUME NEW t \in Nat, NEW s \in Nat, NEW per \in Nat \ {0},
           NEW c \in Nat \ {0}, NEW n \in Nat, NEW d \in Nat,
           Counted(s, per, c, n), Scaled(t, c, n, d),
           NEW g \in Nat, NEW h \in Nat, g * s <= h * t,
           NEW a \in Nat, NEW b \in Nat, NEW v \in Nat,
           Below(a, b, v, per * (t - s), c)
    PROVE  Below(g * a, h * b, g * a + h * b + g * v, per * (t - s), d)
<1> DEFINE N == per * s + c
           C == per * (t - s)
           e == 2 * d + 1
<1>0. N \in Nat \ {0} /\ C \in Int /\ e \in Nat
  OBVIOUS
<1>1. 2 * per * t * c <= e * N /\ (2 * C - e) * N <= 2 * per * s * (C - c)
  <2>1. /\ 2 * per * t * c <= (2 * d + 1) * (per * s + c)
        /\ (2 * per * (t - s) - (2 * d + 1)) * (per * s + c) <= 2 * per * s * (per * (t - s) - c)
    <3>1. per \in Nat /\ c \in Nat
      OBVIOUS
    <3> QED
      BY <3>1, Grows
  <2>2. 2 * per * (t - s) = 2 * C
    OBVIOUS
  <2> QED
    BY <2>1, <2>2
<1>2. (g * a) * ((2 * C - e) * N) <= (g * a) * (2 * per * s * (C - c))
  <2>1. (2 * C - e) * N \in Int /\ 2 * per * s * (C - c) \in Int /\ g * a \in Nat
    BY <1>0
  <2> HIDE DEF N, C, e
  <2> QED
    BY <1>1, <2>1, NoLess
<1>3. (g * a) * (2 * per * s * (C - c)) <= (g * per * s) * (2 * b * c + v)
  <2>1. (g * per * s) * (2 * a * (C - c)) <= (g * per * s) * (2 * b * c + v)
    <3>1. 2 * a * (C - c) \in Int /\ 2 * b * c + v \in Int /\ g * per * s \in Nat
      BY <1>0
    <3>2. 2 * a * (C - c) <= 2 * b * c + v
      BY DEF Below
    <3> HIDE DEF N, C, e
    <3> QED
      BY <3>1, <3>2, NoLess
  <2>2. (g * per * s) * (2 * a * (C - c)) = (g * a) * (2 * per * s * (C - c))
    BY <1>0
  <2> HIDE DEF N, C, e
  <2> QED
    BY <2>1, <2>2
<1>4. (g * per * s) * (2 * b * c + v) <= (h * b) * (e * N) + (g * v) * N
  <2>1. (per * 2 * b * c) * (g * s) <= (per * 2 * b * c) * (h * t)
    <3>1. g * s \in Int /\ h * t \in Int /\ per * 2 * b * c \in Nat
      OBVIOUS
    <3> QED
      BY <3>1, NoLess
  <2>2. (h * b) * (2 * per * t * c) <= (h * b) * (e * N)
    <3>1. 2 * per * t * c \in Int /\ e * N \in Int /\ h * b \in Nat
      BY <1>0
    <3> HIDE DEF N, C, e
    <3> QED
      BY <1>1, <3>1, NoLess
  <2>3. (g * v) * (per * s) <= (g * v) * N
    <3>1. per * s \in Int /\ N \in Int /\ g * v \in Nat /\ per * s <= N
      OBVIOUS
    <3> HIDE DEF N, C, e
    <3> QED
      BY <3>1, NoLess
  <2>4. (g * per * s) * (2 * b * c + v) = (per * 2 * b * c) * (g * s) + (g * v) * (per * s)
    OBVIOUS
  <2>5. (per * 2 * b * c) * (h * t) = (h * b) * (2 * per * t * c)
    OBVIOUS
  <2>6. /\ (per * 2 * b * c) * (g * s) \in Int /\ (h * b) * (2 * per * t * c) \in Int
        /\ (h * b) * (e * N) \in Int /\ (g * v) * (per * s) \in Int /\ (g * v) * N \in Int
    BY <1>0
  <2> HIDE DEF N, C, e
  <2> QED
    BY <2>1, <2>2, <2>3, <2>4, <2>5, <2>6
<1>5. N * ((g * a) * (2 * C - e)) <= N * ((h * b) * e + g * v)
  <2>1. N * ((g * a) * (2 * C - e)) = (g * a) * ((2 * C - e) * N)
    BY <1>0
  <2>2. N * ((h * b) * e + g * v) = (h * b) * (e * N) + (g * v) * N
    BY <1>0
  <2>3. /\ (g * a) * ((2 * C - e) * N) \in Int /\ (g * a) * (2 * per * s * (C - c)) \in Int
        /\ (g * per * s) * (2 * b * c + v) \in Int
        /\ (h * b) * (e * N) \in Int /\ (g * v) * N \in Int
    BY <1>0
  <2> HIDE DEF N, C, e
  <2> QED
    BY <1>2, <1>3, <1>4, <2>1, <2>2, <2>3
<1>6. (g * a) * (2 * C - e) <= (h * b) * e + g * v
  <2>1. (g * a) * (2 * C - e) \in Int /\ (h * b) * e + g * v \in Int
    BY <1>0
  <2> HIDE DEF N, C, e
  <2> QED
    BY <1>0, <1>5, <2>1, Cancel
<1>7. (g * a) * (2 * C - e) = 2 * (g * a) * (C - d) - g * a /\ (h * b) * e = 2 * (h * b) * d + h * b
  BY <1>0
<1>8. 2 * (g * a) * (C - d) \in Int /\ 2 * (h * b) * d \in Int /\ {g * a, h * b, g * v} \subseteq Int
  BY <1>0
<1> HIDE DEF N, C, e
<1>9. 2 * (g * a) * (C - d) <= 2 * (h * b) * d + (g * a + h * b + g * v)
  BY <1>6, <1>7, <1>8
<1> QED
  BY <1>9 DEF C, Below

\* The first round below the target.
LEMMA UnderFirst ==
    ASSUME NEW t \in Nat, NEW s \in Nat, NEW per \in Nat \ {0},
           NEW c \in Nat \ {0}, NEW n \in Nat, NEW d \in Nat,
           Counted(s, per, c, n), Scaled(t, c, n, d),
           NEW a \in Nat, NEW b \in Nat,
           a * s * (per * (t - s) - c) <= b * t * c
    PROVE  Below(a, b, a + b, per * (t - s), d)
<1> DEFINE N == per * s + c
           C == per * (t - s)
           e == 2 * d + 1
<1>0. N \in Nat \ {0} /\ C \in Int /\ e \in Nat
  OBVIOUS
<1>1. 2 * per * t * c <= e * N /\ (2 * C - e) * N <= 2 * per * s * (C - c)
  <2>1. /\ 2 * per * t * c <= (2 * d + 1) * (per * s + c)
        /\ (2 * per * (t - s) - (2 * d + 1)) * (per * s + c) <= 2 * per * s * (per * (t - s) - c)
    <3>1. per \in Nat /\ c \in Nat
      OBVIOUS
    <3> QED
      BY <3>1, Grows
  <2>2. 2 * per * (t - s) = 2 * C
    OBVIOUS
  <2> QED
    BY <2>1, <2>2
<1>2. N * (a * (2 * C - e)) <= (2 * per) * (a * s * (C - c))
  <2>1. (2 * C - e) * N \in Int /\ 2 * per * s * (C - c) \in Int
    BY <1>0
  <2>2. a * ((2 * C - e) * N) <= a * (2 * per * s * (C - c))
    <3> HIDE DEF N, C, e
    <3> QED
      BY <1>1, <2>1, NoLess
  <2>3. /\ a * ((2 * C - e) * N) = N * (a * (2 * C - e))
        /\ a * (2 * per * s * (C - c)) = (2 * per) * (a * s * (C - c))
    BY <1>0
  <2> HIDE DEF N, C, e
  <2> QED
    BY <2>2, <2>3
<1>3. (2 * per) * (a * s * (C - c)) <= (2 * per) * (b * t * c)
  <2>1. a * s * (C - c) \in Int /\ b * t * c \in Int /\ 2 * per \in Nat
    BY <1>0
  <2>2. a * s * (C - c) <= b * t * c
    OBVIOUS
  <2> HIDE DEF N, C, e
  <2> QED
    BY <2>1, <2>2, NoLess
<1>4. (2 * per) * (b * t * c) <= N * (b * e)
  <2>1. b * (2 * per * t * c) <= b * (e * N)
    <3>1. 2 * per * t * c \in Int /\ e * N \in Int
      BY <1>0
    <3> HIDE DEF N, C, e
    <3> QED
      BY <1>1, <3>1, NoLess
  <2>2. b * (2 * per * t * c) = (2 * per) * (b * t * c) /\ b * (e * N) = N * (b * e)
    BY <1>0
  <2> HIDE DEF N, C, e
  <2> QED
    BY <2>1, <2>2
<1>5. a * (2 * C - e) <= b * e
  <2>1. /\ N * (a * (2 * C - e)) \in Int /\ (2 * per) * (a * s * (C - c)) \in Int
        /\ (2 * per) * (b * t * c) \in Int /\ N * (b * e) \in Int
        /\ a * (2 * C - e) \in Int /\ b * e \in Int
    BY <1>0
  <2> HIDE DEF N, C, e
  <2>2. N * (a * (2 * C - e)) <= N * (b * e)
    BY <1>2, <1>3, <1>4, <2>1
  <2> QED
    BY <1>0, <2>1, <2>2, Cancel
<1>6. a * (2 * C - e) = 2 * a * (C - d) - a /\ b * e = 2 * b * d + b
  BY <1>0
<1>7. 2 * a * (C - d) \in Int /\ 2 * b * d \in Int
  BY <1>0
<1> HIDE DEF N, C, e
<1>8. 2 * a * (C - d) <= 2 * b * d + (a + b)
  BY <1>5, <1>6, <1>7
<1> QED
  BY <1>8 DEF Below, C

\* The last round: what is left is small against the target, whatever the
\* instruction is.
LEMMA UnderLast ==
    ASSUME NEW t \in Nat \ {0}, NEW s \in Nat, NEW per \in Nat \ {0}, 2 * s <= t,
           NEW c \in Nat \ {0}, NEW n \in Nat, NEW d \in Nat,
           Counted(s, per, c, n), Scaled(t, c, n, d), d <= per * (t - s) - 1,
           NEW a \in Nat, NEW b \in Nat, NEW v \in Nat,
           Below(a, b, v, per * (t - s), c)
    PROVE  4 * a * (per * (t - s) - d) <= b * per * t + 2 * v + 2 * a
<1> DEFINE N == per * s + c
           C == per * (t - s)
           e == 2 * d + 1
<1>0. N \in Nat \ {0} /\ C \in Nat /\ e \in Nat
  OBVIOUS
<1>1. 2 * per * t * c <= e * N /\ (2 * C - e) * N <= 2 * per * s * (C - c)
  <2>1. /\ 2 * per * t * c <= (2 * d + 1) * (per * s + c)
        /\ (2 * per * (t - s) - (2 * d + 1)) * (per * s + c) <= 2 * per * s * (per * (t - s) - c)
    <3>1. per \in Nat /\ c \in Nat
      OBVIOUS
    <3> QED
      BY <3>1, Grows
  <2>2. 2 * per * (t - s) = 2 * C
    OBVIOUS
  <2> QED
    BY <2>1, <2>2
<1>2. (t * a) * ((2 * C - e) * N) <= (t * per * s) * (2 * b * c + v)
  <2>1. (t * a) * ((2 * C - e) * N) <= (t * a) * (2 * per * s * (C - c))
    <3>1. (2 * C - e) * N \in Int /\ 2 * per * s * (C - c) \in Int /\ t * a \in Nat
      BY <1>0
    <3> HIDE DEF N, C, e
    <3> QED
      BY <1>1, <3>1, NoLess
  <2>2. (t * per * s) * (2 * a * (C - c)) <= (t * per * s) * (2 * b * c + v)
    <3>1. 2 * a * (C - c) \in Int /\ 2 * b * c + v \in Int /\ t * per * s \in Nat
      BY <1>0
    <3>2. 2 * a * (C - c) <= 2 * b * c + v
      BY DEF Below
    <3> HIDE DEF N, C, e
    <3> QED
      BY <3>1, <3>2, NoLess
  <2>3. (t * a) * (2 * per * s * (C - c)) = (t * per * s) * (2 * a * (C - c))
    BY <1>0
  <2>4. /\ (t * a) * ((2 * C - e) * N) \in Int /\ (t * a) * (2 * per * s * (C - c)) \in Int
        /\ (t * per * s) * (2 * b * c + v) \in Int
    BY <1>0
  <2> HIDE DEF N, C, e
  <2> QED
    BY <2>1, <2>2, <2>3, <2>4
<1>3. (t * per * s) * (2 * b * c + v) <= (s * b) * (e * N) + (t * v) * N
  <2>1. (s * b) * (2 * per * t * c) <= (s * b) * (e * N)
    <3>1. 2 * per * t * c \in Int /\ e * N \in Int /\ s * b \in Nat
      BY <1>0
    <3> HIDE DEF N, C, e
    <3> QED
      BY <1>1, <3>1, NoLess
  <2>2. (t * v) * (per * s) <= (t * v) * N
    <3>1. per * s \in Int /\ N \in Int /\ t * v \in Nat /\ per * s <= N
      OBVIOUS
    <3> HIDE DEF N, C, e
    <3> QED
      BY <3>1, NoLess
  <2>3. (t * per * s) * (2 * b * c + v) = (s * b) * (2 * per * t * c) + (t * v) * (per * s)
    OBVIOUS
  <2>4. /\ (s * b) * (2 * per * t * c) \in Int /\ (s * b) * (e * N) \in Int
        /\ (t * v) * (per * s) \in Int /\ (t * v) * N \in Int
    BY <1>0
  <2> HIDE DEF N, C, e
  <2> QED
    BY <2>1, <2>2, <2>3, <2>4
<1>4. (t * a) * (2 * C - e) <= (s * b) * e + t * v
  <2>1. /\ N * ((t * a) * (2 * C - e)) = (t * a) * ((2 * C - e) * N)
        /\ N * ((s * b) * e + t * v) = (s * b) * (e * N) + (t * v) * N
    BY <1>0
  <2>2. /\ (t * a) * ((2 * C - e) * N) \in Int /\ (t * per * s) * (2 * b * c + v) \in Int
        /\ (s * b) * (e * N) + (t * v) * N \in Int
        /\ (t * a) * (2 * C - e) \in Int /\ (s * b) * e + t * v \in Int
    BY <1>0
  <2> HIDE DEF N, C, e
  <2>3. N * ((t * a) * (2 * C - e)) <= N * ((s * b) * e + t * v)
    BY <1>2, <1>3, <2>1, <2>2
  <2> QED
    BY <1>0, <2>2, <2>3, Cancel
<1>5. 2 * ((s * b) * e) <= t * (b * per * t)
  <2>1. (2 * s * b) * e <= (2 * s * b) * (2 * C)
    <3>1. e <= 2 * C /\ 2 * s * b \in Nat
      OBVIOUS
    <3> HIDE DEF N, C, e
    <3> QED
      BY <1>0, <3>1, NoLess
  <2>2. (b * per) * (4 * s * (t - s)) <= (b * per) * (t * t)
    <3>1. 4 * s * (t - s) <= t * t
      <4>1. (t - 2 * s) * (t - 2 * s) \in Nat /\ (t - 2 * s) * (t - 2 * s) = t * t - 4 * s * (t - s)
        OBVIOUS
      <4>2. t * t \in Int /\ 4 * s * (t - s) \in Int
        OBVIOUS
      <4> QED
        BY <4>1, <4>2
    <3>2. 4 * s * (t - s) \in Int /\ t * t \in Int /\ b * per \in Nat
      OBVIOUS
    <3> QED
      BY <3>1, <3>2, NoLess
  <2>3. (2 * s * b) * (2 * C) = (b * per) * (4 * s * (t - s))
    OBVIOUS
  <2>4. (2 * s * b) * e = 2 * ((s * b) * e) /\ (b * per) * (t * t) = t * (b * per * t)
    BY <1>0
  <2>5. /\ (2 * s * b) * e \in Int /\ (2 * s * b) * (2 * C) \in Int
        /\ (b * per) * (4 * s * (t - s)) \in Int /\ (b * per) * (t * t) \in Int
    BY <1>0
  <2> HIDE DEF N, C, e
  <2> QED
    BY <2>1, <2>2, <2>3, <2>4, <2>5
<1>6. 2 * a * (2 * C - e) <= b * per * t + 2 * v
  <2>1. /\ t * (2 * a * (2 * C - e)) = 2 * ((t * a) * (2 * C - e))
        /\ t * (b * per * t + 2 * v) = t * (b * per * t) + 2 * (t * v)
    BY <1>0
  <2>2. /\ (t * a) * (2 * C - e) \in Int /\ (s * b) * e \in Int /\ t * v \in Int
        /\ t * (b * per * t) \in Int
        /\ 2 * a * (2 * C - e) \in Int /\ b * per * t + 2 * v \in Int
    BY <1>0
  <2> HIDE DEF N, C, e
  <2>3. t * (2 * a * (2 * C - e)) <= t * (b * per * t + 2 * v)
    BY <1>4, <1>5, <2>1, <2>2
  <2> QED
    BY <2>2, <2>3, Cancel
<1>7. 2 * a * (2 * C - e) = 4 * a * (C - d) - 2 * a
  BY <1>0
<1>8. 4 * a * (C - d) \in Int /\ b * per * t \in Int
  BY <1>0
<1> HIDE DEF N, C, e
<1>9. 4 * a * (C - d) <= b * per * t + 2 * v + 2 * a
  BY <1>6, <1>7, <1>8
<1> QED
  BY <1>9 DEF C

\* Behind an instruction, a correction from below does not overshoot by more
\* characters than a token has.
LEMMA NotCrossed ==
    ASSUME NEW t \in Nat, NEW s \in Nat \ {0}, NEW per \in Nat, s <= t,
           NEW c \in Nat, NEW n \in Nat \ {0}, NEW d \in Nat, n <= t,
           Counted(s, per, c, n), Scaled(t, c, n, d)
    PROVE  d <= per * (t - s) + per
<1> DEFINE C == per * (t - s)
           x == c - per * (n - s)
<1>1. C \in Nat /\ x \in 0..per
  BY DEF Counted
<1>2. c * t = C * n + t * x - s * (per * (t - n))
  BY <1>1
<1>3. t * x <= t * per
  BY <1>1, NoLess
<1>4. per * (t - n) <= s * (per * (t - n))
  <2>1. per * (t - n) \in Nat
    OBVIOUS
  <2>2. (per * (t - n)) * 1 <= (per * (t - n)) * s
    BY <2>1, NoLess
  <2> QED
    BY <2>1, <2>2
<1>5. t * per - per * (t - n) = per * n
  OBVIOUS
<1>6. n * (2 * d) <= n * (2 * (C + per) + 1)
  <2>1. 2 * (n * d) <= 2 * (c * t) + n
    BY DEF Scaled
  <2>2. n * (2 * d) = 2 * (n * d) /\ n * (2 * (C + per) + 1) = 2 * (C * n) + 2 * (per * n) + n
    BY <1>1
  <2>3. /\ n * d \in Int /\ c * t \in Int /\ C * n \in Int /\ per * n \in Int /\ t * x \in Int
        /\ s * (per * (t - n)) \in Int /\ per * (t - n) \in Int /\ t * per \in Int
    BY <1>1
  <2> HIDE DEF C, x
  <2> QED
    BY <1>2, <1>3, <1>4, <1>5, <2>1, <2>2, <2>3
<1>7. 2 * d <= 2 * (C + per) + 1
  <2> HIDE DEF C, x
  <2> QED
    BY <1>1, <1>6, Cancel
<1> QED
  BY <1>1, <1>7

\* Without an instruction a correction is never too short.
LEMMA Reached ==
    ASSUME NEW t \in Nat, NEW per \in Nat,
           NEW c \in Nat, NEW n \in Nat \ {0}, NEW d \in Nat,
           Counted(0, per, c, n), Scaled(t, c, n, d)
    PROVE  d >= per * t
<1>1. per * n <= c
  BY DEF Counted
<1>2. t * (per * n) <= t * c
  BY <1>1, NoLess
<1> SUFFICES ASSUME d <= per * t - 1 PROVE FALSE
  OBVIOUS
<1>3. n * d <= n * (per * t - 1)
  BY NoLess
<1>4. n * (per * t - 1) = t * (per * n) - n
  OBVIOUS
<1>5. 2 * (t * c) - n <= 2 * (n * d)
  BY DEF Scaled
<1>6. t * (per * n) \in Int /\ t * c \in Int /\ n * d \in Int
  OBVIOUS
<1> QED
  BY <1>2, <1>3, <1>4, <1>5, <1>6

\* By how much a correction is too long.
LEMMA TooLong ==
    ASSUME NEW t \in Nat, NEW s \in Nat, NEW per \in Nat, s <= t,
           NEW c \in Nat, NEW n \in Nat, NEW d \in Nat,
           Counted(s, per, c, n), Scaled(t, c, n, d)
    PROVE  (2 * (d - per * (t - s) - per) - 1) * n
              <= 2 * (s * (c - per * (t - s)) - per * (n - t + s))
<1> DEFINE C == per * (t - s)
           x == c - per * (n - s)
<1>1. C \in Nat /\ x \in 0..per
  BY DEF Counted
<1>2. c * t - C * n = s * (c - C) + (t - s) * x
  BY Exchange
<1>3. (t - s) * x <= (t - s) * per
  BY <1>1, NoLess
<1>4. (2 * (d - C - per) - 1) * n = 2 * (n * d) - 2 * (C * n) - 2 * (per * n) - n
  BY <1>1
<1>5. 2 * (s * (c - C) - per * (n - t + s)) = 2 * (s * (c - C)) - 2 * (per * n) + 2 * ((t - s) * per)
  BY <1>1
<1>6. 2 * (n * d) <= 2 * (c * t) + n
  BY DEF Scaled
<1>7. /\ n * d \in Int /\ C * n \in Int /\ per * n \in Int /\ c * t \in Int
      /\ s * (c - C) \in Int /\ (t - s) * x \in Int /\ (t - s) * per \in Int
  BY <1>1
<1>8. (2 * (d - C - per) - 1) * n <= 2 * (s * (c - C) - per * (n - t + s))
  <2> HIDE DEF C, x
  <2> QED
    BY <1>2, <1>3, <1>4, <1>5, <1>6, <1>7
<1> QED
  BY <1>8 DEF C

\* The first round from above, of 4 characters for each token.
LEMMA OverFirst ==
    ASSUME NEW t \in Nat, t >= 50, NEW s \in Nat, 2 * s <= t, NEW per \in 1..7,
           NEW n \in Nat, NEW d \in Nat,
           Counted(s, per, 4 * t, n), Scaled(t, 4 * t, n, d)
    PROVE  10 * (d - per * (t - s) - per - 1)
              <= (IF per = 1 THEN 4 ELSE IF per = 2 THEN 6 ELSE 7) * t
<1> DEFINE rho == IF per = 1 THEN 4 ELSE IF per = 2 THEN 6 ELSE 7
           E   == d - per * (t - s) - per - 1
<1> SUFFICES ASSUME 10 * E >= rho * t + 1 PROVE FALSE
  BY DEF rho
<1>0. E \in Int /\ rho \in Nat
  OBVIOUS
<1>1. (2 * E + 1) * n <= 2 * (s * (4 * t - per * (t - s)) - per * (n - t + s))
  <2>1. 2 * (d - per * (t - s) - per) - 1 = 2 * E + 1
    OBVIOUS
  <2> QED
    BY <2>1, TooLong
<1>2. per * n >= 4 * t + per * s - per
  BY DEF Counted
<1>3. n * (rho * t + 6) <= n * (5 * (2 * E + 1))
  <2> HIDE DEF E, rho
  <2> QED
    BY <1>0, NoLess
<1>4. n * (rho * t + 6) <= 10 * (s * (4 * t - per * (t - s)) - per * (n - t + s))
  <2>1. n * (5 * (2 * E + 1)) = 5 * ((2 * E + 1) * n)
    BY <1>0
  <2>2. /\ (2 * E + 1) * n \in Int /\ n * (rho * t + 6) \in Int
        /\ s * (4 * t - per * (t - s)) - per * (n - t + s) \in Int
    BY <1>0
  <2> HIDE DEF E, rho
  <2> QED
    BY <1>1, <1>3, <2>1, <2>2
<1>5. (rho * t + 6 + 10 * per) * (4 * t + per * s - per) <= (rho * t + 6 + 10 * per) * (per * n)
  BY <1>2, NoLess
<1>6. (rho * t + 6 + 10 * per) * (per * n) = per * (n * (rho * t + 6)) + per * (10 * per * n)
  BY <1>0
<1>7. per * (n * (rho * t + 6)) <= per * (10 * (s * (4 * t - per * (t - s)) - per * (n - t + s)))
  BY <1>0, <1>4, NoLess
<1>8. per * (10 * (s * (4 * t - per * (t - s)) - per * (n - t + s))) + per * (10 * per * n)
         = 10 * per * (s * (4 * t - per * (t - s)) + per * t - per * s)
  OBVIOUS
<1>9. (rho * t + 6 + 10 * per) * (4 * t + per * s - per)
         <= 10 * per * (s * (4 * t - per * (t - s)) + per * t - per * s)
  BY <1>0, <1>5, <1>6, <1>7, <1>8
<1>10. s * (2 * s) <= s * t /\ t * (2 * s) <= t * t /\ s * t >= 0 /\ t * t >= 50 * t /\ s * s >= 0
  BY NoLess
<1>11. CASE per = 1
  BY <1>9, <1>10, <1>11
<1>12. CASE per = 2
  BY <1>9, <1>10, <1>12
<1>13. CASE per = 3
  BY <1>9, <1>10, <1>13
<1>14. CASE per = 4
  BY <1>9, <1>10, <1>14
<1>15. CASE per = 5
  BY <1>9, <1>10, <1>15
<1>16. CASE per = 6
  BY <1>9, <1>10, <1>16
<1>17. CASE per = 7
  BY <1>9, <1>10, <1>17
<1> QED
  BY <1>11, <1>12, <1>13, <1>14, <1>15, <1>16, <1>17

\* The second round from above of a counter of characters.
LEMMA OverSecond ==
    ASSUME NEW t \in Nat, t >= 50, NEW s \in Nat, 2 * s <= t,
           NEW c \in Nat, NEW n \in Nat, NEW d \in Nat,
           Counted(s, 1, c, n), Scaled(t, c, n, d), n >= t + 2,
           10 * (c - (t - s) - 2) <= 4 * t
    PROVE  20 * (d - (t - s) - 2) <= 3 * t
<1> DEFINE g == c - (t - s)
           E == d - (t - s) - 2
<1> SUFFICES ASSUME 20 * E >= 3 * t + 1 PROVE FALSE
  OBVIOUS
<1>1. g \in Int /\ E \in Int /\ g >= 2 /\ 10 * g <= 4 * t + 20 /\ n >= t + g - 1 /\ n - t + s >= g - 1 + s
  BY DEF Counted
<1>2. (2 * E + 1) * n <= 2 * (s * g - (n - t + s))
  <2>1. (2 * (d - 1 * (t - s) - 1) - 1) * n <= 2 * (s * (c - 1 * (t - s)) - 1 * (n - t + s))
    BY TooLong
  <2> QED
    BY <2>1
<1>3. (t + g - 1) * (3 * t + 11) <= n * (10 * (2 * E + 1))
  <2>1. (3 * t + 11) * (t + g - 1) <= (3 * t + 11) * n
    BY <1>1, NoLess
  <2>2. n * (3 * t + 11) <= n * (10 * (2 * E + 1))
    BY <1>1, NoLess
  <2>3. /\ (3 * t + 11) * (t + g - 1) = (t + g - 1) * (3 * t + 11)
        /\ (3 * t + 11) * n = n * (3 * t + 11)
    BY <1>1
  <2>4. {(t + g - 1) * (3 * t + 11), n * (3 * t + 11), n * (10 * (2 * E + 1))} \subseteq Int
    BY <1>1
  <2> HIDE DEF g, E
  <2> QED
    BY <2>1, <2>2, <2>3, <2>4
<1>4. n * (10 * (2 * E + 1)) = 10 * ((2 * E + 1) * n)
  BY <1>1
<1>5. (t + g - 1) * (3 * t + 11) <= 20 * (s * g - (g - 1 + s))
  <2>1. (2 * E + 1) * n \in Int /\ s * g \in Int /\ (t + g - 1) * (3 * t + 11) \in Int
    BY <1>1
  <2> HIDE DEF g, E
  <2> QED
    BY <1>1, <1>2, <1>3, <1>4, <2>1
<1>6. g * (2 * s) <= g * t /\ t * (10 * g) <= t * (4 * t + 20) /\ t * t >= 50 * t
  <2> HIDE DEF g, E
  <2> QED
    BY <1>1, NoLess
<1>7. (t + g - 1) * (3 * t + 11) = 3 * (t * t) + 3 * (t * g) + 8 * t + 11 * g - 11
  BY <1>1
<1>8. g * (2 * s) = 2 * (s * g) /\ g * t = t * g /\ t * (10 * g) = 10 * (t * g) /\ t * (4 * t + 20) = 4 * (t * t) + 20 * t
  BY <1>1
<1>9. {s * g, t * g, t * t} \subseteq Int
  BY <1>1
<1> HIDE DEF g, E
<1> QED
  BY <1>1, <1>5, <1>6, <1>7, <1>8, <1>9

\* Its last round: two characters too many are corrected.
LEMMA OverLast ==
    ASSUME NEW t \in Nat, NEW s \in Nat, 2 * s <= t,
           NEW c \in Nat, NEW n \in Nat, NEW d \in Nat,
           Counted(s, 1, c, n), Scaled(t, c, n, d), n >= t + 2,
           c <= t - s + 2
    PROVE  d <= t - s + 1
<1>1. c = t - s + 2 /\ n = t + 2
  BY DEF Counted
<1>2. 2 * ((t + 2) * d) <= 2 * ((t - s + 2) * t) + t + 2
  BY <1>1 DEF Scaled
<1>3. (t - s + 2) * t = (t + 2) * (t - s) + 2 * s
  OBVIOUS
<1> SUFFICES ASSUME d >= t - s + 2 PROVE FALSE
  OBVIOUS
<1>4. (t + 2) * d >= (t + 2) * (t - s + 2)
  BY NoLess
<1>5. (t + 2) * (t - s + 2) = (t + 2) * (t - s) + 2 * t + 4
  OBVIOUS
<1>6. {(t + 2) * d, (t - s + 2) * t, (t + 2) * (t - s)} \subseteq Int
  OBVIOUS
<1> QED
  BY <1>2, <1>3, <1>4, <1>5, <1>6

Histories == [1..8 -> Nat]

\* c[k] characters are counted as n[k] tokens in round k, and scaled for the next;
\* no round meets the target.
Rounds(t, s, per, c, n) ==
    /\ c[1] = 4 * t
    /\ \A k \in 1..8 : Counted(s, per, c[k], n[k]) /\ 50 * Distance(n[k], t) > t
    /\ \A k \in 1..7 : Scaled(t, c[k], n[k], c[k + 1])

\* Where eight rounds just suffice, each target and instruction is a case.
LEMMA Barely ==
    ASSUME NEW t \in 75..99, NEW s \in Nat, 2 * s \in t - 3 .. t, NEW per \in 25..32,
           NEW c \in Histories, NEW n \in Histories, Rounds(t, s, per, c, n),
           \A k \in 1..8 : n[k] < t
    PROVE  FALSE
<1> DEFINE c1 == c[1]  n1 == n[1]
           c2 == c[2]  n2 == n[2]
           c3 == c[3]  n3 == n[3]
           c4 == c[4]  n4 == n[4]
           c5 == c[5]  n5 == n[5]
           c6 == c[6]  n6 == n[6]
           c7 == c[7]  n7 == n[7]
           c8 == c[8]  n8 == n[8]
<1>1. \A k \in 1..8 : /\ c[k] \in Int /\ n[k] \in Int /\ n[k] < t - 1
                      /\ Counted(s, per, c[k], n[k])
  BY DEF Histories, Rounds, Distance
<1>2. \A k \in 1..7 : Scaled(t, c[k], n[k], c[k + 1])
  BY DEF Rounds
<1>3. c1 = 4 * t
  BY DEF Rounds
<1>4. /\ c1 \in Int /\ c2 \in Int /\ c3 \in Int /\ c4 \in Int
      /\ c5 \in Int /\ c6 \in Int /\ c7 \in Int /\ c8 \in Int
      /\ n1 \in Int /\ n2 \in Int /\ n3 \in Int /\ n4 \in Int
      /\ n5 \in Int /\ n6 \in Int /\ n7 \in Int /\ n8 \in Int
  BY <1>1
<1>5. /\ n1 < t - 1 /\ n2 < t - 1 /\ n3 < t - 1 /\ n4 < t - 1
      /\ n5 < t - 1 /\ n6 < t - 1 /\ n7 < t - 1 /\ n8 < t - 1
  BY <1>1
<1>6. /\ Counted(s, per, c1, n1) /\ Counted(s, per, c2, n2)
      /\ Counted(s, per, c3, n3) /\ Counted(s, per, c4, n4)
      /\ Counted(s, per, c5, n5) /\ Counted(s, per, c6, n6)
      /\ Counted(s, per, c7, n7) /\ Counted(s, per, c8, n8)
  BY <1>1
<1>7. /\ Scaled(t, c[1], n[1], c[1 + 1]) /\ Scaled(t, c[2], n[2], c[2 + 1])
      /\ Scaled(t, c[3], n[3], c[3 + 1]) /\ Scaled(t, c[4], n[4], c[4 + 1])
      /\ Scaled(t, c[5], n[5], c[5 + 1]) /\ Scaled(t, c[6], n[6], c[6 + 1])
      /\ Scaled(t, c[7], n[7], c[7 + 1])
  BY <1>2
<1>8. /\ Scaled(t, c1, n1, c2) /\ Scaled(t, c2, n2, c3) /\ Scaled(t, c3, n3, c4)
      /\ Scaled(t, c4, n4, c5) /\ Scaled(t, c5, n5, c6) /\ Scaled(t, c6, n6, c7)
      /\ Scaled(t, c7, n7, c8)
  BY <1>7
<1>9. per = 25 \/ per = 26 \/ per = 27 \/ per = 28
      \/ per = 29 \/ per = 30 \/ per = 31 \/ per = 32
  OBVIOUS
<1>10. t \in Int /\ s \in Int /\ per \in Int
  OBVIOUS
<1> HIDE DEF c1, n1, c2, n2, c3, n3, c4, n4, c5, n5, c6, n6, c7, n7, c8, n8
<1> USE <1>3, <1>4, <1>5, <1>6, <1>8, <1>9, <1>10 DEF Counted, Scaled
<1>t75s36. CASE t = 75 /\ s = 36
  BY <1>t75s36
<1>t75s37. CASE t = 75 /\ s = 37
  BY <1>t75s37
<1>t76s37. CASE t = 76 /\ s = 37
  BY <1>t76s37
<1>t76s38. CASE t = 76 /\ s = 38
  BY <1>t76s38
<1>t77s37. CASE t = 77 /\ s = 37
  BY <1>t77s37
<1>t77s38. CASE t = 77 /\ s = 38
  BY <1>t77s38
<1>t78s38. CASE t = 78 /\ s = 38
  BY <1>t78s38
<1>t78s39. CASE t = 78 /\ s = 39
  BY <1>t78s39
<1>t79s38. CASE t = 79 /\ s = 38
  BY <1>t79s38
<1>t79s39. CASE t = 79 /\ s = 39
  BY <1>t79s39
<1>t80s39. CASE t = 80 /\ s = 39
  BY <1>t80s39
<1>t80s40. CASE t = 80 /\ s = 40
  BY <1>t80s40
<1>t81s39. CASE t = 81 /\ s = 39
  BY <1>t81s39
<1>t81s40. CASE t = 81 /\ s = 40
  BY <1>t81s40
<1>t82s40. CASE t = 82 /\ s = 40
  BY <1>t82s40
<1>t82s41. CASE t = 82 /\ s = 41
  BY <1>t82s41
<1>t83s40. CASE t = 83 /\ s = 40
  BY <1>t83s40
<1>t83s41. CASE t = 83 /\ s = 41
  BY <1>t83s41
<1>t84s41. CASE t = 84 /\ s = 41
  BY <1>t84s41
<1>t84s42. CASE t = 84 /\ s = 42
  BY <1>t84s42
<1>t85s41. CASE t = 85 /\ s = 41
  BY <1>t85s41
<1>t85s42. CASE t = 85 /\ s = 42
  BY <1>t85s42
<1>t86s42. CASE t = 86 /\ s = 42
  BY <1>t86s42
<1>t86s43. CASE t = 86 /\ s = 43
  BY <1>t86s43
<1>t87s42. CASE t = 87 /\ s = 42
  BY <1>t87s42
<1>t87s43. CASE t = 87 /\ s = 43
  BY <1>t87s43
<1>t88s43. CASE t = 88 /\ s = 43
  BY <1>t88s43
<1>t88s44. CASE t = 88 /\ s = 44
  BY <1>t88s44
<1>t89s43. CASE t = 89 /\ s = 43
  BY <1>t89s43
<1>t89s44. CASE t = 89 /\ s = 44
  BY <1>t89s44
<1>t90s44. CASE t = 90 /\ s = 44
  BY <1>t90s44
<1>t90s45. CASE t = 90 /\ s = 45
  BY <1>t90s45
<1>t91s44. CASE t = 91 /\ s = 44
  BY <1>t91s44
<1>t91s45. CASE t = 91 /\ s = 45
  BY <1>t91s45
<1>t92s45. CASE t = 92 /\ s = 45
  BY <1>t92s45
<1>t92s46. CASE t = 92 /\ s = 46
  BY <1>t92s46
<1>t93s45. CASE t = 93 /\ s = 45
  BY <1>t93s45
<1>t93s46. CASE t = 93 /\ s = 46
  BY <1>t93s46
<1>t94s46. CASE t = 94 /\ s = 46
  BY <1>t94s46
<1>t94s47. CASE t = 94 /\ s = 47
  BY <1>t94s47
<1>t95s46. CASE t = 95 /\ s = 46
  BY <1>t95s46
<1>t95s47. CASE t = 95 /\ s = 47
  BY <1>t95s47
<1>t96s47. CASE t = 96 /\ s = 47
  BY <1>t96s47
<1>t96s48. CASE t = 96 /\ s = 48
  BY <1>t96s48
<1>t97s47. CASE t = 97 /\ s = 47
  BY <1>t97s47
<1>t97s48. CASE t = 97 /\ s = 48
  BY <1>t97s48
<1>t98s48. CASE t = 98 /\ s = 48
  BY <1>t98s48
<1>t98s49. CASE t = 98 /\ s = 49
  BY <1>t98s49
<1>t99s48. CASE t = 99 /\ s = 48
  BY <1>t99s48
<1>t99s49. CASE t = 99 /\ s = 49
  BY <1>t99s49
<1> QED
  BY ONLY t \in 75..99, 2 * s \in t - 3 .. t, s \in Nat,
     <1>t75s36, <1>t75s37, <1>t76s37, <1>t76s38, <1>t77s37, <1>t77s38, <1>t78s38,
     <1>t78s39, <1>t79s38, <1>t79s39, <1>t80s39, <1>t80s40, <1>t81s39, <1>t81s40,
     <1>t82s40, <1>t82s41, <1>t83s40, <1>t83s41, <1>t84s41, <1>t84s42, <1>t85s41,
     <1>t85s42, <1>t86s42, <1>t86s43, <1>t87s42, <1>t87s43, <1>t88s43, <1>t88s44,
     <1>t89s43, <1>t89s44, <1>t90s44, <1>t90s45, <1>t91s44, <1>t91s45, <1>t92s45,
     <1>t92s46, <1>t93s45, <1>t93s46, <1>t94s46, <1>t94s47, <1>t95s46, <1>t95s47,
     <1>t96s47, <1>t96s48, <1>t97s47, <1>t97s48, <1>t98s48, <1>t98s49, <1>t99s48, <1>t99s49

\* What was left before a round from below that still misses by a token.
LEMMA GapOf ==
    ASSUME NEW t \in Nat, NEW s \in Nat, s <= t, NEW per \in Nat,
           NEW c \in Nat, NEW n \in Nat \ {0}, NEW d \in Nat,
           Counted(s, per, c, n), Scaled(t, c, n, d), d <= per * (t - s) - per
    PROVE  \E x \in 0..per :
              /\ per * (t - s) - c = per * (t - n) - x
              /\ 2 * t * x <= 2 * (s * (per * (t - n))) - 2 * (per * n) + n
<1> DEFINE C == per * (t - s)
           x == c - per * (n - s)
<1>1. C \in Nat /\ x \in 0..per /\ C - c = per * (t - n) - x
  BY DEF Counted
<1>2. c * t = C * n + t * x - s * (per * (t - n))
  BY <1>1
<1>3. n * d <= n * (C - per)
  BY <1>1, NoLess
<1>4. n * (C - per) = C * n - per * n /\ 2 * t * x = 2 * (t * x)
  BY <1>1
<1>5. 2 * (c * t) - n <= 2 * (n * d)
  BY DEF Scaled
<1>6. {c * t, n * d, C * n, per * n, t * x, s * (per * (t - n))} \subseteq Int
  BY <1>1
<1>7. 2 * t * x <= 2 * (s * (per * (t - n))) - 2 * (per * n) + n
  <2> HIDE DEF C, x
  <2> QED
    BY <1>2, <1>3, <1>4, <1>5, <1>6
<1> QED
  BY <1>1, <1>7

\* It is two tokens, but for a character ...
LEMMA Gap ==
    ASSUME NEW t \in Nat, t >= 50, NEW s \in Nat, 2 * s <= t, NEW per \in 1..32,
           NEW c \in Nat, NEW n \in Nat, n <= t - 2, NEW d \in Nat,
           Counted(s, per, c, n), Scaled(t, c, n, d), d <= per * (t - s) - per, n # 0
    PROVE  per * (t - s) - c >= 2 * per - 1
<1>1. PICK x \in 0..per :
         /\ per * (t - s) - c = per * (t - n) - x
         /\ 2 * t * x <= 2 * (s * (per * (t - n))) - 2 * (per * n) + n
  <2>1. s <= t /\ per \in Nat /\ n \in Nat \ {0}
    OBVIOUS
  <2> QED
    BY <2>1, GapOf
<1>2. CASE n <= t - 3
  <2>1. per * (t - n) >= per * 3
    BY <1>2, NoLess
  <2> QED
    BY <1>1, <2>1
<1>3. CASE n = t - 2
  <2>1. 2 * t * x <= per * (4 * s - 2 * t + 4) + t - 2
    BY <1>1, <1>3
  <2>2. per * (4 * s - 2 * t + 4) <= per * 4
    BY NoLess
  <2>3. x >= 2 => t * x >= t * 2
    BY NoLess
  <2>4. per * (4 * s - 2 * t + 4) \in Int /\ t * x \in Int /\ 2 * t * x = 2 * (t * x)
    OBVIOUS
  <2>5. x <= 1
    BY <2>1, <2>2, <2>3, <2>4
  <2> QED
    BY <1>1, <1>3, <2>5
<1> QED
  BY <1>2, <1>3

\* ... and more behind a shorter instruction.
LEMMA WideGap ==
    ASSUME NEW t \in 75..99, NEW s \in Nat, 2 * s <= t - 4, NEW per \in 25..32,
           NEW c \in Nat, NEW n \in Nat, n <= t - 2, NEW d \in Nat,
           Counted(s, per, c, n), Scaled(t, c, n, d), d <= per * (t - s) - per, n # 0
    PROVE  2 * (per * (t - s) - c) >= 5 * per - 1
<1>1. PICK x \in 0..per :
         /\ per * (t - s) - c = per * (t - n) - x
         /\ 2 * t * x <= 2 * (s * (per * (t - n))) - 2 * (per * n) + n
  <2>1. s <= t /\ per \in Nat /\ n \in Nat \ {0} /\ t \in Nat
    OBVIOUS
  <2> QED
    BY <2>1, GapOf
<1>2. CASE n <= t - 4
  <2>1. per * (t - n) >= per * 4
    BY <1>2, NoLess
  <2> QED
    BY <1>1, <2>1
<1>3. CASE n = t - 3
  <2>1. 2 * t * x <= per * (6 * s - 2 * t + 6) + t - 3
    BY <1>1, <1>3
  <2>2. per * (6 * s - 2 * t + 6) <= per * (t - 6)
    BY NoLess
  <2>3. 2 * x >= per + 1 => t * (2 * x) >= t * (per + 1)
    BY NoLess
  <2>4. t * (2 * x) = 2 * t * x /\ t * (per + 1) = t * per + t /\ per * (t - 6) = t * per - 6 * per
    OBVIOUS
  <2>5. {per * (6 * s - 2 * t + 6), 2 * t * x, t * per} \subseteq Int
    OBVIOUS
  <2>6. 2 * x <= per
    BY <2>1, <2>2, <2>3, <2>4, <2>5
  <2> QED
    BY <1>1, <1>3, <2>6
<1>4. CASE n = t - 2
  <2>1. 2 * t * x <= per * (4 * s - 2 * t + 4) + t - 2
    BY <1>1, <1>4
  <2>2. per * (4 * s - 2 * t + 4) <= per * (0 - 4)
    BY NoLess
  <2>3. 2 * t * x >= 0 /\ per * (4 * s - 2 * t + 4) \in Int
    OBVIOUS
  <2> QED
    BY <2>1, <2>2, <2>3
<1> QED
  BY <1>2, <1>3, <1>4

\* What the first round leaves of it is at most Slope / 32 of the length.
Slope(per) == IF per <= 8 THEN 4 ELSE IF per <= 16 THEN 18 ELSE IF per <= 24 THEN 34 ELSE 49

\* The distance that four characters for each token leave.
LEMMA Steepest ==
    ASSUME NEW t \in Nat, NEW s \in Nat, s <= t, NEW per \in 1..32
    PROVE  8 * s * (per * (t - s) - 4 * t) <= Slope(per) * t * t
<1>1. ASSUME NEW most \in Nat, per <= most
      PROVE  8 * s * (per * (t - s) - 4 * t) <= 8 * s * (most * (t - s) - 4 * t)
  <2>1. (8 * s * (t - s)) * per <= (8 * s * (t - s)) * most
    <3>1. 8 * s * (t - s) \in Nat
      OBVIOUS
    <3> QED
      BY <1>1, <3>1, NoLess
  <2>2. \A q \in Nat : 8 * s * (q * (t - s) - 4 * t) = (8 * s * (t - s)) * q - 32 * s * t
    OBVIOUS
  <2>3. 8 * s * (t - s) * per \in Int /\ 8 * s * (t - s) * most \in Int /\ 32 * s * t \in Int
    OBVIOUS
  <2> QED
    BY <2>1, <2>2, <2>3
<1>2. \A z \in Int : z * z >= 0
  BY SMT
<1>3. CASE per <= 8
  <2>1. 4 * t * t - 8 * s * (8 * (t - s) - 4 * t) = 4 * ((t - 4 * s) * (t - 4 * s))
    OBVIOUS
  <2> QED
    BY <1>1, <1>2, <1>3, <2>1 DEF Slope
<1>4. CASE per > 8 /\ per <= 16
  <2>1. 18 * t * t - 8 * s * (16 * (t - s) - 4 * t) = 2 * ((3 * t - 8 * s) * (3 * t - 8 * s))
    OBVIOUS
  <2> QED
    BY <1>1, <1>2, <1>4, <2>1 DEF Slope
<1>5. CASE per > 16 /\ per <= 24
  <2>1. 3 * (34 * t * t - 8 * s * (24 * (t - s) - 4 * t))
           = (24 * s - 10 * t) * (24 * s - 10 * t) + 2 * (t * t)
    OBVIOUS
  <2> QED
    BY <1>1, <1>2, <1>5, <2>1 DEF Slope
<1>6. CASE per > 24
  <2>1. 49 * t * t - 8 * s * (32 * (t - s) - 4 * t) = (16 * s - 7 * t) * (16 * s - 7 * t)
    OBVIOUS
  <2> QED
    BY <1>1, <1>2, <1>6, <2>1 DEF Slope
<1> QED
  BY <1>3, <1>4, <1>5, <1>6

\* Eight rounds from below end within the tolerance.
LEMMA UnderEnds ==
    ASSUME NEW t \in Nat, t >= 50, NEW s \in Nat, 2 * s <= t, NEW per \in 5..32,
           NEW c \in Histories, NEW n \in Histories, Rounds(t, s, per, c, n),
           \A k \in 1..8 : n[k] < t
    PROVE  FALSE
<1> DEFINE C == per * (t - s)
           b == Slope(per)
<1>0. per \in Nat \ {0} /\ t \in Nat \ {0} /\ s <= t /\ per \in 1..32
  OBVIOUS
<1>1. C \in Nat /\ b \in {4, 18, 34, 49}
  BY DEF Slope
<1>2. /\ \A k \in 1..8 : c[k] \in Nat /\ n[k] \in Nat /\ Counted(s, per, c[k], n[k])
      /\ \A k \in 1..7 : Scaled(t, c[k], n[k], c[k + 1])
      /\ c[1] = 4 * t
  BY DEF Histories, Rounds
<1>3. \A k \in 1..8 : 50 * (t - n[k]) > t /\ n[k] <= t - 2
  BY <1>2 DEF Rounds, Distance
<1>4. \A k \in 1..8 : C - c[k] >= per * (t - n[k] - 1)
  <2> SUFFICES ASSUME NEW k \in 1..8 PROVE C - c[k] >= per * (t - n[k] - 1)
    OBVIOUS
  <2>1. c[k] <= per * (n[k] - s) + per
    BY <1>2 DEF Counted
  <2>2. per * (n[k] - s) + per = C - per * (t - n[k] - 1)
    BY <1>2
  <2> HIDE DEF C
  <2> QED
    BY <1>1, <1>2, <2>1, <2>2
<1>5. \A k \in 1..7 : c[k] \in Nat \ {0} => c[k + 1] \in Nat \ {0}
  <2> SUFFICES ASSUME NEW k \in 1..7, c[k] \in Nat \ {0}, c[k + 1] = 0 PROVE FALSE
    BY <1>2
  <2>1. 2 * c[k] * t - n[k] <= 2 * n[k] * c[k + 1]
    BY <1>2 DEF Scaled
  <2>2. 2 * t * c[k] >= 2 * t * 1
    BY NoLess
  <2> QED
    BY <1>2, <1>3, <2>1, <2>2
<1>6. \A k \in 1..8 : c[k] \in Nat \ {0}
  BY <1>2, <1>5
<1>7. Below(32, b, 32 + b, C, c[2])
  <2>1. 32 * s * (C - c[1]) <= b * t * c[1]
    <3>1. 8 * s * (C - 4 * t) <= b * t * t
      BY <1>0, Steepest
    <3>2. 32 * s * (C - 4 * t) = 4 * (8 * s * (C - 4 * t)) /\ b * t * (4 * t) = 4 * (b * t * t)
      BY <1>1
    <3>3. 8 * s * (C - 4 * t) \in Int /\ b * t * t \in Int
      BY <1>1
    <3> HIDE DEF C, b
    <3> QED
      BY <1>2, <3>1, <3>2, <3>3
  <2> HIDE DEF b
  <2>2. /\ c[1] \in Nat \ {0} /\ n[1] \in Nat /\ c[2] \in Nat
        /\ Counted(s, per, c[1], n[1]) /\ Scaled(t, c[1], n[1], c[2])
    BY <1>2, <1>6
  <2>3. b \in Nat /\ 32 \in Nat
    BY <1>1
  <2> QED
    BY <1>0, <2>1, <2>2, <2>3, UnderFirst
\* A round, with an instruction of at most h / g of the target.
<1>8. ASSUME NEW k \in 1..7, NEW g \in Nat, NEW h \in Nat, g * s <= h * t,
             NEW aa \in Nat, NEW bb \in Nat, NEW v \in Nat, Below(aa, bb, v, C, c[k])
      PROVE  Below(g * aa, h * bb, g * aa + h * bb + g * v, C, c[k + 1])
  <2>1. /\ c[k] \in Nat \ {0} /\ n[k] \in Nat /\ c[k + 1] \in Nat
        /\ Counted(s, per, c[k], n[k]) /\ Scaled(t, c[k], n[k], c[k + 1])
    BY <1>2, <1>6
  <2> QED
    BY <1>0, <1>8, <2>1, UnderOnce
\* The last round.
<1>9. ASSUME NEW k \in 1..7, NEW aa \in Nat, NEW bb \in Nat, NEW v \in Nat,
             Below(aa, bb, v, C, c[k])
      PROVE  4 * aa * (C - c[k + 1]) <= bb * per * t + 2 * v + 2 * aa
  <2>1. /\ c[k] \in Nat \ {0} /\ n[k] \in Nat /\ c[k + 1] \in Nat
        /\ Counted(s, per, c[k], n[k]) /\ Scaled(t, c[k], n[k], c[k + 1])
    BY <1>2, <1>6
  <2>2. c[k + 1] <= C - 1
    <3>1. per * (t - n[k + 1] - 1) >= per * 1
      BY <1>2, <1>3, NoLess
    <3>2. c[k + 1] <= C - per
      <4> HIDE DEF C
      <4> QED
        BY <1>1, <1>2, <1>4, <3>1
    <3> HIDE DEF C
    <3> QED
      BY <1>1, <2>1, <3>2
  <2> QED
    BY <1>0, <1>9, <2>1, <2>2, UnderLast
<1> HIDE DEF b
<1>10. ASSUME NEW k \in 2..6, NEW aa \in Nat, NEW v \in Nat, Below(aa, b, v, C, c[k])
       PROVE  Below(2 * aa, b, 2 * aa + b + 2 * v, C, c[k + 1])
  <2>1. Below(2 * aa, 1 * b, 2 * aa + 1 * b + 2 * v, C, c[k + 1])
    <3>1. b \in Nat /\ 2 * s <= 1 * t /\ k \in 1..7
      BY <1>1
    <3> HIDE DEF C
    <3> QED
      BY <1>8, <1>10, <3>1
  <2> QED
    BY <1>1, <2>1
<1>11. Below(512, b, 2560 + 31 * b, C, c[6])
  <2>0. {32 + b, 128 + 3 * b, 384 + 7 * b, 1024 + 15 * b} \subseteq Nat
    BY <1>1
  <2>1. Below(64, b, 128 + 3 * b, C, c[3])
    <3>1. Below(2 * 32, b, 2 * 32 + b + 2 * (32 + b), C, c[2 + 1])
      BY <1>7, <1>10, <2>0
    <3>2. 2 * 32 + b + 2 * (32 + b) = 128 + 3 * b
      BY <1>1
    <3> QED
      BY <3>1, <3>2
  <2>2. Below(128, b, 384 + 7 * b, C, c[4])
    <3>1. Below(2 * 64, b, 2 * 64 + b + 2 * (128 + 3 * b), C, c[3 + 1])
      BY <1>10, <2>0, <2>1
    <3>2. 2 * 64 + b + 2 * (128 + 3 * b) = 384 + 7 * b
      BY <1>1
    <3> QED
      BY <3>1, <3>2
  <2>3. Below(256, b, 1024 + 15 * b, C, c[5])
    <3>1. Below(2 * 128, b, 2 * 128 + b + 2 * (384 + 7 * b), C, c[4 + 1])
      BY <1>10, <2>0, <2>2
    <3>2. 2 * 128 + b + 2 * (384 + 7 * b) = 1024 + 15 * b
      BY <1>1
    <3> QED
      BY <3>1, <3>2
  <2>4. Below(2 * 256, b, 2 * 256 + b + 2 * (1024 + 15 * b), C, c[5 + 1])
    BY <1>10, <2>0, <2>3
  <2>5. 2 * 256 + b + 2 * (1024 + 15 * b) = 2560 + 31 * b
    BY <1>1
  <2> QED
    BY <2>4, <2>5
<1>12. n[8] \in Nat /\ c[8] \in Nat /\ 50 * (t - n[8]) > t /\ n[8] <= t - 2 /\ C - c[8] >= per * (t - n[8] - 1)
  BY <1>2, <1>3, <1>4
<1> DEFINE m == t - n[8]
<1>13. m \in Nat /\ m >= 2 /\ 50 * m > t /\ C - c[8] >= per * (m - 1)
  BY <1>12
<1>14. CASE t >= 100
  <2>0. {2560 + 31 * b, 6144 + 63 * b} \subseteq Nat
    BY <1>1
  <2>1. Below(2 * 512, b, 2 * 512 + b + 2 * (2560 + 31 * b), C, c[6 + 1])
    BY <1>10, <1>11, <2>0
  <2>2. Below(1024, b, 6144 + 63 * b, C, c[7])
    <3>1. 2 * 512 + b + 2 * (2560 + 31 * b) = 6144 + 63 * b
      BY <1>1
    <3> QED
      BY <2>1, <3>1
  <2>3. 4 * 1024 * (C - c[7 + 1]) <= b * per * t + 2 * (6144 + 63 * b) + 2 * 1024
    BY <1>1, <1>9, <2>0, <2>2
  <2>4. b * per * t <= b * per * (50 * m - 1)
    <3>1. b * per \in Nat /\ t <= 50 * m - 1 /\ 50 * m - 1 \in Int
      BY <1>1, <1>13
    <3> HIDE DEF m
    <3> QED
      BY <3>1, NoLess
  <2> HIDE DEF m
  <2>5. per * (4096 * (m - 1) - b * (50 * m - 1)) <= 14336 + 126 * b
    <3>1. per * (4096 * (m - 1) - b * (50 * m - 1)) = 4096 * (per * (m - 1)) - b * per * (50 * m - 1)
      BY <1>1, <1>13
    <3>2. /\ per * (m - 1) \in Int /\ b * per * (50 * m - 1) \in Int /\ b * per * t \in Int
          /\ C - c[8] \in Int
      BY <1>1, <1>12, <1>13
    <3> HIDE DEF C
    <3> QED
      BY <1>1, <1>13, <2>3, <2>4, <3>1, <3>2
  <2>6. m >= 3
    BY <1>13, <1>14
  <2>7. \A least \in Nat : least <= per /\ 4096 * (m - 1) - b * (50 * m - 1) >= 0 =>
           least * (4096 * (m - 1) - b * (50 * m - 1)) <= 14336 + 126 * b
    <3> SUFFICES ASSUME NEW least \in Nat, least <= per, 4096 * (m - 1) - b * (50 * m - 1) >= 0
                 PROVE  least * (4096 * (m - 1) - b * (50 * m - 1)) <= 14336 + 126 * b
      OBVIOUS
    <3> DEFINE q == 4096 * (m - 1) - b * (50 * m - 1)
    <3>1. q \in Nat /\ b \in Nat
      BY <1>1, <1>13
    <3>2. q * per <= 14336 + 126 * b
      BY <2>5, <3>1
    <3> HIDE DEF q
    <3>3. q * least <= q * per
      BY <3>1, NoLess
    <3>4. q * least <= 14336 + 126 * b
      BY <3>1, <3>2, <3>3
    <3> QED
      BY <3>1, <3>4 DEF q
  <2>8. per >= 5 /\ (b = 18 => per >= 9) /\ (b = 34 => per >= 17) /\ (b = 49 => per >= 25)
    BY DEF b, Slope
  <2>9. CASE b = 4
    <3>1. 5 * (4096 * (m - 1) - b * (50 * m - 1)) <= 14336 + 126 * b
      BY <1>13, <2>6, <2>7, <2>8, <2>9
    <3> QED
      BY <1>13, <2>6, <2>9, <3>1
  <2>10. CASE b = 18
    <3>1. 9 * (4096 * (m - 1) - b * (50 * m - 1)) <= 14336 + 126 * b
      BY <1>13, <2>6, <2>7, <2>8, <2>10
    <3> QED
      BY <1>13, <2>6, <2>10, <3>1
  <2>11. CASE b = 34
    <3>1. 17 * (4096 * (m - 1) - b * (50 * m - 1)) <= 14336 + 126 * b
      BY <1>13, <2>6, <2>7, <2>8, <2>11
    <3> QED
      BY <1>13, <2>6, <2>11, <3>1
  <2>12. CASE b = 49
    <3>1. 25 * (4096 * (m - 1) - b * (50 * m - 1)) <= 14336 + 126 * b
      BY <1>13, <2>6, <2>7, <2>8, <2>12
    <3> QED
      BY <1>13, <2>6, <2>12, <3>1
  <2> QED
    BY <1>1, <2>9, <2>10, <2>11, <2>12
<1>15. /\ c[7] \in Nat /\ n[7] \in Nat /\ n[7] <= t - 2 /\ n[7] # 0
       /\ Counted(s, per, c[7], n[7]) /\ Scaled(t, c[7], n[7], c[8]) /\ c[8] <= C - per
  <2>1. per * (m - 1) >= per * 1
    <3> HIDE DEF m
    <3> QED
      BY <1>13, NoLess
  <2>2. c[8] <= C - per
    <3> HIDE DEF C, m
    <3> QED
      BY <1>1, <1>12, <1>13, <2>1
  <2>3. Scaled(t, c[7], n[7], c[7 + 1])
    BY <1>2
  <2>4. n[7] # 0
    <3> SUFFICES ASSUME n[7] = 0 PROVE FALSE
      OBVIOUS
    <3>1. 2 * c[7] * t <= 0
      BY <1>2, <2>3 DEF Scaled
    <3>2. 2 * t * c[7] >= 2 * t * 1
      BY <1>6, NoLess
    <3> QED
      BY <1>2, <3>1, <3>2
  <2> QED
    BY <1>2, <1>3, <2>2, <2>3, <2>4
<1> HIDE DEF m
<1>16. CASE t <= 99 /\ (t <= 74 \/ per <= 24)
  <2>1. C - c[7] >= 2 * per - 1
    BY <1>0, <1>12, <1>15, Gap
  <2>2. 4 * 512 * (C - c[6 + 1]) <= b * per * t + 2 * (2560 + 31 * b) + 2 * 512
    <3>1. 2560 + 31 * b \in Nat
      BY <1>1
    <3> QED
      BY <1>1, <1>9, <1>11, <3>1
  <2>3. per * (4096 - b * t) <= 8192 + 62 * b
    <3>1. per * (4096 - b * t) = 4096 * per - b * per * t /\ b * per * t \in Int
      BY <1>1
    <3> HIDE DEF C
    <3> QED
      BY <1>1, <1>15, <2>1, <2>2, <3>1
  <2>4. \A least \in Nat : least <= per /\ 4096 - b * t >= 0 => least * (4096 - b * t) <= 8192 + 62 * b
    <3> SUFFICES ASSUME NEW least \in Nat, least <= per, 4096 - b * t >= 0
                 PROVE  least * (4096 - b * t) <= 8192 + 62 * b
      OBVIOUS
    <3> DEFINE q == 4096 - b * t
    <3>1. q \in Nat /\ b \in Nat
      BY <1>1
    <3>2. q * per <= 8192 + 62 * b
      BY <2>3, <3>1
    <3> HIDE DEF q
    <3>3. q * least <= q * per
      BY <3>1, NoLess
    <3>4. q * least <= 8192 + 62 * b
      BY <3>1, <3>2, <3>3
    <3> QED
      BY <3>1, <3>4 DEF q
  <2>8. per >= 5 /\ (b = 18 => per >= 9) /\ (b = 34 => per >= 17) /\ (b = 49 => per >= 25)
    BY DEF b, Slope
  <2>9. CASE b = 4
    <3>1. 5 * (4096 - b * t) <= 8192 + 62 * b
      BY <1>16, <2>4, <2>8, <2>9
    <3> QED
      BY <1>16, <2>9, <3>1
  <2>10. CASE b = 18
    <3>1. 9 * (4096 - b * t) <= 8192 + 62 * b
      BY <1>16, <2>4, <2>8, <2>10
    <3> QED
      BY <1>16, <2>10, <3>1
  <2>11. CASE b = 34
    <3>1. 17 * (4096 - b * t) <= 8192 + 62 * b
      BY <1>16, <2>4, <2>8, <2>11
    <3> QED
      BY <1>16, <2>11, <3>1
  <2>12. CASE b = 49
    <3>1. 25 * (4096 - b * t) <= 8192 + 62 * b
      BY <1>16, <2>4, <2>8, <2>12
    <3> QED
      BY <1>16, <2>8, <2>12, <3>1
  <2> QED
    BY <1>1, <2>9, <2>10, <2>11, <2>12
<1>17. CASE t \in 75..99 /\ per \in 25..32 /\ 2 * s <= t - 4
  <2>0. b = 49
    BY <1>17 DEF b, Slope
  <2>1. 2 * (C - c[7]) >= 5 * per - 1
    BY <1>12, <1>15, <1>17, WideGap
  <2>2. ASSUME NEW k \in 2..6, NEW aa \in Nat, NEW bb \in Nat, NEW v \in Nat,
               Below(aa, bb, v, C, c[k])
        PROVE  Below(25 * aa, 12 * bb, 25 * aa + 12 * bb + 25 * v, C, c[k + 1])
    <3>1. 25 * s <= 12 * t /\ k \in 1..7
      BY <1>17
    <3> QED
      BY <1>8, <2>2, <3>1
  <2>3. Below(32, 49, 81, C, c[2])
    BY <1>7, <2>0
  <2>4. Below(20, 15, 86, C, c[3])
    <3>1. Below(25 * 32, 12 * 49, 25 * 32 + 12 * 49 + 25 * 81, C, c[2 + 1])
      BY <2>2, <2>3, SMT
    <3> HIDE DEF C
    <3> QED
      BY <1>1, <1>2, <3>1, SMT DEF Below
  <2>5. Below(100, 36, 566, C, c[4])
    <3>1. Below(25 * 20, 12 * 15, 25 * 20 + 12 * 15 + 25 * 86, C, c[3 + 1])
      BY <2>2, <2>4, SMT
    <3> HIDE DEF C
    <3> QED
      BY <1>1, <1>2, <3>1, SMT DEF Below
  <2>6. Below(100, 18, 684, C, c[5])
    <3>1. Below(25 * 100, 12 * 36, 25 * 100 + 12 * 36 + 25 * 566, C, c[4 + 1])
      BY <2>2, <2>5, SMT
    <3> HIDE DEF C
    <3> QED
      BY <1>1, <1>2, <3>1, SMT DEF Below
  <2>7. Below(2500, 216, 19816, C, c[6])
    <3>1. Below(25 * 100, 12 * 18, 25 * 100 + 12 * 18 + 25 * 684, C, c[5 + 1])
      BY <2>2, <2>6, SMT
    <3> HIDE DEF C
    <3> QED
      BY <1>1, <1>2, <3>1, SMT DEF Below
  <2>8. 4 * 2500 * (C - c[6 + 1]) <= 216 * per * t + 2 * 19816 + 2 * 2500
    BY <1>9, <2>7, SMT
  <2>9. per * t <= per * 99
    BY <1>17, NoLess
  <2>10. 216 * per * t = 216 * (per * t) /\ per * t \in Int
    OBVIOUS
  <2> HIDE DEF C
  <2> QED
    BY <1>1, <1>15, <1>17, <2>1, <2>8, <2>9, <2>10, SMT
<1>18. CASE t \in 75..99 /\ per \in 25..32 /\ 2 * s > t - 4
  <2>1. 2 * s \in t - 3 .. t
    BY <1>18
  <2> HIDE DEF C
  <2> QED
    BY <1>18, <2>1, Barely
<1> QED
  BY <1>14, <1>16, <1>17, <1>18

\* What the rounds have in common.
LEMMA RoundOf ==
    ASSUME NEW t \in Nat, NEW s \in Nat, s <= t, NEW per \in Nat \ {0},
           NEW c \in Histories, NEW n \in Histories, Rounds(t, s, per, c, n), t >= 50,
           NEW k \in 1..8
    PROVE  /\ c[k] \in Nat /\ n[k] \in Nat /\ Counted(s, per, c[k], n[k])
           /\ 50 * Distance(n[k], t) > t
           /\ n[k] <= t - 2 \/ n[k] >= t + 2
           /\ c[k] >= per * (t - s) => n[k] >= t + 2
           /\ n[k] >= t + 2 => c[k] - per * (t - s) - per - 1 >= per * (n[k] - t - 1) - 1
           /\ n[k] >= t + 2 => c[k] >= per * (t - s) + 2 * per
<1>1. /\ c[k] \in Nat /\ n[k] \in Nat /\ Counted(s, per, c[k], n[k])
      /\ 50 * Distance(n[k], t) > t
  BY DEF Histories, Rounds
<1>2. n[k] <= t - 2 \/ n[k] >= t + 2
  BY <1>1 DEF Distance
<1>3. per * (n[k] - s) <= c[k] /\ c[k] <= per * (n[k] - s) + per
  BY <1>1 DEF Counted
<1>4. ASSUME c[k] >= per * (t - s), n[k] <= t - 2 PROVE FALSE
  <2>1. per * (n[k] - s) <= per * (t - 2 - s)
    BY <1>1, <1>4, NoLess
  <2>2. per * (t - 2 - s) = per * (t - s) - 2 * per /\ per * (t - s) \in Int
    OBVIOUS
  <2> QED
    BY <1>1, <1>3, <1>4, <2>1, <2>2
<1>5. per * (n[k] - s) = per * (t - s) + per * (n[k] - t - 1) + per
  BY <1>1
<1>6. n[k] >= t + 2 => per * (n[k] - s) >= per * (t + 2 - s)
  BY <1>1, NoLess
<1>7. per * (t + 2 - s) = per * (t - s) + 2 * per
  OBVIOUS
<1>8. {per * (t - s), per * (n[k] - s), per * (n[k] - t - 1)} \subseteq Int
  BY <1>1
<1>9. c[k] >= per * (t - s) => n[k] >= t + 2
  BY <1>2, <1>4
<1>10. /\ n[k] >= t + 2 => c[k] - per * (t - s) - per - 1 >= per * (n[k] - t - 1) - 1
       /\ n[k] >= t + 2 => c[k] >= per * (t - s) + 2 * per
  BY <1>1, <1>3, <1>5, <1>6, <1>7, <1>8
<1> QED
  BY <1>1, <1>2, <1>9, <1>10

\* Above the target the rounds stay above it, and get closer.
LEMMA OverStays ==
    ASSUME NEW t \in Nat, NEW s \in Nat, 2 * s <= t, NEW per \in Nat \ {0},
           NEW c \in Histories, NEW n \in Histories, Rounds(t, s, per, c, n), t >= 50,
           NEW k \in 1..7, n[k] >= t + 2
    PROVE  /\ n[k + 1] >= t + 2
           /\ 2 * (c[k + 1] - per * (t - s) - per - 1) <= c[k] - per * (t - s) - per - 1
<1>1. k \in 1..8 /\ k + 1 \in 1..8 /\ s <= t
  OBVIOUS
<1>2. Scaled(t, c[k], n[k], c[k + 1])
  BY DEF Rounds
<1>3. c[k] \in Nat /\ n[k] \in Nat /\ Counted(s, per, c[k], n[k]) /\ c[k + 1] \in Nat
  BY <1>1, RoundOf
<1>4. /\ c[k + 1] >= per * (t - s)
      /\ 2 * (c[k + 1] - per * (t - s) - per - 1) <= c[k] - per * (t - s) - per - 1
  BY <1>2, <1>3, OverOnce
<1>5. n[k + 1] >= t + 2
  BY <1>1, <1>4, RoundOf
<1> QED
  BY <1>4, <1>5

\* What is too long is halved in every round.
LEMMA OverEnds ==
    ASSUME NEW t \in Nat, NEW s \in Nat, 2 * s <= t, NEW per \in Nat \ {0},
           NEW c \in Histories, NEW n \in Histories, Rounds(t, s, per, c, n), t >= 50,
           n[2] >= t + 2
    PROVE  /\ n[7] >= t + 2 /\ n[8] >= t + 2
           /\ 16 * (c[7] - per * (t - s) - per - 1) <= c[3] - per * (t - s) - per - 1
           /\ 64 * (c[8] - per * (t - s) - per - 1) <= c[2] - per * (t - s) - per - 1
<1> DEFINE D == per * (t - s) + per + 1
<1>1. ASSUME NEW k \in 1..7, n[k] >= t + 2
      PROVE  n[k + 1] >= t + 2 /\ 2 * (c[k + 1] - D) <= c[k] - D
  <2>1. \A e \in Nat : e - per * (t - s) - per - 1 = e - D
    OBVIOUS
  <2>2. c[k] \in Nat /\ c[k + 1] \in Nat
    BY DEF Histories
  <2>3. /\ n[k + 1] >= t + 2
        /\ 2 * (c[k + 1] - per * (t - s) - per - 1) <= c[k] - per * (t - s) - per - 1
    BY <1>1, OverStays
  <2> QED
    BY <2>1, <2>2, <2>3
<1>2. n[2 + 1] >= t + 2 /\ 2 * (c[2 + 1] - D) <= c[2] - D
  BY <1>1
<1>3. n[3 + 1] >= t + 2 /\ 2 * (c[3 + 1] - D) <= c[3] - D
  BY <1>1, <1>2
<1>4. n[4 + 1] >= t + 2 /\ 2 * (c[4 + 1] - D) <= c[4] - D
  BY <1>1, <1>3
<1>5. n[5 + 1] >= t + 2 /\ 2 * (c[5 + 1] - D) <= c[5] - D
  BY <1>1, <1>4
<1>6. n[6 + 1] >= t + 2 /\ 2 * (c[6 + 1] - D) <= c[6] - D
  BY <1>1, <1>5
<1>7. n[7 + 1] >= t + 2 /\ 2 * (c[7 + 1] - D) <= c[7] - D
  BY <1>1, <1>6
<1>8. /\ c[2] \in Nat /\ c[3] \in Nat /\ c[4] \in Nat /\ c[5] \in Nat /\ c[6] \in Nat
      /\ c[7] \in Nat /\ c[8] \in Nat /\ D \in Int
  BY DEF Histories
<1>9. 16 * (c[7] - D) <= c[3] - D /\ 64 * (c[8] - D) <= c[2] - D
  <2> HIDE DEF D
  <2> QED
    BY <1>2, <1>3, <1>4, <1>5, <1>6, <1>7, <1>8
<1>10. \A e \in Nat : e - per * (t - s) - per - 1 = e - D
  OBVIOUS
<1> HIDE DEF D
<1> QED
  BY <1>6, <1>7, <1>8, <1>9, <1>10

\* Eight rounds meet the target.
LEMMA EightSuffice ==
    ASSUME NEW t \in Nat, t >= 50, NEW s \in Nat, 2 * s <= t, NEW per \in 1..32,
           NEW c \in Histories, NEW n \in Histories, Rounds(t, s, per, c, n)
    PROVE  FALSE
<1> DEFINE C == per * (t - s)
<1>0. per \in Nat \ {0} /\ s <= t /\ C \in Nat
  OBVIOUS
<1>1. \A k \in 1..8 :
         /\ c[k] \in Nat /\ n[k] \in Nat /\ Counted(s, per, c[k], n[k])
         /\ 50 * Distance(n[k], t) > t
         /\ n[k] <= t - 2 \/ n[k] >= t + 2
         /\ c[k] >= C => n[k] >= t + 2
         /\ n[k] >= t + 2 => c[k] - C - per - 1 >= per * (n[k] - t - 1) - 1
         /\ n[k] >= t + 2 => c[k] >= C + 2 * per
  BY <1>0, RoundOf
<1>2. c[1] = 4 * t /\ \A k \in 1..7 : Scaled(t, c[k], n[k], c[k + 1])
  BY DEF Rounds
<1>3. Scaled(t, c[1], n[1], c[2]) /\ Scaled(t, c[2], n[2], c[3]) /\ Scaled(t, c[7], n[7], c[8])
  <2>1. /\ Scaled(t, c[1], n[1], c[1 + 1]) /\ Scaled(t, c[2], n[2], c[2 + 1])
        /\ Scaled(t, c[7], n[7], c[7 + 1])
    BY <1>2
  <2> QED
    BY <2>1
<1>4. /\ c[1] \in Nat /\ c[2] \in Nat /\ c[3] \in Nat /\ c[7] \in Nat /\ c[8] \in Nat
      /\ n[1] \in Nat /\ n[2] \in Nat /\ n[7] \in Nat /\ n[8] \in Nat
      /\ Counted(s, per, c[1], n[1]) /\ Counted(s, per, c[2], n[2])
      /\ Counted(s, per, c[7], n[7]) /\ Counted(s, per, c[8], n[8])
  BY <1>1
\* Not from below ...
<1>5. ASSUME n[1] <= t - 2 PROVE FALSE
  <2>1. per >= 5
    <3>1. 4 * t <= per * (n[1] - s) + per
      BY <1>2, <1>4 DEF Counted
    <3>2. per * (n[1] - s) <= per * (t - 2)
      BY <1>4, <1>5, NoLess
    <3>3. per * (t - 2) = per * t - 2 * per /\ per * t \in Int /\ per * (n[1] - s) \in Int
      BY <1>4
    <3>4. per <= 4 => t * per <= t * 4
      BY NoLess
    <3> QED
      BY <3>1, <3>2, <3>3, <3>4
  <2>2. CASE s # 0
    <3>1. ASSUME NEW k \in 1..7, c[k] > 0, n[k] < t PROVE c[k + 1] > 0 /\ n[k + 1] < t
      <4>1. Scaled(t, c[k], n[k], c[k + 1]) /\ k \in 1..8 /\ k + 1 \in 1..8
        BY <1>2
      <4>2. /\ c[k] \in Nat /\ n[k] \in Nat /\ Counted(s, per, c[k], n[k])
            /\ c[k + 1] \in Nat /\ n[k + 1] \in Nat
        BY <1>1, <4>1
      <4>3. c[k] * t >= t
        <5>1. t * c[k] >= t * 1
          BY <3>1, <4>2, NoLess
        <5> QED
          BY <4>2, <5>1
      <4>4. 2 * (c[k] * t) - n[k] <= 2 * (n[k] * c[k + 1])
        BY <4>1, <4>2 DEF Scaled
      <4>5. n[k] # 0 /\ c[k + 1] # 0
        BY <3>1, <4>2, <4>3, <4>4
      <4>6. c[k + 1] <= C + per
        <5>1. s \in Nat \ {0} /\ n[k] \in Nat \ {0} /\ n[k] <= t /\ per \in Nat
          BY <1>0, <2>2, <3>1, <4>2, <4>5
        <5> QED
          BY <1>0, <4>1, <4>2, <5>1, NotCrossed
      <4>7. ~(n[k + 1] >= t + 2)
        <5>1. n[k + 1] >= t + 2 => c[k + 1] >= C + 2 * per
          BY <1>1, <4>1
        <5> HIDE DEF C
        <5> QED
          BY <1>0, <4>2, <4>6, <5>1
      <4>8. n[k + 1] <= t - 2 \/ n[k + 1] >= t + 2
        BY <1>1, <4>1
      <4> QED
        BY <4>2, <4>5, <4>7, <4>8
    <3>2. c[1] > 0 /\ n[1] < t
      BY <1>2, <1>4, <1>5
    <3>3. c[1 + 1] > 0 /\ n[1 + 1] < t
      BY <3>1, <3>2
    <3>4. c[2 + 1] > 0 /\ n[2 + 1] < t
      BY <3>1, <3>3
    <3>5. c[3 + 1] > 0 /\ n[3 + 1] < t
      BY <3>1, <3>4
    <3>6. c[4 + 1] > 0 /\ n[4 + 1] < t
      BY <3>1, <3>5
    <3>7. c[5 + 1] > 0 /\ n[5 + 1] < t
      BY <3>1, <3>6
    <3>8. c[6 + 1] > 0 /\ n[6 + 1] < t
      BY <3>1, <3>7
    <3>9. n[7 + 1] < t
      BY <3>1, <3>8
    <3>10. \A k \in 1..8 : n[k] < t
      BY <3>2, <3>3, <3>4, <3>5, <3>6, <3>7, <3>8, <3>9
    <3> QED
      BY <2>1, <3>10, UnderEnds
  <2>3. CASE s = 0
    <3>1. n[1] # 0
      <4>1. 4 * t <= per * (n[1] - s) + per
        BY <1>2, <1>4 DEF Counted
      <4> QED
        BY <2>3, <4>1
    <3>2. c[2] >= C
      <4>1. c[2] >= per * t
        <5>1. Counted(0, per, c[1], n[1]) /\ n[1] \in Nat \ {0} /\ per \in Nat
          BY <1>4, <2>3, <3>1
        <5> QED
          BY <1>3, <1>4, <5>1, Reached
      <4> QED
        BY <2>3, <4>1
    <3>3. n[2] >= t + 2
      BY <1>1, <3>2
    <3>4. /\ n[8] >= t + 2
          /\ 64 * (c[8] - C - per - 1) <= c[2] - C - per - 1
      BY <1>0, <3>3, OverEnds
    <3>5. c[8] - C - per - 1 >= per - 1
      BY <1>0, <1>1, <1>4, <3>4
    <3>6. (2 * (c[2] - C - per) - 1) * n[1] <= 2 * per * (t - n[1])
      <4>1. (2 * (c[2] - C - per) - 1) * n[1] <= 2 * (s * (c[1] - C) - per * (n[1] - t + s))
        <5>1. per \in Nat
          OBVIOUS
        <5> QED
          BY <1>0, <1>3, <1>4, <5>1, TooLong
      <4>2. s * (c[1] - C) = 0
        BY <1>0, <1>4, <2>3
      <4>3. 2 * (0 - per * (n[1] - t + 0)) = 2 * per * (t - n[1])
        BY <1>4
      <4> HIDE DEF C
      <4> QED
        BY <2>3, <4>1, <4>2, <4>3
    <3>7. (128 * per - 127) * n[1] <= 2 * per * (t - n[1])
      <4>1. 128 * per - 127 <= 2 * (c[2] - C - per) - 1
        <5> HIDE DEF C
        <5> QED
          BY <1>0, <1>4, <3>4, <3>5
      <4>2. n[1] * (128 * per - 127) <= n[1] * (2 * (c[2] - C - per) - 1)
        <5> HIDE DEF C
        <5> QED
          BY <1>0, <1>4, <4>1, NoLess
      <4>3. /\ n[1] * (128 * per - 127) = (128 * per - 127) * n[1]
            /\ n[1] * (2 * (c[2] - C - per) - 1) = (2 * (c[2] - C - per) - 1) * n[1]
        BY <1>0, <1>4
      <4>4. {n[1] * (128 * per - 127), n[1] * (2 * (c[2] - C - per) - 1), 2 * per * (t - n[1])} \subseteq Int
        BY <1>0, <1>4
      <4> HIDE DEF C
      <4> QED
        BY <3>6, <4>2, <4>3, <4>4
    <3>8. per * n[1] >= 4 * t - per
      BY <1>2, <1>4, <2>3 DEF Counted
    <3>9. (130 * per - 127) * n[1] <= 2 * per * t
      BY <1>4, <3>7
    <3>10. per * ((130 * per - 127) * n[1]) <= per * (2 * per * t)
      BY <1>4, <3>9, NoLess
    <3>11. (130 * per - 127) * (4 * t - per) <= (130 * per - 127) * (per * n[1])
      BY <1>4, <2>1, <3>8, NoLess
    <3>12. per * (2 * per * t) <= 64 * per * t
      <4>1. (2 * per * t) * per <= (2 * per * t) * 32
        BY NoLess
      <4> QED
        BY <4>1
    <3>13. (130 * per - 127) * (4 * t - per) = 520 * (per * t) - 508 * t - 130 * (per * per) + 127 * per
      OBVIOUS
    <3>14. per * per <= per * 32 /\ t * 5 <= t * per /\ per * 50 <= per * t
      BY <2>1, NoLess
    <3>15. per * ((130 * per - 127) * n[1]) = (130 * per - 127) * (per * n[1])
      BY <1>4
    <3>16. {per * t, per * per, (130 * per - 127) * (per * n[1])} \subseteq Int
      BY <1>4
    <3> QED
      BY <3>10, <3>11, <3>12, <3>13, <3>14, <3>15, <3>16
  <2> QED
    BY <2>2, <2>3
\* ... and not from above.
<1>6. ASSUME n[1] >= t + 2 PROVE FALSE
  <2>1. per <= 7
    <3>1. 4 * t >= C + 2 * per
      BY <1>1, <1>2, <1>6
    <3>2. per >= 8 => (t - s) * per >= (t - s) * 8
      BY NoLess
    <3> QED
      BY <3>1, <3>2
  <2>2. 10 * (c[2] - C - per - 1) <= (IF per = 1 THEN 4 ELSE IF per = 2 THEN 6 ELSE 7) * t
    BY <1>2, <1>3, <1>4, <2>1, OverFirst
  <2>3. n[2] >= t + 2
    <3>1. n[1 + 1] >= t + 2
      BY <1>0, <1>6, OverStays
    <3> QED
      BY <3>1
  <2>4. /\ n[7] >= t + 2 /\ n[8] >= t + 2
        /\ 16 * (c[7] - C - per - 1) <= c[3] - C - per - 1
        /\ 64 * (c[8] - C - per - 1) <= c[2] - C - per - 1
    BY <1>0, <2>3, OverEnds
  <2> DEFINE m == n[8] - t
  <2>5. m \in Nat /\ m >= 2 /\ 50 * m > t /\ c[8] - C - per - 1 >= per * (m - 1) - 1
    BY <1>1, <1>4, <2>4 DEF Distance
  <2> HIDE DEF m
  <2>6. CASE per >= 3
    <3>1. (m - 1) * 3 <= (m - 1) * per
      BY <2>5, <2>6, NoLess
    <3>2. (m - 1) * per = per * (m - 1) /\ per * (m - 1) \in Int
      BY <2>5
    <3> HIDE DEF C
    <3> QED
      BY <1>0, <1>4, <2>2, <2>4, <2>5, <2>6, <3>1, <3>2
  <2>7. CASE per = 2
    <3> HIDE DEF C
    <3> QED
      BY <1>0, <1>4, <2>2, <2>4, <2>5, <2>7
  <2>8. CASE per = 1 /\ t >= 100
    <3> HIDE DEF C
    <3> QED
      BY <1>0, <1>4, <2>2, <2>4, <2>5, <2>8
  <2>9. CASE per = 1 /\ t <= 99
    <3>0. C = t - s
      BY <2>9
    <3>1. 20 * (c[3] - (t - s) - 2) <= 3 * t
      <4>1. 10 * (c[2] - (t - s) - 2) <= 4 * t
        BY <1>4, <2>2, <2>9, <3>0
      <4>2. Counted(s, 1, c[2], n[2])
        BY <1>4, <2>9
      <4> QED
        BY <1>3, <1>4, <2>3, <4>1, <4>2, OverSecond
    <3>2. c[7] <= t - s + 2
      BY <1>4, <2>4, <2>9, <3>0, <3>1
    <3>3. c[8] <= t - s + 1
      <4>1. Counted(s, 1, c[7], n[7])
        BY <1>4, <2>9
      <4> QED
        BY <1>3, <1>4, <2>4, <3>2, <4>1, OverLast
    <3> QED
      BY <1>1, <1>4, <2>4, <2>9, <3>0, <3>3
  <2> QED
    BY <2>1, <2>6, <2>7, <2>8, <2>9
<1> QED
  BY <1>1, <1>5, <1>6

\* What a division leaves.
LEMMA DivisionIs ==
    ASSUME NEW x \in Nat, NEW d \in Nat \ {0}
    PROVE  x \div d \in Nat /\ x % d \in 0..(d - 1) /\ x = d * (x \div d) + (x % d)
  OBVIOUS

\* Python's round() is within half of the divisor.
LEMMA RoundIs ==
    ASSUME NEW x \in Nat, NEW d \in Nat \ {0}
    PROVE  /\ Round(x, d) \in Nat
           /\ 2 * x - d <= 2 * d * Round(x, d) /\ 2 * d * Round(x, d) <= 2 * x + d
<1> DEFINE q == x \div d
           r == x % d
<1>1. q \in Nat /\ r \in 0..(d - 1) /\ x = d * q + r
  BY DivisionIs
<1>2. Round(x, d) = IF 2 * r < d \/ (2 * r = d /\ q % 2 = 0) THEN q ELSE q + 1
  BY DEF Round
<1> HIDE DEF q, r
<1>3. (Round(x, d) = q /\ 2 * r <= d) \/ (Round(x, d) = q + 1 /\ 2 * r >= d)
  BY <1>1, <1>2
<1>4. d * (q + 1) = d * q + d /\ d * q \in Int
  BY <1>1
<1>5. CASE Round(x, d) = q /\ 2 * r <= d
  <2>1. 2 * d * Round(x, d) = 2 * (d * q)
    BY <1>1, <1>5
  <2> QED
    BY <1>1, <1>4, <1>5, <2>1
<1>6. CASE Round(x, d) = q + 1 /\ 2 * r >= d
  <2>1. 2 * d * Round(x, d) = 2 * (d * (q + 1))
    BY <1>1, <1>6
  <2> QED
    BY <1>1, <1>4, <1>6, <2>1
<1> QED
  BY <1>3, <1>5, <1>6

\* The provider counts a prompt in proportion to its length.
LEMMA CountIs ==
    ASSUME NEW p \in Providers, p.grain = 1, NEW c \in Nat
    PROVE  /\ Count(p, c) \in Nat /\ Counted(p.suffix, p.per, c, Count(p, c))
           /\ p.suffix \in Nat /\ p.per \in Nat \ {0}
<1>1. p.suffix \in Nat /\ p.per \in Nat \ {0}
  BY BatchAssumption
<1> DEFINE q == Padding(c) \div p.per
<1>2. Padding(c) \in Nat /\ (Padding(c) = c \/ Padding(c) = c - 1)
  BY DEF Padding, Bigger
<1>3. q \in Nat /\ Padding(c) % p.per \in 0..(p.per - 1) /\ Padding(c) = p.per * q + (Padding(c) % p.per)
  BY <1>1, <1>2, DivisionIs
<1>4. q \in Nat /\ p.per * q <= Padding(c) /\ Padding(c) < p.per * q + p.per
  <2>1. p.per * q \in Int
    BY <1>1, <1>3
  <2> HIDE DEF q
  <2> QED
    BY <1>1, <1>2, <1>3, <2>1
<1>5. p.per * p.grain = p.per
  BY <1>1
<1>6. Count(p, c) = p.suffix + p.grain * q
  BY <1>5 DEF Count
<1> HIDE DEF q
<1>7. Count(p, c) = p.suffix + q
  BY <1>1, <1>4, <1>6
<1>8. Count(p, c) - p.suffix = q
  BY <1>1, <1>4, <1>7
<1>9. p.per * q \in Int
  BY <1>1, <1>4
<1>10. p.per * q <= c /\ c <= p.per * q + p.per
  BY <1>1, <1>2, <1>4, <1>9
<1> QED
  BY <1>1, <1>4, <1>7, <1>8, <1>10 DEF Counted

\* A length from which the search is scaled: what it begins with, or enough.
Scalable(t, s, per, c) == c >= 4 * t \/ c >= per * (t - s)

\* It is counted as so many tokens that no bound of the search is met, and scaling
\* it moves it.
LEMMA ScalableCount ==
    ASSUME NEW t \in Nat, t >= 50, NEW s \in Nat, 2 * s <= t, NEW per \in 1..32,
           NEW c \in Nat, NEW n \in Nat, Counted(s, per, c, n), Scalable(t, s, per, c)
    PROVE  n >= 6 /\ 6 * c <= 224 * n /\ n < 4 * c /\ c > 0
<1>1. per * (n - s) <= c /\ c <= per * (n - s) + per
  BY DEF Counted
<1>2. (t - s) * 1 <= (t - s) * per /\ (t - s) * per = per * (t - s)
  BY NoLess
<1>3. 2 * c >= t
  BY <1>2 DEF Scalable
<1>4. n >= 6
  <2>1. CASE c >= 4 * t
    <3> SUFFICES ASSUME n - s <= 5 PROVE FALSE
      OBVIOUS
    <3>1. per * (n - s) <= per * 5
      BY NoLess
    <3> QED
      BY <1>1, <2>1, <3>1
  <2>2. CASE c >= per * (t - s)
    <3> SUFFICES ASSUME n <= 5 PROVE FALSE
      OBVIOUS
    <3>1. per * (n - s) <= per * (t - s - 2)
      BY NoLess
    <3>2. per * (t - s - 2) = per * (t - s) - 2 * per /\ per * (t - s) \in Int
      OBVIOUS
    <3> QED
      BY <1>1, <2>2, <3>1, <3>2
  <2> QED
    BY <2>1, <2>2 DEF Scalable
<1>5. 6 * c <= 224 * n
  <2>1. per * (n - s) + per <= per * (n + 1)
    <3>1. per * (n - s + 1) <= per * (n + 1)
      BY NoLess
    <3> QED
      BY <3>1
  <2>2. (n + 1) * per <= (n + 1) * 32
    BY NoLess
  <2> QED
    BY <1>1, <1>4, <2>1, <2>2
<1>6. n < 4 * c
  <2>1. CASE n <= s
    BY <1>3, <1>4, <2>1
  <2>2. CASE n > s
    <3>1. (n - s) * 1 <= (n - s) * per
      BY <2>2, NoLess
    <3> QED
      BY <1>1, <1>3, <1>4, <2>2, <3>1
  <2> QED
    BY <2>1, <2>2
<1> QED
  BY <1>3, <1>4, <1>5, <1>6

\* A round that misses is followed by one of the scaled length.
LEMMA NextIs ==
    ASSUME NEW p \in Providers, p.grain = 1, p.per <= 32,
           NEW t \in Nat, t >= 50, 2 * p.suffix <= t,
           NEW c \in Nat, Scalable(t, p.suffix, p.per, c), ~Sized(p, t, c)
    PROVE  /\ After(p, t, c) \in Nat
           /\ Scaled(t, c, Count(p, c), After(p, t, c))
           /\ Scalable(t, p.suffix, p.per, After(p, t, c))
<1> DEFINE n   == Count(p, c)
           s   == p.suffix
           per == p.per
           d   == Rescaled(p, t, c)
<1>1. n \in Nat /\ Counted(s, per, c, n) /\ s \in Nat /\ per \in Nat \ {0}
  BY CountIs
<1>2. n >= 6 /\ 6 * c <= 224 * n /\ n < 4 * c /\ c > 0
  <2>1. per \in 1..32
    BY <1>1
  <2> HIDE DEF n
  <2> QED
    BY <1>1, <2>1, ScalableCount
<1>3. 50 * Distance(n, t) > t /\ (n <= t - 2 \/ n >= t + 2)
  <2>1. ~(100 * Distance(n, t) <= 2 * t)
    BY DEF Sized, Error, Tolerance
  <2> HIDE DEF n
  <2> QED
    BY <1>1, <2>1 DEF Distance
<1>4. d \in Nat /\ Scaled(t, c, n, d)
  <2>1. c * t \in Nat /\ n \in Nat \ {0} /\ d = Round(c * t, n)
    BY <1>1, <1>2 DEF Rescaled
  <2> HIDE DEF n, d
  <2>2. /\ d \in Nat
        /\ 2 * (c * t) - n <= 2 * n * d /\ 2 * n * d <= 2 * (c * t) + n
    BY <2>1, RoundIs
  <2> QED
    BY <2>2 DEF Scaled
<1> HIDE DEF n, d
<1>5. 2 * (c * t) - n <= 2 * (n * d) /\ 2 * (n * d) <= 2 * (c * t) + n
  BY <1>1, <1>4 DEF Scaled
<1>6. {c * t, n * d, n * c, n * t} \subseteq Int
  BY <1>1, <1>4
<1>7. d <= 40 * t
  <2> SUFFICES ASSUME d >= 40 * t + 1 PROVE FALSE
    BY <1>4
  <2>1. n * (40 * t + 1) <= n * d
    BY <1>1, <1>4, NoLess
  <2>2. t * (6 * c) <= t * (224 * n)
    BY <1>1, <1>2, NoLess
  <2>3. n * (40 * t + 1) = 40 * (n * t) + n /\ t * (6 * c) = 6 * (c * t) /\ t * (224 * n) = 224 * (n * t)
    BY <1>1
  <2>4. n * t >= 0
    BY <1>1
  <2> QED
    BY <1>1, <1>2, <1>5, <1>6, <2>1, <2>2, <2>3, <2>4
<1>8. d # c
  <2> SUFFICES ASSUME d = c PROVE FALSE
    OBVIOUS
  <2>1. n <= t - 2 => c * n <= c * (t - 2)
    BY <1>1, NoLess
  <2>2. n >= t + 2 => c * (t + 2) <= c * n
    BY <1>1, NoLess
  <2>3. c * (t - 2) = c * t - 2 * c /\ c * (t + 2) = c * t + 2 * c /\ n * d = c * n /\ c * n \in Int
    BY <1>1
  <2> QED
    BY <1>1, <1>2, <1>3, <1>5, <1>6, <2>1, <2>2, <2>3
<1>9. After(p, t, c) = d
  <2>1. Within(t, d) = d
    BY <1>4, <1>7 DEF Within, Bigger
  <2>2. Count(p, c) # 0 /\ c # Stop
    BY <1>2 DEF n, Stop
  <2>3. NextTry(p, t, c) = d
    BY <1>8, <2>1, <2>2 DEF NextTry, d
  <2> QED
    BY <2>2, <2>3 DEF After
<1>10. Scalable(t, s, per, d)
  <2>1. CASE n <= t - 2
    <3>1. d >= c
      <4> SUFFICES ASSUME d <= c - 1 PROVE FALSE
        BY <1>4
      <4>1. n * d <= n * (c - 1)
        BY <1>1, <1>4, NoLess
      <4>2. c * n <= c * t
        BY <1>1, <2>1, NoLess
      <4>3. n * (c - 1) = n * c - n /\ c * n = n * c
        BY <1>1
      <4> QED
        BY <1>1, <1>2, <1>5, <1>6, <4>1, <4>2, <4>3
    <3>2. per * (t - s) \in Int
      BY <1>1
    <3> QED
      BY <1>1, <1>4, <3>1, <3>2 DEF Scalable
  <2>2. CASE n >= t + 2
    <3>1. d >= per * (t - s)
      BY <1>1, <1>4, <2>2, OverOnce
    <3> QED
      BY <3>1 DEF Scalable
  <2> QED
    BY <1>3, <2>1, <2>2
<1> QED
  BY <1>4, <1>9, <1>10 DEF n

\* One of the eight attempts is within the tolerance.
LEMMA SomeAttemptFits ==
    ASSUME NEW p \in Providers, NEW u \in Subjects, p.grain = 1, p.per <= 32,
           2 * p.suffix <= Target[u], 100 <= Tolerance * Target[u]
    PROVE  \E k \in Attempts(p, u) : Sized(p, Target[u], Tried[k][p][u])
<1> DEFINE t == Target[u]
           c == [k \in 1..8 |-> Tried[k][p][u]]
           n == [k \in 1..8 |-> Count(p, Tried[k][p][u])]
<1>1. t \in Nat /\ t >= 50 /\ p.suffix \in Nat /\ p.per \in 1..32
  <2>1. Target[u] \in Nat /\ p.suffix \in Nat /\ p.per \in Nat \ {0}
    BY BatchAssumption
  <2> QED
    BY <2>1 DEF Tolerance
<1> SUFFICES ASSUME \A k \in Attempts(p, u) : ~Sized(p, t, Tried[k][p][u]) PROVE FALSE
  OBVIOUS
<1>2. \A k \in 1..8 : Tried[k][p][u] = IF k = 1 THEN 4 * t ELSE After(p, t, Tried[k - 1][p][u])
  BY TriedOf DEF Iterations, Estimated
<1> HIDE DEF t
<1>3. ASSUME NEW k \in 1..8, Tried[k][p][u] \in Nat PROVE ~Sized(p, t, Tried[k][p][u])
  BY <1>3 DEF Attempts, Iterations, Stop
<1>4. Tried[1][p][u] = 4 * t
  BY <1>2
<1>5. \A k \in 1..7 : Tried[k + 1][p][u] = After(p, t, Tried[k][p][u])
  <2> SUFFICES ASSUME NEW k \in 1..7 PROVE Tried[k + 1][p][u] = After(p, t, Tried[k][p][u])
    OBVIOUS
  <2>1. k + 1 \in 1..8 /\ k + 1 # 1 /\ k + 1 - 1 = k
    OBVIOUS
  <2> QED
    BY <1>2, <2>1
<1> DEFINE Good(k) == Tried[k][p][u] \in Nat /\ Scalable(t, p.suffix, p.per, Tried[k][p][u])
<1>6. ASSUME NEW k \in 1..7, Good(k)
      PROVE  /\ Good(k + 1)
             /\ Scaled(t, Tried[k][p][u], Count(p, Tried[k][p][u]), Tried[k + 1][p][u])
  <2>1. k \in 1..8 /\ p.per <= 32 /\ 2 * p.suffix <= t
    BY DEF t
  <2>2. ~Sized(p, t, Tried[k][p][u])
    BY <1>3, <1>6, <2>1
  <2> DEFINE e == Tried[k][p][u]
  <2>3. e \in Nat /\ Scalable(t, p.suffix, p.per, e) /\ ~Sized(p, t, e)
    BY <1>6, <2>2
  <2> HIDE DEF e
  <2>4. /\ After(p, t, e) \in Nat /\ Scaled(t, e, Count(p, e), After(p, t, e))
        /\ Scalable(t, p.suffix, p.per, After(p, t, e))
    BY <1>1, <2>1, <2>3, NextIs
  <2> QED
    BY <1>5, <2>4 DEF e
<1>7. Good(1)
  BY <1>1, <1>4 DEF Scalable
<1>8. /\ Good(1 + 1) /\ Good(2 + 1) /\ Good(3 + 1) /\ Good(4 + 1) /\ Good(5 + 1)
      /\ Good(6 + 1) /\ Good(7 + 1)
  <2> HIDE DEF Good
  <2>1. Good(1 + 1)
    BY <1>6, <1>7
  <2>2. Good(2 + 1)
    BY <1>6, <2>1
  <2>3. Good(3 + 1)
    BY <1>6, <2>2
  <2>4. Good(4 + 1)
    BY <1>6, <2>3
  <2>5. Good(5 + 1)
    BY <1>6, <2>4
  <2>6. Good(6 + 1)
    BY <1>6, <2>5
  <2>7. Good(7 + 1)
    BY <1>6, <2>6
  <2> QED
    BY <2>1, <2>2, <2>3, <2>4, <2>5, <2>6, <2>7
<1>9. \A k \in 1..8 : Good(k)
  <2> HIDE DEF Good
  <2> QED
    BY <1>7, <1>8
<1>10. c \in Histories /\ n \in Histories
  BY <1>9, CountIs DEF Histories
<1>11. \A k \in 1..8 : Counted(p.suffix, p.per, c[k], n[k]) /\ 50 * Distance(n[k], t) > t
  <2> SUFFICES ASSUME NEW k \in 1..8
               PROVE  Counted(p.suffix, p.per, c[k], n[k]) /\ 50 * Distance(n[k], t) > t
    OBVIOUS
  <2>1. c[k] \in Nat /\ n[k] = Count(p, c[k])
    BY <1>9
  <2>2. n[k] \in Nat /\ Counted(p.suffix, p.per, c[k], n[k])
    <3> HIDE DEF c, n
    <3> QED
      BY <2>1, CountIs
  <2>3. ~Sized(p, t, c[k])
    BY <1>3, <1>9
  <2>4. ~(100 * Distance(n[k], t) <= 2 * t)
    <3> HIDE DEF c, n
    <3> QED
      BY <2>1, <2>3 DEF Sized, Error, Tolerance
  <2>5. Distance(n[k], t) \in Int
    <3> HIDE DEF c, n
    <3> QED
      BY <1>1, <2>2 DEF Distance
  <2> HIDE DEF c, n
  <2> QED
    BY <1>1, <2>2, <2>4, <2>5
<1>12. \A k \in 1..7 : Scaled(t, c[k], n[k], c[k + 1])
  <2> SUFFICES ASSUME NEW k \in 1..7 PROVE Scaled(t, c[k], n[k], c[k + 1])
    OBVIOUS
  <2>1. Scaled(t, Tried[k][p][u], Count(p, Tried[k][p][u]), Tried[k + 1][p][u])
    BY <1>6, <1>9
  <2>2. /\ c[k] = Tried[k][p][u] /\ c[k + 1] = Tried[k + 1][p][u]
        /\ n[k] = Count(p, Tried[k][p][u])
    OBVIOUS
  <2> QED
    BY <2>1, <2>2
<1>13. Rounds(t, p.suffix, p.per, c, n)
  <2>1. c[1] = 4 * t
    BY <1>4
  <2> HIDE DEF c, n
  <2> QED
    BY <1>11, <1>12, <2>1 DEF Rounds
<1>14. 2 * p.suffix <= t
  BY DEF t
<1> HIDE DEF c, n
<1> QED
  BY <1>1, <1>10, <1>13, <1>14, EightSuffice

\* A sized prompt says that it converged, if an attempt did.
LEMMA PromptsConverge ==
    ASSUME NEW p \in Providers, NEW u \in Subjects, NEW r \in Raises,
           p.grain = 1, p.per <= 32, 2 * p.suffix <= Target[u], 100 <= Tolerance * Target[u],
           Prompts[p][u][r].method # "estimate"
    PROVE  Prompts[p][u][r].converged
<1> DEFINE chars == Closest[Iterations][p][u]
           t     == Target[u]
<1>1. Prompts[p][u][r] = Prompt(p, u, r)
  BY DEF Prompts
<1>2. ~(Resolve(Strategy, p) = "estimate" \/ r \in Attempts(p, u))
  BY <1>1 DEF Prompt, Unsized
<1>3. Prompt(p, u, r).converged = Sized(p, t, chars)
  <2>1. Prompt(p, u, r) = [method |-> Resolve(Strategy, p), chars |-> chars,
                           converged |-> Sized(p, t, chars)]
    BY <1>2 DEF Prompt
  <2> QED
    BY <2>1
<1>4. PICK k \in Attempts(p, u) : Sized(p, t, Tried[k][p][u])
  BY SomeAttemptFits
<1>5. t \in Nat \ {0}
  BY BatchAssumption
<1>6. k \in 1..Iterations /\ Tried[k][p][u] \in Nat
  BY TriedOf DEF Attempts, Chars
<1>7. chars \in Nat /\ Error(p, t, chars) <= Error(p, t, Tried[k][p][u])
  <2>1. Iterations \in 1..Iterations /\ Tried[k][p][u] # Stop
    BY <1>4 DEF Iterations, Attempts
  <2> QED
    BY <1>6, <2>1, KeptIsClosest
<1>8. Error(p, t, chars) \in Nat /\ Error(p, t, Tried[k][p][u]) \in Nat
  <2> HIDE DEF chars, t
  <2> QED
    BY <1>5, <1>6, <1>7, CountsAreNumbers
<1>9. Sized(p, t, chars)
  <2> HIDE DEF chars, t
  <2> QED
    BY <1>4, <1>5, <1>7, <1>8 DEF Sized, Tolerance
<1> QED
  BY <1>1, <1>3, <1>9

-----------------------------------------------------------------------------
(* The runs of an invocation.                                              *)

Places     == {"next", "summary"} \cup InRun \cup Exits
FileStates == {"absent", "torn", "whole"}
Summaries  == [by   : Invocations \cup {None},
               runs : [Planned -> Statuses \cup {None}] \cup {<<>>},
               text : {"empty"} \cup FileStates, alone : BOOLEAN]

\* The batch is well formed.
BatchTypeOK ==
    /\ provider \in [Models -> Providers]
    /\ at \in [Invocations -> Places]
    /\ results \in [Invocations -> [Planned -> Statuses \cup {None}]]
    /\ first \in [Invocations -> [Planned -> Subjects \cup {None}]]
    /\ files \in [Invocations -> [Planned -> [jsonl : FileStates, profile : FileStates]]]
    /\ sized = [i \in Invocations |-> sized[i]]
    /\ summary \in [Dirs -> Summaries]

\* An invocation runs with the index it was given, and each run is led by the
\* subject its index says.
Lead(i, n) == Runs[n].subjects[(index[i] % Len(Runs[n].subjects)) + 1]

Led(i) ==
    /\ pc[i] \in {"reserved", "replayed"} => index[i] \in Nat
    /\ at[i] \in InRun => pc[i] \in {"reserved", "replayed"}
    /\ \A n \in Planned : first[i][n] # None => /\ pc[i] \in {"reserved", "replayed"}
                                                /\ first[i][n] = Lead(i, n)

\* The prompts about to be loaded are those of the subjects of the run.
Sizes(run, p) == {[s \in DOMAIN r |-> Prompts[p][s][r[s]]] :
                     r \in [{run.subjects[k] : k \in 1..Len(run.subjects)} -> Raises]}

SizedFor(i) == at[i] = "load" => sized[i] \in Sizes(Run(i), provider[Run(i).model])

(***************************************************************************)
(* The pairs are run in order: what is over is before what is not, and     *)
(* only the first that is not over has put anything on the provider.  A    *)
(* pair is over as ok with both artifacts whole, and is skipped after a    *)
(* failure and before it was loaded.                                       *)
(***************************************************************************)
InOrder(i) ==
    /\ at[i] \in InRun => Left(i) # {}
    /\ at[i] \in {"summary", "exit 0", "exit 1"} => Left(i) = {}
    /\ \A m \in Left(i) : /\ \A n \in Planned : results[i][n] # None => n < m
                          /\ at[i] \in {"next", "size", "load"} \/ m # Number(i) => first[i][m] = None
    /\ at[i] \in {"profile", "text"} => files[i][Number(i)].jsonl = "whole"
    /\ \A n \in Planned :
          /\ results[i][n] = "ok" => files[i][n] = [jsonl |-> "whole", profile |-> "whole"]
          /\ results[i][n] = "skipped" => /\ first[i][n] = None
                                          /\ \E k \in Planned : k < n /\ results[i][k] = "failed"

\* A summary is that of an invocation that is done with its runs, and its only
\* user if it emptied it alone.
SummaryOf(d) ==
    summary[d].text # "absent" =>
        LET i == summary[d].by
        IN  /\ i \in Invocations /\ Dir[i] = d /\ summary[d].runs = results[i] /\ Left(i) = {}
            /\ at[i] \in {"summary"} \cup Exits
            /\ summary[d].text = "whole" =>
                  at[i] \in {IF Failed(i) THEN "exit 1" ELSE "exit 0", "stopped"}
            /\ summary[d].alone =>
                  /\ \A j \in Invocations \ {i} : Dir[j] = d => at[j] # "summary"
                  /\ at[i] = "summary" => summary[d].text = "empty"
                  /\ at[i] \in {"exit 0", "exit 1"} => summary[d].text = "whole"

\* What does not exist was written by nobody; who has a summary open opened it.
Opened(d) ==
    /\ summary[d].text = "absent" => ~summary[d].alone
    /\ \A i \in Invocations : Dir[i] = d /\ at[i] = "summary" => summary[d].text # "absent"

BatchInv ==
    /\ BatchTypeOK
    /\ \A i \in Invocations : Led(i) /\ SizedFor(i) /\ InOrder(i)
    /\ \A d \in Dirs : SummaryOf(d) /\ Opened(d)

\* The run in progress is the first that is not over.
LEMMA NumberIsFirst ==
    ASSUME NEW i \in Invocations, Left(i) # {}
    PROVE  Number(i) \in Left(i) /\ Number(i) \in Planned /\ \A m \in Left(i) : Number(i) <= m
<1>1. Left(i) \in SUBSET Nat
  BY DEF Left, Planned
<1>2. Min(Left(i)) \in Left(i) /\ \A m \in Left(i) : Min(Left(i)) <= m
  <2> HIDE DEF Left
  <2> QED
    BY <1>1, LeastOf
<1> QED
  BY <1>2 DEF Number, Left

\* The subjects of a pair, and the one that leads a run of it.
LEMMA LeadsOrder ==
    ASSUME NEW i \in Invocations, Number(i) \in Planned, index[i] \in Nat
    PROVE  Head(Order(i)) = Lead(i, Number(i)) /\ Head(Order(i)) \in Subjects
<1> DEFINE subjects == Runs[Number(i)].subjects
           offset   == index[i] % Len(subjects)
<1>1. Number(i) \in 1..Len(Runs)
  BY DEF Planned
<1>2. subjects \in Seq(Subjects) /\ subjects # <<>>
  BY <1>1, BatchAssumption
<1> HIDE DEF subjects
<1>3. Len(subjects) \in Nat \ {0}
  BY <1>2
<1>4. offset \in Nat /\ offset < Len(subjects)
  BY <1>3
<1> HIDE DEF offset
<1> DEFINE front == SubSeq(subjects, offset + 1, Len(subjects))
           back  == SubSeq(subjects, 1, offset)
<1>5. /\ front \in Seq(Subjects) /\ back \in Seq(Subjects)
      /\ Len(front) > 0 /\ front[1] = subjects[offset + 1]
  BY <1>2, <1>3, <1>4
<1>6. Order(i) = front \o back
  BY DEF Order, Run, subjects, offset
<1> HIDE DEF front, back
<1>7. Head(front \o back) = front[1]
  BY <1>5
<1>8. subjects[offset + 1] \in Subjects
  BY <1>2, <1>3, <1>4
<1>9. Lead(i, Number(i)) = subjects[offset + 1]
  BY DEF Lead, subjects, offset
<1> QED
  BY <1>5, <1>6, <1>7, <1>8, <1>9

\* When a pair is over it is no longer left, and the others are as they were.
LEMMA LogsOne ==
    ASSUME BatchTypeOK, NEW i \in Invocations, Left(i) # {}, NEW s \in Statuses, Log(i, s)
    PROVE  /\ results' \in [Invocations -> [Planned -> Statuses \cup {None}]]
           /\ results'[i][Number(i)] = s
           /\ \A n \in Planned : n # Number(i) => results'[i][n] = results[i][n]
           /\ Left(i)' = Left(i) \ {Number(i)}
<1>1. Number(i) \in Planned
  BY NumberIsFirst
<1>2. s # None
  BY BatchAssumption
<1>3. /\ results' \in [Invocations -> [Planned -> Statuses \cup {None}]]
      /\ results'[i][Number(i)] = s
      /\ \A n \in Planned : n # Number(i) => results'[i][n] = results[i][n]
  BY <1>1 DEF BatchTypeOK, Log
<1>4. Left(i)' = {n \in Planned : results'[i][n] = None}
  BY DEF Left
<1>5. \A n \in Planned : results'[i][n] = None <=> results[i][n] = None /\ n # Number(i)
  BY <1>1, <1>2, <1>3
<1> QED
  BY <1>3, <1>4, <1>5 DEF Left

\* An artifact that is written leaves the others as they are.
LEMMA SavesOne ==
    ASSUME BatchTypeOK, NEW i \in Invocations, Number(i) \in Planned, NEW as \in FileStates,
           NEW kind \in {"jsonl", "profile"}, Save(i, kind, as)
    PROVE  /\ files' \in [Invocations -> [Planned -> [jsonl : FileStates, profile : FileStates]]]
           /\ \A n \in Planned : n # Number(i) => files'[i][n] = files[i][n]
           /\ files'[i][Number(i)] =
                IF kind = "jsonl" THEN [jsonl |-> as, profile |-> files[i][Number(i)].profile]
                ELSE [jsonl |-> files[i][Number(i)].jsonl, profile |-> as]
<1> DEFINE n == Number(i)
           new == [files[i][n] EXCEPT ![kind] = as]
<1>1. files[i][n] \in [jsonl : FileStates, profile : FileStates]
  BY DEF BatchTypeOK
<1>2. new = IF kind = "jsonl" THEN [jsonl |-> as, profile |-> files[i][n].profile]
            ELSE [jsonl |-> files[i][n].jsonl, profile |-> as]
  <2>1. PICK a \in FileStates, b \in FileStates : files[i][n] = [jsonl |-> a, profile |-> b]
    BY <1>1
  <2>2. ASSUME NEW x, NEW y, NEW z, NEW k, k = "jsonl"
        PROVE  [[jsonl |-> x, profile |-> y] EXCEPT ![k] = z] = [jsonl |-> z, profile |-> y]
    BY <2>2
  <2>3. ASSUME NEW x, NEW y, NEW z, NEW k, k = "profile"
        PROVE  [[jsonl |-> x, profile |-> y] EXCEPT ![k] = z] = [jsonl |-> x, profile |-> z]
    BY <2>3
  <2>4. files[i][n].jsonl = a /\ files[i][n].profile = b
    BY <2>1
  <2>5. CASE kind = "jsonl"
    <3>1. new = [[jsonl |-> a, profile |-> b] EXCEPT ![kind] = as]
      BY <2>1
    <3> HIDE DEF new
    <3>2. new = [jsonl |-> as, profile |-> b]
      BY <2>2, <2>5, <3>1
    <3> QED
      BY <2>4, <2>5, <3>2
  <2>6. CASE kind = "profile"
    <3>1. new = [[jsonl |-> a, profile |-> b] EXCEPT ![kind] = as]
      BY <2>1
    <3> HIDE DEF new
    <3>2. new = [jsonl |-> a, profile |-> as]
      BY <2>3, <2>6, <3>1
    <3> QED
      BY <2>4, <2>6, <3>2
  <2> QED
    BY <2>5, <2>6
<1>3. new \in [jsonl : FileStates, profile : FileStates]
  BY <1>1, <1>2
<1>4. files' = [files EXCEPT ![i] = [files[i] EXCEPT ![n] = new]]
  BY DEF Save
<1> HIDE DEF new, n
<1>5. n \in Planned
  BY DEF n
<1>6. /\ files' \in [Invocations -> [Planned -> [jsonl : FileStates, profile : FileStates]]]
      /\ \A k \in Planned : k # n => files'[i][k] = files[i][k]
      /\ files'[i][n] = new
  BY <1>3, <1>4, <1>5 DEF BatchTypeOK
<1> QED
  BY <1>2, <1>6 DEF n

\* A step of an invocation is not one of another.
Untouched(j) == /\ at'[j] = at[j] /\ results'[j] = results[j] /\ first'[j] = first[j]
                /\ files'[j] = files[j] /\ sized'[j] = sized[j]
                /\ provider' = provider

Steps(i) == BatchStep(i) \/ RunRaises(i) \/ Stopped(i)

LEMMA OthersUntouched ==
    ASSUME BatchTypeOK, NEW i \in Invocations, NEW j \in Invocations, i # j, Steps(i)
    PROVE  Untouched(j)
<1> USE DEF BatchTypeOK, Untouched, Go, Log, Save
<1>1. CASE Begin(i)
  BY <1>1 DEF Begin
<1>2. CASE Size(i)
  BY <1>2 DEF Size
<1>3. CASE Load(i)
  BY <1>3 DEF Load
<1>4. CASE OpenJsonl(i) \/ WriteJsonl(i) \/ OpenProfile(i)
  BY <1>4 DEF OpenJsonl, WriteJsonl, OpenProfile
<1>5. CASE WriteProfile(i)
  BY <1>5 DEF WriteProfile
<1>6. CASE OpenSummary(i) \/ WriteSummary(i)
  BY <1>6 DEF OpenSummary, WriteSummary, AllLogged
<1>7. CASE RunRaises(i)
  BY <1>7 DEF RunRaises, Recorded
<1>8. CASE Stopped(i)
  BY <1>8 DEF Stopped
<1> QED
  BY <1>1, <1>2, <1>3, <1>4, <1>5, <1>6, <1>7, <1>8 DEF Steps, BatchStep

\* Every step of the batch is one of these.
LEMMA BatchCases ==
    [BatchNext]_batchVars =>
        \/ (\E i \in Invocations : Replay(i) \/ Work(i) \/ Die(i)) /\ UNCHANGED batch
        \/ (\E i \in Invocations : Steps(i)) /\ UNCHANGED vars
        \/ UNCHANGED batchVars
BY DEF BatchNext, Reserving, Steps, BatchStep, Begin, Size, Load, OpenJsonl, WriteJsonl,
       OpenProfile, WriteProfile, OpenSummary, WriteSummary, RunRaises, Stopped, Over, batchVars

\* A summary that is opened or written is one of the writer, in its directory.
LEMMA SummarisesOne ==
    ASSUME BatchTypeOK, NEW i \in Invocations, NEW text \in {"empty"} \cup FileStates, NEW alone,
           Summarise(i, text, alone), alone \in BOOLEAN \/ alone = summary[Dir[i]].alone
    PROVE  /\ summary' \in [Dirs -> Summaries]
           /\ summary'[Dir[i]].by = i /\ summary'[Dir[i]].runs = results[i]
           /\ summary'[Dir[i]].text = text /\ summary'[Dir[i]].alone = alone
           /\ \A d \in Dirs : d # Dir[i] => summary'[d] = summary[d]
<1>1. Dir[i] \in Dirs /\ results[i] \in [Planned -> Statuses \cup {None}]
  BY DEF Dirs, BatchTypeOK
<1>2. summary \in [Dirs -> Summaries]
  BY DEF BatchTypeOK
<1>3. alone \in BOOLEAN
  BY <1>1, <1>2 DEF Summaries
<1> DEFINE new == [by |-> i, runs |-> results[i], text |-> text, alone |-> alone]
<1>4. new \in Summaries /\ new.by = i /\ new.runs = results[i] /\ new.text = text /\ new.alone = alone
  BY <1>1, <1>3 DEF Summaries
<1>5. summary' = [summary EXCEPT ![Dir[i]] = new]
  BY DEF Summarise
<1> HIDE DEF new
<1> QED
  BY <1>1, <1>2, <1>4, <1>5

\* The batch stays well formed.
LEMMA BatchTypeNext ==
    ASSUME BatchInv, [BatchNext]_batchVars
    PROVE  BatchTypeOK'
<1> USE DEF Places, InRun, Exits, FileStates
<1>1. CASE UNCHANGED batch
  BY <1>1 DEF BatchInv, BatchTypeOK, batch
<1>2. ASSUME NEW i \in Invocations, Steps(i), UNCHANGED vars
      PROVE  BatchTypeOK'
  <2>0. /\ BatchTypeOK /\ (at[i] \in InRun => Left(i) # {} /\ Number(i) \in Planned)
        /\ (at[i] \in InRun => index[i] \in Nat)
    BY NumberIsFirst DEF BatchInv, InOrder, Led
  <2>1. CASE Begin(i)
    <3>1. CASE Log(i, "skipped") /\ UNCHANGED at
      <4>1. results' \in [Invocations -> [Planned -> Statuses \cup {None}]]
        BY <2>0, <2>1, <3>1, LogsOne DEF Begin, Statuses
      <4> QED
        BY <2>0, <2>1, <3>1, <4>1 DEF Begin, BatchTypeOK
    <3>2. CASE Go(i, "size") /\ UNCHANGED results
      BY <2>0, <2>1, <3>2 DEF Begin, BatchTypeOK, Go
    <3> QED
      BY <2>1, <3>1, <3>2 DEF Begin
  <2>2. CASE Size(i)
    BY <2>0, <2>2 DEF Size, BatchTypeOK, Go
  <2>3. CASE Load(i)
    <3>1. Head(Order(i)) \in Subjects /\ Number(i) \in Planned
      BY <2>0, <2>3, LeadsOrder DEF Load
    <3> QED
      BY <2>0, <2>3, <3>1 DEF Load, BatchTypeOK, Go
  <2>4. CASE OpenJsonl(i)
    BY <2>0, <2>4, SavesOne DEF OpenJsonl, BatchTypeOK, Go
  <2>5. CASE WriteJsonl(i)
    BY <2>0, <2>5, SavesOne DEF WriteJsonl, BatchTypeOK, Go
  <2>6. CASE OpenProfile(i)
    BY <2>0, <2>6, SavesOne DEF OpenProfile, BatchTypeOK, Go
  <2>7. CASE WriteProfile(i)
    <3>1. results' \in [Invocations -> [Planned -> Statuses \cup {None}]]
      BY <2>0, <2>7, LogsOne DEF WriteProfile, Statuses
    <3> QED
      BY <2>0, <2>7, <3>1, SavesOne DEF WriteProfile, BatchTypeOK, Go
  <2>8. CASE RunRaises(i)
    <3>1. results' \in [Invocations -> [Planned -> Statuses \cup {None}]]
      BY <2>0, <2>8, LogsOne DEF RunRaises, Recorded, Statuses
    <3> QED
      BY <2>0, <2>8, <3>1 DEF RunRaises, BatchTypeOK, Go
  <2>9. CASE OpenSummary(i) \/ WriteSummary(i) \/ Stopped(i)
    <3>1. at' \in [Invocations -> Places]
      BY <2>0, <2>9 DEF OpenSummary, WriteSummary, Stopped, BatchTypeOK, Go
    <3>2. summary' \in [Dirs -> Summaries]
      <4>1. CASE OpenSummary(i)
        <5>1. Alone(i) \in BOOLEAN /\ Summarise(i, "empty", Alone(i))
          BY <4>1 DEF OpenSummary, Alone
        <5> QED
          BY <2>0, <5>1, SummarisesOne
      <4>2. CASE \E text \in {"torn", "whole"} : Summarise(i, text, summary[Dir[i]].alone)
        BY <2>0, <4>2, SummarisesOne
      <4>3. CASE UNCHANGED summary
        BY <2>0, <4>3 DEF BatchTypeOK
      <4> QED
        BY <2>9, <4>1, <4>2, <4>3 DEF WriteSummary, Stopped, Overwrites
    <3> QED
      BY <2>0, <2>9, <3>1, <3>2 DEF OpenSummary, WriteSummary, Stopped, BatchTypeOK
  <2> QED
    BY <1>2, <2>1, <2>2, <2>3, <2>4, <2>5, <2>6, <2>7, <2>8, <2>9 DEF Steps, BatchStep
<1> QED
  BY <1>1, <1>2, BatchCases DEF batchVars

\* An invocation that has its index keeps it, and gets one that is a number.
LEMMA IndexKept ==
    ASSUME OneInside, NEW i \in Invocations, Replay(i) \/ Work(i) \/ Die(i),
           NEW j \in Invocations
    PROVE  /\ pc[j] \in {"reserved", "replayed"} => pc'[j] = pc[j] /\ index'[j] = index[j]
           /\ pc'[j] \in {"reserved", "replayed"} /\ pc'[j] # pc[j] => index'[j] \in Nat
<1> USE RotationAssumption DEF OneInside, TypeOK, Move
<1>1. CASE Replay(i)
  BY <1>1 DEF Replay
<1>2. CASE Lock(i) \/ Read(i) \/ Truncate(i) \/ Write(i)
  BY <1>2 DEF Lock, Read, Truncate, Write
<1>3. CASE Close(i)
  BY <1>3 DEF Close
<1>4. CASE Die(i)
  BY <1>4 DEF Die
<1> QED
  BY <1>1, <1>2, <1>3, <1>4 DEF Work

\* Every run is led by the subject its index says.
LEMMA LedNext ==
    ASSUME OneInside, BatchInv, [BatchNext]_batchVars, NEW j \in Invocations
    PROVE  Led(j)'
<1>0. BatchTypeOK /\ Led(j) /\ (at[j] \in InRun => Left(j) # {})
  BY DEF BatchInv, InOrder
<1>1. CASE UNCHANGED batchVars
  BY <1>0, <1>1 DEF Led, Lead, batchVars, batch, vars
<1>2. ASSUME NEW i \in Invocations, Replay(i) \/ Work(i) \/ Die(i), UNCHANGED batch
      PROVE  Led(j)'
  <2>1. /\ pc[j] \in {"reserved", "replayed"} => pc'[j] = pc[j] /\ index'[j] = index[j]
        /\ pc'[j] \in {"reserved", "replayed"} /\ pc'[j] # pc[j] => index'[j] \in Nat
    BY <1>2, IndexKept
  <2>2. at'[j] = at[j] /\ first'[j] = first[j]
    BY <1>2 DEF batch
  <2> QED
    BY <1>0, <2>1, <2>2 DEF Led, Lead
<1>3. ASSUME NEW i \in Invocations, Steps(i), UNCHANGED vars
      PROVE  Led(j)'
  <2>0. pc' = pc /\ index' = index
    BY <1>3 DEF vars
  <2>1. CASE i # j
    BY <1>0, <1>3, <2>0, <2>1, OthersUntouched DEF Untouched, Led, Lead
  <2>2. CASE i = j
    <3>1. ASSUME first'[j] = first[j],
                 at'[j] \in InRun => at[j] \in InRun \/ pc[j] \in {"reserved", "replayed"}
          PROVE  Led(j)'
      BY <1>0, <2>0, <3>1 DEF Led, Lead
    <3>2. CASE Load(i)
      <4>1. Number(j) \in Planned /\ index[j] \in Nat /\ pc[j] \in {"reserved", "replayed"}
        BY <1>0, <2>2, <3>2, NumberIsFirst DEF Load, Led, InRun
      <4>2. Head(Order(j)) = Lead(j, Number(j))
        BY <4>1, LeadsOrder
      <4>3. \A n \in Planned : first'[j][n] = IF n = Number(j) THEN Lead(j, n) ELSE first[j][n]
        BY <1>0, <2>2, <3>2, <4>1, <4>2 DEF Load, BatchTypeOK
      <4> QED
        BY <1>0, <2>0, <4>1, <4>3 DEF Led, Lead
    <3>3. CASE Begin(i) \/ Size(i)
      <4>1. first' = first /\ (at'[j] \in InRun => at[j] \in InRun \/ pc[j] \in {"reserved", "replayed"})
        BY <1>0, <2>2, <3>3 DEF Begin, Size, BatchTypeOK, Go, InRun
      <4> QED
        BY <3>1, <4>1
    <3>4. CASE OpenJsonl(i) \/ WriteJsonl(i) \/ OpenProfile(i) \/ WriteProfile(i)
      <4>1. first' = first /\ at[j] \in InRun
        BY <2>2, <3>4 DEF OpenJsonl, WriteJsonl, OpenProfile, WriteProfile, InRun
      <4> QED
        BY <3>1, <4>1
    <3>5. CASE OpenSummary(i) \/ WriteSummary(i) \/ Stopped(i) \/ RunRaises(i)
      <4>1. first' = first /\ at'[j] \notin InRun
        BY <1>0, <2>2, <3>5
           DEF OpenSummary, WriteSummary, Stopped, RunRaises, BatchTypeOK, Go, InRun
      <4> QED
        BY <3>1, <4>1
    <3> QED
      BY <1>3, <3>2, <3>3, <3>4, <3>5 DEF Steps, BatchStep
  <2> QED
    BY <2>1, <2>2
<1> QED
  BY <1>1, <1>2, <1>3, BatchCases

\* The prompts to be loaded are those of the run.
LEMMA SizedNext ==
    ASSUME BatchInv, [BatchNext]_batchVars, NEW j \in Invocations
    PROVE  SizedFor(j)'
<1>0. BatchTypeOK /\ SizedFor(j)
  BY DEF BatchInv
<1>1. ASSUME at'[j] = at[j], results'[j] = results[j], sized'[j] = sized[j], provider' = provider
      PROVE  SizedFor(j)'
  <2>1. Run(j)' = Run(j)
    BY <1>1 DEF Run, Number, Left
  <2> QED
    BY <1>0, <1>1, <2>1 DEF SizedFor
<1>2. CASE UNCHANGED batch
  BY <1>1, <1>2 DEF batch
<1>3. ASSUME NEW i \in Invocations, Steps(i)
      PROVE  SizedFor(j)'
  <2>1. CASE i # j
    BY <1>0, <1>1, <1>3, <2>1, OthersUntouched DEF Untouched
  <2>2. CASE i = j /\ ~Size(i)
    <3>1. at'[j] # "load"
      BY <1>0, <1>3, <2>2
         DEF Steps, BatchStep, Begin, Load, OpenJsonl, WriteJsonl, OpenProfile, WriteProfile,
             OpenSummary, WriteSummary, RunRaises, Stopped, BatchTypeOK, Go, AllLogged
    <3> QED
      BY <3>1 DEF SizedFor
  <2>3. CASE i = j /\ Size(i)
    <3>1. Run(i)' = Run(i) /\ provider' = provider
      BY <2>3 DEF Size, Run, Number, Left
    <3>2. PICK r \in [{Run(i).subjects[k] : k \in 1..Len(Run(i).subjects)} -> Raises] :
             sized' = [sized EXCEPT ![i] =
                 [s \in DOMAIN r |-> Prompts[provider[Run(i).model]][s][r[s]]]]
      BY <2>3 DEF Size
    <3> DEFINE sizes == [s \in DOMAIN r |-> Prompts[provider[Run(i).model]][s][r[s]]]
    <3>3. sizes \in Sizes(Run(i), provider[Run(i).model])
      BY DEF Sizes
    <3> HIDE DEF sizes
    <3>4. sized'[i] = sizes
      BY <1>0, <3>2 DEF BatchTypeOK, sizes
    <3> QED
      BY <2>3, <3>1, <3>3, <3>4 DEF SizedFor
  <2> QED
    BY <2>1, <2>2, <2>3
<1> QED
  BY <1>2, <1>3, BatchCases DEF batchVars

\* A pair that is over leaves the others in order.
LEMMA LoggedInOrder ==
    ASSUME BatchTypeOK, NEW i \in Invocations, InOrder(i), Left(i) # {},
           NEW s \in Statuses, Log(i, s), at'[i] = "next", first'[i] = first[i],
           \A n \in Planned : n # Number(i) => files'[i][n] = files[i][n],
           s = "ok" => files'[i][Number(i)] = [jsonl |-> "whole", profile |-> "whole"],
           s = "skipped" => /\ first[i][Number(i)] = None
                            /\ \E k \in Planned : results[i][k] = "failed"
    PROVE  InOrder(i)'
<1> DEFINE n == Number(i)
<1>0. None \notin Statuses
  BY BatchAssumption
<1>1. n \in Left(i) /\ n \in Planned /\ \A m \in Left(i) : n <= m
  BY NumberIsFirst
<1>2. /\ results'[i][n] = s
      /\ \A m \in Planned : m # n => results'[i][m] = results[i][m]
      /\ Left(i)' = Left(i) \ {n}
  BY LogsOne
<1>3. Planned \subseteq Nat
  BY DEF Planned
<1>4. results[i][n] = None
  BY <1>1 DEF Left
<1> HIDE DEF n
<1>5. ASSUME NEW m \in Left(i)'
      PROVE  /\ \A k \in Planned : results'[i][k] # None => k < m
             /\ first'[i][m] = None
  <2>1. m \in Left(i) /\ m # n /\ m \in Planned
    BY <1>2, <1>5 DEF Left
  <2>2. first[i][m] = None
    BY <2>1 DEF InOrder, n
  <2>3. ASSUME NEW k \in Planned, results'[i][k] # None PROVE k < m
    <3>1. CASE k = n
      BY <1>1, <1>3, <2>1, <3>1
    <3>2. CASE k # n
      BY <1>2, <2>1, <2>3, <3>2 DEF InOrder
    <3> QED
      BY <3>1, <3>2
  <2> QED
    BY <2>2, <2>3
<1>6. ASSUME NEW m \in Planned
      PROVE  /\ results'[i][m] = "ok" => files'[i][m] = [jsonl |-> "whole", profile |-> "whole"]
             /\ results'[i][m] = "skipped" =>
                   /\ first'[i][m] = None
                   /\ \E k \in Planned : k < m /\ results'[i][k] = "failed"
  <2>0. \A k \in Planned : results[i][k] = "failed" => k # n /\ results'[i][k] = "failed" /\ k < n
    BY <1>0, <1>1, <1>2, <1>4 DEF InOrder, Statuses
  <2>1. CASE m = n
    BY <1>2, <2>0, <2>1 DEF n
  <2>2. CASE m # n
    <3>1. results'[i][m] = results[i][m] /\ files'[i][m] = files[i][m]
      BY <1>2, <2>2 DEF n
    <3> QED
      BY <2>0, <3>1 DEF InOrder
  <2> QED
    BY <2>1, <2>2
<1>7. \A m \in Left(i)' : \A k \in Planned : (results'[i][k] # None => k < m)
  BY <1>5
<1>8. \A m \in Left(i)' : first'[i][m] = None
  BY <1>5
<1> QED
  BY <1>6, <1>7, <1>8 DEF InOrder, InRun

\* The pairs stay in order, whatever happens in a run.
LEMMA InOrderNext ==
    ASSUME BatchInv, [BatchNext]_batchVars, NEW j \in Invocations
    PROVE  InOrder(j)'
<1>0. BatchTypeOK /\ InOrder(j)
  BY DEF BatchInv
<1>1. ASSUME results'[j] = results[j] PROVE Left(j)' = Left(j) /\ Number(j)' = Number(j)
  BY <1>1 DEF Number, Left
<1>2. ASSUME at'[j] = at[j], results'[j] = results[j], first'[j] = first[j], files'[j] = files[j]
      PROVE  InOrder(j)'
  <2>1. Left(j)' = Left(j) /\ Number(j)' = Number(j)
    BY <1>1, <1>2
  <2> QED
    BY <1>0, <1>2, <2>1 DEF InOrder
<1>3. CASE UNCHANGED batch
  BY <1>2, <1>3 DEF batch
<1>4. ASSUME NEW i \in Invocations, Steps(i), i # j
      PROVE  InOrder(j)'
  BY <1>0, <1>2, <1>4, OthersUntouched DEF Untouched
<1>5. ASSUME Steps(j)
      PROVE  InOrder(j)'
  <2> DEFINE n == Number(j)
  <2>0. Left(j) # {} => n \in Left(j) /\ n \in Planned
    BY NumberIsFirst
  <2>1. at[j] \in InRun => Left(j) # {}
    BY <1>0 DEF InOrder
  <2>2. \A m \in Planned : results[j][m] # None => m \notin Left(j)
    BY DEF Left
  <2>3. None \notin Statuses
    BY BatchAssumption
  <2>4. CASE Begin(j) /\ Log(j, "skipped") /\ UNCHANGED at
    <3>1. /\ Left(j) # {} /\ at'[j] = "next" /\ first'[j] = first[j] /\ files' = files
          /\ first[j][n] = None /\ \E k \in Planned : results[j][k] = "failed"
      <4>1. /\ at[j] = "next" /\ Left(j) # {} /\ first' = first /\ files' = files /\ at' = at
        BY <2>4 DEF Begin
      <4>2. Failed(j)
        <5> SUFFICES ASSUME ~Failed(j) PROVE FALSE
          OBVIOUS
        <5>1. Go(j, "size")
          BY <2>4 DEF Begin
        <5> QED
          BY <1>0, <4>1, <5>1 DEF Go, BatchTypeOK
      <4> QED
        BY <1>0, <2>0, <4>1, <4>2 DEF InOrder, Failed
    <3> QED
      BY <1>0, <2>4, <3>1, LoggedInOrder DEF Statuses
  <2>5. CASE Begin(j) /\ Go(j, "size") /\ UNCHANGED results
    <3>1. /\ at[j] = "next" /\ at'[j] = "size" /\ results'[j] = results[j]
          /\ first' = first /\ files' = files /\ Left(j) # {}
      BY <1>0, <2>5 DEF Begin, Go, BatchTypeOK
    <3>2. Left(j)' = Left(j) /\ Number(j)' = Number(j)
      BY <1>1, <3>1
    <3> QED
      BY <1>0, <3>1, <3>2 DEF InOrder
  <2>6. CASE Size(j)
    <3>1. /\ at[j] = "size" /\ at'[j] = "load" /\ results'[j] = results[j]
          /\ first' = first /\ files' = files
      BY <1>0, <2>6 DEF Size, Go, BatchTypeOK
    <3>2. Left(j)' = Left(j) /\ Number(j)' = Number(j)
      BY <1>1, <3>1
    <3> QED
      BY <1>0, <2>1, <3>1, <3>2 DEF InOrder, InRun
  <2>7. CASE Load(j)
    <3>1. /\ at[j] = "load" /\ at'[j] = "jsonl" /\ results'[j] = results[j] /\ files' = files
          /\ \A m \in Planned : m # n => first'[j][m] = first[j][m]
      BY <1>0, <2>7 DEF Load, Go, BatchTypeOK
    <3>2. Left(j)' = Left(j) /\ Number(j)' = Number(j) /\ n \in Left(j) /\ Left(j) \subseteq Planned
      BY <1>1, <2>0, <2>1, <3>1 DEF InRun, Left
    <3> HIDE DEF n
    <3>3. \A m \in Left(j) : m # n => first'[j][m] = None
      BY <1>0, <3>1, <3>2 DEF InOrder, n
    <3>4. \A m \in Planned : results[j][m] = "skipped" => first'[j][m] = first[j][m]
      BY <2>2, <2>3, <3>1, <3>2 DEF Statuses
    <3> QED
      BY <1>0, <3>1, <3>2, <3>3, <3>4 DEF InOrder, InRun, n
  <2>8. CASE OpenJsonl(j) \/ WriteJsonl(j) \/ OpenProfile(j)
    <3>1. /\ at[j] \in InRun /\ results'[j] = results[j] /\ first' = first
          /\ at[j] \notin {"next", "size", "load"} /\ at'[j] \in {"rows", "profile", "text"}
      BY <1>0, <2>8 DEF OpenJsonl, WriteJsonl, OpenProfile, Go, BatchTypeOK, InRun
    <3>2. Left(j)' = Left(j) /\ Number(j)' = Number(j) /\ n \in Left(j) /\ n \in Planned
      BY <1>1, <2>0, <2>1, <3>1
    <3>3. /\ \A m \in Planned : m # n => files'[j][m] = files[j][m]
          /\ at'[j] \in {"profile", "text"} => files'[j][n].jsonl = "whole"
      <4>1. CASE OpenJsonl(j)
        <5>1. Save(j, "jsonl", "torn") /\ at'[j] = "rows"
          BY <1>0, <4>1 DEF OpenJsonl, Go, BatchTypeOK
        <5> QED
          BY <1>0, <3>2, <5>1, SavesOne DEF FileStates
      <4>2. CASE WriteJsonl(j)
        <5>1. Save(j, "jsonl", "whole")
          BY <4>2 DEF WriteJsonl
        <5>2. /\ \A m \in Planned : m # n => files'[j][m] = files[j][m]
              /\ files'[j][n] = [jsonl |-> "whole", profile |-> files[j][n].profile]
          BY <1>0, <3>2, <5>1, SavesOne DEF FileStates
        <5> HIDE DEF n
        <5> QED
          BY <5>2
      <4>3. CASE OpenProfile(j)
        <5>1. Save(j, "profile", "torn") /\ files[j][n].jsonl = "whole"
          BY <1>0, <4>3 DEF OpenProfile, InOrder
        <5>2. /\ \A m \in Planned : m # n => files'[j][m] = files[j][m]
              /\ files'[j][n] = [jsonl |-> files[j][n].jsonl, profile |-> "torn"]
          BY <1>0, <3>2, <5>1, SavesOne DEF FileStates
        <5> HIDE DEF n
        <5> QED
          BY <5>1, <5>2
      <4> QED
        BY <2>8, <4>1, <4>2, <4>3
    <3> HIDE DEF n
    <3>4. \A m \in Planned : results[j][m] = "ok" => files'[j][m] = files[j][m]
      BY <2>2, <2>3, <3>2, <3>3 DEF Statuses
    <3>5. /\ Left(j)' = Left(j) /\ Number(j)' = n
          /\ at'[j] \in {"profile", "text"} => files'[j][n].jsonl = "whole"
      BY <3>2, <3>3 DEF n
    <3>6. \A m \in Left(j) : m # n => first[j][m] = None
      BY <1>0 DEF InOrder, n
    <3> QED
      BY <1>0, <2>1, <3>1, <3>4, <3>5, <3>6 DEF InOrder, InRun
  <2>9. CASE WriteProfile(j)
    <3>1. /\ at[j] \in InRun /\ at'[j] = "next" /\ first' = first
          /\ Log(j, "ok") /\ Save(j, "profile", "whole") /\ files[j][n].jsonl = "whole"
      BY <1>0, <2>9 DEF WriteProfile, Go, BatchTypeOK, InRun, InOrder
    <3>2. /\ \A m \in Planned : m # n => files'[j][m] = files[j][m]
          /\ files'[j][n] = [jsonl |-> "whole", profile |-> "whole"]
      BY <1>0, <2>0, <2>1, <3>1, SavesOne DEF FileStates
    <3> QED
      BY <1>0, <2>1, <3>1, <3>2, LoggedInOrder DEF Statuses
  <2>10. CASE RunRaises(j)
    <3>1. /\ at[j] \in InRun /\ at'[j] = "next" /\ first' = first /\ files' = files
          /\ Log(j, "failed")
      BY <1>0, <2>10 DEF RunRaises, Recorded, Go, BatchTypeOK
    <3> QED
      BY <1>0, <2>1, <3>1, LoggedInOrder DEF Statuses
  <2>11. CASE OpenSummary(j) \/ WriteSummary(j) \/ Stopped(j)
    <3>1. /\ at'[j] \in {"summary", "exit 0", "exit 1", "stopped"}
          /\ at'[j] # "stopped" => Left(j) = {}
          /\ results' = results /\ first' = first /\ files' = files
      BY <1>0, <2>11 DEF OpenSummary, WriteSummary, Stopped, AllLogged, Go, BatchTypeOK, InOrder
    <3>2. Left(j)' = Left(j) /\ Number(j)' = Number(j)
      BY <1>1, <3>1
    <3> QED
      BY <1>0, <3>1, <3>2 DEF InOrder, InRun
  <2> QED
    BY <1>5, <2>4, <2>5, <2>6, <2>7, <2>8, <2>9, <2>10, <2>11 DEF Steps, BatchStep, Begin
<1> QED
  BY <1>3, <1>4, <1>5, BatchCases DEF batchVars

\* A summary that is not written stays that of an invocation that is done.
LEMMA SummaryStays ==
    ASSUME NEW d \in Dirs, SummaryOf(d), Opened(d), summary'[d] = summary[d],
           \A j \in Invocations : Dir[j] = d =>
               \/ at'[j] = at[j] /\ results'[j] = results[j]
               \/ at'[j] = "stopped" /\ results'[j] = results[j]
               \/ at'[j] # "summary" /\ at[j] \notin {"summary"} \cup Exits
    PROVE  SummaryOf(d)' /\ Opened(d)'
<1>1. Opened(d)'
  BY DEF Opened
<1>2. ASSUME summary[d].text # "absent" PROVE SummaryOf(d)'
  <2> DEFINE k == summary[d].by
  <2>1. /\ k \in Invocations /\ Dir[k] = d /\ at[k] \in {"summary"} \cup Exits
        /\ results'[k] = results[k] /\ at'[k] \in {at[k], "stopped"}
    BY <1>2 DEF SummaryOf
  <2>2. Left(k)' = Left(k) /\ (Failed(k)' <=> Failed(k))
    BY <2>1 DEF Left, Failed
  <2>3. \A j \in Invocations \ {k} : Dir[j] = d /\ at[j] # "summary" => at'[j] # "summary"
    OBVIOUS
  <2> QED
    BY <1>2, <2>1, <2>2, <2>3 DEF SummaryOf, Exits
<1> QED
  BY <1>1, <1>2 DEF SummaryOf

\* A summary is opened by an invocation that is done, and written by who opened it.
LEMMA SummaryWritten ==
    ASSUME BatchInv, BatchTypeOK', NEW i \in Invocations,
           OpenSummary(i) \/ WriteSummary(i) \/ (Stopped(i) /\ summary' # summary)
    PROVE  SummaryOf(Dir[i])' /\ Opened(Dir[i])'
<1> DEFINE d == Dir[i]
<1>0. /\ BatchTypeOK /\ SummaryOf(d) /\ Opened(d) /\ InOrder(i) /\ d \in Dirs
  BY DEF BatchInv, Dirs
<1>1. /\ results' = results /\ Left(i) = {} /\ Left(i)' = Left(i) /\ (Failed(i)' <=> Failed(i))
      /\ \A j \in Invocations : j # i => at'[j] = at[j]
  BY <1>0 DEF OpenSummary, WriteSummary, Stopped, AllLogged, Go, InOrder, Left, Failed, BatchTypeOK
<1>2. CASE OpenSummary(i)
  <2>1. at'[i] = "summary" /\ Summarise(i, "empty", Alone(i)) /\ Alone(i) \in BOOLEAN
    BY <1>0, <1>2 DEF OpenSummary, Go, BatchTypeOK, Alone
  <2>2. /\ summary'[d].by = i /\ summary'[d].runs = results[i]
        /\ summary'[d].text = "empty" /\ summary'[d].alone = Alone(i)
    BY <1>0, <2>1, SummarisesOne
  <2>3. Alone(i) => \A j \in Invocations \ {i} : Dir[j] = d => at'[j] # "summary"
    BY <1>1 DEF Alone
  <2> QED
    BY <1>1, <2>1, <2>2, <2>3 DEF SummaryOf, Opened, Exits
<1>3. CASE WriteSummary(i) \/ (Stopped(i) /\ summary' # summary)
  <2>0. at[i] = "summary" /\ summary[d].text # "absent"
    BY <1>0, <1>3 DEF WriteSummary, Stopped, Opened
  <2>1. PICK text \in {"torn", "whole"} : Summarise(i, text, summary[d].alone)
    BY <1>3 DEF WriteSummary, Stopped, Overwrites
  <2>2. /\ summary'[d].by = i /\ summary'[d].runs = results[i]
        /\ summary'[d].text = text /\ summary'[d].alone = summary[d].alone
    <3>1. BatchTypeOK /\ text \in {"empty"} \cup FileStates
      BY <1>0 DEF FileStates
    <3> QED
      BY <2>1, <3>1, SummarisesOne
  <2>3. ASSUME summary[d].alone
        PROVE  /\ \A j \in Invocations \ {i} : Dir[j] = d => at'[j] # "summary"
               /\ summary[d].text = "empty"
    BY <1>0, <1>1, <2>0, <2>3 DEF SummaryOf
  <2>4. \/ WriteSummary(i) /\ at'[i] = IF Failed(i) THEN "exit 1" ELSE "exit 0"
        \/ at'[i] = "stopped"
    BY <1>0, <1>3 DEF WriteSummary, Stopped, Go, BatchTypeOK
  <2>5. WriteSummary(i) /\ summary[d].alone => summary'[d].text = "whole"
    <3> SUFFICES ASSUME WriteSummary(i), summary[d].alone PROVE summary'[d].text = "whole"
      OBVIOUS
    <3>1. Summarise(i, "whole", summary[d].alone)
      BY <2>3 DEF WriteSummary, Overwrites
    <3>2. BatchTypeOK /\ "whole" \in {"empty"} \cup FileStates
      BY <1>0 DEF FileStates
    <3> QED
      BY <3>1, <3>2, SummarisesOne
  <2>6. at'[i] \in Exits
    BY <2>4 DEF Exits
  <2> QED
    BY <1>1, <2>2, <2>3, <2>4, <2>5, <2>6 DEF SummaryOf, Opened, Exits
<1> QED
  BY <1>2, <1>3

\* Whatever is done to it, a summary stays that of an invocation that is done.
LEMMA SummaryNext ==
    ASSUME BatchInv, [BatchNext]_batchVars, NEW d \in Dirs
    PROVE  SummaryOf(d)' /\ Opened(d)'
<1>0. BatchTypeOK /\ BatchTypeOK' /\ SummaryOf(d) /\ Opened(d)
  BY BatchTypeNext DEF BatchInv
<1>1. CASE UNCHANGED batch
  BY <1>0, <1>1, SummaryStays DEF batch
<1>2. ASSUME NEW i \in Invocations, Steps(i) PROVE SummaryOf(d)' /\ Opened(d)'
  <2>0. \A k \in Invocations : k # i => at'[k] = at[k] /\ results'[k] = results[k]
    BY <1>0, <1>2, OthersUntouched DEF Untouched
  <2> DEFINE writes == OpenSummary(i) \/ WriteSummary(i) \/ (Stopped(i) /\ summary' # summary)
  <2>1. CASE writes /\ d = Dir[i]
    BY <1>0, <2>1, SummaryWritten
  <2>2. CASE writes /\ d # Dir[i]
    <3>1. \E text \in {"empty"} \cup FileStates, alone \in {Alone(i), summary[Dir[i]].alone} :
             Summarise(i, text, alone)
      BY <2>2 DEF OpenSummary, WriteSummary, Stopped, Overwrites, FileStates
    <3>2. summary'[d] = summary[d]
      BY <1>0, <2>2, <3>1, SummarisesOne DEF Alone
    <3> QED
      BY <1>0, <2>0, <2>2, <3>2, SummaryStays
  <2>3. CASE ~writes
    <3>1. summary' = summary
      BY <1>2, <2>3 DEF Steps, BatchStep, Begin, Size, Load, OpenJsonl, WriteJsonl, OpenProfile,
                        WriteProfile, RunRaises, Stopped
    <3>2. \/ at'[i] = "stopped" /\ results'[i] = results[i]
          \/ at'[i] # "summary" /\ at[i] \notin {"summary"} \cup Exits
      <4>1. CASE Stopped(i)
        BY <1>0, <4>1 DEF Stopped, Go, BatchTypeOK
      <4>2. CASE ~Stopped(i)
        BY <1>0, <1>2, <2>3, <4>2
           DEF Steps, BatchStep, Begin, Size, Load, OpenJsonl, WriteJsonl, OpenProfile,
               WriteProfile, RunRaises, Go, BatchTypeOK, InRun, Exits
      <4> QED
        BY <4>1, <4>2
    <3> QED
      BY <1>0, <2>0, <3>1, <3>2, SummaryStays
  <2> QED
    BY <2>1, <2>2, <2>3
<1> QED
  BY <1>1, <1>2, BatchCases DEF batchVars

\* BatchInv holds at the beginning.
LEMMA BatchInvInit == BatchInit => BatchInv
<1> SUFFICES ASSUME BatchInit PROVE BatchInv
  OBVIOUS
<1>1. BatchTypeOK
  BY DEF BatchInit, BatchTypeOK, Places, FileStates, Summaries
<1>2. ASSUME NEW i \in Invocations PROVE Led(i) /\ SizedFor(i) /\ InOrder(i)
  <2>1. at[i] = "next" /\ pc[i] = "start"
        /\ \A n \in Planned : results[i][n] = None /\ first[i][n] = None
    BY DEF BatchInit, Init
  <2>2. None \notin Statuses
    BY BatchAssumption
  <2> QED
    BY <2>1, <2>2 DEF Led, SizedFor, InOrder, InRun, Left, Statuses
<1>3. \A d \in Dirs : SummaryOf(d) /\ Opened(d)
  BY DEF BatchInit, SummaryOf, Opened
<1> QED
  BY <1>1, <1>2, <1>3 DEF BatchInv

\* Whatever an invocation does, BatchInv goes on to hold.
LEMMA BatchInvNext == OneInside /\ BatchInv /\ [BatchNext]_batchVars => BatchInv'
<1> SUFFICES ASSUME OneInside, BatchInv, [BatchNext]_batchVars PROVE BatchInv'
  OBVIOUS
<1>1. \A i \in Invocations : Led(i)' /\ SizedFor(i)' /\ InOrder(i)'
  BY LedNext, SizedNext, InOrderNext
<1>2. \A d \in Dirs : SummaryOf(d)' /\ Opened(d)'
  BY SummaryNext
<1> QED
  BY <1>1, <1>2, BatchTypeNext DEF BatchInv

\* Both invariants hold of every batch.
LEMMA BatchHolds == BatchSpec => [](OneInside /\ Gapless /\ BatchInv)
<1>1. BatchInit => Init
  BY DEF BatchInit
<1>2. [BatchNext]_batchVars => [Next]_vars
  BY DEF BatchNext, batchVars, Reserving, BatchStep, Begin, Size, Load, OpenJsonl, WriteJsonl,
         OpenProfile, WriteProfile, OpenSummary, WriteSummary, RunRaises, Stopped, Over, Next
<1>3. BatchInit => OneInside /\ Gapless /\ BatchInv
  BY <1>1, InsideInit, GaplessInit, BatchInvInit
<1>4. OneInside /\ Gapless /\ BatchInv /\ [BatchNext]_batchVars => (OneInside /\ Gapless /\ BatchInv)'
  BY <1>2, InsideNext, GaplessNext, BatchInvNext
<1> QED
  BY <1>3, <1>4, PTL DEF BatchSpec

\* The batch is well formed, for any pairs and any number of invocations.
THEOREM BatchTypeCorrect == BatchSpec => []BatchTypeOK
<1>1. BatchInv => BatchTypeOK
  BY DEF BatchInv
<1> QED
  BY <1>1, BatchHolds, PTL

\* What a whole summary of an invocation and its runs promises.
IsTrue(i, runs) ==
    LET exit == IF \E n \in Planned : runs[n] = "failed" THEN "exit 1" ELSE "exit 0"
    IN  /\ at[i] \in {exit, "stopped"}
        /\ \A n \in Planned :
              /\ runs[n] # None
              /\ runs[n] = "ok" => files[i][n] = [jsonl |-> "whole", profile |-> "whole"]
              /\ runs[n] = "skipped" => /\ first[i][n] = None
                                        /\ \E k \in Planned : k < n /\ runs[k] = "failed"

\* A summary that nobody else wrote to is whole when its writer has exited, and a
\* whole one is true: every pair, its artifacts, what was skipped and the exit
\* code, for any pairs and any users of the directory.
THEOREM SummaryCanBeTrusted == BatchSpec => []SummaryIsTrue
<1>1. BatchInv => SummaryIsTrue
  <2> SUFFICES ASSUME BatchInv, NEW d \in Dirs
               PROVE  /\ summary[d].alone /\ at[summary[d].by] \in {"exit 0", "exit 1"} =>
                            summary[d].text = "whole"
                      /\ summary[d].text = "whole" => IsTrue(summary[d].by, summary[d].runs)
    BY DEF SummaryIsTrue, IsTrue
  <2>1. SummaryOf(d) /\ Opened(d)
    BY DEF BatchInv
  <2>2. summary[d].alone /\ at[summary[d].by] \in {"exit 0", "exit 1"} => summary[d].text = "whole"
    BY <2>1 DEF SummaryOf, Opened
  <2>3. ASSUME summary[d].text = "whole" PROVE IsTrue(summary[d].by, summary[d].runs)
    <3> DEFINE i == summary[d].by
    <3>1. /\ i \in Invocations /\ summary[d].runs = results[i] /\ Left(i) = {}
          /\ at[i] \in {IF Failed(i) THEN "exit 1" ELSE "exit 0", "stopped"}
      BY <2>1, <2>3 DEF SummaryOf
    <3> HIDE DEF i
    <3>2. InOrder(i)
      BY <3>1 DEF BatchInv
    <3>3. \A n \in Planned : results[i][n] # None
      BY <3>1 DEF Left
    <3>4. IsTrue(i, results[i])
      BY <3>1, <3>2, <3>3 DEF InOrder, Failed, IsTrue
    <3>5. summary[d].by = i /\ summary[d].runs = results[i]
      BY <3>1 DEF i
    <3> QED
      BY <3>4, <3>5
  <2> QED
    BY <2>2, <2>3
<1> QED
  BY <1>1, BatchHolds, PTL

\* What a run is about to load are prompts as they were sized.
LEMMA LoadsPrompts ==
    ASSUME BatchInv, NEW i \in Invocations, at[i] = "load", NEW s \in DOMAIN sized[i]
    PROVE  /\ provider[Run(i).model] \in Providers /\ s \in Subjects
           /\ \E r \in Raises : sized[i][s] = Prompts[provider[Run(i).model]][s][r]
<1> DEFINE p == provider[Run(i).model]
<1>1. Number(i) \in 1..Len(Runs)
  BY NumberIsFirst DEF BatchInv, InOrder, InRun, Planned
<1>2. p \in Providers
  <2>1. Run(i).model \in Models
    BY <1>1 DEF Run, Models
  <2> QED
    BY <2>1 DEF BatchInv, BatchTypeOK
<1> HIDE DEF p
<1>3. PICK r \in [{Run(i).subjects[k] : k \in 1..Len(Run(i).subjects)} -> Raises] :
         sized[i] = [u \in DOMAIN r |-> Prompts[p][u][r[u]]]
  BY DEF BatchInv, SizedFor, Sizes, p
<1>4. s \in Subjects /\ r[s] \in Raises /\ sized[i][s] = Prompts[p][s][r[s]]
  <2>1. s \in DOMAIN r
    BY <1>3
  <2>2. PICK k \in 1..Len(Run(i).subjects) : s = Run(i).subjects[k]
    BY <2>1
  <2>3. s \in Subjects
    BY <1>1, <2>2 DEF Run, Subjects
  <2> QED
    BY <1>3, <2>1, <2>3
<1> QED
  BY <1>2, <1>4 DEF p

\* Every prompt a run is about to be measured with is at least as close to its
\* target as any attempt, for any targets and any counters.
THEOREM ClosestAttemptKept == BatchSpec => []ClosestKept
<1>1. BatchInv => ClosestKept
  <2> SUFFICES ASSUME BatchInv, NEW i \in Invocations, at[i] = "load", NEW s \in DOMAIN sized[i]
               PROVE  LET p     == provider[Run(i).model]
                          chars == sized[i][s].chars
                      IN  IF sized[i][s].method = "estimate" THEN chars = 4 * Target[s]
                          ELSE /\ \A k \in Attempts(p, s) :
                                     Error(p, Target[s], chars)
                                        <= Error(p, Target[s], Tried[k][p][s])
                               /\ sized[i][s].converged <=> Sized(p, Target[s], chars)
    BY DEF ClosestKept
  <2> DEFINE p == provider[Run(i).model]
  <2>1. p \in Providers /\ s \in Subjects /\ \E r \in Raises : sized[i][s] = Prompts[p][s][r]
    BY LoadsPrompts
  <2> HIDE DEF p
  <2>2. IF sized[i][s].method = "estimate" THEN sized[i][s].chars = 4 * Target[s]
        ELSE /\ \A k \in Attempts(p, s) :
                   Error(p, Target[s], sized[i][s].chars) <= Error(p, Target[s], Tried[k][p][s])
             /\ sized[i][s].converged <=> Sized(p, Target[s], sized[i][s].chars)
    BY <2>1, PromptsAreClosest
  <2> QED
    BY <2>2 DEF p
<1> QED
  BY <1>1, BatchHolds, PTL

\* Every prompt a run is about to be measured with is within the tolerance of its
\* target, if the counter counts in proportion: for every target of 50 tokens or
\* more, every instruction of up to half of it, and every token of up to 32
\* characters.
THEOREM SearchConverges == BatchSpec => []Converges
<1>1. BatchInv => Converges
  <2> SUFFICES ASSUME BatchInv, NEW i \in Invocations, at[i] = "load", NEW s \in DOMAIN sized[i],
                      LET p == provider[Run(i).model]
                      IN  /\ sized[i][s].method # "estimate"
                          /\ p.grain = 1 /\ p.per <= 32
                          /\ 2 * p.suffix <= Target[s]
                          /\ 100 <= Tolerance * Target[s]
               PROVE  sized[i][s].converged
    BY DEF Converges
  <2> DEFINE p == provider[Run(i).model]
  <2>1. /\ sized[i][s].method # "estimate"
        /\ p.grain = 1 /\ p.per <= 32 /\ 2 * p.suffix <= Target[s] /\ 100 <= Tolerance * Target[s]
    OBVIOUS
  <2>2. p \in Providers /\ s \in Subjects
    BY LoadsPrompts
  <2>3. PICK r \in Raises : sized[i][s] = Prompts[p][s][r]
    BY LoadsPrompts
  <2> HIDE DEF p
  <2> QED
    BY <2>1, <2>2, <2>3, PromptsConverge
<1> QED
  BY <1>1, BatchHolds, PTL

-----------------------------------------------------------------------------
(* Turns.                                                                  *)

\* A number is its multiple of the length and its position, and no other.
LEMMA Position ==
    ASSUME NEW x \in Nat, NEW l \in Nat \ {0}, NEW r \in Nat, r < l,
           NEW q \in Nat, x = q * l + r
    PROVE  x % l = r
<1> DEFINE a == x \div l
           b == x % l
<1>1. b \in Nat /\ b < l
  OBVIOUS
<1>2. a \in Int /\ l * a + b = q * l + r
  OBVIOUS
<1> HIDE DEF a, b
<1>3. ASSUME a < q PROVE FALSE
  <2>1. PICK e \in Nat : q = a + 1 + e
    <3>1. q - a - 1 \in Nat /\ q = a + 1 + (q - a - 1)
      BY <1>2, <1>3
    <3> QED
      BY <3>1
  <2>2. q * l = l * a + l + l * e /\ l * e >= 0
    BY <1>2, <2>1
  <2> QED
    BY <1>1, <1>2, <2>2
<1>4. ASSUME q < a PROVE FALSE
  <2>1. PICK e \in Nat : a = q + 1 + e
    <3>1. a - q - 1 \in Nat /\ a = q + 1 + (a - q - 1)
      BY <1>2, <1>4
    <3> QED
      BY <3>1
  <2>2. l * a = q * l + l + l * e /\ l * e >= 0
    BY <1>2, <2>1
  <2> QED
    BY <1>1, <1>2, <2>2
<1>5. a = q
  BY <1>2, <1>3, <1>4
<1>6. b = r
  BY <1>1, <1>2, <1>5
<1> QED
  BY <1>6 DEF b

\* An index that leads with one subject, unless it is the first to, is preceded
\* by one that leads with any other.
LEMMA TurnBefore ==
    ASSUME NEW x \in Nat, NEW l \in Nat \ {0}, NEW j \in 1..l, NEW k \in 1..l,
           x % l = j - 1, x # j - 1
    PROVE  /\ x + k - j - l \in Nat
           /\ x + k - j - l < x
           /\ (x + k - j - l) % l = k - 1
<1> DEFINE a == x \div l
<1>1. a \in Int /\ x = l * a + (j - 1)
  OBVIOUS
<1> HIDE DEF a
<1>2. a >= 0
  <2> SUFFICES ASSUME a <= -1 PROVE FALSE
    BY <1>1
  <2>1. PICK e \in Nat : a = -1 - e
    <3>1. -1 - a \in Nat /\ a = -1 - (-1 - a)
      BY <1>1
    <3> QED
      BY <3>1
  <2>2. l * a = -l - l * e /\ l * e >= 0
    BY <2>1
  <2> QED
    BY <1>1, <2>2
<1>3. a # 0
  BY <1>1
<1>4. a - 1 \in Nat /\ l * a = (a - 1) * l + l
  BY <1>1, <1>2, <1>3
<1>5. (a - 1) * l \in Nat
  BY <1>4
<1>6. x + k - j - l = (a - 1) * l + (k - 1)
  BY <1>1, <1>4, <1>5
<1>7. x + k - j - l \in Nat /\ k - 1 \in Nat /\ k - 1 < l
  BY <1>5, <1>6
<1>8. (x + k - j - l) % l = k - 1
  <2> DEFINE y == x + k - j - l
             r == k - 1
             q == a - 1
  <2>1. y \in Nat /\ r \in Nat /\ r < l /\ q \in Nat /\ y = q * l + r
    BY <1>4, <1>6, <1>7
  <2> HIDE DEF y, q, r
  <2>2. y % l = r
    BY <2>1, Position
  <2> QED
    BY <2>2 DEF y, r
<1> QED
  BY <1>7, <1>8

\* Among invocations that all reserved an index no subject leads a pair more
\* than once more often than another, however many there are.
THEOREM TurnsAreFair == BatchSpec => []TurnsAreShared
<1>1. OneInside /\ Gapless /\ BatchInv => TurnsAreShared
  <2> SUFFICES ASSUME OneInside, Gapless, BatchInv, \A i \in Invocations : pc[i] # "dead",
                      NEW n \in Planned, \A i \in Reserved : first[i][n] # None,
                      Reserved = {i \in Invocations : pc[i] # "replayed"},
                      NEW j \in 1..Len(Runs[n].subjects), NEW k \in 1..Len(Runs[n].subjects)
               PROVE  Turns(n, Runs[n].subjects[j]) <= Turns(n, Runs[n].subjects[k]) + 1
    BY DEF TurnsAreShared
  <2> DEFINE subjects == Runs[n].subjects
             l        == Len(subjects)
             Led_(m)  == {i \in Reserved : index[i] % l = m - 1}
  <2>1. /\ subjects \in Seq(Subjects) /\ l \in Nat \ {0}
        /\ \A a, b \in 1..l : subjects[a] = subjects[b] => a = b
    <3>1. n \in 1..Len(Runs)
      BY DEF Planned
    <3>2. subjects \in Seq(Subjects) /\ subjects # <<>>
          /\ \A a, b \in 1..l : subjects[a] = subjects[b] => a = b
      BY <3>1, BatchAssumption
    <3> QED
      BY <3>2
  <2>2. \A i \in Reserved : index[i] \in Nat /\ first[i][n] = subjects[(index[i] % l) + 1]
    BY DEF BatchInv, Led, Lead, Reserved
  <2>0. j \in 1..l /\ k \in 1..l
    OBVIOUS
  <2> HIDE DEF subjects, l
  <2>3. ASSUME NEW m \in 1..l PROVE {i \in Reserved : first[i][n] = subjects[m]} = Led_(m)
    <3>1. ASSUME NEW i \in Reserved PROVE first[i][n] = subjects[m] <=> index[i] % l = m - 1
      <4> DEFINE r == index[i] % l
      <4>1. r \in Nat /\ r + 1 \in 1..l
        BY <2>1, <2>2
      <4>2. first[i][n] = subjects[r + 1]
        BY <2>2
      <4> HIDE DEF r
      <4>3. m \in Nat /\ (subjects[r + 1] = subjects[m] <=> r + 1 = m)
        BY <2>1, <4>1
      <4>4. first[i][n] = subjects[m] <=> r = m - 1
        BY <4>1, <4>2, <4>3
      <4> QED
        BY <4>4 DEF r
    <3> QED
      BY <3>1
  <2>4. /\ ~torn /\ \A i \in Reserved : \A x \in Nat : x < index[i] => Taken(x)
        /\ \A a, b \in Reserved : index[a] = index[b] => a = b
    BY DEF Gapless, OneInside, Distinct, Reserved
  <2>5. \A m \in 1..l : IsFiniteSet(Led_(m)) /\ Cardinality(Led_(m)) \in Nat
    <3>1. IsFiniteSet(Invocations)
      BY RotationAssumption
    <3>2. \A m \in 1..l : Led_(m) \in SUBSET Invocations
      BY DEF Reserved
    <3> HIDE DEF Led_
    <3> QED
      BY <3>1, <3>2, FS_Subset, FS_CardinalityType
  <2> DEFINE later   == {i \in Led_(j) : index[i] # j - 1}
             turn(i) == index[i] + k - j - l
             before  == [i \in later |-> CHOOSE b \in Reserved : index[b] = turn(i)]
  <2>6. ASSUME NEW i \in later
        PROVE  before[i] \in Led_(k) /\ index[before[i]] = turn(i)
    <3>1. i \in Reserved /\ index[i] \in Nat /\ index[i] % l = j - 1 /\ index[i] # j - 1
      BY <2>2
    <3>2. turn(i) \in Nat /\ turn(i) < index[i] /\ turn(i) % l = k - 1
      <4>1. ASSUME NEW x \in Nat, x % l = j - 1, x # j - 1
            PROVE  x + k - j - l \in Nat /\ x + k - j - l < x /\ (x + k - j - l) % l = k - 1
        <5>1. l \in Nat \ {0} /\ j \in 1..l /\ k \in 1..l
          BY <2>0, <2>1
        <5> QED
          BY ONLY <4>1, <5>1, TurnBefore, x \in Nat
      <4> QED
        BY <3>1, <4>1
    <3>3. \E b \in Reserved : index[b] = turn(i)
      BY <2>4, <3>1, <3>2 DEF Taken
    <3>4. before[i] \in Reserved /\ index[before[i]] = turn(i)
      BY <3>3
    <3> QED
      BY <3>2, <3>4
  <2>7. before \in Injection(later, Led_(k))
    <3>1. before \in [later -> Led_(k)]
      BY <2>6
    <3>2. ASSUME NEW a \in later, NEW b \in later, before[a] = before[b] PROVE a = b
      <4>1. turn(a) = turn(b)
        BY <2>6, <3>2
      <4>2. index[a] \in Int /\ index[b] \in Int /\ j \in Int /\ k \in Int /\ l \in Int
        BY <2>0, <2>1, <2>2
      <4>3. index[a] = index[b]
        BY <4>1, <4>2
      <4> QED
        BY <2>4, <4>3
    <3> HIDE DEF before, later, Led_
    <3> QED
      BY <3>1, <3>2 DEF Injection, IsInjective
  <2>8. IsFiniteSet(later) /\ Cardinality(later) <= Cardinality(Led_(k)) /\ Cardinality(later) \in Nat
    <3> HIDE DEF before, later, Led_
    <3>1. IsFiniteSet(Led_(k))
      BY <2>0, <2>5
    <3> QED
      BY <2>7, <3>1, FS_Injection, FS_CardinalityType
  <2>9. Cardinality(Led_(j)) <= Cardinality(later) + 1
    <3>1. CASE \E i \in Led_(j) : index[i] = j - 1
      <4>1. PICK i \in Led_(j) : index[i] = j - 1
        BY <3>1
      <4>2. Led_(j) \subseteq later \cup {i}
        BY <2>4, <4>1
      <4>3. later \cup {i} = Led_(j)
        BY <4>1, <4>2
      <4>4. Cardinality(later \cup {i}) = IF i \in later THEN Cardinality(later) ELSE Cardinality(later) + 1
        <5> HIDE DEF later, Led_
        <5> QED
          BY <2>8, FS_AddElement
      <4>5. Cardinality(Led_(j)) = Cardinality(later \cup {i})
        BY <4>3
      <4> HIDE DEF later, Led_
      <4> QED
        BY <2>8, <4>4, <4>5
    <3>2. CASE ~\E i \in Led_(j) : index[i] = j - 1
      <4>1. later = Led_(j)
        BY <3>2
      <4> HIDE DEF later, Led_
      <4> QED
        BY <2>8, <4>1
    <3> QED
      BY <3>1, <3>2
  <2>10. /\ Turns(n, subjects[j]) = Cardinality(Led_(j))
         /\ Turns(n, subjects[k]) = Cardinality(Led_(k))
    <3> HIDE DEF Led_
    <3> QED
      BY <2>0, <2>3 DEF Turns
  <2>11. Cardinality(Led_(j)) \in Nat /\ Cardinality(Led_(k)) \in Nat
    BY <2>0, <2>5
  <2> HIDE DEF Led_, later
  <2> QED
    BY <2>8, <2>9, <2>10, <2>11 DEF subjects
<1> QED
  BY <1>1, BatchHolds, PTL

-----------------------------------------------------------------------------
(* The safety half of Ends: every step takes one invocation forward, and   *)
(* what is ahead of it runs out.                                           *)

Reservation(i) == CASE pc[i] = "start"     -> 5
                    [] pc[i] = "locked"    -> 4
                    [] pc[i] = "read"      -> 3
                    [] pc[i] = "truncated" -> 2
                    [] pc[i] = "written"   -> 1
                    [] pc[i] \in {"reserved", "replayed", "dead"} -> 0

Ahead(i) == IF at[i] = "next" THEN 7
            ELSE IF at[i] = "size" THEN 6
            ELSE IF at[i] = "load" THEN 5
            ELSE IF at[i] = "jsonl" THEN 4
            ELSE IF at[i] = "rows" THEN 3
            ELSE IF at[i] = "profile" THEN 2
            ELSE IF at[i] \in Exits THEN 0
            ELSE 1

StepsLeft(i) == Reservation(i) + Ahead(i) + 7 * Cardinality(Left(i))

LEMMA LeftIsFinite ==
    ASSUME NEW i
    PROVE  IsFiniteSet(Left(i)) /\ Cardinality(Left(i)) \in Nat
<1>1. IsFiniteSet(1..Len(Runs))
  BY FS_Interval, BatchAssumption
<1>2. IsFiniteSet(Left(i))
  BY <1>1, FS_Subset DEF Left, Planned
<1> QED
  BY <1>2, FS_CardinalityType

\* A step of the reservation takes its invocation closer to its index.
LEMMA ReservationRunsOut ==
    ASSUME TypeOK, NEW i \in Invocations, Replay(i) \/ Work(i) \/ Die(i)
    PROVE  /\ Reservation(i)' < Reservation(i)
           /\ \A j \in Invocations : j # i => pc'[j] = pc[j]
<1>1. PICK l \in {"replayed", "locked", "read", "truncated", "written", "reserved", "dead"} :
         /\ pc' = [pc EXCEPT ![i] = l]
         /\ \/ l = "replayed"  /\ pc[i] = "start"
            \/ l = "locked"    /\ pc[i] = "start"
            \/ l = "read"      /\ pc[i] = "locked"
            \/ l = "truncated" /\ pc[i] = "read"
            \/ l = "written"   /\ pc[i] = "truncated"
            \/ l = "reserved"  /\ pc[i] = "written"
            \/ l = "dead"      /\ pc[i] \in {"start", "locked", "read", "truncated", "written"}
  BY DEF Replay, Work, Lock, Read, Truncate, Write, Close, Die, Move
<1>2. pc'[i] = l /\ \A j \in Invocations : j # i => pc'[j] = pc[j]
  BY <1>1 DEF TypeOK
<1> QED
  BY <1>1, <1>2 DEF Reservation

\* A step of the batch puts its invocation further on, or one of its runs is over.
LEMMA BatchRunsOut ==
    ASSUME BatchInv, BatchInv', NEW i \in Invocations, Steps(i)
    PROVE  \/ Ahead(i)' < Ahead(i) /\ Left(i)' = Left(i)
           \/ /\ Ahead(i)' \in 0..7 /\ Ahead(i) \in 1..7
              /\ Cardinality(Left(i)') = Cardinality(Left(i)) - 1
<1>0. /\ BatchTypeOK /\ (at[i] \in InRun => Left(i) # {})
      /\ Left(i) # {} => Number(i) \in Left(i)
  BY NumberIsFirst DEF BatchInv, InOrder
<1>1. ASSUME NEW s \in Statuses, Log(i, s), Left(i) # {}
      PROVE  Cardinality(Left(i)') = Cardinality(Left(i)) - 1
  <2>1. Left(i)' = Left(i) \ {Number(i)}
    BY <1>0, <1>1, LogsOne
  <2> QED
    BY <1>0, <1>1, <2>1, LeftIsFinite, FS_RemoveElement
<1>2. ASSUME results' = results PROVE Left(i)' = Left(i)
  BY <1>2 DEF Left
<1>3. ASSUME NEW l, Go(i, l) PROVE at'[i] = l
  BY <1>0, <1>3 DEF Go, BatchTypeOK
<1>11. at[i] \notin Exits => Ahead(i) \in 1..7
  BY DEF Ahead
<1>12. at'[i] \in Exits => Ahead(i)' = 0
  BY DEF Ahead, Exits
<1>4. CASE Begin(i) /\ i \in FailFast /\ Failed(i)
  <2>1. at[i] = "next" /\ at' = at /\ Left(i) # {} /\ Log(i, "skipped")
    BY <1>4 DEF Begin
  <2>2. Ahead(i)' = 7 /\ Ahead(i) = 7
    BY <2>1 DEF Ahead
  <2> QED
    BY <1>1, <2>1, <2>2 DEF Statuses
<1>5. CASE Begin(i) /\ ~(i \in FailFast /\ Failed(i))
  <2>1. at[i] = "next" /\ at'[i] = "size" /\ results' = results
    BY <1>3, <1>5 DEF Begin
  <2>2. Ahead(i)' < Ahead(i)
    BY <2>1 DEF Ahead
  <2> QED
    BY <1>2, <2>1, <2>2
<1>6. CASE Size(i) \/ Load(i) \/ OpenJsonl(i) \/ WriteJsonl(i) \/ OpenProfile(i)
  <2>1. /\ results' = results
        /\ \/ at[i] = "size"    /\ at'[i] = "load"
           \/ at[i] = "load"    /\ at'[i] = "jsonl"
           \/ at[i] = "jsonl"   /\ at'[i] = "rows"
           \/ at[i] = "rows"    /\ at'[i] = "profile"
           \/ at[i] = "profile" /\ at'[i] = "text"
    BY <1>3, <1>6 DEF Size, Load, OpenJsonl, WriteJsonl, OpenProfile
  <2>2. Ahead(i)' < Ahead(i)
    BY <2>1 DEF Ahead
  <2> QED
    BY <1>2, <2>1, <2>2
<1>7. CASE WriteProfile(i)
  <2>1. at[i] \in InRun \ Exits /\ at'[i] = "next" /\ Log(i, "ok")
    BY <1>3, <1>7 DEF WriteProfile, InRun, Exits
  <2>2. Ahead(i)' = 7
    BY <2>1 DEF Ahead
  <2>3. Ahead(i) \in 1..7
    BY <1>11, <2>1
  <2> QED
    BY <1>0, <1>1, <2>1, <2>2, <2>3 DEF Statuses
<1>8. CASE RunRaises(i)
  <2>1. at[i] \in InRun /\ at'[i] = "next" /\ Log(i, "failed")
    BY <1>3, <1>8 DEF RunRaises, Recorded
  <2>2. Ahead(i)' = 7
    BY <2>1 DEF Ahead
  <2>3. Ahead(i) \in 1..7
    BY <1>11, <2>1 DEF InRun, Exits
  <2> QED
    BY <1>0, <1>1, <2>1, <2>2, <2>3 DEF Statuses
<1>9. CASE OpenSummary(i)
  <2>1. results' = results /\ at[i] = "next" /\ at'[i] = "summary"
    BY <1>3, <1>9 DEF OpenSummary, AllLogged
  <2>2. Ahead(i)' < Ahead(i)
    BY <2>1 DEF Ahead
  <2> QED
    BY <1>2, <2>1, <2>2
<1>10. CASE WriteSummary(i) \/ Stopped(i)
  <2>1. results' = results /\ at[i] \notin Exits /\ at'[i] \in Exits
    BY <1>3, <1>10 DEF WriteSummary, Stopped, InRun, Exits
  <2>2. Ahead(i)' < Ahead(i)
    BY <1>11, <1>12, <2>1
  <2> QED
    BY <1>2, <2>1, <2>2
<1> QED
  BY <1>4, <1>5, <1>6, <1>7, <1>8, <1>9, <1>10 DEF Steps, BatchStep

\* No batch goes on for ever, however its runs fail and its processes are
\* stopped: every step lowers what is ahead of one invocation and leaves the
\* others where they are.
THEOREM StepsRunOut ==
    BatchSpec => [][\E i \in Invocations :
                       /\ StepsLeft(i)' < StepsLeft(i) /\ StepsLeft(i) \in Nat
                       /\ \A j \in Invocations \ {i} : StepsLeft(j)' = StepsLeft(j)]_batchVars
<1> DEFINE Forward(i) == /\ StepsLeft(i)' < StepsLeft(i) /\ StepsLeft(i) \in Nat
                         /\ \A j \in Invocations \ {i} : StepsLeft(j)' = StepsLeft(j)
<1>1. OneInside /\ OneInside' /\ BatchInv /\ BatchInv' /\ [BatchNext]_batchVars
         => [\E i \in Invocations : Forward(i)]_batchVars
  <2> SUFFICES ASSUME OneInside, OneInside', BatchInv, BatchInv', [BatchNext]_batchVars,
                      batchVars' # batchVars
               PROVE  \E i \in Invocations : Forward(i)
    OBVIOUS
  <2>1. ASSUME NEW i \in Invocations
        PROVE  /\ Reservation(i) \in Nat /\ Reservation(i)' \in Nat
               /\ Ahead(i) \in Nat /\ Ahead(i)' \in Nat
               /\ Cardinality(Left(i)) \in Nat
    <3>1. Reservation(i) \in Nat /\ Reservation(i)' \in Nat
      BY DEF OneInside, TypeOK, Reservation
    <3>2. Ahead(i) \in Nat /\ Ahead(i)' \in Nat
      BY DEF BatchInv, BatchTypeOK, Places, InRun, Exits, Ahead
    <3> QED
      BY <3>1, <3>2, LeftIsFinite
  <2>2. CASE (\E i \in Invocations : Replay(i) \/ Work(i) \/ Die(i)) /\ UNCHANGED batch
    <3>1. PICK i \in Invocations : Replay(i) \/ Work(i) \/ Die(i)
      BY <2>2
    <3>2. /\ Reservation(i)' < Reservation(i)
          /\ \A j \in Invocations \ {i} : Reservation(j)' = Reservation(j)
      BY <3>1, ReservationRunsOut DEF OneInside, Reservation
    <3>3. \A j \in Invocations : Ahead(j)' = Ahead(j) /\ Left(j)' = Left(j)
      BY <2>2 DEF batch, Ahead, Left
    <3>4. Reservation(i)' \in Nat
      BY <2>1
    <3>5. StepsLeft(i)' < StepsLeft(i) /\ StepsLeft(i) \in Nat
      BY <2>1, <3>2, <3>3, <3>4 DEF StepsLeft
    <3>6. \A j \in Invocations \ {i} : StepsLeft(j)' = StepsLeft(j)
      BY <3>2, <3>3 DEF StepsLeft
    <3> QED
      BY <3>5, <3>6
  <2>3. CASE (\E i \in Invocations : Steps(i)) /\ UNCHANGED vars
    <3>1. PICK i \in Invocations : Steps(i)
      BY <2>3
    <3>2. \A j \in Invocations : Reservation(j)' = Reservation(j)
      BY <2>3 DEF vars, Reservation
    <3>3. StepsLeft(i)' < StepsLeft(i) /\ StepsLeft(i) \in Nat
      <4>1. \/ Ahead(i)' < Ahead(i) /\ Cardinality(Left(i)') = Cardinality(Left(i))
            \/ /\ Ahead(i)' \in 0..7 /\ Ahead(i) \in 1..7
               /\ Cardinality(Left(i)') = Cardinality(Left(i)) - 1
        BY <3>1, BatchRunsOut
      <4>2. /\ Reservation(i) \in Nat /\ Ahead(i) \in Nat /\ Cardinality(Left(i)) \in Nat
            /\ Ahead(i)' \in Nat
        BY <2>1
      <4> QED
        BY <3>2, <4>1, <4>2 DEF StepsLeft
    <3>4. ASSUME NEW j \in Invocations \ {i} PROVE StepsLeft(j)' = StepsLeft(j)
      <4>1. at'[j] = at[j] /\ results'[j] = results[j]
        BY <3>1, OthersUntouched DEF BatchInv, Untouched
      <4>2. Ahead(j)' = Ahead(j) /\ Left(j)' = Left(j)
        BY <4>1 DEF Ahead, Left
      <4> QED
        BY <3>2, <4>2 DEF StepsLeft
    <3> QED
      BY <3>3, <3>4
  <2> QED
    BY <2>2, <2>3, BatchCases
<1> QED
  BY <1>1, BatchHolds, PTL DEF BatchSpec
=============================================================================
