---------------------------- MODULE Publish_proofs ----------------------------
(***************************************************************************)
(* Theorems about Publish, for any number of publishers, files and         *)
(* attempts that die.                                                      *)
(***************************************************************************)
EXTENDS Publish, TLAPS

(***************************************************************************)
(* The inductive invariant: what an attempt has copied is there, nothing   *)
(* in a bucket is torn, and a manifest is written after its last copy.     *)
(* What another attempt left there only helps: a file that is there may be *)
(* torn again by a second copy, but it is never absent again.              *)
(***************************************************************************)
Busy == {"check", "copy", "copying", "writing"}

CopiedIsThere ==
    /\ \A p \in Publishers : pc[p] = "check" => copied[p] = 0
    /\ \A p \in Publishers : pc[p] \in Busy =>
          copied[p] <= files[p] /\ \A f \in 1..copied[p] : target[f] # "absent"
    /\ \A p \in Publishers : pc[p] = "copying" => ~bucket /\ copied[p] < files[p]
    /\ \A p \in Publishers : pc[p] = "writing" => ~bucket /\ copied[p] = files[p]

ListedIsThere ==
    /\ bucket => \A f \in 1..Files : target[f] # "torn"
    /\ \A f \in 1..manifest : target[f] # "absent"

IInv == TypeOK /\ CopiedIsThere /\ ListedIsThere

\* Files only ever appear.
LEMMA TypeInductive == IInv /\ [Next]_vars => TypeOK'
<1> SUFFICES ASSUME IInv, [Next]_vars PROVE TypeOK'
  OBVIOUS
<1> USE PublishAssumption DEF IInv, TypeOK, Move
<1>1. CASE Grow
  BY <1>1 DEF Grow, here
<1>2. ASSUME NEW p \in Publishers, Build(p) PROVE TypeOK'
  BY <1>2 DEF Build
<1>3. ASSUME NEW p \in Publishers, Check(p) PROVE TypeOK'
  BY <1>3 DEF Check
<1>4. ASSUME NEW p \in Publishers, Open(p) PROVE TypeOK'
  BY <1>4 DEF Open
<1>5. ASSUME NEW p \in Publishers, Copy(p) PROVE TypeOK'
  <2>1. copied[p] < files[p]
    BY <1>5 DEF Copy, Left, CopiedIsThere, Busy
  <2> QED
    BY <1>5, <2>1 DEF Copy
<1>6. ASSUME NEW p \in Publishers, OpenManifest(p) PROVE TypeOK'
  BY <1>6 DEF OpenManifest
<1>7. ASSUME NEW p \in Publishers, PutManifest(p) PROVE TypeOK'
  BY <1>7 DEF PutManifest
<1>8. ASSUME NEW p \in Publishers, Die(p) PROVE TypeOK'
  BY <1>8 DEF Die
<1>9. CASE UNCHANGED vars
  BY <1>9 DEF vars, here
<1> QED
  BY <1>1, <1>2, <1>3, <1>4, <1>5, <1>6, <1>7, <1>8, <1>9 DEF Next, Step, Settled

LEMMA CopiedInductive == IInv /\ [Next]_vars => CopiedIsThere'
<1> SUFFICES ASSUME IInv, [Next]_vars PROVE CopiedIsThere'
  OBVIOUS
<1> USE PublishAssumption DEF IInv, TypeOK, CopiedIsThere, Move, Busy
<1>1. CASE Grow
  BY <1>1 DEF Grow, here
<1>2. ASSUME NEW p \in Publishers, Build(p) PROVE CopiedIsThere'
  BY <1>2 DEF Build
<1>3. ASSUME NEW p \in Publishers, Check(p) PROVE CopiedIsThere'
  BY <1>3 DEF Check
<1>4. ASSUME NEW p \in Publishers, Open(p) PROVE CopiedIsThere'
  BY <1>4 DEF Open, Left
<1>5. ASSUME NEW p \in Publishers, Copy(p) PROVE CopiedIsThere'
  BY <1>5 DEF Copy, Left
<1>6. ASSUME NEW p \in Publishers, OpenManifest(p) PROVE CopiedIsThere'
  BY <1>6 DEF OpenManifest, Copied
<1>7. ASSUME NEW p \in Publishers, PutManifest(p) PROVE CopiedIsThere'
  BY <1>7 DEF PutManifest, Copied
<1>8. ASSUME NEW p \in Publishers, Die(p) PROVE CopiedIsThere'
  BY <1>8 DEF Die
<1>9. CASE UNCHANGED vars
  BY <1>9 DEF vars, here
<1> QED
  BY <1>1, <1>2, <1>3, <1>4, <1>5, <1>6, <1>7, <1>8, <1>9 DEF Next, Step, Settled

LEMMA ListedInductive == IInv /\ [Next]_vars => ListedIsThere'
<1> SUFFICES ASSUME IInv, [Next]_vars PROVE ListedIsThere'
  OBVIOUS
<1> USE PublishAssumption DEF IInv, TypeOK, ListedIsThere, CopiedIsThere, Move, Busy
<1>1. CASE Grow
  BY <1>1 DEF Grow, here
<1>2. ASSUME NEW p \in Publishers, Build(p) PROVE ListedIsThere'
  BY <1>2 DEF Build
<1>3. ASSUME NEW p \in Publishers, Check(p) PROVE ListedIsThere'
  BY <1>3 DEF Check
<1>4. ASSUME NEW p \in Publishers, Open(p) PROVE ListedIsThere'
  BY <1>4 DEF Open, Left
<1>5. ASSUME NEW p \in Publishers, Copy(p) PROVE ListedIsThere'
  BY <1>5 DEF Copy, Left
<1>6. ASSUME NEW p \in Publishers, OpenManifest(p) PROVE ListedIsThere'
  BY <1>6 DEF OpenManifest, Copied
<1>7. ASSUME NEW p \in Publishers, PutManifest(p) PROVE ListedIsThere'
  BY <1>7 DEF PutManifest, Copied
<1>8. ASSUME NEW p \in Publishers, Die(p) PROVE ListedIsThere'
  BY <1>8 DEF Die
<1>9. CASE UNCHANGED vars
  BY <1>9 DEF vars, here
<1> QED
  BY <1>1, <1>2, <1>3, <1>4, <1>5, <1>6, <1>7, <1>8, <1>9 DEF Next, Step, Settled

LEMMA Inductive == Spec => []IInv
<1>1. Init => IInv
  <2> SUFFICES ASSUME Init PROVE IInv
    OBVIOUS
  <2>1. TypeOK
    <3>1. /\ source \in 1..Files /\ 0 \in 0..source
          /\ 0 \in 0..Files /\ 0 \in 0..Tries
      BY PublishAssumption DEF Init
    <3> QED
      BY <3>1 DEF Init, TypeOK, Absent
  <2>2. CopiedIsThere
    BY DEF Init, CopiedIsThere, Busy
  <2>3. 1..manifest = {}
    BY DEF Init, Absent
  <2>4. ListedIsThere
    BY <2>3 DEF Init, ListedIsThere
  <2> QED
    BY <2>1, <2>2, <2>4 DEF IInv
<1>2. IInv /\ [Next]_vars => IInv'
  BY TypeInductive, CopiedInductive, ListedInductive DEF IInv
<1> QED
  BY <1>1, <1>2, PTL DEF Spec

\* The type invariant.
THEOREM TypeCorrect == Spec => []TypeOK
  BY Inductive, PTL DEF IInv

\* Whoever wrote the manifest and whoever died meanwhile, every file it lists is
\* at the target, and whole when the target is a bucket.
THEOREM ManifestIsComplete == Spec => []ManifestMeansComplete
<1>1. IInv => ManifestMeansComplete
  <2> SUFFICES ASSUME IInv, NEW f \in 1..manifest
               PROVE target[f] # "absent" /\ (bucket => target[f] = "whole")
    BY DEF ManifestMeansComplete
  <2>1. f \in 1..Files
    BY PublishAssumption DEF IInv, TypeOK
  <2> QED
    BY <2>1 DEF IInv, TypeOK, ListedIsThere
<1> QED
  BY <1>1, Inductive, PTL

\* Once no attempt that found no manifest is left, a manifest is final: later
\* attempts are refused and change nothing.
THEOREM ManifestIsFinal == Spec => NeverOverwritten
<1>1. TypeOK /\ [Next]_vars =>
        (manifest # Absent /\ UnderWay = {} =>
            UnderWay' = {} /\ UNCHANGED <<manifest, torn, target>>)
  <2> SUFFICES ASSUME TypeOK, [Next]_vars, manifest # Absent, UnderWay = {}
               PROVE UnderWay' = {} /\ UNCHANGED <<manifest, torn, target>>
    OBVIOUS
  <2>0. \A p \in Publishers : pc[p] \notin {"copy", "copying", "writing"}
    BY DEF UnderWay
  <2> DEFINE Over == /\ \A q \in Publishers : pc'[q] \notin {"copy", "copying", "writing"}
                     /\ UNCHANGED <<manifest, torn, target>>
  <2>1. CASE Grow
    BY <2>0, <2>1 DEF Grow, here, UnderWay
  <2>2. ASSUME NEW p \in Publishers, Step(p) \/ Die(p) PROVE Over
    BY <2>0, <2>2 DEF Step, Die, Build, Check, Open, Copy, OpenManifest, PutManifest,
       Move, Published, TypeOK
  <2>3. CASE UNCHANGED vars
    BY <2>0, <2>3 DEF vars, here, UnderWay
  <2> QED
    BY <2>1, <2>2, <2>3 DEF Next, Settled, UnderWay
<1> QED
  BY <1>1, TypeCorrect, PTL DEF Spec, NeverOverwritten

-----------------------------------------------------------------------------
(***************************************************************************)
(* The safety half of PublishedAtLast: attempts come to an end, and none   *)
(* ends for good while there is no manifest.  What is left to fairness is  *)
(* that a publisher goes on.                                               *)
(***************************************************************************)

\* Whoever is done, with a manifest of its own or turned away, leaves a target
\* that has one, whatever died on the way there.
DoneIsPublished ==
    \A p \in Publishers : pc[p] \in {"published", "refused"} => manifest # Absent

\* Any number of publishers, over files that may grow: nobody is turned away, and
\* nobody returns, before there is a manifest.
THEOREM NobodyEndsUnpublished == Spec => []DoneIsPublished
<1> DEFINE Found == \A p \in Publishers : pc[p] \in {"copy", "copying", "writing"} => files[p] # 0
           Measured == \A p \in Publishers : pc[p] = "check" => files[p] # 0
           DInv == DoneIsPublished /\ Found /\ Measured
<1>1. Init => DInv
  BY DEF Init, DoneIsPublished
<1>2. TypeOK /\ DInv /\ [Next]_vars => DInv'
  <2> SUFFICES ASSUME TypeOK, DInv, [Next]_vars PROVE DInv'
    OBVIOUS
  <2> USE DEF DoneIsPublished, TypeOK, Absent, Move
  <2>1. CASE Grow
    BY <2>1 DEF Grow, here
  <2>2. ASSUME NEW p \in Publishers, Build(p) PROVE DInv'
    BY <2>2 DEF Build
  <2>3. ASSUME NEW p \in Publishers, Check(p) PROVE DInv'
    BY <2>3 DEF Check, Published
  <2>4. ASSUME NEW p \in Publishers, Open(p) \/ Copy(p) PROVE DInv'
    BY <2>4 DEF Open, Copy
  <2>5. ASSUME NEW p \in Publishers, OpenManifest(p) \/ PutManifest(p) PROVE DInv'
    BY <2>5 DEF OpenManifest, PutManifest
  <2>6. ASSUME NEW p \in Publishers, Die(p) PROVE DInv'
    BY <2>6 DEF Die
  <2>7. CASE UNCHANGED vars
    BY <2>7 DEF vars, here
  <2> QED
    BY <2>1, <2>2, <2>3, <2>4, <2>5, <2>6, <2>7 DEF Next, Step, Settled
<1> QED
  BY <1>1, <1>2, TypeCorrect, PTL DEF Spec

\* The steps an attempt that does not die can still take, and those of a
\* publisher with the attempts that may still die.
Ahead(p) == IF pc[p] = "build" THEN 2 * Files + 5
            ELSE IF pc[p] = "check" THEN 2 * Files + 4
            ELSE IF pc[p] = "copy" THEN 2 * (Files - copied[p]) + 3
            ELSE IF pc[p] = "copying" THEN 2 * (Files - copied[p]) + 2
            ELSE IF pc[p] = "writing" THEN 1
            ELSE 0

StepsLeft(p) == (Tries - deaths[p]) * (2 * Files + 6) + Ahead(p)

LEMMA AheadBounded ==
    ASSUME TypeOK, NEW p \in Publishers
    PROVE  Ahead(p) \in 0..(2 * Files + 5) /\ StepsLeft(p) \in Nat
<1>1. /\ Files \in Nat /\ Tries - deaths[p] \in Nat /\ copied[p] \in Nat /\ Files - copied[p] \in Nat
      /\ Files - copied[p] <= Files
  BY PublishAssumption DEF TypeOK
<1>2. Ahead(p) \in 0..(2 * Files + 5)
  BY <1>1 DEF Ahead
<1>3. ASSUME NEW a \in Nat, NEW b \in Nat PROVE a * b \in Nat
  BY <1>3
<1>4. (Tries - deaths[p]) * (2 * Files + 6) \in Nat
  BY <1>1, <1>3
<1> QED
  BY <1>1, <1>2, <1>4 DEF StepsLeft

\* A publisher's step takes its attempt forward; a death costs one of those there
\* may be.
LEMMA PublisherRunsOut ==
    ASSUME IInv, TypeOK', NEW p \in Publishers, Step(p) \/ Die(p)
    PROVE  StepsLeft(p)' < StepsLeft(p)
<1>0. /\ TypeOK /\ Files \in Nat /\ Tries \in Nat
      /\ copied[p] \in 0..Files /\ copied'[p] \in 0..Files /\ deaths[p] \in 0..Tries
  BY PublishAssumption DEF IInv, TypeOK
<1>1. /\ TypeOK /\ Files \in Nat /\ copied[p] \in Nat /\ copied'[p] \in Nat
      /\ copied[p] <= Files /\ copied'[p] <= Files
      /\ Tries \in Nat /\ deaths[p] \in Nat
      /\ Ahead(p) \in Nat /\ Ahead(p)' \in Int
  <2>1. Ahead(p)' \in Int
    BY <1>0 DEF Ahead
  <2> QED
    BY <1>0, <2>1, AheadBounded
<1>2. ASSUME deaths' = deaths, Ahead(p)' < Ahead(p) PROVE StepsLeft(p)' < StepsLeft(p)
  <2>1. (Tries - deaths[p]) * (2 * Files + 6) \in Int
    BY <1>1
  <2> QED
    BY <1>1, <1>2, <2>1 DEF StepsLeft
<1> USE DEF TypeOK, Move
<1>3. CASE Build(p)
  BY <1>1, <1>2, <1>3 DEF Build, Ahead
<1>4. CASE Check(p)
  <2>1. copied[p] = 0 /\ copied' = copied /\ deaths' = deaths
    BY <1>4 DEF Check, IInv, CopiedIsThere
  <2>2. pc[p] = "check" /\ pc'[p] \in {"copy", "refused"}
    BY <1>4 DEF Check
  <2> QED
    BY <1>1, <1>2, <2>1, <2>2 DEF Ahead
<1>5. CASE Open(p)
  BY <1>1, <1>2, <1>5 DEF Open, Ahead
<1>6. CASE Copy(p)
  <2>1. /\ deaths' = deaths /\ copied'[p] = copied[p] + 1
        /\ pc[p] \in {"copy", "copying"} /\ pc'[p] = "copy"
    BY <1>6 DEF Copy
  <2>2. Ahead(p)' = 2 * (Files - copied'[p]) + 3
    BY <2>1 DEF Ahead
  <2>3. Ahead(p) \in {2 * (Files - copied[p]) + 3, 2 * (Files - copied[p]) + 2}
    BY <2>1 DEF Ahead
  <2>4. ASSUME NEW f \in Int, NEW c \in Int
        PROVE  /\ 2 * (f - (c + 1)) + 3 < 2 * (f - c) + 3
               /\ 2 * (f - (c + 1)) + 3 < 2 * (f - c) + 2
    OBVIOUS
  <2>5. 2 * (Files - copied'[p]) + 3 < Ahead(p)
    <3>1. Files \in Int /\ copied[p] \in Int
      BY <1>1
    <3>2. /\ 2 * (Files - (copied[p] + 1)) + 3 < 2 * (Files - copied[p]) + 3
          /\ 2 * (Files - (copied[p] + 1)) + 3 < 2 * (Files - copied[p]) + 2
      BY <2>4, <3>1
    <3> QED
      BY <2>1, <2>3, <3>2
  <2> QED
    BY <1>2, <2>1, <2>2, <2>5
<1>7. CASE OpenManifest(p)
  BY <1>1, <1>2, <1>7 DEF OpenManifest, Ahead
<1>8. CASE PutManifest(p)
  <2>1. deaths' = deaths /\ pc[p] \in {"copy", "writing"} /\ pc'[p] = "published"
    BY <1>8 DEF PutManifest
  <2> QED
    BY <1>1, <1>2, <2>1 DEF Ahead
<1>9. CASE Die(p)
  <2> DEFINE Each == 2 * Files + 6
             Spare == Tries - deaths[p]
  <2>1. deaths'[p] = deaths[p] + 1 /\ Ahead(p)' = 2 * Files + 5
    BY <1>1, <1>9 DEF Die, Ahead
  <2>2. Each \in Int /\ Spare \in Int /\ Tries - deaths'[p] = Spare - 1
    BY <1>1, <2>1
  <2>3. (Spare - 1) * Each = Spare * Each - Each /\ Spare * Each \in Int
    <3> HIDE DEF Each, Spare
    <3> QED
      BY <2>2
  <2>4. /\ StepsLeft(p) = Spare * Each + Ahead(p)
        /\ StepsLeft(p)' = (Spare - 1) * Each + Ahead(p)'
    BY <2>2 DEF StepsLeft
  <2> HIDE DEF Spare
  <2> QED
    BY <1>1, <2>1, <2>3, <2>4
<1> QED
  BY <1>3, <1>4, <1>5, <1>6, <1>7, <1>8, <1>9 DEF Step

\* Publishing comes to an end for everybody, whatever dies and however the run
\* directory grows meanwhile: there is only so much it can gain, and a
\* publisher's own steps run out.
THEOREM StepsRunOut ==
    Spec => [][\/ /\ source' = source + 1 /\ source < Files
                  /\ \A p \in Publishers : StepsLeft(p)' = StepsLeft(p)
               \/ /\ source' = source
                  /\ \E p \in Publishers :
                        /\ StepsLeft(p)' < StepsLeft(p) /\ StepsLeft(p) \in Nat
                        /\ \A q \in Publishers \ {p} : StepsLeft(q)' = StepsLeft(q)]_vars
<1> DEFINE Gained == /\ source' = source + 1 /\ source < Files
                     /\ \A p \in Publishers : StepsLeft(p)' = StepsLeft(p)
           Forward(p) == /\ StepsLeft(p)' < StepsLeft(p) /\ StepsLeft(p) \in Nat
                         /\ \A q \in Publishers \ {p} : StepsLeft(q)' = StepsLeft(q)
           Went == source' = source /\ \E p \in Publishers : Forward(p)
<1>1. IInv /\ IInv' /\ [Next]_vars => [Gained \/ Went]_vars
  <2> SUFFICES ASSUME IInv, IInv', Next, vars' # vars PROVE Gained \/ Went
    OBVIOUS
  <2>1. CASE Grow
    BY <2>1 DEF Grow, here, StepsLeft, Ahead
  <2>2. ASSUME NEW p \in Publishers, Step(p) \/ Die(p) PROVE Went
    <3>1. source' = source
      BY <2>2 DEF Step, Die, Build, Check, Open, Copy, OpenManifest, PutManifest
    <3>2. StepsLeft(p)' < StepsLeft(p) /\ StepsLeft(p) \in Nat
      BY <2>2, PublisherRunsOut, AheadBounded DEF IInv
    <3>3. \A q \in Publishers \ {p} :
             pc'[q] = pc[q] /\ copied'[q] = copied[q] /\ deaths'[q] = deaths[q]
      BY <2>2 DEF IInv, TypeOK, Move, Step, Die, Build, Check, Open, Copy, OpenManifest, PutManifest
    <3>4. \A q \in Publishers \ {p} : StepsLeft(q)' = StepsLeft(q)
      BY <3>3 DEF StepsLeft, Ahead
    <3> QED
      BY <3>1, <3>2, <3>4
  <2> QED
    BY <2>1, <2>2 DEF Next, Settled
<1> QED
  BY <1>1, Inductive, PTL DEF Spec
=============================================================================
