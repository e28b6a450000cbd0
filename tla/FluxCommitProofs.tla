-------------------------- MODULE FluxCommitProofs --------------------------
(***************************************************************************)
(* The merge of the flux-commit reconciler, for documents of any nesting;  *)
(* and the reconciler, for any documents, patches, writers and bounds.     *)
(***************************************************************************)
EXTENDS FluxCommit, TLAPS

USE JsonAssumption, FluxAssumption

(***************************************************************************)
(* The recursive functions of the merge satisfy their equations.           *)
(***************************************************************************)
Deeper(values, n) == Atoms \cup [Keys -> values \cup {Absent}]
MergeDeeper(merge, n) == MergeLevel(n, merge)

ValuesRec == INSTANCE NatRecursion WITH Base <- Atoms, Step <- Deeper
MergeRec  == INSTANCE NatRecursion WITH Base <- [pair \in Atoms \X Atoms |-> pair[2]],
                                        Step <- MergeDeeper
StepsRec  == INSTANCE NatRecursion WITH Base <- [walk \in Json \X Paths |-> walk[1]],
                                        Step <- Further

LEMMA ValuesEquation ==
    /\ Values[0] = Atoms
    /\ \A n \in Nat : Values[n + 1] = Atoms \cup [Keys -> Values[n] \cup {Absent}]
  <1>1. \E f : f = [n \in Nat |-> IF n = 0 THEN Atoms
                                  ELSE Atoms \cup [Keys -> f[n - 1] \cup {Absent}]]
    BY ValuesRec!Recursion, Zenon DEF Deeper
  <1>2. Values = [n \in Nat |-> IF n = 0 THEN Atoms
                                ELSE Atoms \cup [Keys -> Values[n - 1] \cup {Absent}]]
    BY <1>1, Zenon DEF Values
  <1>3. Values[0] = Atoms
    BY <1>2, Zenon
  <1>4. ASSUME NEW n \in Nat PROVE Values[n + 1] = Atoms \cup [Keys -> Values[n] \cup {Absent}]
    <2>1. n + 1 \in Nat /\ n + 1 # 0 /\ (n + 1) - 1 = n
      OBVIOUS
    <2> QED
      BY <1>2, <2>1, Zenon
  <1> QED
    BY <1>3, <1>4

LEMMA MergeEquation ==
    /\ MergeUpTo[0] = [pair \in Atoms \X Atoms |-> pair[2]]
    /\ \A n \in Nat : MergeUpTo[n + 1] = MergeLevel(n + 1, MergeUpTo[n])
  <1>1. \E f : f = [n \in Nat |-> IF n = 0 THEN [pair \in Atoms \X Atoms |-> pair[2]]
                                  ELSE MergeLevel(n, f[n - 1])]
    BY MergeRec!Recursion, Zenon DEF MergeDeeper
  <1>2. MergeUpTo = [n \in Nat |-> IF n = 0 THEN [pair \in Atoms \X Atoms |-> pair[2]]
                                   ELSE MergeLevel(n, MergeUpTo[n - 1])]
    BY <1>1, Zenon DEF MergeUpTo
  <1>3. MergeUpTo[0] = [pair \in Atoms \X Atoms |-> pair[2]]
    BY <1>2, Zenon
  <1>4. ASSUME NEW n \in Nat PROVE MergeUpTo[n + 1] = MergeLevel(n + 1, MergeUpTo[n])
    <2>1. n + 1 \in Nat /\ n + 1 # 0 /\ (n + 1) - 1 = n
      OBVIOUS
    <2> QED
      BY <1>2, <2>1, Zenon
  <1> QED
    BY <1>3, <1>4

LEMMA StepsEquation ==
    ASSUME NEW doc \in Json, NEW path \in Paths
    PROVE  /\ At(doc, path, 0) = doc
           /\ \A i \in Nat : At(doc, path, i + 1) = Member(At(doc, path, i), path[i + 1])
  <1> DEFINE walk == <<doc, path>>
  <1>1. \E f : f = [i \in Nat |-> IF i = 0 THEN [w \in Json \X Paths |-> w[1]]
                                  ELSE Further(f[i - 1], i)]
    BY StepsRec!Recursion, Zenon
  <1>2. Steps = [i \in Nat |-> IF i = 0 THEN [w \in Json \X Paths |-> w[1]]
                               ELSE Further(Steps[i - 1], i)]
    BY <1>1, Zenon DEF Steps
  <1>3. walk \in Json \X Paths /\ walk[1] = doc /\ walk[2] = path
    OBVIOUS
  <1> HIDE DEF walk
  <1>4. Steps[0][walk] = doc
    <2>1. Steps[0] = [w \in Json \X Paths |-> w[1]]
      BY <1>2, Zenon
    <2> QED
      BY <1>3, <2>1, Zenon
  <1>5. ASSUME NEW i \in Nat PROVE Steps[i + 1][walk] = Member(Steps[i][walk], path[i + 1])
    <2>1. i + 1 \in Nat /\ i + 1 # 0 /\ (i + 1) - 1 = i
      OBVIOUS
    <2>2. Steps[i + 1] = Further(Steps[i], i + 1)
      BY <1>2, <2>1, Zenon
    <2> QED
      BY <1>3, <2>2, Zenon DEF Further
  <1> QED
    BY <1>4, <1>5 DEF At, walk

(***************************************************************************)
(* Documents: a value that nests less deep is one that may nest deeper, an *)
(* object is told from an atom.                                            *)
(***************************************************************************)
LEMMA ValuesGrow == \A n \in Nat : Values[n] \subseteq Values[n + 1]
  <1> DEFINE S == {n \in Nat : Values[n] \subseteq Values[n + 1]}
  <1>1. 0 \in S
    BY ValuesEquation
  <1>2. ASSUME NEW n \in Nat, n \in S PROVE n + 1 \in S
    <2>1. Values[n + 1] = Atoms \cup [Keys -> Values[n] \cup {Absent}]
      BY ValuesEquation
    <2>2. Values[(n + 1) + 1] = Atoms \cup [Keys -> Values[n + 1] \cup {Absent}]
      BY ValuesEquation
    <2>3. Values[n] \cup {Absent} \subseteq Values[n + 1] \cup {Absent}
      BY <1>2
    <2> QED
      BY <2>1, <2>2, <2>3
  <1> HIDE DEF S
  <1>3. \A n \in Nat : n \in S
    BY <1>1, <1>2, ValuesRec!Induction
  <1> QED
    BY <1>3 DEF S

LEMMA ValuesAreJson == \A n \in 0 .. Depth : Values[n] \subseteq Json
  <1> DEFINE S == {i \in Nat : i <= Depth => Values[Depth - i] \subseteq Json}
  <1>1. 0 \in S
    BY DEF Json
  <1>2. ASSUME NEW i \in Nat, i \in S PROVE i + 1 \in S
    <2>1. SUFFICES ASSUME i + 1 <= Depth PROVE Values[Depth - (i + 1)] \subseteq Json
      OBVIOUS
    <2>2. Depth - (i + 1) \in Nat /\ (Depth - (i + 1)) + 1 = Depth - i
      BY <2>1
    <2>3. Values[Depth - (i + 1)] \subseteq Values[Depth - i]
      BY <2>2, ValuesGrow
    <2> QED
      BY <1>2, <2>1, <2>3
  <1> HIDE DEF S
  <1>3. \A i \in Nat : i \in S
    BY <1>1, <1>2, ValuesRec!Induction
  <1>4. ASSUME NEW n \in 0 .. Depth PROVE Values[n] \subseteq Json
    <2>1. Depth - n \in Nat /\ Depth - n <= Depth /\ Depth - (Depth - n) = n
      OBVIOUS
    <2> QED
      BY <1>3, <2>1 DEF S
  <1> QED
    BY <1>4

\* The kinds of value at each depth.
LEMMA Kinds ==
    ASSUME NEW n \in 0 .. Depth
    PROVE  /\ Atoms \subseteq Values[n] /\ Absent \notin Values[n]
           /\ \A v \in Values[n] : IsObject(v) =>
                 n > 0 /\ v \in [Keys -> Values[n - 1] \cup {Absent}]
           /\ n > 0 => \A v \in [Keys -> Values[n - 1] \cup {Absent}] :
                          v \in Values[n] /\ IsObject(v)
  <1>1. CASE n = 0
    BY <1>1, ValuesEquation DEF IsObject
  <1>2. CASE n > 0
    <2>1. n - 1 \in 0 .. Depth /\ n - 1 \in Nat /\ (n - 1) + 1 = n
      BY <1>2
    <2>2. Values[n] = Atoms \cup [Keys -> Values[n - 1] \cup {Absent}]
      BY <2>1, ValuesEquation
    <2>3. [Keys -> Values[n - 1] \cup {Absent}] \subseteq [Keys -> Json \cup {Absent}]
      BY <2>1, ValuesAreJson
    <2> QED
      BY <1>2, <2>2, <2>3 DEF IsObject
  <1> QED
    BY <1>1, <1>2

\* What a step into a document finds.
LEMMA MemberIs ==
    ASSUME NEW n \in 1 .. Depth, NEW v \in Values[n] \cup {Absent}, NEW k \in Keys
    PROVE  /\ Member(v, k) \in Values[n - 1] \cup {Absent}
           /\ OrNull(Member(v, k)) \in Values[n - 1]
  <1>1. n - 1 \in 0 .. Depth /\ n \in 0 .. Depth
    OBVIOUS
  <1>2. Null \in Values[n - 1]
    BY <1>1, Kinds DEF Atoms
  <1>3. Member(v, k) \in Values[n - 1] \cup {Absent}
    BY <1>1, Kinds DEF Member, IsObject
  <1> QED
    BY <1>2, <1>3 DEF OrNull

(***************************************************************************)
(* The merge.                                                              *)
(***************************************************************************)
LEMMA MergeOfAtom ==
    ASSUME NEW n \in 0 .. Depth, NEW target \in Values[n], NEW patch \in Values[n], ~IsObject(patch)
    PROVE  MergeUpTo[n][<<target, patch>>] = patch
  <1>1. CASE n = 0
    BY <1>1, MergeEquation, ValuesEquation
  <1>2. CASE n > 0
    <2>1. n - 1 \in Nat /\ (n - 1) + 1 = n
      BY <1>2
    <2>2. MergeUpTo[n] = MergeLevel(n, MergeUpTo[n - 1])
      BY <2>1, MergeEquation
    <2> QED
      BY <2>2 DEF MergeLevel
  <1> QED
    BY <1>1, <1>2

\* `merged` is an object that holds, member by member, what merge_json's loop puts there.
MembersMerged(n, target, patch, merged) ==
    /\ patch \in [Keys -> Values[n] \cup {Absent}]
    /\ merged \in [Keys -> Values[n] \cup {Absent}]
    /\ \A k \in Keys :
          /\ patch[k] = Absent => merged[k] = Member(target, k)
          /\ patch[k] = Null => merged[k] = Absent
          /\ patch[k] \notin {Absent, Null} =>
                /\ patch[k] \in Values[n] /\ OrNull(Member(target, k)) \in Values[n]
                /\ merged[k] = MergeUpTo[n][<<OrNull(Member(target, k)), patch[k]>>]

LEMMA MembersClose ==
    ASSUME NEW n \in Nat, n < Depth, NEW target \in Values[n + 1], NEW patch \in Values[n + 1],
           IsObject(patch), \A a, b \in Values[n] : MergeUpTo[n][<<a, b>>] \in Values[n]
    PROVE  MembersMerged(n, target, patch, MergeUpTo[n + 1][<<target, patch>>])
  <1> DEFINE merged == MergeUpTo[n + 1][<<target, patch>>]
  <1>1. /\ n + 1 \in 1 .. Depth /\ n + 1 \in 0 .. Depth /\ n \in 0 .. Depth
        /\ n + 1 > 0 /\ (n + 1) - 1 = n
    OBVIOUS
  <1>2. merged = MergeMembers(MergeUpTo[n], target, patch)
    <2>1. MergeUpTo[n + 1] = MergeLevel(n + 1, MergeUpTo[n])
      BY MergeEquation
    <2> QED
      BY <2>1 DEF MergeLevel
  <1>3. patch \in [Keys -> Values[n] \cup {Absent}] /\ Absent # Null
    BY <1>1, Kinds DEF Atoms
  <1>4. ASSUME NEW k \in Keys
        PROVE  /\ Member(target, k) \in Values[n] \cup {Absent}
               /\ OrNull(Member(target, k)) \in Values[n]
    BY <1>1, MemberIs
  <1>5. \A k \in Keys :
           merged[k] = CASE patch[k] = Absent -> Member(target, k)
                         [] patch[k] = Null   -> Absent
                         [] OTHER -> MergeUpTo[n][<<OrNull(Member(target, k)), patch[k]>>]
    BY <1>2 DEF MergeMembers
  <1>6. merged = [k \in Keys |-> merged[k]]
    BY <1>2 DEF MergeMembers
  <1> HIDE DEF merged
  <1>7. ASSUME NEW k \in Keys
        PROVE  /\ merged[k] \in Values[n] \cup {Absent}
               /\ patch[k] = Absent => merged[k] = Member(target, k)
               /\ patch[k] = Null => merged[k] = Absent
               /\ patch[k] \notin {Absent, Null} =>
                     /\ patch[k] \in Values[n] /\ OrNull(Member(target, k)) \in Values[n]
                     /\ merged[k] = MergeUpTo[n][<<OrNull(Member(target, k)), patch[k]>>]
    <2>1. CASE patch[k] = Absent
      BY <1>3, <1>4, <1>5, <2>1
    <2>2. CASE patch[k] = Null
      BY <1>3, <1>5, <2>2
    <2>3. CASE patch[k] # Absent /\ patch[k] # Null
      <3>1. patch[k] \in Values[n] /\ OrNull(Member(target, k)) \in Values[n]
        BY <1>3, <1>4, <2>3
      <3>2. merged[k] = MergeUpTo[n][<<OrNull(Member(target, k)), patch[k]>>]
        BY <1>5, <2>3
      <3> QED
        BY <2>3, <3>1, <3>2
    <2> QED
      BY <2>1, <2>2, <2>3
  <1>8. merged \in [Keys -> Values[n] \cup {Absent}]
    BY <1>6, <1>7
  <1> QED
    BY <1>3, <1>7, <1>8 DEF MembersMerged, merged

\* A document merged into a document is a document, at every depth.
LEMMA MergeCloses ==
    \A n \in 0 .. Depth : \A target, patch \in Values[n] :
        MergeUpTo[n][<<target, patch>>] \in Values[n]
  <1> DEFINE Closed(m) ==
                \A target, patch \in Values[m] : MergeUpTo[m][<<target, patch>>] \in Values[m]
             S == {m \in Nat : m <= Depth => Closed(m)}
  <1>1. Closed(0)
    BY MergeEquation, ValuesEquation
  <1>2. ASSUME NEW n \in Nat, n < Depth, Closed(n) PROVE Closed(n + 1)
    <2>1. SUFFICES ASSUME NEW target \in Values[n + 1], NEW patch \in Values[n + 1]
                   PROVE  MergeUpTo[n + 1][<<target, patch>>] \in Values[n + 1]
      OBVIOUS
    <2>2. n + 1 \in 1 .. Depth /\ n + 1 \in 0 .. Depth /\ n + 1 > 0 /\ (n + 1) - 1 = n
      BY <1>2
    <2>3. CASE ~IsObject(patch)
      BY <2>2, <2>3, MergeOfAtom
    <2>4. CASE IsObject(patch)
      <3>1. \A a, b \in Values[n] : MergeUpTo[n][<<a, b>>] \in Values[n]
        BY <1>2
      <3>2. MergeUpTo[n + 1][<<target, patch>>] \in [Keys -> Values[n] \cup {Absent}]
        BY <1>2, <2>4, <3>1, MembersClose DEF MembersMerged
      <3> QED
        BY <2>2, <3>2, Kinds
    <2> QED
      BY <2>3, <2>4
  <1> HIDE DEF Closed
  <1>3. 0 \in S
    BY <1>1
  <1>4. ASSUME NEW n \in Nat, n \in S PROVE n + 1 \in S
    <2>1. CASE n < Depth
      BY <1>2, <1>4, <2>1
    <2>2. CASE ~(n < Depth)
      BY <2>2
    <2> QED
      BY <2>1, <2>2
  <1> HIDE DEF S
  <1>5. \A n \in Nat : n \in S
    BY <1>3, <1>4, MergeRec!Induction
  <1>6. \A n \in 0 .. Depth : Closed(n)
    BY <1>5 DEF S
  <1> QED
    BY <1>6 DEF Closed

\* A patch that is merged again changes nothing, at any depth.
LEMMA MergeSettles ==
    \A n \in 0 .. Depth : \A target, patch \in Values[n] :
        MergeUpTo[n][<<MergeUpTo[n][<<target, patch>>], patch>>] = MergeUpTo[n][<<target, patch>>]
  <1> DEFINE Settled(m) == \A target, patch \in Values[m] :
                MergeUpTo[m][<<MergeUpTo[m][<<target, patch>>], patch>>]
                   = MergeUpTo[m][<<target, patch>>]
             S == {m \in Nat : m <= Depth => Settled(m)}
  <1>1. Settled(0)
    BY MergeEquation, ValuesEquation
  <1>2. ASSUME NEW n \in Nat, n < Depth, Settled(n) PROVE Settled(n + 1)
    <2>1. SUFFICES ASSUME NEW target \in Values[n + 1], NEW patch \in Values[n + 1]
                   PROVE  MergeUpTo[n + 1][<<MergeUpTo[n + 1][<<target, patch>>], patch>>]
                             = MergeUpTo[n + 1][<<target, patch>>]
      OBVIOUS
    <2> DEFINE once  == MergeUpTo[n + 1][<<target, patch>>]
               twice == MergeUpTo[n + 1][<<once, patch>>]
    <2>2. /\ n + 1 \in 1 .. Depth /\ n + 1 \in 0 .. Depth /\ n \in 0 .. Depth
          /\ n + 1 > 0 /\ (n + 1) - 1 = n
      BY <1>2
    <2>3. once \in Values[n + 1]
      BY <2>2, MergeCloses
    <2>4. CASE ~IsObject(patch)
      BY <2>2, <2>3, <2>4, MergeOfAtom
    <2>5. CASE IsObject(patch)
      <3>1. \A a, b \in Values[n] : MergeUpTo[n][<<a, b>>] \in Values[n]
        BY <2>2, MergeCloses
      <3>2. MembersMerged(n, target, patch, once)
        BY <1>2, <2>5, <3>1, MembersClose
      <3>3. IsObject(once) /\ Absent \notin Values[n]
        BY <2>2, <3>2, Kinds DEF MembersMerged
      <3> HIDE DEF once
      <3>4. MembersMerged(n, once, patch, twice)
        BY <1>2, <2>3, <2>5, <3>1, MembersClose
      <3> HIDE DEF twice
      <3>5. ASSUME NEW k \in Keys PROVE twice[k] = once[k]
        <4>1. Member(once, k) = once[k]
          BY <3>3 DEF Member
        <4>2. CASE patch[k] \in {Absent, Null}
          BY <3>2, <3>4, <4>1, <4>2 DEF MembersMerged
        <4>3. CASE patch[k] \notin {Absent, Null}
          <5> DEFINE old == OrNull(Member(target, k))
          <5>1. /\ patch[k] \in Values[n] /\ old \in Values[n]
                /\ once[k] = MergeUpTo[n][<<old, patch[k]>>]
            BY <3>2, <4>3 DEF MembersMerged
          <5> HIDE DEF old
          <5>2. once[k] \in Values[n]
            BY <3>1, <5>1
          <5>3. OrNull(once[k]) = once[k]
            BY <3>3, <5>2 DEF OrNull
          <5>4. MergeUpTo[n][<<once[k], patch[k]>>] = once[k]
            BY <1>2, <5>1
          <5> QED
            BY <3>4, <4>1, <4>3, <5>3, <5>4 DEF MembersMerged
        <4> QED
          BY <4>2, <4>3
      <3>6. twice = once
        BY <3>2, <3>4, <3>5 DEF MembersMerged
      <3> QED
        BY <3>6 DEF once, twice
    <2> QED
      BY <2>4, <2>5
  <1> HIDE DEF Settled
  <1>3. 0 \in S
    BY <1>1
  <1>4. ASSUME NEW n \in Nat, n \in S PROVE n + 1 \in S
    <2>1. CASE n < Depth
      BY <1>2, <1>4, <2>1
    <2>2. CASE ~(n < Depth)
      BY <2>2
    <2> QED
      BY <2>1, <2>2
  <1> HIDE DEF S
  <1>5. \A n \in Nat : n \in S
    BY <1>3, <1>4, MergeRec!Induction
  <1>6. \A n \in 0 .. Depth : Settled(n)
    BY <1>5 DEF S
  <1> QED
    BY <1>6 DEF Settled

LEMMA MergeJsonIs ==
    ASSUME NEW target \in Json, NEW patch \in Json
    PROVE  /\ MergeJson(target, patch) \in Json
           /\ MergeJson(MergeJson(target, patch), patch) = MergeJson(target, patch)
  BY MergeCloses, MergeSettles DEF MergeJson, Json

(***************************************************************************)
(* A walk down the same path of the document, the patch and the merge.     *)
(***************************************************************************)
\* The merge has still to be made below; or the patch has left the path to the document; or it
\* deletes what is here; or it has put an atom above.
Standing(target, patch, path, i) ==
    LET before == At(target, path, i)
        asked  == At(patch, path, i)
        after  == At(MergeJson(target, patch), path, i)
    IN \/ /\ \E n \in 0 .. Depth :
                /\ n = Depth - i /\ asked \in Values[n] /\ before \in Values[n] \cup {Absent}
                /\ after = MergeUpTo[n][<<OrNull(before), asked>>]
          /\ asked = Null => i = 0
          /\ \A j \in 0 .. i - 1 : At(patch, path, j) \notin Atoms
       \/ /\ asked = Absent /\ after = before
          /\ \A j \in 0 .. i : At(patch, path, j) \notin Atoms
       \/ asked = Null /\ i > 0 /\ after = Absent
       \/ /\ asked = Absent /\ after = Absent
          /\ \E j \in 0 .. i : At(patch, path, j) \in Atoms

LEMMA WalkStep ==
    ASSUME NEW target \in Json, NEW patch \in Json, NEW path \in Paths,
           NEW i \in Nat, i < Len(path), Standing(target, patch, path, i)
    PROVE  Standing(target, patch, path, i + 1)
  <1> DEFINE result == MergeJson(target, patch)
             before == At(target, path, i)
             asked  == At(patch, path, i)
             after  == At(result, path, i)
             k      == path[i + 1]
             before1 == At(target, path, i + 1)
             asked1  == At(patch, path, i + 1)
             after1  == At(result, path, i + 1)
  <1>1. result \in Json
    BY MergeJsonIs
  <1>2. k \in Keys /\ i + 1 <= Depth
    <2>1. PICK n \in 0 .. Depth : path \in [1 .. n -> Keys]
      BY DEF Paths
    <2>2. Len(path) = n
      BY <2>1
    <2> QED
      BY <2>1, <2>2
  <1>3. /\ before1 = Member(before, k) /\ asked1 = Member(asked, k) /\ after1 = Member(after, k)
    BY <1>1, StepsEquation
  <1>4. Null \in Atoms /\ Absent \notin Atoms /\ Absent # Null
    BY DEF Atoms
  <1>5. \A v \in Atoms \cup {Absent} : Member(v, k) = Absent
    BY DEF Member, IsObject
  <1>6. \A j \in 0 .. i + 1 : j \in 0 .. i \/ j = i + 1
    OBVIOUS
  <1> HIDE DEF before, asked, after, k, before1, asked1, after1, result
  <1>7. CASE /\ \E n \in 0 .. Depth :
                   /\ n = Depth - i /\ asked \in Values[n] /\ before \in Values[n] \cup {Absent}
                   /\ after = MergeUpTo[n][<<OrNull(before), asked>>]
             /\ asked = Null => i = 0
             /\ \A j \in 0 .. i - 1 : At(patch, path, j) \notin Atoms
    <2>1. PICK n \in Nat :
             /\ n + 1 = Depth - i /\ n < Depth
             /\ asked \in Values[n + 1] /\ before \in Values[n + 1] \cup {Absent}
             /\ after = MergeUpTo[n + 1][<<OrNull(before), asked>>]
      <3>1. Depth - (i + 1) \in Nat /\ (Depth - (i + 1)) + 1 = Depth - i /\ Depth - (i + 1) < Depth
        BY <1>2
      <3> QED
        BY <1>7, <3>1
    <2>2. /\ n + 1 \in 0 .. Depth /\ n \in 0 .. Depth /\ n + 1 \in 1 .. Depth
          /\ n + 1 > 0 /\ (n + 1) - 1 = n /\ n = Depth - (i + 1)
      BY <1>2, <2>1
    <2>3. OrNull(before) \in Values[n + 1]
      BY <1>4, <2>1, <2>2, Kinds DEF OrNull
    <2>4. CASE ~IsObject(asked)
      <3>1. asked \in Atoms /\ after = asked
        BY <2>1, <2>2, <2>3, <2>4, MergeOfAtom, Kinds DEF IsObject
      <3>2. asked1 = Absent /\ after1 = Absent
        BY <1>3, <1>5, <3>1
      <3>3. i \in 0 .. i + 1 /\ At(patch, path, i) \in Atoms
        BY <3>1 DEF asked
      <3> QED
        BY <3>2, <3>3 DEF Standing, asked1, after1, result
    <2>5. CASE IsObject(asked)
      <3>1. \A j \in 0 .. i : At(patch, path, j) \notin Atoms
        <4>1. asked \notin Atoms
          BY <2>5 DEF IsObject
        <4> QED
          BY <1>7, <4>1 DEF asked
      <3>2. \A a, b \in Values[n] : MergeUpTo[n][<<a, b>>] \in Values[n]
        BY <2>2, MergeCloses
      <3>3. MembersMerged(n, OrNull(before), asked, after)
        BY <2>1, <2>3, <2>5, <3>2, MembersClose
      <3>4. IsObject(after) /\ asked1 = asked[k] /\ after1 = after[k]
        <4>1. IsObject(after)
          BY <2>2, <3>3, Kinds DEF MembersMerged
        <4> QED
          BY <1>3, <2>5, <4>1 DEF Member
      <3>5. Member(OrNull(before), k) = before1
        BY <1>3, <1>4, <1>5 DEF OrNull
      <3>6. CASE asked1 = Absent
        <4>1. after1 = before1
          BY <1>2, <3>3, <3>4, <3>5, <3>6 DEF MembersMerged
        <4>2. \A j \in 0 .. i + 1 : At(patch, path, j) \notin Atoms
          BY <1>4, <1>6, <3>1, <3>6 DEF asked1
        <4> QED
          BY <3>6, <4>1, <4>2 DEF Standing, asked1, after1, before1, result
      <3>7. CASE asked1 = Null
        <4>1. after1 = Absent
          BY <1>2, <3>3, <3>4, <3>7 DEF MembersMerged
        <4> QED
          BY <3>7, <4>1 DEF Standing, asked1, after1, result
      <3>8. CASE asked1 # Absent /\ asked1 # Null
        <4>1. /\ asked1 \in Values[n]
              /\ after1 = MergeUpTo[n][<<OrNull(before1), asked1>>]
          BY <1>2, <3>3, <3>4, <3>5, <3>8 DEF MembersMerged
        <4>2. before1 \in Values[n] \cup {Absent}
          BY <1>2, <1>3, <2>1, <2>2, MemberIs
        <4>3. \A j \in 0 .. (i + 1) - 1 : At(patch, path, j) \notin Atoms
          BY <3>1
        <4> QED
          BY <2>2, <3>8, <4>1, <4>2, <4>3 DEF Standing, asked1, after1, before1, result
      <3> QED
        BY <3>6, <3>7, <3>8
    <2> QED
      BY <2>4, <2>5
  <1>8. CASE /\ asked = Absent /\ after = before
             /\ \A j \in 0 .. i : At(patch, path, j) \notin Atoms
    <2>1. asked1 = Absent /\ after1 = before1
      BY <1>3, <1>5, <1>8
    <2>2. \A j \in 0 .. i + 1 : At(patch, path, j) \notin Atoms
      BY <1>4, <1>6, <1>8, <2>1 DEF asked1
    <2> QED
      BY <2>1, <2>2 DEF Standing, asked1, after1, before1, result
  <1>9. CASE \/ asked = Null /\ i > 0 /\ after = Absent
             \/ /\ asked = Absent /\ after = Absent
                /\ \E j \in 0 .. i : At(patch, path, j) \in Atoms
    <2>1. asked1 = Absent /\ after1 = Absent
      BY <1>3, <1>4, <1>5, <1>9
    <2>2. \E j \in 0 .. i + 1 : At(patch, path, j) \in Atoms
      <3>1. \E j \in 0 .. i : At(patch, path, j) \in Atoms
        BY <1>4, <1>9 DEF asked
      <3> QED
        BY <3>1
    <2> QED
      BY <2>1, <2>2 DEF Standing, asked1, after1, result
  <1>10. \/ /\ \E n \in 0 .. Depth :
                  /\ n = Depth - i /\ asked \in Values[n] /\ before \in Values[n] \cup {Absent}
                  /\ after = MergeUpTo[n][<<OrNull(before), asked>>]
            /\ asked = Null => i = 0
            /\ \A j \in 0 .. i - 1 : At(patch, path, j) \notin Atoms
         \/ /\ asked = Absent /\ after = before
            /\ \A j \in 0 .. i : At(patch, path, j) \notin Atoms
         \/ asked = Null /\ i > 0 /\ after = Absent
         \/ /\ asked = Absent /\ after = Absent
            /\ \E j \in 0 .. i : At(patch, path, j) \in Atoms
    BY DEF Standing, asked, after, before, result
  <1> QED
    BY <1>7, <1>8, <1>9, <1>10

\* A merged document is what its patch asks for, path by path, for every two documents.
LEMMA MergeIsAsAsked ==
    ASSUME NEW target \in Json, NEW patch \in Json
    PROVE  MergedAsAsked(target, patch, MergeJson(target, patch))
  <1> DEFINE result == MergeJson(target, patch)
  <1>1. SUFFICES ASSUME NEW path \in Paths
                 PROVE  FoundAsAsked(target, patch, result, path)
    BY DEF MergedAsAsked
  <1> DEFINE end   == Len(path)
             asked == At(patch, path, end)
             found == At(result, path, end)
             before == At(target, path, end)
  <1>2. result \in Json
    BY MergeJsonIs
  <1>3. end \in Nat /\ end <= Depth
    <2>1. PICK n \in 0 .. Depth : path \in [1 .. n -> Keys]
      BY DEF Paths
    <2> QED
      BY <2>1
  <1>4. Standing(target, patch, path, end)
    <2> DEFINE S == {i \in Nat : i <= end => Standing(target, patch, path, i)}
    <2> HIDE DEF end
    <2>1. 0 \in S
      <3>1. /\ At(target, path, 0) = target /\ At(patch, path, 0) = patch
            /\ At(result, path, 0) = result
        BY <1>2, StepsEquation
      <3>2. /\ result = MergeUpTo[Depth][<<target, patch>>]
            /\ Depth = Depth - 0 /\ Depth \in 0 .. Depth
        BY DEF MergeJson
      <3>3. target # Absent
        BY Kinds, <3>2 DEF Json
      <3>4. OrNull(target) = target
        BY <3>3 DEF OrNull
      <3>5. \A j \in 0 .. 0 - 1 : At(patch, path, j) \notin Atoms
        OBVIOUS
      <3>6. target \in Values[Depth] /\ patch \in Values[Depth]
        BY DEF Json
      <3>7. Standing(target, patch, path, 0)
        BY <3>1, <3>2, <3>4, <3>5, <3>6 DEF Standing
      <3> QED
        BY <3>7
    <2>2. ASSUME NEW i \in Nat, i \in S PROVE i + 1 \in S
      <3>1. SUFFICES ASSUME i + 1 <= end PROVE Standing(target, patch, path, i + 1)
        OBVIOUS
      <3>2. i < Len(path) /\ i <= end
        BY <1>3, <3>1 DEF end
      <3> QED
        BY <2>2, <3>2, WalkStep
    <2> HIDE DEF S
    <2>3. \A i \in Nat : i \in S
      BY <2>1, <2>2, ValuesRec!Induction
    <2> QED
      BY <1>3, <2>3 DEF S
  <1>5. Null \in Atoms /\ Absent \notin Atoms /\ Scalars \subseteq Atoms
    BY DEF Atoms
  <1>6. CASE /\ \E n \in 0 .. Depth :
                   /\ n = Depth - end /\ asked \in Values[n] /\ before \in Values[n] \cup {Absent}
                   /\ found = MergeUpTo[n][<<OrNull(before), asked>>]
             /\ asked = Null => end = 0
    <2> HIDE DEF end, asked, found, before
    <2>1. PICK n \in 0 .. Depth :
             /\ n = Depth - end /\ asked \in Values[n] /\ before \in Values[n] \cup {Absent}
             /\ found = MergeUpTo[n][<<OrNull(before), asked>>]
      BY <1>6
    <2>2. OrNull(before) \in Values[n] /\ asked # Absent
      BY <1>5, <2>1, Kinds DEF OrNull
    <2>3. CASE ~IsObject(asked)
      <3>1. found = asked
        BY <2>1, <2>2, <2>3, MergeOfAtom
      <3> QED
        BY <1>6, <2>2, <2>3, <3>1 DEF FoundAsAsked, end, asked, found, before
    <2>4. CASE IsObject(asked)
      <3>1. n > 0
        BY <2>1, <2>4, Kinds
      <3>2. PICK m \in Nat : m + 1 = n /\ m < Depth /\ m \in 0 .. Depth
        <4>1. n - 1 \in Nat /\ (n - 1) + 1 = n /\ n - 1 < Depth /\ n - 1 \in 0 .. Depth
          BY <3>1
        <4> QED
          BY <4>1
      <3>3. \A a, b \in Values[m] : MergeUpTo[m][<<a, b>>] \in Values[m]
        BY <3>2, MergeCloses
      <3>4. MembersMerged(m, OrNull(before), asked, found)
        BY <2>1, <2>2, <2>4, <3>2, <3>3, MembersClose
      <3>5. IsObject(found)
        <4>1. n > 0 /\ n - 1 = m /\ found \in [Keys -> Values[m] \cup {Absent}]
          BY <3>1, <3>2, <3>4 DEF MembersMerged
        <4> QED
          BY <4>1, Kinds
      <3>6. asked \notin Atoms
        BY <2>4 DEF IsObject
      <3> QED
        BY <1>5, <2>2, <3>5, <3>6 DEF FoundAsAsked, end, asked, found
    <2> QED
      BY <2>3, <2>4
  <1>7. CASE /\ asked = Absent /\ found = before
             /\ \A j \in 0 .. end : At(patch, path, j) \notin Atoms
    BY <1>5, <1>7 DEF FoundAsAsked, IsObject
  <1>8. CASE asked = Null /\ end > 0 /\ found = Absent
    <2>1. end # 0 /\ asked \notin Scalars /\ asked # Absent /\ ~IsObject(asked)
      BY <1>5, <1>8 DEF IsObject
    <2> HIDE DEF end
    <2> QED
      BY <1>8, <2>1 DEF FoundAsAsked, end
  <1>9. CASE /\ asked = Absent /\ found = Absent
             /\ \E j \in 0 .. end : At(patch, path, j) \in Atoms
    BY <1>5, <1>9 DEF FoundAsAsked, IsObject
  <1>10. \/ /\ \E n \in 0 .. Depth :
                  /\ n = Depth - end /\ asked \in Values[n] /\ before \in Values[n] \cup {Absent}
                  /\ found = MergeUpTo[n][<<OrNull(before), asked>>]
            /\ asked = Null => end = 0
         \/ /\ asked = Absent /\ found = before
            /\ \A j \in 0 .. end : At(patch, path, j) \notin Atoms
         \/ asked = Null /\ end > 0 /\ found = Absent
         \/ /\ asked = Absent /\ found = Absent
            /\ \E j \in 0 .. end : At(patch, path, j) \in Atoms
    <2> HIDE DEF end
    <2> QED
      BY <1>4 DEF Standing
  <1> QED
    BY <1>6, <1>7, <1>8, <1>9, <1>10

(***************************************************************************)
(* The reconciler.                                                         *)
(***************************************************************************)
\* A commit carries a patch exactly when a writer made it.
OthersCarryNoPatch ==
    \A k \in 1 .. Tip : history[k].by = NoDoc => history[k].patch = NoDoc

\* A writer commits a patch, and on top of a document.
WritersPatchDocuments ==
    \A k \in 2 .. Tip : history[k].by # NoDoc =>
        history[k].patch \in Patches /\ history[k - 1].doc \in Json

\* The branch was there before the writers; what the history alone says; the inductive invariant.
FirstByOthers == history[1].by = NoDoc
HistoryInv == /\ NoLostUpdate /\ NoDoubleCommit
              /\ OthersCarryNoPatch /\ WritersPatchDocuments /\ FirstByOthers
Inv == TypeOK /\ ClonesAreTrue /\ OutcomeIsTrue /\ HistoryInv

\* The branch only grows, and what it had stays.
LEMMA AppendKeeps ==
    ASSUME TypeOK, NEW c \in Commits, history' = Append(history, c)
    PROVE  /\ history' \in Seq(Commits) /\ Tip' = Tip + 1 /\ history'[Tip + 1] = c
           /\ \A k \in 1 .. Tip : history'[k] = history[k]
  BY DEF TypeOK, Tip

\* Every commit of the branch holds a document.
LEMMA CommitsHoldDocs ==
    ASSUME TypeOK, NEW k \in 1 .. Tip
    PROVE  history[k] \in Commits /\ history[k].doc \in Docs
  <1>1. history[k] \in Commits
    BY DEF TypeOK, Tip
  <1> QED
    BY <1>1 DEF Commits

LEMMA InitInv == Init => Inv
  <1> SUFFICES ASSUME Init PROVE Inv
    OBVIOUS
  <1>1. PICK d \in Edits : history = <<[doc |-> d, by |-> NoDoc, patch |-> NoDoc]>>
    BY DEF Init
  <1>2. history \in Seq(Commits) /\ Tip = 1
    BY <1>1 DEF Commits, Tip
  <1>3. TypeOK
    BY <1>2 DEF Init, TypeOK, Calls, Idle, Results
  <1>4. ClonesAreTrue /\ OutcomeIsTrue
    BY DEF Init, ClonesAreTrue, OutcomeIsTrue, Idle
  <1> QED
    BY <1>1, <1>2, <1>3, <1>4 DEF Inv, HistoryInv, NoLostUpdate, NoDoubleCommit, OthersCarryNoPatch,
                                   WritersPatchDocuments, FirstByOthers

LEMMA HistoryStays ==
    ASSUME HistoryInv, history' = history PROVE HistoryInv'
  BY DEF HistoryInv, NoLostUpdate, NoDoubleCommit, OthersCarryNoPatch, WritersPatchDocuments,
         FirstByOthers, Tip

\* A call and an outcome that are changed at one writer keep their types.
LEMMA ReturnTypes ==
    ASSUME TypeOK, NEW w \in Writers, NEW o \in {"applied", "already_converged", "failed"},
           Return(w, o)
    PROVE  act' \in [Writers -> Calls] /\ outcome' \in [Writers -> Results]
  <1>1. act[w] \in Calls
    BY DEF TypeOK
  <1>2. Idle \in Calls
    BY DEF Idle, Calls
  <1>3. [result |-> o, patch |-> act[w].patch, base |-> act[w].base] \in Results
    BY <1>1 DEF Calls, Results
  <1> QED
    BY <1>2, <1>3 DEF TypeOK, Return

\* A call that returns leaves what the others hold, whether the branch stays or grows.
LEMMA ReturnClones ==
    ASSUME Inv, NEW w \in Writers, NEW o, Return(w, o),
           history' = history \/ (\E c \in Commits : history' = Append(history, c))
    PROVE  ClonesAreTrue'
  <1>1. Tip' \in Nat /\ Tip' >= Tip /\ \A k \in 1 .. Tip : history'[k] = history[k]
    <2>1. CASE history' = history
      BY <2>1 DEF Tip, Inv, TypeOK
    <2>2. CASE \E c \in Commits : history' = Append(history, c)
      BY <2>2 DEF Tip, Inv, TypeOK
    <2> QED
      BY <2>1, <2>2
  <1>2. Tip \in Nat
    BY DEF Tip, Inv, TypeOK
  <1>3. SUFFICES ASSUME NEW v \in Writers
                 PROVE  /\ act'[v].pc # "idle" => act'[v].patch \in Patches
                        /\ act'[v].pc \in {"patch", "push"} => act'[v].base \in 1 .. Tip'
                        /\ act'[v].pc = "patch" => act'[v].doc = history'[act'[v].base].doc
                        /\ act'[v].pc = "push" =>
                              /\ history'[act'[v].base].doc \notin Unreadable
                              /\ act'[v].doc = MergeJson(history'[act'[v].base].doc, act'[v].patch)
                              /\ act'[v].doc # history'[act'[v].base].doc
    BY DEF ClonesAreTrue
  <1>4. CASE v = w
    <2>1. act'[v].pc = "idle"
      BY <1>4 DEF Return, Idle, Inv, TypeOK
    <2> QED
      BY <2>1
  <1>5. CASE v # w
    <2>1. act'[v] = act[v]
      BY <1>5 DEF Return, Inv, TypeOK
    <2>2. act[v].pc \in {"patch", "push"} =>
             act[v].base \in 1 .. Tip' /\ history'[act[v].base] = history[act[v].base]
      BY <1>1, <1>2 DEF Inv, ClonesAreTrue
    <2> QED
      BY <2>1, <2>2 DEF Inv, ClonesAreTrue
  <1> QED
    BY <1>4, <1>5

\* Outcomes the calls of other writers had stay true while the branch stays or grows.
LEMMA OldOutcomes ==
    ASSUME Inv, NEW v \in Writers, outcome'[v] = outcome[v],
           history' = history \/ (\E c \in Commits : history' = Append(history, c))
    PROVE  /\ outcome'[v].result \in {"applied", "already_converged"} =>
                 outcome'[v].base \in 1 .. Tip'
           /\ outcome'[v].result = "applied" /\ v \notin DryRun =>
                 /\ outcome'[v].base < Tip'
                 /\ history'[outcome'[v].base + 1].by = v
                 /\ history'[outcome'[v].base + 1].patch = outcome'[v].patch
           /\ outcome'[v].result = "already_converged" =>
                 MergeJson(history'[outcome'[v].base].doc, outcome'[v].patch)
                   = history'[outcome'[v].base].doc
  <1>1. Tip' \in Nat /\ Tip' >= Tip /\ \A k \in 1 .. Tip : history'[k] = history[k]
    <2>1. CASE history' = history
      BY <2>1 DEF Tip, Inv, TypeOK
    <2>2. CASE \E c \in Commits : history' = Append(history, c)
      BY <2>2 DEF Tip, Inv, TypeOK
    <2> QED
      BY <2>1, <2>2
  <1>2. Tip \in Nat /\ outcome[v].base \in Nat
    BY DEF Tip, Inv, TypeOK, Results
  <1>3. outcome[v].result = "applied" /\ v \notin DryRun => outcome[v].base + 1 \in 1 .. Tip
    BY <1>2 DEF Inv, OutcomeIsTrue
  <1> QED
    BY <1>1, <1>2, <1>3 DEF Inv, OutcomeIsTrue

\* A writer's step that leaves the branch alone.
LEMMA LocalStep ==
    ASSUME Inv, NEW w \in Writers,
           \/ Clone(w) \/ GiveUp(w) \/ Converged(w) \/ Commit(w) \/ SkipPush(w)
           \/ PushRefused(w) \/ GitFails(w)
    PROVE  Inv'
  <1>1. history' = history /\ acts' = acts /\ edits' = edits
    BY DEF Clone, GiveUp, Converged, Commit, SkipPush, PushRefused, GitFails
  <1>2. HistoryInv'
    BY <1>1, HistoryStays DEF Inv
  <1>3. act[w] \in Calls /\ Document \in Docs /\ Tip \in Nat /\ Tip > 0
    <2>1. act[w] \in Calls /\ Tip \in Nat /\ Tip > 0
      BY DEF Inv, TypeOK, Tip
    <2> QED
      BY <2>1, CommitsHoldDocs DEF Inv, Document
  <1>4. CASE Clone(w)
    <2>1. act'[w] = [pc |-> "patch", base |-> Tip, doc |-> Document, patch |-> act[w].patch]
      BY <1>3, <1>4 DEF Clone, Inv, TypeOK, Calls
    <2>2. \A v \in Writers \ {w} : act'[v] = act[v]
      BY <1>4 DEF Clone, Inv, TypeOK
    <2>3. TypeOK'
      BY <1>1, <1>3, <1>4, <2>1 DEF Clone, Inv, TypeOK, Calls, Tip
    <2>4. ClonesAreTrue'
      BY <1>1, <1>3, <1>4, <2>1, <2>2 DEF Clone, Inv, ClonesAreTrue, Tip, Document
    <2>5. OutcomeIsTrue'
      BY <1>1, <1>4 DEF Clone, Inv, OutcomeIsTrue, Tip
    <2> QED
      BY <1>2, <2>3, <2>4, <2>5 DEF Inv
  <1>5. CASE Commit(w)
    <2>1. /\ act[w].base \in 1 .. Tip /\ act[w].patch \in Patches
          /\ act[w].doc = history[act[w].base].doc /\ act[w].doc \in Json
      BY <1>3, <1>5, CommitsHoldDocs DEF Commit, Inv, ClonesAreTrue, Docs
    <2>1a. MergeJson(act[w].doc, act[w].patch) \in Docs /\ act[w].doc \notin Unreadable
      BY <2>1, MergeJsonIs DEF Docs
    <2>2. act'[w] = [pc |-> "push", base |-> act[w].base,
                     doc |-> MergeJson(act[w].doc, act[w].patch), patch |-> act[w].patch]
      BY <1>3, <1>5 DEF Commit, Inv, TypeOK, Calls
    <2>3. \A v \in Writers \ {w} : act'[v] = act[v]
      BY <1>5 DEF Commit, Inv, TypeOK
    <2>4. TypeOK'
      BY <1>1, <1>3, <1>5, <2>1, <2>1a, <2>2 DEF Commit, Inv, TypeOK, Calls, Tip
    <2>5. ClonesAreTrue'
      BY <1>1, <1>5, <2>1, <2>1a, <2>2, <2>3 DEF Commit, Inv, ClonesAreTrue, Tip
    <2>6. OutcomeIsTrue'
      BY <1>1, <1>5 DEF Commit, Inv, OutcomeIsTrue, Tip
    <2> QED
      BY <1>2, <2>4, <2>5, <2>6 DEF Inv
  <1>6. CASE GiveUp(w) \/ Converged(w) \/ SkipPush(w) \/ PushRefused(w) \/ GitFails(w)
    <2>1. PICK o \in {"applied", "already_converged", "failed"} :
             /\ Return(w, o)
             /\ o = "applied" => act[w].pc = "push" /\ w \in DryRun
             /\ o = "already_converged" =>
                   act[w].pc = "patch" /\ MergeJson(act[w].doc, act[w].patch) = act[w].doc
      BY <1>6 DEF GiveUp, Converged, SkipPush, PushRefused, GitFails
    <2>2. TypeOK'
      BY <1>1, <2>1, ReturnTypes DEF Inv, TypeOK, Tip
    <2>3. ClonesAreTrue'
      BY <1>1, <2>1, ReturnClones
    <2>4. outcome'[w] = [result |-> o, patch |-> act[w].patch, base |-> act[w].base]
      BY <2>1 DEF Return, Inv, TypeOK
    <2>5. \A v \in Writers \ {w} : outcome'[v] = outcome[v]
      BY <2>1 DEF Return, Inv, TypeOK
    <2>6. OutcomeIsTrue'
      BY <1>1, <2>1, <2>4, <2>5 DEF Inv, OutcomeIsTrue, ClonesAreTrue, Tip
    <2> QED
      BY <1>2, <2>2, <2>3, <2>6 DEF Inv
  <1> QED
    BY <1>4, <1>5, <1>6

\* A push the remote takes: the branch grows by the writer's commit, on top of what it cloned.
LEMMA PushStep ==
    ASSUME Inv, NEW w \in Writers, Push(w) \/ PushUnheard(w)
    PROVE  /\ Inv'
           /\ Document' = MergeJson(Document, act[w].patch) /\ act[w].patch \in Patches
           /\ Document \notin Unreadable
  <1> DEFINE c == [doc |-> act[w].doc, by |-> w, patch |-> act[w].patch]
  <1>1. /\ act[w].pc = "push" /\ w \notin DryRun /\ act[w].base = Tip
        /\ history' = Append(history, c) /\ acts' = acts /\ edits' = edits
    BY DEF Push, PushUnheard, Pushed
  <1>2. Tip \in Nat /\ Tip > 0 /\ history[Tip] \in Commits
    BY DEF Inv, TypeOK, Tip
  <1>3. /\ act[w].patch \in Patches
        /\ act[w].doc = MergeJson(history[Tip].doc, act[w].patch)
        /\ act[w].doc # history[Tip].doc
        /\ history[Tip].doc \in Json /\ history[Tip].doc \notin Unreadable
    BY <1>1, <1>2 DEF Inv, ClonesAreTrue, Commits, Docs
  <1>3a. act[w].doc \in Docs
    BY <1>3, MergeJsonIs DEF Docs
  <1>4. c \in Commits
    BY <1>3, <1>3a DEF Commits
  <1>5. /\ history' \in Seq(Commits) /\ Tip' = Tip + 1 /\ history'[Tip + 1] = c
        /\ \A k \in 1 .. Tip : history'[k] = history[k]
    BY <1>1, <1>4, AppendKeeps DEF Inv
  <1>6. PICK o \in {"applied", "failed"} : Return(w, o)
    BY DEF Push, PushUnheard
  <1>7. TypeOK'
    BY <1>1, <1>2, <1>5, <1>6, ReturnTypes DEF Inv, TypeOK
  <1>8. ClonesAreTrue'
    BY <1>1, <1>4, <1>6, ReturnClones
  <1>9. outcome'[w] = [result |-> o, patch |-> act[w].patch, base |-> act[w].base]
    BY <1>6 DEF Return, Inv, TypeOK
  <1>10. OutcomeIsTrue'
    <2>1. SUFFICES ASSUME NEW v \in Writers
                   PROVE  /\ outcome'[v].result \in {"applied", "already_converged"} =>
                                outcome'[v].base \in 1 .. Tip'
                          /\ outcome'[v].result = "applied" /\ v \notin DryRun =>
                                /\ outcome'[v].base < Tip'
                                /\ history'[outcome'[v].base + 1].by = v
                                /\ history'[outcome'[v].base + 1].patch = outcome'[v].patch
                          /\ outcome'[v].result = "already_converged" =>
                                MergeJson(history'[outcome'[v].base].doc, outcome'[v].patch)
                                  = history'[outcome'[v].base].doc
      BY DEF OutcomeIsTrue
    <2>2. CASE v = w
      <3>1. c.by = w /\ c.patch = act[w].patch
        OBVIOUS
      <3>2. /\ outcome'[v].result = o /\ outcome'[v].base = Tip
            /\ outcome'[v].patch = act[w].patch
        BY <1>1, <1>9, <2>2
      <3> HIDE DEF c
      <3> QED
        BY <1>2, <1>5, <2>2, <3>1, <3>2
    <2>3. CASE v # w
      <3>1. outcome'[v] = outcome[v]
        BY <1>6, <2>3 DEF Return, Inv, TypeOK
      <3> QED
        BY <1>1, <1>4, <3>1, OldOutcomes
    <2> QED
      BY <2>2, <2>3
  <1>11. NoLostUpdate'
    BY <1>2, <1>3, <1>5 DEF Inv, HistoryInv, NoLostUpdate
  <1>12. history[Tip].patch # act[w].patch
    <2>1. CASE history[Tip].by = NoDoc
      BY <1>2, <1>3, <2>1 DEF Inv, HistoryInv, OthersCarryNoPatch, Docs
    <2>2. CASE history[Tip].by # NoDoc /\ history[Tip].patch = act[w].patch
      <3>1. CASE Tip = 1
        BY <1>2, <1>3, <2>2, <3>1 DEF Inv, HistoryInv, FirstByOthers
      <3>2. CASE Tip > 1
        <4>1. history[Tip - 1].doc \in Json
          BY <1>2, <2>2, <3>2 DEF Inv, HistoryInv, WritersPatchDocuments
        <4>2. history[Tip].doc = MergeJson(history[Tip - 1].doc, history[Tip].patch)
          BY <1>2, <2>2, <3>2 DEF Inv, HistoryInv, NoLostUpdate
        <4> QED
          BY <1>3, <2>2, <4>1, <4>2, MergeJsonIs
      <3> QED
        BY <1>2, <3>1, <3>2
    <2> QED
      BY <2>1, <2>2
  <1>13. NoDoubleCommit'
    BY <1>2, <1>5, <1>12 DEF Inv, HistoryInv, NoDoubleCommit
  <1>14. OthersCarryNoPatch' /\ WritersPatchDocuments' /\ FirstByOthers'
    <2>1. WritersPatchDocuments'
      BY <1>2, <1>3, <1>5 DEF Inv, HistoryInv, WritersPatchDocuments
    <2> QED
      BY <1>2, <1>5, <2>1 DEF Inv, HistoryInv, OthersCarryNoPatch, FirstByOthers
  <1>15. Document' = MergeJson(Document, act[w].patch)
    BY <1>2, <1>3, <1>5 DEF Document, Tip
  <1> QED
    BY <1>3, <1>7, <1>8, <1>10, <1>11, <1>13, <1>14, <1>15 DEF Inv, HistoryInv, Document

LEMMA NextInv == Inv /\ [Next]_vars => Inv'
  <1> SUFFICES ASSUME Inv, [Next]_vars PROVE Inv'
    OBVIOUS
  <1>1. CASE \E w \in Writers : Act(w)
    <2>1. PICK w \in Writers : Act(w)
      BY <1>1
    <2>2. PICK p \in Patches : act' = [act EXCEPT ![w] = [Idle EXCEPT !.pc = "clone", !.patch = p]]
      BY <2>1 DEF Act
    <2>3. history' = history /\ outcome' = outcome /\ edits' = edits /\ acts' = acts + 1
          /\ acts < ActLimit
      BY <2>1 DEF Act
    <2>4. act'[w] = [pc |-> "clone", base |-> 0, doc |-> NoDoc, patch |-> p]
      BY <2>2 DEF Idle, Inv, TypeOK
    <2>5. \A v \in Writers \ {w} : act'[v] = act[v]
      BY <2>2 DEF Inv, TypeOK
    <2>6. TypeOK'
      BY <2>2, <2>3, <2>4 DEF Inv, TypeOK, Calls, Idle, Tip
    <2>7. ClonesAreTrue'
      BY <2>3, <2>4, <2>5 DEF Inv, ClonesAreTrue, Tip
    <2>8. OutcomeIsTrue'
      BY <2>3 DEF Inv, OutcomeIsTrue, Tip
    <2> QED
      BY <2>3, <2>6, <2>7, <2>8, HistoryStays DEF Inv
  <1>2. CASE \E w \in Writers : Crash(w)
    <2>1. PICK w \in Writers : Crash(w)
      BY <1>2
    <2>2. act' = [act EXCEPT ![w] = Idle] /\ Idle.pc = "idle" /\ Idle \in Calls
      BY <2>1 DEF Crash, Idle, Calls
    <2>3. UNCHANGED <<history, outcome, acts, edits>>
      BY <2>1 DEF Crash
    <2>4. TypeOK'
      BY <2>2, <2>3 DEF Inv, TypeOK, Tip
    <2>5. ClonesAreTrue'
      BY <2>2, <2>3 DEF Inv, TypeOK, ClonesAreTrue, Tip
    <2>6. OutcomeIsTrue'
      BY <2>3 DEF Inv, OutcomeIsTrue, Tip
    <2> QED
      BY <2>3, <2>4, <2>5, <2>6, HistoryStays DEF Inv
  <1>3. CASE Edit
    <2>1. PICK d \in Edits :
             history' = Append(history, [doc |-> d, by |-> NoDoc, patch |-> NoDoc])
      BY <1>3 DEF Edit
    <2> DEFINE c == [doc |-> d, by |-> NoDoc, patch |-> NoDoc]
    <2>2. c \in Commits
      BY DEF Commits
    <2>3. /\ history' \in Seq(Commits) /\ Tip' = Tip + 1 /\ history'[Tip + 1] = c
          /\ \A k \in 1 .. Tip : history'[k] = history[k]
      BY <2>1, <2>2, AppendKeeps DEF Inv
    <2>4. /\ act' = act /\ outcome' = outcome /\ acts' = acts /\ edits' = edits + 1
          /\ edits < EditLimit /\ Tip \in Nat /\ Tip > 0
      BY <1>3 DEF Edit, Inv, TypeOK, Tip
    <2>5. TypeOK'
      BY <2>3, <2>4 DEF Inv, TypeOK
    <2>6. ClonesAreTrue'
      BY <2>3, <2>4 DEF Inv, ClonesAreTrue
    <2>7. OutcomeIsTrue'
      <3>1. \A v \in Writers : outcome'[v] = outcome[v]
        BY <2>4
      <3> QED
        BY <2>1, <2>2, <3>1, OldOutcomes DEF OutcomeIsTrue
    <2>8. HistoryInv'
      <3>1. NoLostUpdate'
        BY <2>3, <2>4 DEF Inv, HistoryInv, NoLostUpdate
      <3>2. NoDoubleCommit'
        BY <2>3, <2>4 DEF Inv, HistoryInv, NoDoubleCommit
      <3>3. OthersCarryNoPatch' /\ FirstByOthers'
        BY <2>3, <2>4 DEF Inv, HistoryInv, OthersCarryNoPatch, FirstByOthers
      <3>4. WritersPatchDocuments'
        BY <2>3, <2>4 DEF Inv, HistoryInv, WritersPatchDocuments
      <3> QED
        BY <3>1, <3>2, <3>3, <3>4 DEF HistoryInv
    <2> QED
      BY <2>5, <2>6, <2>7, <2>8 DEF Inv
  <1>4. CASE \E w \in Writers : Step(w)
    <2>1. PICK w \in Writers : Step(w)
      BY <1>4
    <2> QED
      BY <2>1, LocalStep, PushStep DEF Step
  <1>5. CASE UNCHANGED vars
    BY <1>5 DEF vars, Inv, TypeOK, ClonesAreTrue, OutcomeIsTrue, HistoryInv, NoLostUpdate,
                NoDoubleCommit, OthersCarryNoPatch, WritersPatchDocuments, FirstByOthers, Tip
  <1> QED
    BY <1>1, <1>2, <1>3, <1>4, <1>5 DEF Next

LEMMA SpecInv == Spec => []Inv
  BY InitInv, NextInv, PTL DEF Spec

\* Every variable keeps its type, for every set of patches, edits and writers, and every bound.
THEOREM TypeCorrect == Spec => []TypeOK
  BY SpecInv, PTL DEF Inv

\* No commit by a writer overwrites what others committed: it is its patch of the text it lands on.
THEOREM UpdatesAreNotLost == Spec => []NoLostUpdate
  BY SpecInv, PTL DEF Inv, HistoryInv

\* Member by member, a writer's commit is what was there and what its patch asks for, however deep
\* the document nests.
THEOREM PatchesKeepTheRest == Spec => []PatchesOnlyWhatItNames
  <1>1. Inv => PatchesOnlyWhatItNames
    <2> SUFFICES ASSUME Inv, NEW k \in 2 .. Tip, history[k].by # NoDoc
                 PROVE  MergedAsAsked(history[k - 1].doc, history[k].patch, history[k].doc)
      BY DEF PatchesOnlyWhatItNames
    <2>1. history[k].patch \in Json /\ history[k - 1].doc \in Json
      BY DEF Inv, HistoryInv, WritersPatchDocuments
    <2>2. history[k].doc = MergeJson(history[k - 1].doc, history[k].patch)
      BY DEF Inv, HistoryInv, NoLostUpdate
    <2> QED
      BY <2>1, <2>2, MergeIsAsAsked
  <1> QED
    BY <1>1, SpecInv, PTL

\* A patch delivered again is not committed on top of its own commit.
THEOREM CommitsAreNotDoubled == Spec => []NoDoubleCommit
  BY SpecInv, PTL DEF Inv, HistoryInv

\* The outcome a call returns tells what became of the branch.
THEOREM OutcomesAreTrue == Spec => []OutcomeIsTrue
  BY SpecInv, PTL DEF Inv

\* Git command by git command, the reconciler implements one atomic patch of the branch's text.
THEOREM Implements == Spec => KeepsPromise
  <1>1. Init => Promise!Init
    BY DEF Init, Promise!Init, Document, Tip
  <1>2. Inv /\ [Next]_vars => [Promise!Next]_Document
    <2> SUFFICES ASSUME Inv, [Next]_vars PROVE Promise!Next \/ Document' = Document
      OBVIOUS
    <2>1. CASE \E w \in Writers : Push(w) \/ PushUnheard(w)
      BY <2>1, PushStep DEF Promise!Next, Promise!Patched
    <2>2. CASE Edit
      <3>1. PICK d \in Edits :
               history' = Append(history, [doc |-> d, by |-> NoDoc, patch |-> NoDoc])
        BY <2>2 DEF Edit
      <3>2. [doc |-> d, by |-> NoDoc, patch |-> NoDoc] \in Commits
        BY DEF Commits
      <3>3. Document' = d
        BY <3>1, <3>2, AppendKeeps DEF Inv, Document, Tip
      <3> QED
        BY <3>3 DEF Promise!Next, Promise!Edited
    <2>3. CASE history' = history
      BY <2>3 DEF Document, Tip
    <2>4. \/ history' = history \/ Edit \/ \E w \in Writers : Push(w) \/ PushUnheard(w)
      BY DEF Next, vars, Step, Act, Crash, Clone, GiveUp, Converged, Commit, SkipPush,
             PushRefused, GitFails
    <2> QED
      BY <2>1, <2>2, <2>3, <2>4
  <1> QED
    BY <1>1, <1>2, SpecInv, PTL DEF Spec, KeepsPromise, Promise!Spec
=============================================================================
