------------------------------ MODULE PushProofs ------------------------------
(***************************************************************************)
(* What private-push may be trusted with, for every number of invocations, *)
(* services, tags and ports, whatever they share and whenever they fail.   *)
(*                                                                         *)
(* The inductive invariant has one part per hazard: how far an invocation  *)
(* is (Progress), that what it copied is still in the registry (OwnCopy),  *)
(* that what it captured is no older (NotStale), that what it lists exists *)
(* (Lists), and what the port protects while no forward dies (HoldsPort,   *)
(* Locked, OneForward).                                                    *)
(***************************************************************************)
EXTENDS PrivatePush, TLAPS, FiniteSetTheorems, WellFoundedInduction

Labels == {"start", "await", "login", "build", "tag", "copy", "inspect", "sign", "capture",
           "apply", "list", "head", "submit", "done", "failed"}

Pushing == {"build", "tag", "copy", "inspect", "sign", "capture"}
Copied  == {"inspect", "sign", "capture"}

Repos       == {"pleme-io", "akeyless"} \X Range(Services)
PushedImage == [repo : Repos, digest : Digests]
Copy        == [repo : Repos, tag : Nat, digest : Digests, by : Invocations]
CR          == [name : Repos \X Range(Suffix), digest : Digests, mode : {"annotated", "plain"}]

TypeOK ==
    /\ kind \in [Invocations -> PushKinds \cup {"submit_validations"}]
    /\ pc \in [Invocations -> Labels]
    /\ at \in [Invocations -> Nat]
    /\ forward \in [Invocations -> {"none", "starting", "up", "lost", "refused"}]
    /\ link \in [Range(Services) -> Digests \cup {None}]
    /\ tag \in [Invocations -> Nat \cup {NoTag}]
    /\ resolved \in [Invocations -> Digests \cup {None}]
    /\ pushed \in [Invocations -> Seq(PushedImage)]
    /\ todo \in [Invocations -> Seq(Range(Services))]
    /\ copies \in Seq(Copy)
    /\ crs \subseteq CR

\* A validation is named after its digest.
NamedByDigest == \A c \in crs : c.name[2] = Suffix[c.digest]

\* No two forwards hold one port.
OneForward == \A i, j \in Invocations :
    forward[i] = "up" /\ forward[j] = "up" /\ EndpointOf[i] = EndpointOf[j] => i = j

Submitted(i, n) == \E c \in crs : c.digest = pushed[i][n].digest

\* How far an invocation is: what it has captured by then, and applied.
Progress(i) ==
    /\ pc[i] \in {"start", "await", "login"} => at[i] = 0 /\ pushed[i] = <<>>
    /\ pc[i] \in {"await", "login"} \cup Pushing => kind[i] \in PushKinds
    /\ pc[i] \in Pushing =>
          /\ at[i] < Len(Services)
          /\ kind[i] # "substrate" => Len(pushed[i]) = at[i]
    /\ pc[i] = "apply" => /\ kind[i] = "push_and_submit"
                          /\ Len(pushed[i]) = Len(Services) /\ at[i] < Len(Services)
                          /\ i \notin DryRun => \A n \in 1 .. at[i] : Submitted(i, n)
    /\ pc[i] = "done" /\ kind[i] = "push_and_submit" =>
          /\ Len(pushed[i]) = Len(Services)
          /\ i \notin DryRun => \A n \in 1 .. Len(Services) : Submitted(i, n)
    /\ \A n \in DOMAIN pushed[i] : n <= Len(Services)
                                   /\ pushed[i][n].repo = <<"akeyless", Services[n]>>
    /\ pc[i] \in {"list", "head", "submit"} => kind[i] = "submit_validations"
    /\ pc[i] \in {"copy"} \cup Copied => tag[i] \in Nat

\* What it has just copied is in the registry, under the tag it works under.
OwnCopy(i) ==
    pc[i] \in Copied => \E k \in OwnCopies(i, Repo(i)) : copies[k].tag = tag[i]

\* The registry has digest d in repository r, from a copy of i's own or one over it.
NoOlder(i, r, d) ==
    \E k \in OwnCopies(i, r), l \in DOMAIN copies :
        /\ l >= k /\ copies[l].repo = copies[k].repo /\ copies[l].tag = copies[k].tag
        /\ copies[l].digest = d

NotStale(i) == \A n \in DOMAIN pushed[i] : NoOlder(i, pushed[i][n].repo, pushed[i][n].digest)

\* submit-validations goes through repositories that have tags, tags that have images.
Lists(i) ==
    /\ pc[i] \in {"list", "head", "submit"} =>
          \A n \in DOMAIN todo[i] : TagsOf(<<"akeyless", todo[i][n]>>) # {}
    /\ pc[i] \in {"head", "submit"} => todo[i] # <<>>
    /\ pc[i] = "head" => tag[i] \in TagsOf(Found(i))
    /\ pc[i] = "submit" =>
          \E k \in DOMAIN copies : copies[k].repo = Found(i) /\ copies[k].digest = resolved[i]

\* From the login on an invocation has its own forward, until that dies.
HoldsPort(i) ==
    /\ pc[i] \in {"login"} \cup Pushing /\ i \notin lost => forward[i] = "up"
    /\ forward[i] = "lost" => i \in lost

\* What i has copied is still what the tag says, and what it signs.
Locked(i) ==
    lost = {} /\ pc[i] \in Copied /\ ~Foreign(i, Repo(i)) =>
        /\ \E k \in OwnCopies(i, Repo(i)) : copies[k].digest = Resolve(Repo(i), tag[i])
        /\ pc[i] = "sign" => resolved[i] = Resolve(Repo(i), tag[i])
        /\ pc[i] = "capture" /\ i \in Cosign => <<Repo(i), Resolve(Repo(i), tag[i])>> \in signed

LockedIn(i) ==
    lost = {} =>
        \A n \in DOMAIN pushed[i] :
            \/ Foreign(i, pushed[i][n].repo)
            \/ /\ \E k \in OwnCopies(i, pushed[i][n].repo) :
                     copies[k].digest = pushed[i][n].digest
               /\ i \in Cosign => <<pushed[i][n].repo, pushed[i][n].digest>> \in signed

Inv(i) == /\ Progress(i) /\ OwnCopy(i) /\ NotStale(i) /\ Lists(i)
          /\ HoldsPort(i) /\ Locked(i) /\ LockedIn(i)

PushInv == /\ TypeOK /\ NamedByDigest /\ OneForward /\ ValidationsNameImages
           /\ \A i \in Invocations : Inv(i)
-----------------------------------------------------------------------------
(* The greatest of a finite set of numbers: the last copy, the last tag.     *)

\* A set of numbers has a least one: induction, as the library has it.
LEMMA LeastNat == ASSUME NEW T \in SUBSET Nat, T # {} PROVE \E n \in T : \A m \in T : n <= m
<1> DEFINE R == OpToRel(<, Nat)
<1>1. \A x, y \in Nat : y < x => <<y, x>> \in R
    BY SMT DEF OpToRel
<1>2. IsWellFoundedOn(R, Nat)
    BY NatLessThanWellFounded, Zenon
<1> HIDE DEF R
<1>3. PICK x \in T : \A y \in T : ~ (<<y, x>> \in R)
    BY <1>2, WFMin
<1>4. ASSUME NEW y \in T PROVE x <= y
    <2>1. x \in Nat /\ y \in Nat /\ ~ (y < x)
        BY <1>1, <1>3
    <2> QED
        BY <2>1
<1> QED
    BY <1>4

\* Max is what it says of a set that has an upper bound.
LEMMA MaxOfBounded ==
    ASSUME NEW S \in SUBSET Nat, S # {}, NEW b \in Nat, \A x \in S : x <= b
    PROVE  Max(S) \in S /\ \A y \in S : y <= Max(S)
<1> DEFINE T == {n \in Nat : \A x \in S : x <= n}
<1>1. PICK n \in T : \A m \in T : n <= m
    BY LeastNat
<1>2. n \in Nat /\ \A x \in S : x \in Nat /\ x <= n
    OBVIOUS
<1>3. n \in S
    <2> SUFFICES ASSUME n \notin S PROVE FALSE
        OBVIOUS
    <2>1. n - 1 \in Nat /\ \A x \in S : x <= n - 1
        <3>1. \A x \in S : x < n
            BY <1>2
        <3>2. PICK x \in S : x \in Nat /\ x < n
            BY <1>2, <3>1
        <3> QED
            BY <1>2, <3>1, <3>2
    <2> QED
        BY <1>1, <1>2, <2>1
<1> QED
    BY <1>2, <1>3 DEF Max

\* A finite set of numbers has one, by induction over an enumeration of it.
LEMMA FiniteIsBounded ==
    ASSUME NEW S \in SUBSET Nat, IsFiniteSet(S)
    PROVE  \E b \in Nat : \A x \in S : x <= b
<1>1. PICK n \in Nat : Surjection(1 .. n, S) # {}
    BY FS_NatSurjection DEF ExistsSurjection
<1>2. PICK f : f \in Surjection(1 .. n, S)
    BY <1>1
<1>3. (\A k \in 1 .. n : f[k] \in Nat) /\ \A x \in S : \E k \in 1 .. n : f[k] = x
    BY <1>2 DEF Surjection
<1> DEFINE Bounded(m) == \E b \in Nat : \A k \in 1 .. m : f[k] <= b
           T == {m \in Nat : m <= n /\ ~Bounded(m)}
<1>4. Bounded(0)
    <2>1. \A k \in 1 .. 0 : f[k] <= 0
        OBVIOUS
    <2> QED
        BY <2>1
<1>5. ASSUME NEW m \in Nat, m < n, Bounded(m) PROVE Bounded(m + 1)
    <2>1. PICK b \in Nat : \A k \in 1 .. m : f[k] <= b
        BY <1>5
    <2>2. f[m + 1] \in Nat
        BY <1>3, <1>5
    <2>3. PICK c \in Nat : b <= c /\ f[m + 1] <= c
        BY <2>2
    <2>4. ASSUME NEW k \in 1 .. (m + 1) PROVE f[k] <= c
        <3>1. CASE k = m + 1
            BY <2>3, <3>1
        <3>2. CASE k # m + 1
            <4>1. k \in 1 .. m /\ k \in 1 .. n
                BY <1>5, <3>2
            <4> QED
                BY <1>3, <2>1, <2>3, <4>1
        <3> QED
            BY <3>1, <3>2
    <2> QED
        BY <2>3, <2>4
<1>6. Bounded(n)
    <2> SUFFICES ASSUME ~Bounded(n) PROVE FALSE
        OBVIOUS
    <2> HIDE DEF Bounded
    <2>1. n \in T
        OBVIOUS
    <2>2. PICK m \in T : \A j \in T : m <= j
        BY <2>1, LeastNat
    <2>3. m \in Nat /\ m <= n /\ ~Bounded(m)
        BY <2>2
    <2>4. m # 0
        BY <1>4, <2>3
    <2>5. m - 1 \in Nat /\ m - 1 < n /\ m - 1 \notin T
        BY <2>2, <2>3, <2>4
    <2>6. Bounded(m - 1)
        BY <2>5
    <2>7. (m - 1) + 1 = m
        BY <2>3
    <2>8. Bounded((m - 1) + 1)
        BY <1>5, <2>5, <2>6
    <2> QED
        BY <2>3, <2>7, <2>8
<1> QED
    BY <1>3, <1>6
LEMMA MaxOfFinite ==
    ASSUME NEW S \in SUBSET Nat, IsFiniteSet(S), S # {}
    PROVE  Max(S) \in S /\ \A y \in S : y <= Max(S)
    BY FiniteIsBounded, MaxOfBounded

-----------------------------------------------------------------------------
(* The registry.                                                             *)

LEMMA CopyFields ==
    ASSUME TypeOK
    PROVE  /\ DOMAIN copies = 1 .. Len(copies) /\ Len(copies) \in Nat
           /\ \A k \in DOMAIN copies :
                 /\ copies[k] \in Copy
                 /\ copies[k].repo \in Repos /\ copies[k].tag \in Nat
                 /\ copies[k].digest \in Digests /\ copies[k].by \in Invocations
<1>1. DOMAIN copies = 1 .. Len(copies) /\ Len(copies) \in Nat
    BY DEF TypeOK
<1>2. \A k \in DOMAIN copies : copies[k] \in Copy
    BY <1>1 DEF TypeOK
<1> QED
    BY <1>1, <1>2 DEF Copy

\* A tag that has copies resolves to the digest of the last of them.
LEMMA ResolvesToLast ==
    ASSUME TypeOK, NEW r, NEW t, CopiesTo(r, t) # {}
    PROVE  LET k == Max(CopiesTo(r, t)) IN
           /\ k \in DOMAIN copies /\ copies[k].repo = r /\ copies[k].tag = t
           /\ Resolve(r, t) = copies[k].digest /\ Resolve(r, t) \in Digests
           /\ \A j \in CopiesTo(r, t) : j <= k
<1>1. copies \in Seq(Copy) /\ DOMAIN copies = 1 .. Len(copies) /\ Len(copies) \in Nat
    BY DEF TypeOK
<1>2. CopiesTo(r, t) \in SUBSET Nat /\ \A k \in CopiesTo(r, t) : k <= Len(copies)
    BY <1>1 DEF CopiesTo
<1>3. /\ Max(CopiesTo(r, t)) \in CopiesTo(r, t)
      /\ \A j \in CopiesTo(r, t) : j <= Max(CopiesTo(r, t))
    BY <1>1, <1>2, MaxOfBounded
<1>4. \A k \in DOMAIN copies : copies[k].digest \in Digests
    BY CopyFields
<1> QED
    BY <1>3, <1>4 DEF CopiesTo, Resolve

\* A repository that has tags has a last one.
LEMMA LastTag ==
    ASSUME TypeOK, NEW r, TagsOf(r) # {}
    PROVE  Max(TagsOf(r)) \in TagsOf(r)
<1> DEFINE K == {k \in DOMAIN copies : copies[k].repo = r}
           T == {copies[k].tag : k \in K}
           f == [k \in K |-> copies[k].tag]
<1>1. DOMAIN copies = 1 .. Len(copies) /\ Len(copies) \in Nat
    BY CopyFields
<1>2. IsFiniteSet(K)
    <2>1. IsFiniteSet(1 .. Len(copies))
        BY <1>1, FS_Interval
    <2>2. K \subseteq 1 .. Len(copies)
        BY <1>1
    <2> QED
        BY <2>1, <2>2, FS_Subset
<1>3. f \in Surjection(K, T)
    BY DEF Surjection
<1>4. IsFiniteSet(T)
    BY <1>2, <1>3, FS_Surjection
<1>5. T \in SUBSET Nat
    BY CopyFields
<1> QED
    BY <1>4, <1>5, MaxOfFinite DEF TagsOf

\* A tag of a repository has copies.
LEMMA TagHasCopies ==
    ASSUME NEW r, NEW t \in TagsOf(r)
    PROVE  CopiesTo(r, t) # {}
    BY DEF TagsOf, CopiesTo

\* The registry after one more copy, or none.
RegistryGrows == UNCHANGED copies \/ \E c \in Copy : copies' = Append(copies, c)

LEMMA Appended ==
    ASSUME TypeOK, NEW c \in Copy, copies' = Append(copies, c)
    PROVE  /\ Len(copies') = Len(copies) + 1 /\ DOMAIN copies' = 1 .. Len(copies) + 1
           /\ \A k \in DOMAIN copies : k \in DOMAIN copies' /\ copies'[k] = copies[k]
           /\ copies'[Len(copies) + 1] = c /\ Len(copies) + 1 \notin DOMAIN copies
           /\ \A k \in DOMAIN copies' : k \in DOMAIN copies \/ copies'[k] = c
           /\ copies' \in Seq(Copy)
<1>1. copies \in Seq(Copy)
    BY DEF TypeOK
<1> QED
    BY <1>1

LEMMA CopiesStay ==
    ASSUME TypeOK, RegistryGrows
    PROVE  \A k \in DOMAIN copies : k \in DOMAIN copies' /\ copies'[k] = copies[k]
    BY Appended DEF RegistryGrows

\* What holds of the registry because a copy is there goes on holding.
LEMMA Monotone ==
    ASSUME TypeOK, RegistryGrows
    PROVE  /\ \A i, r : Foreign(i, r) => Foreign(i, r)'
           /\ \A i, r : \A k \in OwnCopies(i, r) : k \in OwnCopies(i, r)' /\ copies'[k] = copies[k]
           /\ \A i, r, d : NoOlder(i, r, d) => NoOlder(i, r, d)'
           /\ \A r : \A t \in TagsOf(r) : t \in TagsOf(r)'
<1>1. \A k \in DOMAIN copies : k \in DOMAIN copies' /\ copies'[k] = copies[k]
    BY CopiesStay
<1>2. \A i, r : Foreign(i, r) => Foreign(i, r)'
    BY <1>1 DEF Foreign
<1>3. \A i, r : \A k \in OwnCopies(i, r) : k \in OwnCopies(i, r)' /\ copies'[k] = copies[k]
    BY <1>1 DEF OwnCopies
<1>4. ASSUME NEW i, NEW r, NEW d, NoOlder(i, r, d) PROVE NoOlder(i, r, d)'
    <2>1. PICK k \in OwnCopies(i, r), l \in DOMAIN copies :
              /\ l >= k /\ copies[l].repo = copies[k].repo /\ copies[l].tag = copies[k].tag
              /\ copies[l].digest = d
        BY <1>4 DEF NoOlder
    <2>2. k \in DOMAIN copies
        BY DEF OwnCopies
    <2> QED
        BY <1>1, <1>3, <2>1, <2>2 DEF NoOlder
<1>5. \A r : \A t \in TagsOf(r) : t \in TagsOf(r)'
    BY <1>1 DEF TagsOf
<1> QED
    BY <1>2, <1>3, <1>4, <1>5

\* A copy to another tag, or no copy, leaves what a tag says.
LEMMA TagKeeps ==
    ASSUME TypeOK, NEW r, NEW t,
           \/ UNCHANGED copies
           \/ \E c \in Copy : copies' = Append(copies, c) /\ ~(c.repo = r /\ c.tag = t)
    PROVE  Resolve(r, t)' = Resolve(r, t)
<1>1. CASE UNCHANGED copies
    BY <1>1 DEF Resolve, CopiesTo
<1>2. ASSUME NEW c \in Copy, copies' = Append(copies, c), ~(c.repo = r /\ c.tag = t)
      PROVE  Resolve(r, t)' = Resolve(r, t)
    <2>1. CopiesTo(r, t)' = CopiesTo(r, t)
        <3>1. /\ \A k \in DOMAIN copies : k \in DOMAIN copies' /\ copies'[k] = copies[k]
              /\ \A k \in DOMAIN copies' : k \in DOMAIN copies \/ copies'[k] = c
            BY <1>2, Appended
        <3> QED
            BY <1>2, <3>1 DEF CopiesTo
    <2>2. CopiesTo(r, t) # {} => LET k == Max(CopiesTo(r, t)) IN copies'[k] = copies[k]
        BY <1>2, Appended, ResolvesToLast
    <2> QED
        BY <2>1, <2>2 DEF Resolve
<1> QED
    BY <1>1, <1>2

\* A copy is what its tag says from then on.
LEMMA CopyIsLast ==
    ASSUME TypeOK, NEW c \in Copy, copies' = Append(copies, c), TypeOK'
    PROVE  Resolve(c.repo, c.tag)' = c.digest
<1> DEFINE S == CopiesTo(c.repo, c.tag)'
           n == Len(copies) + 1
<1>1. n \in S /\ copies'[n] = c
    BY Appended DEF CopiesTo
<1>2. S \in SUBSET Nat /\ \A k \in S : k <= n
    BY Appended, CopyFields DEF CopiesTo
<1>3. n \in Nat
    BY CopyFields
<1>4. Max(S) \in S /\ \A y \in S : y <= Max(S)
    BY <1>1, <1>2, <1>3, MaxOfBounded
<1>5. Max(S) = n
    BY <1>1, <1>2, <1>3, <1>4
<1> QED
    BY <1>1, <1>5 DEF Resolve, CopiesTo

-----------------------------------------------------------------------------
(* What a step of one invocation leaves of another's invariant: all of it,   *)
(* unless the step changes what the other's tag says.                        *)

Undisturbed(j) ==
    /\ kind'[j] = kind[j] /\ pc'[j] = pc[j] /\ at'[j] = at[j] /\ tag'[j] = tag[j]
    /\ resolved'[j] = resolved[j] /\ pushed'[j] = pushed[j] /\ todo'[j] = todo[j]

Shared ==
    /\ RegistryGrows /\ signed \subseteq signed' /\ lost \subseteq lost'
    /\ \A c \in crs : \E e \in crs' : e.digest = c.digest

\* The tag that j has copied to, and has not captured yet, says what it said.
TagStays(j) ==
    lost' = {} /\ pc[j] \in Copied /\ ~Foreign(j, Repo(j))' =>
        Resolve(Repo(j), tag[j])' = Resolve(Repo(j), tag[j])

\* What was captured stays what it was.
LEMMA CapturedKeeps ==
    ASSUME PushInv, NEW j \in Invocations, pushed'[j] = pushed[j], Shared
    PROVE  NotStale(j)' /\ LockedIn(j)'
<1>a. TypeOK /\ RegistryGrows /\ Inv(j)
    BY DEF PushInv, Shared
<1>1. NotStale(j)'
    <2>1. \A i, r, d : NoOlder(i, r, d) => NoOlder(i, r, d)'
        BY <1>a, Monotone
    <2> QED
        BY <1>a, <2>1 DEF Inv, NotStale
<1>2. LockedIn(j)'
    <2>1. \A i, r : Foreign(i, r) => Foreign(i, r)'
        BY <1>a, Monotone
    <2>2. \A i, r : \A k \in OwnCopies(i, r) : k \in OwnCopies(i, r)' /\ copies'[k] = copies[k]
        BY <1>a, Monotone
    <2> SUFFICES ASSUME lost' = {}, NEW n \in DOMAIN pushed'[j]
                 PROVE  \/ Foreign(j, pushed[j][n].repo)'
                        \/ /\ \E k \in OwnCopies(j, pushed[j][n].repo)' :
                                 copies'[k].digest = pushed'[j][n].digest
                           /\ j \in Cosign => <<pushed'[j][n].repo, pushed'[j][n].digest>> \in signed'
        BY DEF LockedIn
    <2>3. \/ Foreign(j, pushed[j][n].repo)
          \/ /\ \E k \in OwnCopies(j, pushed[j][n].repo) : copies[k].digest = pushed[j][n].digest
             /\ j \in Cosign => <<pushed[j][n].repo, pushed[j][n].digest>> \in signed
        BY <1>a DEF Inv, LockedIn, Shared
    <2> QED
        BY <2>1, <2>2, <2>3 DEF Shared
<1> QED
    BY <1>1, <1>2

LEMMA OthersKeep ==
    ASSUME PushInv, NEW j \in Invocations, Undisturbed(j), Shared, TagStays(j),
           HoldsPort(j)'
    PROVE  Inv(j)'
<1>a. TypeOK /\ RegistryGrows /\ Inv(j)
    BY DEF PushInv, Shared
<1>b. Repo(j)' = Repo(j) /\ Found(j)' = Found(j)
    BY DEF Undisturbed, Repo, Service, Found
<1>c. \A i, r : \A k \in OwnCopies(i, r) : k \in OwnCopies(i, r)' /\ copies'[k] = copies[k]
    BY <1>a, Monotone
<1>1. Progress(j)'
    <2>1. \A n : Submitted(j, n) => Submitted(j, n)'
        BY DEF Submitted, Shared, Undisturbed
    <2> QED
        BY <1>a, <2>1 DEF Inv, Progress, Undisturbed
<1>2. OwnCopy(j)'
    BY <1>a, <1>b, <1>c DEF Inv, OwnCopy, Undisturbed
<1>4. Lists(j)'
    <2>1. \A r : \A t \in TagsOf(r) : t \in TagsOf(r)'
        BY <1>a, Monotone
    <2>2. pc'[j] = "submit" => \E k \in DOMAIN copies' :
              copies'[k].repo = Found(j)' /\ copies'[k].digest = resolved'[j]
        BY <1>a, <1>b, CopiesStay DEF Inv, Lists, Undisturbed
    <2>3. pc'[j] = "head" => tag'[j] \in TagsOf(Found(j))'
        BY <1>a, <1>b, <2>1 DEF Inv, Lists, Undisturbed
    <2>4. ASSUME pc'[j] \in {"list", "head", "submit"}, NEW n \in DOMAIN todo'[j]
          PROVE  TagsOf(<<"akeyless", todo[j][n]>>)' # {}
        <3>1. n \in DOMAIN todo[j] /\ todo'[j] = todo[j] /\ pc'[j] = pc[j]
            BY DEF Undisturbed
        <3>2. TagsOf(<<"akeyless", todo[j][n]>>) # {}
            BY <1>a, <2>4, <3>1 DEF Inv, Lists
        <3>3. PICK t \in TagsOf(<<"akeyless", todo[j][n]>>) : TRUE
            BY <3>2
        <3>4. t \in TagsOf(<<"akeyless", todo[j][n]>>)'
            BY <2>1, <3>1, <3>3
        <3> QED
            BY <3>4
    <2>5. pc'[j] \in {"head", "submit"} => todo'[j] # <<>>
        BY <1>a DEF Inv, Lists, Undisturbed
    <2> QED
        BY <2>2, <2>3, <2>4, <2>5 DEF Lists
<1>6. Locked(j)'
    <2> SUFFICES ASSUME lost' = {}, pc'[j] \in Copied, ~Foreign(j, Repo(j))'
                 PROVE  /\ \E k \in OwnCopies(j, Repo(j))' :
                              copies'[k].digest = Resolve(Repo(j), tag[j])'
                        /\ pc'[j] = "sign" => resolved'[j] = Resolve(Repo(j), tag[j])'
                        /\ pc'[j] = "capture" /\ j \in Cosign =>
                              <<Repo(j)', Resolve(Repo(j), tag[j])'>> \in signed'
        BY DEF Locked
    <2>1. Resolve(Repo(j), tag[j])' = Resolve(Repo(j), tag[j])
        BY DEF TagStays, Undisturbed
    <2>2. lost = {} /\ pc[j] \in Copied /\ ~Foreign(j, Repo(j))
        BY <1>a, <1>b, Monotone DEF Shared, Undisturbed
    <2>3. /\ \E k \in OwnCopies(j, Repo(j)) : copies[k].digest = Resolve(Repo(j), tag[j])
          /\ pc[j] = "sign" => resolved[j] = Resolve(Repo(j), tag[j])
          /\ pc[j] = "capture" /\ j \in Cosign => <<Repo(j), Resolve(Repo(j), tag[j])>> \in signed
        BY <1>a, <2>2 DEF Inv, Locked
    <2> QED
        BY <1>b, <1>c, <2>1, <2>3 DEF Undisturbed, Shared
<1>7. NotStale(j)' /\ LockedIn(j)'
    BY CapturedKeeps DEF Undisturbed
<1> QED
    BY <1>1, <1>2, <1>4, <1>6, <1>7 DEF Inv

\* Nobody but i moves.
Only(i) == \A j \in Invocations \ {i} : Undisturbed(j) /\ forward'[j] = forward[j]

LEMMA OthersHoldPort ==
    ASSUME PushInv, NEW j \in Invocations, Undisturbed(j), forward'[j] = forward[j], Shared
    PROVE  HoldsPort(j)'
    BY DEF PushInv, Inv, HoldsPort, Undisturbed, Shared

\* So a step of i is about i, the tags, and what all share.
LEMMA Preserved ==
    ASSUME PushInv, NEW i \in Invocations, Only(i), Shared, Inv(i)',
           TypeOK', OneForward', NamedByDigest', ValidationsNameImages',
           \A j \in Invocations \ {i} : TagStays(j)
    PROVE  PushInv'
<1>1. ASSUME NEW j \in Invocations, j # i PROVE Inv(j)'
    BY <1>1, OthersKeep, OthersHoldPort DEF Only
<1> QED
    BY <1>1 DEF PushInv

\* Nothing new in the registry: tags say what they said, and validations name images.
LEMMA NoCopy ==
    ASSUME PushInv, UNCHANGED copies, NEW j, Undisturbed(j) PROVE TagStays(j)
<1>1. \A r, t : Resolve(r, t)' = Resolve(r, t)
    BY DEF Resolve, CopiesTo
<1>2. Repo(j)' = Repo(j) /\ tag'[j] = tag[j]
    BY DEF Undisturbed, Repo, Service
<1> QED
    BY <1>1, <1>2 DEF TagStays

\* With the validations alone, what they say stays true.
LEMMA ValidationsKeep ==
    ASSUME PushInv, RegistryGrows, UNCHANGED crs PROVE NamedByDigest' /\ ValidationsNameImages'
<1>1. TypeOK /\ NamedByDigest /\ ValidationsNameImages
    BY DEF PushInv
<1>2. \A k \in DOMAIN copies : k \in DOMAIN copies' /\ copies'[k] = copies[k]
    BY <1>1, CopiesStay
<1> QED
    BY <1>1, <1>2 DEF NamedByDigest, ValidationsNameImages

\* A step of i's own: it may read the registry, and changes nothing that is shared.
LEMMA OwnStep ==
    ASSUME PushInv, NEW i \in Invocations, UNCHANGED <<copies, signed, crs>>, lost \subseteq lost',
           Only(i), TypeOK', OneForward', pushed'[i] = pushed[i],
           Progress(i)', OwnCopy(i)', Lists(i)', HoldsPort(i)', Locked(i)'
    PROVE  PushInv'
<1>1. Shared
    BY DEF Shared, RegistryGrows
<1>2. NotStale(i)' /\ LockedIn(i)'
    BY <1>1, CapturedKeeps
<1>3. \A j \in Invocations \ {i} : TagStays(j)
    BY NoCopy DEF Only
<1>4. NamedByDigest' /\ ValidationsNameImages'
    BY ValidationsKeep DEF RegistryGrows
<1>5. Inv(i)'
    BY <1>2 DEF Inv
<1> QED
    BY <1>1, <1>3, <1>4, <1>5, Preserved

\* One that stays away from what was just copied has less to show.
LEMMA QuietStep ==
    ASSUME PushInv, NEW i \in Invocations, UNCHANGED <<copies, signed, crs>>, lost \subseteq lost',
           Only(i), TypeOK', OneForward', pushed'[i] = pushed[i], pc'[i] \notin Copied,
           Progress(i)', Lists(i)', HoldsPort(i)'
    PROVE  PushInv'
<1>1. OwnCopy(i)' /\ Locked(i)'
    BY DEF OwnCopy, Locked
<1> QED
    BY <1>1, OwnStep

\* The service at hand, of an invocation that has one.
LEMMA AtService ==
    ASSUME PushInv, NEW i \in Invocations, pc[i] \in Pushing
    PROVE  /\ at[i] \in Nat /\ at[i] < Len(Services) /\ at[i] + 1 \in DOMAIN Services
           /\ Service(i) \in Range(Services) /\ Repo(i) \in Repos
           /\ kind[i] # "substrate" => Repo(i) = <<"akeyless", Services[at[i] + 1]>>
<1>1. TypeOK /\ Progress(i)
    BY DEF PushInv, Inv
<1>2. at[i] \in Nat /\ at[i] < Len(Services)
    BY <1>1 DEF TypeOK, Progress
<1>3. DOMAIN Services = 1 .. Len(Services) /\ Len(Services) \in Nat
    BY PushAssumption
<1>4. at[i] + 1 \in DOMAIN Services
    BY <1>2, <1>3
<1>5. Service(i) \in Range(Services)
    BY <1>4 DEF Service, Range
<1> QED
    BY <1>2, <1>4, <1>5 DEF Repo, Repos, Service

-----------------------------------------------------------------------------
(* The forward, and the steps that only move the invocation on.              *)

LEMMA StartKeeps ==
    ASSUME PushInv, NEW i \in Invocations, SpawnForward(i) PROVE PushInv'
<1>1. TypeOK'
    BY DEF PushInv, TypeOK, SpawnForward, Goto, Labels, local, registry
<1>2. OneForward' /\ Only(i)
    BY DEF PushInv, TypeOK, OneForward, Only, Undisturbed, SpawnForward, Goto, local, registry
<1>3. Progress(i)' /\ Lists(i)' /\ HoldsPort(i)' /\ pc'[i] \notin Copied
    BY DEF PushInv, Inv, TypeOK, Progress, Lists, HoldsPort, SpawnForward, Goto, Pushing, Copied,
           local, registry
<1> QED
    BY <1>1, <1>2, <1>3, QuietStep DEF SpawnForward, local, registry

LEMMA AwaitKeeps ==
    ASSUME PushInv, NEW i \in Invocations, AwaitForward(i) PROVE PushInv'
<1>1. TypeOK'
    BY DEF PushInv, TypeOK, AwaitForward, Exit, Goto, Labels, local, registry
<1>2. OneForward' /\ Only(i)
    BY DEF PushInv, TypeOK, OneForward, Only, Undisturbed, AwaitForward, Exit, Goto, local, registry
<1>3. Progress(i)' /\ Lists(i)' /\ HoldsPort(i)' /\ pc'[i] \notin Copied
    <2>1. CASE forward[i] = "refused"
        BY <2>1 DEF PushInv, Inv, TypeOK, Progress, Lists, HoldsPort, AwaitForward, Exit, Pushing,
                    Copied, local, registry
    <2>2. CASE forward[i] \in {"up", "lost"}
        <3>1. pc'[i] = "login" /\ forward'[i] = forward[i]
            BY <2>2 DEF PushInv, TypeOK, AwaitForward, Goto
        <3>2. Progress(i)'
            BY <3>1 DEF PushInv, Inv, Progress, AwaitForward, Pushing, Copied, local
        <3>3. HoldsPort(i)'
            BY <2>2, <3>1 DEF PushInv, Inv, HoldsPort, AwaitForward, registry
        <3> QED
            BY <3>1, <3>2, <3>3 DEF Lists, Copied
    <2> QED
        BY <2>1, <2>2 DEF AwaitForward
<1> QED
    BY <1>1, <1>2, <1>3, QuietStep DEF AwaitForward, local, registry

LEMMA LoginKeeps ==
    ASSUME PushInv, NEW i \in Invocations, Login(i) PROVE PushInv'
<1>1. TypeOK'
    BY DEF PushInv, TypeOK, Login, Goto, Labels, local, registry
<1>2. OneForward' /\ Only(i)
    BY DEF PushInv, TypeOK, OneForward, Only, Undisturbed, Login, Goto, local, registry
<1>3. Len(Services) \in Nat /\ Len(Services) # 0 /\ Len(<<>>) = 0
    BY PushAssumption
<1>4. Progress(i)' /\ Lists(i)' /\ HoldsPort(i)' /\ pc'[i] \notin Copied
    BY <1>3 DEF PushInv, Inv, TypeOK, Progress, Lists, HoldsPort, Login, Goto, Pushing, Copied,
           local, registry
<1> QED
    BY <1>1, <1>2, <1>4, QuietStep DEF Login, local, registry

LEMMA BuildKeeps ==
    ASSUME PushInv, NEW i \in Invocations, NixBuild(i) PROVE PushInv'
<1>1. TypeOK'
    BY DEF PushInv, TypeOK, NixBuild, Goto, Labels, local, registry
<1>2. OneForward' /\ Only(i)
    BY DEF PushInv, TypeOK, OneForward, Only, Undisturbed, NixBuild, Goto, local, registry
<1>3. Progress(i)' /\ Lists(i)' /\ HoldsPort(i)' /\ pc'[i] \notin Copied
    BY DEF PushInv, Inv, TypeOK, Progress, Lists, HoldsPort, NixBuild, Goto, Pushing, Copied,
           local, registry
<1> QED
    BY <1>1, <1>2, <1>3, QuietStep DEF NixBuild, local, registry

LEMMA TagKnown ==
    ASSUME PushInv, NEW i \in Invocations, DiscoverTag(i) PROVE PushInv'
<1>1. TypeOK' /\ tag'[i] \in Nat
    <2>1. Service(i) \in Range(Services)
        BY AtService DEF DiscoverTag, Pushing
    <2>2. tag' \in [Invocations -> Nat \cup {NoTag}] /\ tag'[i] \in Nat
        <3>1. CASE TagArg[i] # NoTag /\ tag' = [tag EXCEPT ![i] = TagArg[i]]
            BY <3>1, PushAssumption DEF PushInv, TypeOK
        <3>2. CASE /\ link[Service(i)] # None
                   /\ tag' = [tag EXCEPT ![i] = Baked[link[Service(i)]]]
            BY <2>1, <3>2, PushAssumption DEF PushInv, TypeOK
        <3> QED
            BY <3>1, <3>2 DEF DiscoverTag
    <2> QED
        BY <2>2 DEF PushInv, TypeOK, DiscoverTag, Goto, Labels, registry
<1>2. OneForward' /\ Only(i)
    BY DEF PushInv, TypeOK, OneForward, Only, Undisturbed, DiscoverTag, Goto, registry
<1>3. Progress(i)' /\ Lists(i)' /\ HoldsPort(i)' /\ pc'[i] \notin Copied
    BY <1>1 DEF PushInv, Inv, TypeOK, Progress, Lists, HoldsPort, DiscoverTag, Goto, Pushing, Copied,
           registry
<1> QED
    BY <1>1, <1>2, <1>3, QuietStep DEF DiscoverTag, registry

-----------------------------------------------------------------------------
(* Copy, sign, capture.                                                      *)

\* The copy takes the tag.  On another port it is Foreign; on i's port it is i's own.
LEMMA CopyKeeps ==
    ASSUME PushInv, NEW i \in Invocations, SkopeoCopy(i) PROVE PushInv'
<1> DEFINE c == [repo |-> Repo(i), tag |-> tag[i], digest |-> link[Service(i)], by |-> i]
<1>a. TypeOK /\ Inv(i) /\ pc[i] = "copy" /\ copies' = Append(copies, c)
    BY DEF PushInv, SkopeoCopy
<1>b. Service(i) \in Range(Services) /\ Repo(i) \in Repos
    BY <1>a, AtService DEF Pushing
<1>c. c \in Copy
    <2>1. link[Service(i)] \in Digests
        BY <1>a, <1>b DEF TypeOK, SkopeoCopy
    <2>2. tag[i] \in Nat
        BY <1>a DEF Inv, Progress
    <2> QED
        BY <1>b, <2>1, <2>2 DEF Copy
<1>d. /\ c.repo = Repo(i) /\ c.tag = tag[i] /\ c.digest = link[Service(i)] /\ c.by = i
      /\ copies'[Len(copies) + 1] = c /\ Len(copies) + 1 \in DOMAIN copies' /\ copies' \in Seq(Copy)
    BY <1>a, <1>c, Appended, CopyFields
<1> HIDE DEF c
<1>1. TypeOK' /\ pc'[i] \in {"inspect", "capture"}
    <2>1. pc' \in [Invocations -> Labels] /\ pc'[i] \in {"inspect", "capture"}
        BY <1>a DEF TypeOK, SkopeoCopy, Goto, Labels
    <2> QED
        BY <1>a, <1>d, <2>1 DEF TypeOK, SkopeoCopy, local
<1>2. OneForward' /\ Only(i) /\ UNCHANGED <<kind, at, tag, pushed, todo, lost, crs, signed, forward>>
    BY DEF PushInv, TypeOK, OneForward, Only, Undisturbed, SkopeoCopy, Goto, local
<1>3. Shared
    BY <1>a, <1>c, <1>2 DEF Shared, RegistryGrows
<1>4. Repo(i)' = Repo(i) /\ tag'[i] = tag[i]
    BY <1>2 DEF Repo, Service
<1>5. Progress(i)' /\ Lists(i)' /\ HoldsPort(i)'
    BY <1>a, <1>1, <1>2 DEF Inv, Progress, Lists, HoldsPort, Pushing, Copied, Submitted
<1>6. Len(copies) + 1 \in OwnCopies(i, Repo(i))'
    BY <1>d, <1>4 DEF OwnCopies
<1>7. OwnCopy(i)'
    BY <1>d, <1>4, <1>6 DEF OwnCopy
<1>8. Locked(i)'
    <2>1. PICK x \in Copy : x = c
        BY <1>c
    <2>2. Resolve(x.repo, x.tag)' = x.digest
        BY <1>a, <1>1, <2>1, CopyIsLast
    <2>3. Resolve(Repo(i), tag[i])' = c.digest
        BY <1>d, <1>4, <2>1, <2>2
    <2>4. pc'[i] # "sign" /\ ~ (pc'[i] = "capture" /\ i \in Cosign)
        BY <1>a, <1>1 DEF SkopeoCopy, Goto, TypeOK
    <2> QED
        BY <1>d, <1>6, <2>4, <2>3 DEF Locked
<1>9. Inv(i)'
    BY <1>2, <1>3, <1>5, <1>7, <1>8, CapturedKeeps DEF Inv
<1>10. ASSUME NEW j \in Invocations \ {i} PROVE TagStays(j)
    <2> SUFFICES ASSUME lost' = {}, pc[j] \in Copied, ~Foreign(j, Repo(j))'
                 PROVE  Resolve(Repo(j), tag[j])' = Resolve(Repo(j), tag[j])
        BY DEF TagStays
    <2>1. EndpointOf[i] # EndpointOf[j]
        <3>1. lost = {} /\ Inv(j) /\ OneForward
            BY <1>3 DEF Shared, PushInv
        <3>2. forward[i] = "up" /\ forward[j] = "up"
            BY <1>a, <3>1 DEF Inv, HoldsPort, Pushing, Copied
        <3> QED
            BY <3>1, <3>2 DEF OneForward
    <2>2. Repo(j)' = Repo(j) /\ tag'[j] = tag[j]
        BY <1>2 DEF Repo, Service
    <2>3. Repo(j) # Repo(i)
        <3>1. \A k \in DOMAIN copies' :
                  ~ (copies'[k].repo = Repo(j)' /\ EndpointOf[copies'[k].by] # EndpointOf[j])
            BY DEF Foreign
        <3>2. copies'[Len(copies) + 1].repo = Repo(i) /\ copies'[Len(copies) + 1].by = i
            BY <1>d
        <3> QED
            BY <1>d, <2>1, <2>2, <3>1, <3>2
    <2>4. ASSUME NEW r, NEW t, r # Repo(i) PROVE Resolve(r, t)' = Resolve(r, t)
        <3>1. c \in Copy /\ copies' = Append(copies, c) /\ ~(c.repo = r /\ c.tag = t)
            BY <1>a, <1>c, <1>d, <2>4
        <3> QED
            BY <1>a, <3>1, TagKeeps
    <2>5. \A r, t : r # Repo(i) => Resolve(r, t)' = Resolve(r, t)
        BY <2>4
    <2> QED
        BY <2>2, <2>3, <2>5
<1> QED
    BY <1>1, <1>2, <1>3, <1>9, <1>10, ValidationsKeep, Preserved DEF Shared

LEMMA InspectKeeps ==
    ASSUME PushInv, NEW i \in Invocations, InspectForSign(i) PROVE PushInv'
<1>a. TypeOK /\ Inv(i) /\ pc[i] = "inspect"
    BY DEF PushInv, InspectForSign
<1>1. Resolve(Repo(i), tag[i]) \in Digests
    <2>1. CopiesTo(Repo(i), tag[i]) # {}
        BY <1>a DEF Inv, OwnCopy, Copied, OwnCopies, CopiesTo
    <2> QED
        BY <1>a, <2>1, ResolvesToLast
<1>2. TypeOK' /\ resolved'[i] = Resolve(Repo(i), tag[i]) /\ pc'[i] = "sign"
    <2>1. resolved' \in [Invocations -> Digests \cup {None}]
        BY <1>1 DEF PushInv, TypeOK, InspectForSign
    <2>2. resolved'[i] = Resolve(Repo(i), tag[i])
        BY <1>1 DEF PushInv, TypeOK, InspectForSign
    <2> QED
        BY <2>1, <2>2 DEF PushInv, TypeOK, InspectForSign, Goto, Labels, registry
<1>3. OneForward' /\ Only(i) /\ UNCHANGED <<kind, at, tag, pushed, todo, forward, copies, lost, crs, signed>>
    BY DEF PushInv, TypeOK, OneForward, Only, Undisturbed, InspectForSign, Goto, registry
<1>4. Progress(i)' /\ Lists(i)' /\ HoldsPort(i)'
    BY <1>a, <1>2, <1>3 DEF Inv, Progress, Lists, HoldsPort, Pushing, Copied
<1>5. /\ Repo(i)' = Repo(i) /\ Resolve(Repo(i), tag[i])' = Resolve(Repo(i), tag[i])
      /\ OwnCopies(i, Repo(i))' = OwnCopies(i, Repo(i)) /\ Foreign(i, Repo(i))' = Foreign(i, Repo(i))
    BY <1>3 DEF Repo, Service, Resolve, CopiesTo, OwnCopies, Foreign
<1>6. OwnCopy(i)' /\ Locked(i)'
    BY <1>a, <1>2, <1>3, <1>5 DEF Inv, OwnCopy, Locked, Copied
<1> QED
    BY <1>2, <1>3, <1>4, <1>6, OwnStep

LEMMA SignKeeps ==
    ASSUME PushInv, NEW i \in Invocations, CosignSign(i) PROVE PushInv'
<1>a. TypeOK /\ Inv(i) /\ pc[i] = "sign" /\ signed' = signed \cup {<<Repo(i), resolved[i]>>}
    BY DEF PushInv, CosignSign
<1>1. TypeOK' /\ pc'[i] = "capture"
    BY DEF PushInv, TypeOK, CosignSign, Goto, Labels, local
<1>2. OneForward' /\ Only(i) /\ UNCHANGED <<kind, at, tag, pushed, todo, forward, copies, lost, crs>>
    BY DEF PushInv, TypeOK, OneForward, Only, Undisturbed, CosignSign, Goto, local
<1>3. Progress(i)' /\ Lists(i)' /\ HoldsPort(i)'
    BY <1>a, <1>1, <1>2 DEF Inv, Progress, Lists, HoldsPort, Pushing, Copied
<1>4. Shared
    BY <1>a, <1>2 DEF Shared, RegistryGrows
<1>5. /\ Repo(i)' = Repo(i) /\ Resolve(Repo(i), tag[i])' = Resolve(Repo(i), tag[i])
      /\ OwnCopies(i, Repo(i))' = OwnCopies(i, Repo(i)) /\ Foreign(i, Repo(i))' = Foreign(i, Repo(i))
    BY <1>2 DEF Repo, Service, Resolve, CopiesTo, OwnCopies, Foreign
<1>6. OwnCopy(i)' /\ Locked(i)'
    BY <1>a, <1>1, <1>2, <1>5 DEF Inv, OwnCopy, Locked, Copied
<1>7. Inv(i)'
    BY <1>2, <1>3, <1>4, <1>6, CapturedKeeps DEF Inv
<1>8. \A j \in Invocations \ {i} : TagStays(j)
    BY <1>2, NoCopy DEF Only
<1> QED
    BY <1>1, <1>2, <1>4, <1>7, <1>8, ValidationsKeep, Preserved DEF Shared

\* What is captured is what the tag says: i's own copy, or one over it.
LEMMA CaptureKeeps ==
    ASSUME PushInv, NEW i \in Invocations, CaptureDigest(i) PROVE PushInv'
<1> DEFINE d   == Resolve(Repo(i), tag[i])
           img == [repo |-> Repo(i), digest |-> d]
           m   == Len(pushed[i]) + 1
<1>a. TypeOK /\ Inv(i) /\ pc[i] = "capture" /\ Len(Services) \in Nat
    BY PushAssumption DEF PushInv, CaptureDigest
<1>b. /\ at[i] \in Nat /\ at[i] < Len(Services) /\ Service(i) \in Range(Services) /\ Repo(i) \in Repos
      /\ kind[i] # "substrate" => Repo(i) = <<"akeyless", Services[at[i] + 1]>>
    BY <1>a, AtService DEF Pushing
<1>c. PICK k \in OwnCopies(i, Repo(i)) : copies[k].tag = tag[i]
    BY <1>a DEF Inv, OwnCopy, Copied
<1>d. d \in Digests /\ NoOlder(i, Repo(i), d)
    <2>1. k \in CopiesTo(Repo(i), tag[i]) /\ copies[k].repo = Repo(i)
        BY <1>c DEF OwnCopies, CopiesTo
    <2> DEFINE l == Max(CopiesTo(Repo(i), tag[i]))
    <2>2. /\ l \in DOMAIN copies /\ copies[l].repo = Repo(i) /\ copies[l].tag = tag[i]
          /\ d = copies[l].digest /\ d \in Digests /\ k <= l
        BY <1>a, <2>1, ResolvesToLast
    <2> HIDE DEF l, d
    <2>3. k \in Nat /\ l \in Nat
        BY <1>a, <1>c, <2>2, CopyFields DEF OwnCopies
    <2> QED
        BY <1>c, <2>1, <2>2, <2>3 DEF NoOlder
<1>e. img \in PushedImage /\ img.repo = Repo(i) /\ img.digest = d
    BY <1>b, <1>d DEF PushedImage
<1> HIDE DEF d, img
<1>f. (at[i] + 1) % Len(Services) = IF at[i] + 1 < Len(Services) THEN at[i] + 1 ELSE 0
    BY <1>a, <1>b
<1>1. UNCHANGED <<kind, tag, resolved, todo, copies, signed, lost, crs>>
    BY DEF CaptureDigest, registry
<1>2. /\ at' = [at EXCEPT ![i] = (at[i] + 1) % Len(Services)]
      /\ link' = [link EXCEPT ![Service(i)] = None]
      /\ pushed' = IF kind[i] = "substrate" THEN pushed ELSE [pushed EXCEPT ![i] = Append(pushed[i], img)]
    BY DEF CaptureDigest, img, d
<1>3. /\ pc' \in [Invocations -> Labels]
      /\ forward' \in [Invocations -> {"none", "starting", "up", "lost", "refused"}]
      /\ IF at[i] + 1 < Len(Services) THEN pc'[i] = "build" /\ forward' = forward
         ELSE /\ pc'[i] = IF kind[i] = "push_and_submit" THEN "apply" ELSE "done"
              /\ forward'[i] = "none"
    BY <1>a DEF TypeOK, CaptureDigest, Exit, Goto, Labels
<1>4. pushed[i] \in Seq(PushedImage) /\ Len(pushed[i]) \in Nat
    BY <1>a DEF TypeOK
<1>5. /\ pushed' \in [Invocations -> Seq(PushedImage)]
      /\ kind[i] = "substrate" => pushed'[i] = pushed[i]
      /\ kind[i] # "substrate" => pushed'[i] = Append(pushed[i], img)
      /\ at' \in [Invocations -> Nat]
      /\ at'[i] = IF at[i] + 1 < Len(Services) THEN at[i] + 1 ELSE 0
    BY <1>a, <1>b, <1>e, <1>f, <1>2, <1>4 DEF TypeOK
<1>6. TypeOK'
    <2>1. link' \in [Range(Services) -> Digests \cup {None}]
        BY <1>a, <1>b, <1>2 DEF TypeOK
    <2> QED
        BY <1>a, <1>1, <1>3, <1>5, <2>1 DEF TypeOK
<1>7. OneForward' /\ Only(i)
    <2>1. \A j \in Invocations \ {i} : /\ pc'[j] = pc[j] /\ forward'[j] = forward[j] /\ at'[j] = at[j]
                                      /\ pushed'[j] = pushed[j]
        BY <1>a, <1>2 DEF TypeOK, CaptureDigest, Exit, Goto
    <2>2. Only(i)
        BY <1>1, <2>1 DEF Only, Undisturbed
    <2>3. OneForward'
        BY <1>3, <2>1 DEF OneForward, PushInv
    <2> QED
        BY <2>2, <2>3
\* Old images are where they were; the new one is the last.
<1>8. \A n \in DOMAIN pushed'[i] :
          \/ n \in DOMAIN pushed[i] /\ pushed'[i][n] = pushed[i][n]
          \/ kind[i] # "substrate" /\ n = m /\ pushed'[i][n] = img
    <2>1. CASE kind[i] = "substrate"
        BY <1>5, <2>1
    <2>2. CASE kind[i] # "substrate"
        <3>1. pushed'[i] = Append(pushed[i], img)
            BY <1>5, <2>2
        <3> QED
            BY <1>4, <1>e, <2>2, <3>1
    <2> QED
        BY <2>1, <2>2
<1> HIDE DEF m
<1>9. kind[i] # "substrate" => m = at[i] + 1 /\ Len(pushed'[i]) = m
    BY <1>4, <1>5, <1>a DEF m, Inv, Progress, Pushing
<1>10. Progress(i)'
    <2>1. \A n \in DOMAIN pushed'[i] : n <= Len(Services)
                                       /\ pushed'[i][n].repo = <<"akeyless", Services[n]>>
        BY <1>a, <1>b, <1>e, <1>8, <1>9 DEF Inv, Progress
    <2>2. CASE at[i] + 1 < Len(Services)
        BY <1>a, <1>b, <1>1, <1>3, <1>5, <1>9, <2>1, <2>2 DEF Inv, Progress, Pushing, Copied
    <2>3. CASE ~(at[i] + 1 < Len(Services))
        <3>1. at[i] + 1 = Len(Services)
            BY <1>a, <1>b, <2>3
        <3>2. CASE kind[i] = "push_and_submit"
            BY <1>1, <1>3, <1>5, <1>9, <1>b, <1>a, <2>1, <2>3, <3>1, <3>2 DEF Progress, Pushing, Copied
        <3>3. CASE kind[i] # "push_and_submit"
            BY <1>1, <1>3, <2>1, <2>3, <3>3 DEF Progress, Pushing, Copied
        <3> QED
            BY <3>2, <3>3
    <2> QED
        BY <2>2, <2>3
<1>11. pc'[i] \notin Copied \cup {"list", "head", "submit"}
    BY <1>3 DEF Copied
<1>12. Lists(i)' /\ OwnCopy(i)' /\ Locked(i)'
    BY <1>11 DEF Lists, OwnCopy, Locked
<1>13. HoldsPort(i)'
    BY <1>a, <1>1, <1>3 DEF Inv, HoldsPort, Pushing, Copied
<1>14. NotStale(i)'
    <2>1. \A r, e : NoOlder(i, r, e)' = NoOlder(i, r, e)
        BY <1>1 DEF NoOlder, OwnCopies
    <2> QED
        BY <1>a, <1>d, <1>e, <1>8, <2>1 DEF Inv, NotStale
<1>15. LockedIn(i)'
    <2>1. \A r : Foreign(i, r)' = Foreign(i, r) /\ OwnCopies(i, r)' = OwnCopies(i, r)
        BY <1>1 DEF Foreign, OwnCopies
    <2> SUFFICES ASSUME lost = {}, NEW n \in DOMAIN pushed'[i]
                 PROVE  \/ Foreign(i, pushed'[i][n].repo)
                        \/ /\ \E x \in OwnCopies(i, pushed'[i][n].repo) :
                                 copies[x].digest = pushed'[i][n].digest
                           /\ i \in Cosign => <<pushed'[i][n].repo, pushed'[i][n].digest>> \in signed
        BY <1>1, <2>1 DEF LockedIn
    <2>2. CASE n \in DOMAIN pushed[i] /\ pushed'[i][n] = pushed[i][n]
        BY <1>a, <2>2 DEF Inv, LockedIn
    <2>3. CASE pushed'[i][n] = img
        BY <1>a, <1>e, <2>3 DEF Inv, Locked, Copied, d
    <2> QED
        BY <1>8, <2>2, <2>3
<1>16. Inv(i)'
    BY <1>10, <1>12, <1>13, <1>14, <1>15 DEF Inv
<1>17. Shared /\ NamedByDigest' /\ ValidationsNameImages'
    BY <1>1, ValidationsKeep DEF Shared, RegistryGrows
<1>18. \A j \in Invocations \ {i} : TagStays(j)
    BY <1>1, <1>7, NoCopy DEF Only
<1> QED
    BY <1>6, <1>7, <1>16, <1>17, <1>18, Preserved

-----------------------------------------------------------------------------
(* What is applied: a validation takes the place of its namesakes, which are *)
(* of the same digest, since twelve characters tell digests apart.           *)

LEMMA AppliedValidation ==
    ASSUME PushInv, UNCHANGED copies, NEW r \in Repos, NEW d \in Digests,
           NEW mode \in {"annotated", "plain"}, crs' = Applied(BuildCR(r, d, mode)),
           \E k \in DOMAIN copies : copies[k].repo = r /\ copies[k].digest = d
    PROVE  /\ crs' \subseteq CR /\ NamedByDigest' /\ ValidationsNameImages'
           /\ \E c \in crs' : c.digest = d
           /\ \A c \in crs : \E e \in crs' : e.digest = c.digest
<1> DEFINE cr == BuildCR(r, d, mode)
<1>a. TypeOK /\ NamedByDigest /\ ValidationsNameImages
    BY DEF PushInv
<1>1. cr.name = <<r, Suffix[d]>> /\ cr.digest = d /\ cr \in CR
    BY PushAssumption DEF BuildCR, CR, Range
<1> HIDE DEF cr
<1>2. crs' = {c \in crs : c.name # cr.name} \cup {cr}
    BY DEF Applied, cr
<1>3. crs' \subseteq CR
    BY <1>a, <1>1, <1>2 DEF TypeOK
<1>4. NamedByDigest'
    BY <1>a, <1>1, <1>2 DEF NamedByDigest
<1>5. ValidationsNameImages'
    BY <1>a, <1>1, <1>2 DEF ValidationsNameImages
<1>6. \E c \in crs' : c.digest = d
    BY <1>1, <1>2
<1>7. ASSUME NEW c \in crs PROVE \E e \in crs' : e.digest = c.digest
    <2>1. CASE c.name # cr.name
        BY <1>2, <2>1
    <2>2. CASE c.name = cr.name
        <3>1. Suffix[c.digest] = Suffix[d]
            BY <1>a, <1>1, <2>2 DEF NamedByDigest
        <3>2. c.digest \in Digests
            BY <1>a DEF TypeOK, CR
        <3>3. c.digest = d
            BY <3>1, <3>2, PushAssumption DEF IsInjective
        <3> QED
            BY <1>6, <3>3
    <2> QED
        BY <2>1, <2>2
<1> QED
    BY <1>3, <1>4, <1>5, <1>6, <1>7

LEMMA ApplyKeeps ==
    ASSUME PushInv, NEW i \in Invocations, ApplyPushed(i) PROVE PushInv'
<1>a. TypeOK /\ Inv(i) /\ pc[i] = "apply" /\ Len(Services) \in Nat
    BY PushAssumption DEF PushInv, ApplyPushed
<1>n. PICK n : n = at[i] + 1
    OBVIOUS
<1>b. /\ at[i] \in Nat /\ n \in Nat /\ n <= Len(Services) /\ Len(pushed[i]) = Len(Services)
      /\ n \in DOMAIN pushed[i] /\ pushed[i][n] \in PushedImage /\ kind[i] = "push_and_submit"
      /\ i \notin DryRun => \A x \in 1 .. at[i] : Submitted(i, x)
    BY <1>a, <1>n DEF TypeOK, Inv, Progress
<1>c. pushed[i][n].repo \in Repos /\ pushed[i][n].digest \in Digests
    BY <1>b DEF PushedImage
<1>1. UNCHANGED <<kind, forward, link, tag, resolved, pushed, todo, copies, signed, lost>>
    BY DEF ApplyPushed, registry
<1>2. /\ at' \in [Invocations -> Nat] /\ at'[i] = n
      /\ pc' \in [Invocations -> Labels]
      /\ pc'[i] = IF n < Len(Services) THEN "apply" ELSE "done"
      /\ \A j \in Invocations \ {i} : at'[j] = at[j] /\ pc'[j] = pc[j]
    BY <1>a, <1>b, <1>n DEF TypeOK, ApplyPushed, Goto, Labels
<1>3. /\ crs' \subseteq CR /\ NamedByDigest' /\ ValidationsNameImages'
      /\ i \notin DryRun => Submitted(i, n)'
      /\ \A c \in crs : \E e \in crs' : e.digest = c.digest
    <2>1. CASE i \in DryRun
        <3>1. UNCHANGED crs
            BY <2>1 DEF ApplyPushed
        <3> QED
            BY <1>1, <2>1, <3>1, ValidationsKeep DEF PushInv, TypeOK, RegistryGrows
    <2>2. CASE i \notin DryRun
        <3>1. crs' = Applied(BuildCR(pushed[i][n].repo, pushed[i][n].digest, "annotated"))
            BY <1>n, <2>2 DEF ApplyPushed
        <3>2. \E k \in DOMAIN copies : /\ copies[k].repo = pushed[i][n].repo
                                       /\ copies[k].digest = pushed[i][n].digest
            BY <1>a, <1>b DEF Inv, NotStale, NoOlder, OwnCopies
        <3>3. PICK r \in Repos, d \in Digests : r = pushed[i][n].repo /\ d = pushed[i][n].digest
            BY <1>c
        <3>4. /\ crs' \subseteq CR /\ NamedByDigest' /\ ValidationsNameImages'
              /\ \E c \in crs' : c.digest = d
              /\ \A c \in crs : \E e \in crs' : e.digest = c.digest
            BY <1>1, <3>1, <3>2, <3>3, AppliedValidation
        <3>5. Submitted(i, n)'
            BY <1>1, <1>2, <3>3, <3>4 DEF Submitted
        <3> QED
            BY <3>4, <3>5
    <2> QED
        BY <2>1, <2>2
<1>4. Shared /\ TypeOK'
    BY <1>a, <1>1, <1>2, <1>3 DEF TypeOK, Shared, RegistryGrows
<1>5. OneForward' /\ Only(i)
    BY <1>1, <1>2 DEF PushInv, OneForward, Only, Undisturbed
<1>6. Progress(i)'
    <2>1. i \notin DryRun => \A x \in 1 .. n : Submitted(i, x)'
        <3>1. \A x : Submitted(i, x) => Submitted(i, x)'
            BY <1>1, <1>3 DEF Submitted
        <3>2. \A x \in 1 .. n : x \in 1 .. at[i] \/ x = n
            BY <1>b, <1>n
        <3> QED
            BY <1>b, <1>3, <3>1, <3>2
    <2>2. \A x \in DOMAIN pushed'[i] : x <= Len(Services)
                                       /\ pushed'[i][x].repo = <<"akeyless", Services[x]>>
        BY <1>a, <1>1 DEF Inv, Progress
    <2>3. n < Len(Services) \/ n = Len(Services)
        BY <1>a, <1>b
    <2> QED
        BY <1>a, <1>b, <1>1, <1>2, <2>1, <2>2, <2>3 DEF Progress, Pushing, Copied
<1>7. pc'[i] \in {"apply", "done"}
    BY <1>2
<1>8. Lists(i)' /\ OwnCopy(i)' /\ Locked(i)' /\ HoldsPort(i)'
    BY <1>a, <1>1, <1>7 DEF Lists, OwnCopy, Locked, Copied, Pushing, Inv, HoldsPort
<1>9. Inv(i)'
    BY <1>1, <1>4, <1>6, <1>8, CapturedKeeps DEF Inv
<1>10. \A j \in Invocations \ {i} : TagStays(j)
    BY <1>1, <1>5, NoCopy DEF Only
<1> QED
    BY <1>3, <1>4, <1>5, <1>9, <1>10, Preserved

-----------------------------------------------------------------------------
(* submit-validations: what it lists has tags, what it heads has an image.   *)

LEMMA FetchKeeps ==
    ASSUME PushInv, NEW i \in Invocations, FetchCatalog(i) PROVE PushInv'
<1> DEFINE S == {s \in Range(Services) : TagsOf(<<"akeyless", s>>) # {}}
<1>a. TypeOK /\ Inv(i) /\ pc[i] = "start" /\ kind[i] = "submit_validations"
    BY DEF PushInv, FetchCatalog
<1>b. PICK found \in SetToSeqs(S) :
          /\ todo' = [todo EXCEPT ![i] = found]
          /\ Goto(i, IF found = <<>> THEN "failed" ELSE "list")
    BY DEF FetchCatalog
<1>c. Cardinality(S) \in Nat
    <2>1. DOMAIN Services = 1 .. Len(Services) /\ Len(Services) \in Nat
        BY PushAssumption
    <2>2. IsFiniteSet(1 .. Len(Services))
        BY <2>1, FS_Interval
    <2>3. Services \in Surjection(1 .. Len(Services), Range(Services))
        BY <2>1, PushAssumption DEF Surjection, Range
    <2>4. IsFiniteSet(Range(Services))
        BY <2>2, <2>3, FS_Surjection
    <2>5. IsFiniteSet(S)
        BY <2>4, FS_Subset
    <2> QED
        BY <2>5, FS_CardinalityType
<1>d. PICK k \in Nat : found \in [1 .. k -> S]
    BY <1>b, <1>c DEF SetToSeqs
<1>e. \A m \in DOMAIN found : found[m] \in S
    BY <1>d
<1>f. found \in Seq(Range(Services))
    <2>1. found \in [1 .. k -> Range(Services)]
        BY <1>d
    <2> QED
        BY <2>1
<1> HIDE DEF S
<1>1. UNCHANGED <<kind, at, forward, link, tag, resolved, pushed, copies, signed, lost, crs>>
    BY DEF FetchCatalog, registry
<1>2. TypeOK' /\ todo'[i] = found /\ pc'[i] \in {"failed", "list"}
    BY <1>a, <1>b, <1>f, <1>1 DEF TypeOK, Goto, Labels
<1>3. OneForward' /\ Only(i)
    BY <1>a, <1>b, <1>1 DEF PushInv, TypeOK, OneForward, Only, Undisturbed, Goto
<1>4. Progress(i)' /\ HoldsPort(i)' /\ pc'[i] \notin Copied
    BY <1>a, <1>1, <1>2 DEF Inv, Progress, HoldsPort, Pushing, Copied
<1>5. Lists(i)'
    <2>1. \A r : TagsOf(r)' = TagsOf(r)
        BY <1>1 DEF TagsOf
    <2>2. \A n \in DOMAIN todo'[i] : TagsOf(<<"akeyless", todo'[i][n]>>) # {}
        BY <1>e, <1>2 DEF S
    <2> QED
        BY <1>2, <2>1, <2>2 DEF Lists
<1> QED
    BY <1>1, <1>2, <1>3, <1>4, <1>5, QuietStep

\* The repository at hand, when there is one.
LEMMA AtRepository ==
    ASSUME PushInv, NEW i \in Invocations, todo[i] # <<>>
    PROVE  /\ 1 \in DOMAIN todo[i] /\ Head(todo[i]) = todo[i][1] /\ Found(i) \in Repos
           /\ Tail(todo[i]) \in Seq(Range(Services))
           /\ \A n \in DOMAIN Tail(todo[i]) : n + 1 \in DOMAIN todo[i] /\ Tail(todo[i])[n] = todo[i][n + 1]
<1>1. todo[i] \in Seq(Range(Services))
    BY DEF PushInv, TypeOK
<1>2. /\ 1 \in DOMAIN todo[i] /\ Head(todo[i]) = todo[i][1] /\ Head(todo[i]) \in Range(Services)
      /\ Tail(todo[i]) \in Seq(Range(Services))
      /\ \A n \in DOMAIN Tail(todo[i]) : n + 1 \in DOMAIN todo[i] /\ Tail(todo[i])[n] = todo[i][n + 1]
    BY <1>1
<1> QED
    BY <1>2 DEF Found, Repos

LEMMA ListKeeps ==
    ASSUME PushInv, NEW i \in Invocations, ListTags(i) PROVE PushInv'
<1>a. TypeOK /\ Inv(i) /\ pc[i] = "list" /\ todo[i] # <<>>
    BY DEF PushInv, ListTags
<1>b. TagsOf(Found(i)) # {}
    BY <1>a, AtRepository DEF Inv, Lists, Found
<1>c. Max(TagsOf(Found(i))) \in TagsOf(Found(i))
    BY <1>a, <1>b, LastTag
<1>d. Max(TagsOf(Found(i))) \in Nat
    BY <1>a, <1>c, CopyFields DEF TagsOf
<1>1. UNCHANGED <<kind, at, forward, link, resolved, pushed, todo, copies, signed, lost, crs>>
    BY DEF ListTags, registry
<1>2. TypeOK' /\ tag'[i] = Max(TagsOf(Found(i))) /\ pc'[i] = "head"
    BY <1>a, <1>d, <1>1 DEF TypeOK, ListTags, Goto, Labels
<1>3. OneForward' /\ Only(i)
    BY <1>a, <1>1 DEF PushInv, TypeOK, OneForward, Only, Undisturbed, ListTags, Goto
<1>4. Progress(i)' /\ HoldsPort(i)' /\ pc'[i] \notin Copied
    BY <1>a, <1>1, <1>2 DEF Inv, Progress, HoldsPort, Pushing, Copied
<1>5. Lists(i)'
    <2>1. (\A r : TagsOf(r)' = TagsOf(r)) /\ Found(i)' = Found(i)
        BY <1>1 DEF TagsOf, Found
    <2> QED
        BY <1>a, <1>1, <1>2, <1>c, <2>1 DEF Inv, Lists
<1> QED
    BY <1>1, <1>2, <1>3, <1>4, <1>5, QuietStep

LEMMA HeadKeeps ==
    ASSUME PushInv, NEW i \in Invocations, HeadManifest(i) PROVE PushInv'
<1>a. TypeOK /\ Inv(i) /\ pc[i] = "head" /\ todo[i] # <<>>
    BY DEF PushInv, HeadManifest, Inv, Lists
<1>b. /\ Resolve(Found(i), tag[i]) \in Digests
      /\ \E k \in DOMAIN copies : /\ copies[k].repo = Found(i)
                                  /\ copies[k].digest = Resolve(Found(i), tag[i])
    <2>1. CopiesTo(Found(i), tag[i]) # {}
        BY <1>a, TagHasCopies DEF Inv, Lists
    <2> QED
        BY <1>a, <2>1, ResolvesToLast
<1>1. UNCHANGED <<kind, at, forward, link, tag, pushed, todo, copies, signed, lost, crs>>
    BY DEF HeadManifest, registry
<1>2. TypeOK' /\ resolved'[i] = Resolve(Found(i), tag[i]) /\ pc'[i] = "submit"
    BY <1>a, <1>b, <1>1 DEF TypeOK, HeadManifest, Goto, Labels
<1>3. OneForward' /\ Only(i)
    BY <1>a, <1>1 DEF PushInv, TypeOK, OneForward, Only, Undisturbed, HeadManifest, Goto
<1>4. Progress(i)' /\ HoldsPort(i)' /\ pc'[i] \notin Copied
    BY <1>a, <1>1, <1>2 DEF Inv, Progress, HoldsPort, Pushing, Copied
<1>5. Lists(i)'
    <2>1. (\A r : TagsOf(r)' = TagsOf(r)) /\ Found(i)' = Found(i)
        BY <1>1 DEF TagsOf, Found
    <2> QED
        BY <1>a, <1>b, <1>1, <1>2, <2>1 DEF Inv, Lists
<1> QED
    BY <1>1, <1>2, <1>3, <1>4, <1>5, QuietStep

\* On to the repositories that are left.
LEMMA RestIsListed ==
    ASSUME PushInv, NEW i \in Invocations, pc[i] \in {"list", "head", "submit"}, todo[i] # <<>>,
           todo'[i] = Tail(todo[i]), pc'[i] = "list", UNCHANGED copies
    PROVE  Lists(i)'
<1>1. \A n \in DOMAIN todo[i] : TagsOf(<<"akeyless", todo[i][n]>>) # {}
    BY DEF PushInv, Inv, Lists
<1>2. \A r : TagsOf(r)' = TagsOf(r)
    BY DEF TagsOf
<1>3. ASSUME NEW n \in DOMAIN todo'[i] PROVE TagsOf(<<"akeyless", todo'[i][n]>>) # {}
    <2>1. n \in DOMAIN Tail(todo[i]) /\ todo'[i][n] = Tail(todo[i])[n]
        OBVIOUS
    <2>2. n + 1 \in DOMAIN todo[i] /\ todo'[i][n] = todo[i][n + 1]
        BY <2>1, AtRepository
    <2> QED
        BY <1>1, <2>2
<1> QED
    BY <1>2, <1>3 DEF Lists

LEMMA SkipKeeps ==
    ASSUME PushInv, NEW i \in Invocations, Skip(i) PROVE PushInv'
<1>a. TypeOK /\ Inv(i) /\ pc[i] \in {"list", "head"} /\ todo[i] # <<>>
    BY DEF PushInv, Skip
<1>1. UNCHANGED <<kind, at, forward, link, tag, resolved, pushed, copies, signed, lost, crs>>
    BY DEF Skip, registry
<1>2. TypeOK' /\ todo'[i] = Tail(todo[i]) /\ pc'[i] = "list"
    BY <1>a, <1>1, AtRepository DEF TypeOK, Skip, Goto, Labels
<1>3. OneForward' /\ Only(i)
    BY <1>a, <1>1 DEF PushInv, TypeOK, OneForward, Only, Undisturbed, Skip, Goto
<1>4. Progress(i)' /\ HoldsPort(i)' /\ pc'[i] \notin Copied
    BY <1>a, <1>1, <1>2 DEF Inv, Progress, HoldsPort, Pushing, Copied
<1>5. Lists(i)'
    BY <1>a, <1>1, <1>2, RestIsListed
<1> QED
    BY <1>1, <1>2, <1>3, <1>4, <1>5, QuietStep

LEMMA SubmitKeeps ==
    ASSUME PushInv, NEW i \in Invocations, SubmitFound(i) PROVE PushInv'
<1>a. TypeOK /\ Inv(i) /\ pc[i] = "submit" /\ todo[i] # <<>>
    BY DEF PushInv, SubmitFound, Inv, Lists
<1>b. PICK k \in DOMAIN copies : copies[k].repo = Found(i) /\ copies[k].digest = resolved[i]
    BY <1>a DEF Inv, Lists
<1>c. resolved[i] \in Digests /\ Found(i) \in Repos
    BY <1>a, <1>b, CopyFields
<1>1. UNCHANGED <<kind, at, forward, link, tag, resolved, pushed, copies, signed, lost>>
    BY DEF SubmitFound, registry
<1>2. /\ crs' \subseteq CR /\ NamedByDigest' /\ ValidationsNameImages'
      /\ \A c \in crs : \E e \in crs' : e.digest = c.digest
    <2>1. CASE i \in DryRun
        <3>1. UNCHANGED crs
            BY <2>1 DEF SubmitFound
        <3> QED
            BY <1>1, <3>1, ValidationsKeep DEF PushInv, TypeOK, RegistryGrows
    <2>2. CASE i \notin DryRun
        <3>1. crs' = Applied(BuildCR(Found(i), resolved[i], "plain"))
            BY <2>2 DEF SubmitFound
        <3> QED
            BY <1>1, <1>b, <1>c, <3>1, AppliedValidation
    <2> QED
        BY <2>1, <2>2
<1>3. TypeOK' /\ todo'[i] = Tail(todo[i]) /\ pc'[i] = "list"
    BY <1>a, <1>1, <1>2, AtRepository DEF TypeOK, SubmitFound, Goto, Labels
<1>4. OneForward' /\ Only(i)
    BY <1>a, <1>1 DEF PushInv, TypeOK, OneForward, Only, Undisturbed, SubmitFound, Goto
<1>5. Progress(i)' /\ HoldsPort(i)' /\ OwnCopy(i)' /\ Locked(i)'
    BY <1>a, <1>1, <1>3 DEF Inv, Progress, HoldsPort, Pushing, Copied, OwnCopy, Locked
<1>6. Lists(i)'
    BY <1>a, <1>1, <1>3, RestIsListed
<1>7. Shared
    BY <1>1, <1>2 DEF Shared, RegistryGrows
<1>8. Inv(i)'
    BY <1>1, <1>5, <1>6, <1>7, CapturedKeeps DEF Inv
<1>9. \A j \in Invocations \ {i} : TagStays(j)
    BY <1>1, <1>4, NoCopy DEF Only
<1> QED
    BY <1>2, <1>3, <1>4, <1>7, <1>8, <1>9, Preserved

LEMMA SubmitDoneKeeps ==
    ASSUME PushInv, NEW i \in Invocations, SubmitDone(i) PROVE PushInv'
<1>1. TypeOK'
    BY DEF PushInv, TypeOK, SubmitDone, Goto, Labels, local, registry
<1>2. OneForward' /\ Only(i)
    BY DEF PushInv, TypeOK, OneForward, Only, Undisturbed, SubmitDone, Goto, local, registry
<1>3. Progress(i)' /\ Lists(i)' /\ HoldsPort(i)' /\ pc'[i] \notin Copied
    BY DEF PushInv, Inv, TypeOK, Progress, Lists, HoldsPort, SubmitDone, Goto, Pushing, Copied,
           local, registry
<1> QED
    BY <1>1, <1>2, <1>3, QuietStep DEF SubmitDone, local, registry

-----------------------------------------------------------------------------
(* Failures, and kubectl.                                                    *)

LEMMA FailKeeps ==
    ASSUME PushInv, NEW i \in Invocations, Fail(i) PROVE PushInv'
<1>1. TypeOK'
    BY DEF PushInv, TypeOK, Fail, Exit, Labels, local, registry
<1>2. OneForward' /\ Only(i)
    BY DEF PushInv, TypeOK, OneForward, Only, Undisturbed, Fail, Exit, local, registry
<1>3. Progress(i)' /\ Lists(i)' /\ HoldsPort(i)' /\ pc'[i] \notin Copied
    BY DEF PushInv, Inv, TypeOK, Progress, Lists, HoldsPort, Fail, Exit, Pushing, Copied,
           local, registry
<1> QED
    BY <1>1, <1>2, <1>3, QuietStep DEF Fail, local, registry

\* kubectl binds, or dies: nothing but the forward of its invocation is disturbed.
LEMMA KubectlKeeps ==
    ASSUME PushInv, NEW i \in Invocations, ForwardSettles(i) \/ ForwardDies(i) PROVE PushInv'
<1>1. /\ UNCHANGED <<kind, pc, link, at, tag, resolved, pushed, todo, copies, signed, crs>>
      /\ lost \subseteq lost'
    BY DEF ForwardSettles, ForwardDies, local, registry
<1>2. TypeOK'
    BY <1>1 DEF PushInv, TypeOK, ForwardSettles, ForwardDies
<1>3. OneForward'
    <2>1. CASE ForwardSettles(i)
        BY <2>1 DEF PushInv, TypeOK, OneForward, ForwardSettles, Reachable
    <2>2. CASE ForwardDies(i)
        BY <2>2 DEF PushInv, TypeOK, OneForward, ForwardDies
    <2> QED
        BY <2>1, <2>2
<1>4. ASSUME NEW j \in Invocations PROVE HoldsPort(j)'
    <2>1. CASE ForwardSettles(i)
        BY <2>1 DEF PushInv, TypeOK, Inv, HoldsPort, ForwardSettles, registry
    <2>2. CASE ForwardDies(i)
        BY <2>2 DEF PushInv, TypeOK, Inv, HoldsPort, ForwardDies
    <2> QED
        BY <2>1, <2>2
<1>5. Shared /\ NamedByDigest' /\ ValidationsNameImages'
    BY <1>1, ValidationsKeep DEF Shared, RegistryGrows
<1>6. ASSUME NEW j \in Invocations PROVE Inv(j)'
    <2>1. Undisturbed(j)
        BY <1>1 DEF Undisturbed
    <2> QED
        BY <1>1, <1>4, <1>5, <2>1, NoCopy, OthersKeep
<1> QED
    BY <1>2, <1>3, <1>5, <1>6 DEF PushInv

-----------------------------------------------------------------------------
(* The theorems.                                                             *)

LEMMA InitPush == Init => PushInv
<1> SUFFICES ASSUME Init PROVE PushInv
    OBVIOUS
<1>1. TypeOK
    <2>1. kind \in [Invocations -> PushKinds \cup {"submit_validations"}]
        BY PushAssumption DEF Init
    <2>2. pushed \in [Invocations -> Seq(PushedImage)] /\ todo \in [Invocations -> Seq(Range(Services))]
          /\ copies \in Seq(Copy)
        BY DEF Init
    <2> QED
        BY <2>1, <2>2 DEF Init, TypeOK, Labels
<1>2. NamedByDigest /\ OneForward /\ ValidationsNameImages
    BY DEF Init, NamedByDigest, OneForward, ValidationsNameImages
<1>3. ASSUME NEW i \in Invocations PROVE Inv(i)
    <2>1. pc[i] = "start" /\ at[i] = 0 /\ pushed[i] = <<>> /\ forward[i] = "none"
        BY DEF Init
    <2>2. DOMAIN pushed[i] = {}
        BY <2>1
    <2>3. Progress(i) /\ OwnCopy(i) /\ Lists(i) /\ HoldsPort(i) /\ Locked(i)
        BY <2>1, <2>2 DEF Progress, OwnCopy, Lists, HoldsPort, Locked, Pushing, Copied
    <2>4. NotStale(i) /\ LockedIn(i)
        BY <2>2 DEF NotStale, LockedIn
    <2> QED
        BY <2>3, <2>4 DEF Inv
<1> QED
    BY <1>1, <1>2, <1>3 DEF PushInv

LEMMA PushStep == PushInv /\ [Next]_vars => PushInv'
<1> SUFFICES ASSUME PushInv, [Next]_vars PROVE PushInv'
    OBVIOUS
<1>1. ASSUME NEW i \in Invocations, Step(i) PROVE PushInv'
    BY <1>1, StartKeeps, AwaitKeeps, LoginKeeps, BuildKeeps, TagKnown, CopyKeeps, InspectKeeps,
       SignKeeps, CaptureKeeps, ApplyKeeps, FetchKeeps, ListKeeps, HeadKeeps, SubmitKeeps,
       SubmitDoneKeeps DEF Step
<1>2. CASE Next
    BY <1>1, <1>2, FailKeeps, SkipKeeps, KubectlKeeps DEF Next
<1>3. CASE UNCHANGED vars
    <2>1. /\ UNCHANGED <<kind, pc, at, forward, tag, resolved, pushed, todo, copies, signed, lost, crs>>
          /\ UNCHANGED link
        BY <1>3 DEF vars
    <2>2. TypeOK' /\ OneForward'
        BY <2>1 DEF PushInv, TypeOK, OneForward
    <2>3. Shared /\ NamedByDigest' /\ ValidationsNameImages'
        BY <2>1, ValidationsKeep DEF Shared, RegistryGrows
    <2>4. ASSUME NEW j \in Invocations PROVE Inv(j)'
        <3>1. Undisturbed(j) /\ forward'[j] = forward[j]
            BY <2>1 DEF Undisturbed
        <3> QED
            BY <2>1, <2>3, <3>1, OthersHoldPort, NoCopy, OthersKeep
    <2> QED
        BY <2>2, <2>3, <2>4 DEF PushInv
<1> QED
    BY <1>2, <1>3

\* Whatever invocations share and whenever they fail, the invariant holds: how far each is, what
\* it copied and captured, what it lists, and which forward it holds.
THEOREM PushInvariance == Spec => []PushInv
<1> QED
    BY InitPush, PushStep, PTL DEF Spec

\* resolve_pushed_digest after skopeo_copy: no captured digest is older than what the invocation
\* itself pushed, with shared ports, tags and checkouts, and forwards that die.
THEOREM CapturesAreNotStale == Spec => []CaptureIsNotStale
<1>1. PushInv => CaptureIsNotStale
    BY DEF PushInv, Inv, NotStale, NoOlder, CaptureIsNotStale
<1> QED
    BY <1>1, PushInvariance, PTL

\* push-and-submit exits 0 only after capturing every service, in order, and applying a
\* validation of each: no later invocation takes one away.
THEOREM PushesAreSubmitted == Spec => []DoneMeansSubmitted
<1>1. PushInv => DoneMeansSubmitted
    <2> SUFFICES ASSUME PushInv, NEW i \in Invocations \ DryRun,
                        pc[i] = "done", kind[i] = "push_and_submit"
                 PROVE  /\ [n \in DOMAIN pushed[i] |-> pushed[i][n].repo[2]] = Services
                        /\ \A n \in DOMAIN pushed[i] : \E c \in crs : c.digest = pushed[i][n].digest
        BY DEF DoneMeansSubmitted
    <2>1. pushed[i] \in Seq(PushedImage) /\ Services \in Seq(Range(Services)) /\ Progress(i)
        BY PushAssumption DEF PushInv, TypeOK, Inv
    <2>2. DOMAIN pushed[i] = 1 .. Len(Services) /\ DOMAIN Services = 1 .. Len(Services)
        BY <2>1 DEF Progress
    <2>3. \A n \in DOMAIN pushed[i] : pushed[i][n].repo[2] = Services[n]
        BY <2>1 DEF Progress
    <2>4. [n \in DOMAIN pushed[i] |-> pushed[i][n].repo[2]] = [n \in DOMAIN Services |-> Services[n]]
        BY <2>2, <2>3
    <2>5. [n \in DOMAIN Services |-> Services[n]] = Services
        BY <2>1
    <2>6. \A n \in DOMAIN pushed[i] : \E c \in crs : c.digest = pushed[i][n].digest
        BY <2>1, <2>2 DEF Progress, Submitted
    <2> QED
        BY <2>4, <2>5, <2>6
<1> QED
    BY <1>1, PushInvariance, PTL

\* Invocations that share a port cannot interleave their pushes while no forward dies: the port
\* is the only lock they have, and it is one.
THEOREM PortLocks == Spec => []PortIsALock
<1>1. PushInv => PortIsALock
    BY DEF PushInv, Inv, LockedIn, PortIsALock
<1> QED
    BY <1>1, PushInvariance, PTL

\* Every validation applied, by either flavour, is of an image the registry has.
THEOREM ValidationsAreOfImages == Spec => []ValidationsNameImages
<1>1. PushInv => ValidationsNameImages
    BY DEF PushInv
<1> QED
    BY <1>1, PushInvariance, PTL

===============================================================================
