---------------------------- MODULE UnificationProofs ---------------------------
(***************************************************************************)
(* Theorems about the type analysis' unification, for every sequence of    *)
(* systems of constraints between any types.                               *)
(*                                                                         *)
(* The union-find structure is described by Grounded: from every type, the *)
(* parents lead to a representative.  It takes the place of an induction:  *)
(* what fails for some type fails for one whose parent it holds for.       *)
(***************************************************************************)
EXTENDS Unification, TLAPS

-------------------------------------------------------------------------------
(* Structures whose parents lead to a representative *)

Roots(parent) == { t \in DOMAIN parent : parent[t] = t }

\* The set keeps the parents of its members.
Closed(parent, S) == \A s \in S : parent[s] \in S

Grounded(parent) ==
    /\ parent = [t \in DOMAIN parent |-> parent[t]]
    /\ \A t \in DOMAIN parent : parent[t] \in DOMAIN parent
    /\ \A S \in SUBSET DOMAIN parent :
          S # {} /\ Closed(parent, S) => \E s \in S : parent[s] = s

\* The equations that Paths and Representatives are defined by.
FollowsPaths(parent, f) ==
    f = [t \in DOMAIN parent |-> {t} \cup IF parent[t] = t THEN {} ELSE f[parent[t]]]

FindsRoots(parent, f) ==
    f = [t \in DOMAIN parent |-> IF parent[t] = t THEN t ELSE f[parent[t]]]

\* Each type's path: the members of every closed set that the type is in.
Reached(parent, t) ==
    { s \in DOMAIN parent :
        \A S \in SUBSET DOMAIN parent : t \in S /\ Closed(parent, S) => s \in S }

LEMMA ReachedUnfolds ==
    ASSUME NEW parent, Grounded(parent), NEW t \in DOMAIN parent
    PROVE  Reached(parent, t) =
               {t} \cup IF parent[t] = t THEN {} ELSE Reached(parent, parent[t])
<1> DEFINE D == DOMAIN parent
<1>1. \A x \in D : parent[x] \in D
  BY DEF Grounded
<1>2. CASE parent[t] = t
  <2>1. {t} \in SUBSET D /\ Closed(parent, {t})
    BY <1>2 DEF Closed
  <2>2. Reached(parent, t) \subseteq {t}
    BY <2>1 DEF Reached
  <2> QED
    BY <1>2, <2>2 DEF Reached
<1>3. CASE parent[t] # t
  <2>1. ASSUME NEW s \in Reached(parent, t), s # t
        PROVE  s \in Reached(parent, parent[t])
    <3>1. ASSUME NEW S \in SUBSET D, parent[t] \in S, Closed(parent, S)
          PROVE  s \in S
      <4>1. S \cup {t} \in SUBSET D /\ Closed(parent, S \cup {t})
        BY <3>1 DEF Closed
      <4> QED
        BY <2>1, <4>1 DEF Reached
    <3> QED
      BY <2>1, <3>1 DEF Reached
  <2>2. ASSUME NEW s \in Reached(parent, parent[t])
        PROVE  s \in Reached(parent, t)
    BY <2>2 DEF Reached, Closed
  <2>3. t \in Reached(parent, t)
    BY DEF Reached
  <2> QED
    BY <1>3, <2>1, <2>2, <2>3
<1> QED
  BY <1>2, <1>3

\* Paths and Representatives are solutions of their equations: there are some.
LEMMA PathsUnfold ==
    ASSUME NEW parent, Grounded(parent)
    PROVE  FollowsPaths(parent, Paths(parent))
<1> DEFINE f == [t \in DOMAIN parent |-> Reached(parent, t)]
<1>1. FollowsPaths(parent, f)
  BY ReachedUnfolds DEF FollowsPaths, Grounded
<1>2. Paths(parent) = CHOOSE g : FollowsPaths(parent, g)
  BY DEF Paths, FollowsPaths
<1>3. \E g : FollowsPaths(parent, g)
  BY <1>1
<1> HIDE DEF f
<1> QED
  BY <1>2, <1>3

LEMMA PathsStayInside ==
    ASSUME NEW parent, Grounded(parent), NEW t \in DOMAIN parent
    PROVE  Paths(parent)[t] \subseteq DOMAIN parent
<1> DEFINE h == Paths(parent)
           bad == { s \in DOMAIN parent : ~ (h[s] \subseteq DOMAIN parent) }
<1>1. \A s \in DOMAIN parent :
          h[s] = {s} \cup IF parent[s] = s THEN {} ELSE h[parent[s]]
  BY PathsUnfold DEF FollowsPaths
<1>2. Closed(parent, bad)
  BY <1>1 DEF Closed, Grounded
<1>3. \A s \in bad : parent[s] # s
  BY <1>1
<1>4. bad = {}
  BY <1>2, <1>3 DEF Grounded
<1> QED
  BY <1>4

LEMMA RepresentativesUnfold ==
    ASSUME NEW parent, Grounded(parent)
    PROVE  FindsRoots(parent, Representatives(parent))
<1> DEFINE Ends(t) == Reached(parent, t) \cap Roots(parent)
           f == [t \in DOMAIN parent |-> CHOOSE r : r \in Ends(t)]
<1>1. ASSUME NEW t \in DOMAIN parent, parent[t] = t
      PROVE  f[t] = t
  <2>1. Ends(t) = {t}
    BY <1>1, ReachedUnfolds DEF Roots
  <2> QED
    BY <2>1
<1>2. ASSUME NEW t \in DOMAIN parent, parent[t] # t
      PROVE  f[t] = f[parent[t]]
  <2>1. Ends(t) = Ends(parent[t])
    BY <1>2, ReachedUnfolds DEF Roots
  <2>2. parent[t] \in DOMAIN parent
    BY DEF Grounded
  <2> HIDE DEF Ends
  <2> QED
    BY <2>1, <2>2
<1> HIDE DEF f
<1>3. f = [t \in DOMAIN parent |-> f[t]]
  BY DEF f
<1>4. FindsRoots(parent, f)
  BY <1>1, <1>2, <1>3 DEF FindsRoots
<1>5. Representatives(parent) = CHOOSE g : FindsRoots(parent, g)
  BY DEF Representatives, FindsRoots
<1>6. \E g : FindsRoots(parent, g)
  BY <1>4
<1> QED
  BY <1>5, <1>6

\* There is one solution only, which is how the representatives in a changed
\* structure are computed below.
LEMMA OneSolution ==
    ASSUME NEW parent, Grounded(parent), NEW f,
           \A t \in DOMAIN parent : f[t] = IF parent[t] = t THEN t ELSE f[parent[t]]
    PROVE  \A t \in DOMAIN parent : Representatives(parent)[t] = f[t]
<1> DEFINE rep == Representatives(parent)
           bad == { s \in DOMAIN parent : rep[s] # f[s] }
<1>1. \A t \in DOMAIN parent : rep[t] = IF parent[t] = t THEN t ELSE rep[parent[t]]
  BY RepresentativesUnfold DEF FindsRoots
<1> HIDE DEF rep
<1>2. Closed(parent, bad)
  BY <1>1 DEF Closed, Grounded
<1>3. \A s \in bad : parent[s] # s
  BY <1>1
<1>4. bad = {}
  BY <1>2, <1>3 DEF Grounded
<1> QED
  BY <1>4 DEF rep

LEMMA RepresentativeFacts ==
    ASSUME NEW parent, Grounded(parent)
    PROVE  LET rep == Representatives(parent) IN
           /\ DOMAIN rep = DOMAIN parent
           /\ \A t \in DOMAIN parent :
                 /\ rep[t] \in Roots(parent)
                 /\ rep[parent[t]] = rep[t]
                 /\ t \in Roots(parent) => rep[t] = t
<1> DEFINE rep == Representatives(parent)
           bad == { s \in DOMAIN parent : rep[s] \notin Roots(parent) }
<1>1. rep = [t \in DOMAIN parent |-> IF parent[t] = t THEN t ELSE rep[parent[t]]]
  BY RepresentativesUnfold DEF FindsRoots
<1> HIDE DEF rep
<1>2. Closed(parent, bad)
  BY <1>1 DEF Closed, Grounded
<1>3. \A s \in bad : parent[s] # s
  BY <1>1 DEF Roots
<1>4. bad = {}
  BY <1>2, <1>3 DEF Grounded
<1>5. \A t \in DOMAIN parent :
          /\ parent[t] \in DOMAIN parent
          /\ rep[t] = IF parent[t] = t THEN t ELSE rep[parent[t]]
  BY <1>1 DEF Grounded
<1>6. DOMAIN rep = DOMAIN parent
  BY <1>1
<1>7. \A t \in DOMAIN parent : rep[t] \in Roots(parent)
  BY <1>4
<1>8. \A t \in DOMAIN parent :
          rep[parent[t]] = rep[t] /\ (t \in Roots(parent) => rep[t] = t)
  BY <1>5 DEF Roots
<1> QED
  BY <1>6, <1>7, <1>8 DEF rep

LEMMA PathsStayInClass ==
    ASSUME NEW parent, Grounded(parent), NEW t \in DOMAIN parent,
           NEW s \in Paths(parent)[t]
    PROVE  Representatives(parent)[s] = Representatives(parent)[t]
<1> DEFINE h   == Paths(parent)
           rep == Representatives(parent)
           bad == { x \in DOMAIN parent : \E y \in h[x] : rep[y] # rep[x] }
<1>1. \A x \in DOMAIN parent :
          h[x] = {x} \cup IF parent[x] = x THEN {} ELSE h[parent[x]]
  BY PathsUnfold DEF FollowsPaths
<1>2. \A x \in DOMAIN parent : rep[parent[x]] = rep[x] /\ parent[x] \in DOMAIN parent
  BY RepresentativeFacts DEF Grounded
<1> HIDE DEF h, rep
<1>3. Closed(parent, bad)
  BY <1>1, <1>2 DEF Closed
<1>4. \A x \in bad : parent[x] # x
  BY <1>1
<1>5. bad = {}
  BY <1>3, <1>4 DEF Grounded
<1> QED
  BY <1>5 DEF h, rep

-------------------------------------------------------------------------------
(* What find and unionTypes do to the classes *)

\* From one structure to another that has met more types: the classes are those
\* of before, and a new type is alone in its own.
SameClasses(parent, more) ==
    LET rep == Representatives(parent)
        new == Representatives(more)
    IN  /\ DOMAIN parent \subseteq DOMAIN more
        /\ \A t \in DOMAIN more : new[t] = IF t \in DOMAIN parent THEN rep[t] ELSE t

LEMMA MakeSetKeepsClasses ==
    ASSUME NEW parent, NEW type, Grounded(parent)
    PROVE  LET known == makeSet(parent, type) IN
           /\ Grounded(known)
           /\ DOMAIN known = DOMAIN parent \cup {type}
           /\ SameClasses(parent, known)
<1> DEFINE known == makeSet(parent, type)
           rep   == Representatives(parent)
           f     == [t \in DOMAIN known |-> IF t \in DOMAIN parent THEN rep[t] ELSE t]
<1>1. /\ known = [t \in DOMAIN known |-> known[t]]
      /\ DOMAIN known = DOMAIN parent \cup {type}
      /\ \A t \in DOMAIN known :
            known[t] = IF t \in DOMAIN parent THEN parent[t] ELSE t
  BY DEF makeSet
<1> HIDE DEF known
<1>2. ASSUME NEW S \in SUBSET DOMAIN known, S # {}, Closed(known, S)
      PROVE  \E s \in S : known[s] = s
  <2>1. CASE S \subseteq DOMAIN parent
    BY <1>1, <1>2, <2>1 DEF Grounded, Closed
  <2>2. CASE ~ (S \subseteq DOMAIN parent)
    BY <1>1, <2>2
  <2> QED
    BY <2>1, <2>2
<1>3. Grounded(known)
  BY <1>1, <1>2 DEF Grounded
<1>4. \A t \in DOMAIN parent :
          parent[t] \in DOMAIN parent /\ rep[t] = IF parent[t] = t THEN t ELSE rep[parent[t]]
  BY RepresentativesUnfold DEF FindsRoots, Grounded
<1> HIDE DEF rep
<1>5. \A t \in DOMAIN known : f[t] = IF known[t] = t THEN t ELSE f[known[t]]
  BY <1>1, <1>4
<1>6. \A t \in DOMAIN known : Representatives(known)[t] = f[t]
  <2> HIDE DEF f
  <2> QED
    BY <1>3, <1>5, OneSolution
<1> QED
  BY <1>1, <1>3, <1>6 DEF SameClasses, rep, known

\* find changes no class: it only makes paths shorter.
LEMMA FoundKeepsClasses ==
    ASSUME NEW parent, NEW type, Grounded(parent)
    PROVE  LET found == Found(parent, type) IN
           /\ Grounded(found)
           /\ DOMAIN found = DOMAIN parent \cup {type}
           /\ SameClasses(parent, found)
<1> DEFINE known == makeSet(parent, type)
           rep   == Representatives(known)
           path  == Paths(known)[type]
           found == Found(parent, type)
<1>1. Grounded(known) /\ DOMAIN known = DOMAIN parent \cup {type} /\ SameClasses(parent, known)
  BY MakeSetKeepsClasses
<1>2. path \subseteq DOMAIN known
  BY <1>1, PathsStayInside
<1>3. found = [t \in DOMAIN known |-> IF t \in path THEN rep[type] ELSE known[t]]
  BY DEF Found, Representative
<1>4. \A t \in path : rep[t] = rep[type]
  BY <1>1, PathsStayInClass
<1> HIDE DEF known, path, found, rep
<1>5. /\ found = [t \in DOMAIN found |-> found[t]]
      /\ DOMAIN found = DOMAIN known
      /\ \A t \in DOMAIN known : found[t] = IF t \in path THEN rep[t] ELSE known[t]
  BY <1>2, <1>3, <1>4
<1>6. /\ DOMAIN rep = DOMAIN known
      /\ \A t \in DOMAIN known :
            /\ rep[t] \in DOMAIN known /\ known[rep[t]] = rep[t] /\ rep[rep[t]] = rep[t]
            /\ rep[known[t]] = rep[t]
            /\ known[t] = t => rep[t] = t
            /\ known[t] \in DOMAIN known
  BY <1>1, RepresentativeFacts DEF Roots, Grounded, rep
<1>7. \A t \in DOMAIN known : found[rep[t]] = rep[t]
  BY <1>5, <1>6
<1>8. ASSUME NEW S \in SUBSET DOMAIN known, S # {}, Closed(found, S)
      PROVE  \E s \in S : found[s] = s
  <2>1. CASE \E s \in S : s \in path
    BY <1>5, <1>7, <1>8, <2>1 DEF Closed
  <2>2. CASE \A s \in S : s \notin path
    <3>1. Closed(known, S)
      BY <1>5, <1>8, <2>2 DEF Closed
    <3>2. PICK s \in S : known[s] = s
      BY <1>1, <1>8, <3>1 DEF Grounded
    <3> QED
      BY <1>5, <2>2, <3>2
  <2> QED
    BY <2>1, <2>2
<1>9. Grounded(found)
  BY <1>5, <1>6, <1>8 DEF Grounded
<1>10. \A t \in DOMAIN found : rep[t] = IF found[t] = t THEN t ELSE rep[found[t]]
  BY <1>5, <1>6
<1>11. \A t \in DOMAIN found : Representatives(found)[t] = rep[t]
  BY <1>9, <1>10, OneSolution
<1> QED
  BY <1>1, <1>5, <1>9, <1>11 DEF SameClasses, rep, found

LEMMA SameClassesTwice ==
    ASSUME NEW p, NEW q, NEW r, SameClasses(p, q), SameClasses(q, r)
    PROVE  SameClasses(p, r)
BY DEF SameClasses

LEMMA BothFoundKeepClasses ==
    ASSUME NEW parent, NEW type1, NEW type2, Grounded(parent)
    PROVE  LET found == Found(Found(parent, type1), type2) IN
           /\ Grounded(found)
           /\ DOMAIN found = DOMAIN parent \cup {type1, type2}
           /\ SameClasses(parent, found)
<1> DEFINE one == Found(parent, type1)
           two == Found(one, type2)
<1>1. Grounded(one) /\ DOMAIN one = DOMAIN parent \cup {type1} /\ SameClasses(parent, one)
  BY FoundKeepsClasses
<1> HIDE DEF one
<1>2. Grounded(two) /\ DOMAIN two = DOMAIN one \cup {type2} /\ SameClasses(one, two)
  BY <1>1, FoundKeepsClasses
<1> HIDE DEF two
<1>3. SameClasses(parent, two)
  BY <1>1, <1>2, SameClassesTwice
<1> QED
  BY <1>1, <1>2, <1>3 DEF one, two

\* From one structure to another in which one class has joined another.
JoinsClasses(parent, joined, type1, type2) ==
    LET rep == Representatives(parent)
        new == Representatives(joined)
    IN  /\ DOMAIN joined = DOMAIN parent
        /\ \A t \in DOMAIN parent :
              new[t] = IF rep[t] = rep[type1] THEN rep[type2] ELSE rep[t]

LEMMA UnionJoinsClasses ==
    ASSUME NEW parent, Grounded(parent), NEW type1 \in DOMAIN parent, NEW type2 \in DOMAIN parent
    PROVE  LET joined == unionTypes(parent, type1, type2) IN
           Grounded(joined) /\ JoinsClasses(parent, joined, type1, type2)
<1> DEFINE found  == Found(Found(parent, type1), type2)
           rep    == Representatives(found)
           r1     == rep[type1]
           r2     == rep[type2]
           joined == unionTypes(parent, type1, type2)
           f      == [t \in DOMAIN found |-> IF rep[t] = r1 THEN r2 ELSE rep[t]]
<1>1. Grounded(found) /\ DOMAIN found = DOMAIN parent /\ SameClasses(parent, found)
  BY BothFoundKeepClasses
<1>2. joined = [found EXCEPT ![r1] = r2]
  BY DEF unionTypes, Representative
<1> HIDE DEF found, joined
<1>3. \A t \in DOMAIN found :
          /\ rep[t] \in DOMAIN found /\ found[rep[t]] = rep[t] /\ rep[rep[t]] = rep[t]
          /\ rep[found[t]] = rep[t]
          /\ found[t] = t => rep[t] = t
          /\ found[t] \in DOMAIN found
  BY <1>1, RepresentativeFacts DEF Roots, Grounded
<1>4. \A t \in DOMAIN parent : rep[t] = Representatives(parent)[t]
  BY <1>1 DEF SameClasses
<1> HIDE DEF rep
<1>5. /\ r1 \in DOMAIN found /\ r2 \in DOMAIN found
      /\ rep[r1] = r1 /\ rep[r2] = r2 /\ found[r1] = r1 /\ found[r2] = r2
  BY <1>1, <1>3
<1> HIDE DEF r1, r2
<1>6. /\ joined = [t \in DOMAIN joined |-> joined[t]]
      /\ DOMAIN joined = DOMAIN found
      /\ \A t \in DOMAIN found : joined[t] = IF t = r1 THEN r2 ELSE found[t]
  BY <1>1, <1>2, <1>5 DEF Grounded
<1>7. ASSUME NEW S \in SUBSET DOMAIN found, S # {}, Closed(joined, S)
      PROVE  \E s \in S : joined[s] = s
  <2>1. CASE r1 \in S
    BY <1>5, <1>6, <1>7, <2>1 DEF Closed
  <2>2. CASE r1 \notin S
    <3>1. Closed(found, S)
      BY <1>6, <1>7, <2>2 DEF Closed
    <3>2. PICK s \in S : found[s] = s
      BY <1>1, <1>7, <3>1 DEF Grounded
    <3> QED
      BY <1>6, <2>2, <3>2
  <2> QED
    BY <2>1, <2>2
<1>8. Grounded(joined)
  BY <1>3, <1>5, <1>6, <1>7 DEF Grounded
<1>9. \A t \in DOMAIN joined : f[t] = IF joined[t] = t THEN t ELSE f[joined[t]]
  BY <1>3, <1>5, <1>6
<1>10. \A t \in DOMAIN joined : Representatives(joined)[t] = f[t]
  <2> HIDE DEF f
  <2> QED
    BY <1>8, <1>9, OneSolution
<1> QED
  BY <1>1, <1>4, <1>6, <1>8, <1>10 DEF JoinsClasses, joined, r1, r2

-------------------------------------------------------------------------------
(* What one call of unify does *)

\* The representative of a type, which may be new.
RepresentativeOf(parent, t) == IF t \in DOMAIN parent THEN Representatives(parent)[t] ELSE t

Unify(parent, pair) == Unified(BothFound(parent, pair), pair)

\* One class joins the other, and not a proper type's a variable's: what was found
\* for a type is what is now found for its representative.
Joins(parent, joined, r1, r2) ==
    \E a, b \in {r1, r2} :
        /\ \A t \in DOMAIN joined :
              Representatives(joined)[t] =
                  IF RepresentativeOf(parent, t) = a THEN b ELSE RepresentativeOf(parent, t)
        /\ a # b
        /\ IsVar(b) => IsVar(a)

LEMMA UnifyFacts ==
    ASSUME NEW parent, NEW pair, Grounded(parent)
    PROVE  LET outcome == Unify(parent, pair)
               r1 == RepresentativeOf(parent, pair[1])
               r2 == RepresentativeOf(parent, pair[2])
           IN
           /\ Grounded(outcome.parent)
           /\ DOMAIN outcome.parent = DOMAIN parent \cup {pair[1], pair[2]}
           /\ IF r1 # r2 /\ CanJoin(r1, r2)
              THEN Joins(parent, outcome.parent, r1, r2)
              ELSE SameClasses(parent, outcome.parent)
           /\ outcome.ok <=> r1 = r2 \/ (CanJoin(r1, r2) /\ ~ DifferentLengths(r1, r2))
           /\ outcome.parts =
                 IF r1 # r2 /\ CanJoin(r1, r2) /\ ~ DifferentLengths(r1, r2)
                 THEN PartsOf(r1, r2) ELSE << >>
<1> DEFINE found   == BothFound(parent, pair)
           rep     == Representatives(found)
           r1      == rep[pair[1]]
           r2      == rep[pair[2]]
           outcome == Unify(parent, pair)
<1>1. /\ Grounded(found)
      /\ DOMAIN found = DOMAIN parent \cup {pair[1], pair[2]}
      /\ SameClasses(parent, found)
  BY BothFoundKeepClasses DEF BothFound
<1>2. outcome = UnifiedRepresentatives(found, r1, r2)
  BY DEF Unify, Unified
<1> HIDE DEF found, outcome
<1>3. \A t \in DOMAIN found :
          rep[t] \in DOMAIN found /\ rep[rep[t]] = rep[t] /\ rep[t] = RepresentativeOf(parent, t)
  BY <1>1, RepresentativeFacts DEF Roots, SameClasses, RepresentativeOf
<1> HIDE DEF rep
<1>4. /\ r1 = RepresentativeOf(parent, pair[1]) /\ r2 = RepresentativeOf(parent, pair[2])
      /\ r1 \in DOMAIN found /\ r2 \in DOMAIN found /\ rep[r1] = r1 /\ rep[r2] = r2
  BY <1>1, <1>3
<1> HIDE DEF r1, r2
<1>5. CASE ~ (r1 # r2 /\ CanJoin(r1, r2))
  <2>1. outcome = [parent |-> found, parts |-> << >>, ok |-> r1 = r2]
    BY <1>2, <1>5 DEF UnifiedRepresentatives
  <2>2. outcome.parent = found /\ outcome.parts = << >> /\ outcome.ok = (r1 = r2)
    BY <2>1
  <2> QED
    BY <1>1, <1>4, <1>5, <2>2 DEF outcome
<1>6. CASE r1 # r2 /\ CanJoin(r1, r2)
  <2> DEFINE joined == Joined(found, r1, r2)
  <2>1. /\ Grounded(joined)
        /\ \/ JoinsClasses(found, joined, r1, r2) /\ (IsVar(r2) => IsVar(r1))
           \/ JoinsClasses(found, joined, r2, r1) /\ (IsVar(r1) => IsVar(r2))
    BY <1>1, <1>4, UnionJoinsClasses DEF Joined
  <2>2. outcome = [parent |-> joined,
                   parts  |-> IF DifferentLengths(r1, r2) THEN << >> ELSE PartsOf(r1, r2),
                   ok     |-> ~ DifferentLengths(r1, r2)]
    BY <1>2, <1>6 DEF UnifiedRepresentatives
  <2> HIDE DEF joined
  <2>3. /\ outcome.parent = joined
        /\ outcome.parts = IF DifferentLengths(r1, r2) THEN << >> ELSE PartsOf(r1, r2)
        /\ outcome.ok = (~ DifferentLengths(r1, r2))
    BY <2>2
  <2>4. ASSUME NEW a \in {r1, r2}, NEW b \in {r1, r2}, a # b, IsVar(b) => IsVar(a),
               JoinsClasses(found, joined, a, b)
        PROVE  Joins(parent, joined, r1, r2)
    <3>1. \A t \in DOMAIN found :
              Representatives(joined)[t] = IF rep[t] = rep[a] THEN rep[b] ELSE rep[t]
      BY <2>4 DEF JoinsClasses, rep
    <3>2. \A t \in DOMAIN joined :
              Representatives(joined)[t] =
                  IF RepresentativeOf(parent, t) = a THEN b ELSE RepresentativeOf(parent, t)
      BY <1>3, <1>4, <2>4, <3>1 DEF JoinsClasses
    <3> QED
      BY <2>4, <3>2 DEF Joins
  <2>5. DOMAIN joined = DOMAIN found
    BY <2>1 DEF JoinsClasses
  <2> QED
    BY <1>1, <1>4, <1>6, <2>1, <2>3, <2>4, <2>5 DEF outcome
<1> QED
  BY <1>5, <1>6

\* Classes are only ever joined.
LEMMA UnifyKeepsClasses ==
    ASSUME NEW parent, NEW pair, Grounded(parent), NEW t \in DOMAIN parent
    PROVE  LET rep == Representatives(parent)
               new == Representatives(Unify(parent, pair).parent)
           IN  new[t] = new[rep[t]]
<1> DEFINE joined == Unify(parent, pair).parent
           rep == Representatives(parent)
           r1 == RepresentativeOf(parent, pair[1])
           r2 == RepresentativeOf(parent, pair[2])
<1>1. rep[t] \in DOMAIN parent /\ rep[rep[t]] = rep[t]
  BY RepresentativeFacts DEF Roots
<1>2. RepresentativeOf(parent, t) = RepresentativeOf(parent, rep[t])
  BY <1>1 DEF RepresentativeOf
<1>3. /\ DOMAIN parent \subseteq DOMAIN joined
      /\ Joins(parent, joined, r1, r2) \/ SameClasses(parent, joined)
  BY UnifyFacts
<1> HIDE DEF joined, rep, r1, r2
<1>4. CASE Joins(parent, joined, r1, r2)
  BY <1>1, <1>2, <1>3, <1>4 DEF Joins, rep, joined
<1>5. CASE SameClasses(parent, joined)
  BY <1>1, <1>3, <1>5 DEF SameClasses, rep, joined
<1> QED
  BY <1>3, <1>4, <1>5

-------------------------------------------------------------------------------
(* Classes only grow *)

\* The three actions, with the call of unify in its place.
LEMMA Steps ==
    ASSUME [Next]_vars
    PROVE  \/ /\ SolveConstraint
              /\ pending = << >> /\ Constraints # << >> /\ result = "none"
              /\ LET outcome == Unify(Parent, Head(Constraints)) IN
                 /\ Parent' = outcome.parent
                 /\ pending' = outcome.parts
                 /\ result' = IF outcome.ok THEN "none" ELSE "false"
              /\ Constraints' = Tail(Constraints)
              /\ program' = program
           \/ /\ UnifyParts
              /\ pending # << >>
              /\ LET outcome == Unify(Parent, Head(pending)) IN
                 /\ Parent' = outcome.parent
                 /\ pending' = outcome.parts \o Tail(pending)
              /\ UNCHANGED << program, Constraints, result >>
           \/ /\ UNCHANGED << program, Constraints, Parent, pending >>
              /\ \/ result' = result
                 \/ result = "none" /\ result' = "true" /\ Constraints = << >>
<1>1. CASE SolveConstraint
  BY <1>1 DEF SolveConstraint, Unify
<1>2. CASE UnifyParts
  BY <1>2 DEF UnifyParts, Unify
<1>3. CASE Solved
  BY <1>3 DEF Solved
<1>4. CASE UNCHANGED vars
  BY <1>4 DEF vars
<1> QED
  BY <1>1, <1>2, <1>3, <1>4 DEF Next

LEMMA GroundedInit == Init => Grounded(Parent)
<1> SUFFICES ASSUME Init PROVE Grounded(Parent)
  OBVIOUS
<1>1. Parent = << >>
  BY DEF Init
<1>2. DOMAIN Parent = {}
  BY <1>1
<1>3. Parent = [t \in DOMAIN Parent |-> Parent[t]]
  BY <1>1
<1> QED
  BY <1>2, <1>3 DEF Grounded

LEMMA GroundedNext == Grounded(Parent) /\ [Next]_vars => Grounded(Parent')
<1> SUFFICES ASSUME Grounded(Parent), [Next]_vars PROVE Grounded(Parent')
  OBVIOUS
<1>1. CASE Parent' = Parent
  BY <1>1
<1>2. CASE \E pair : Parent' = Unify(Parent, pair).parent
  BY <1>2, UnifyFacts
<1> QED
  BY <1>1, <1>2, Steps

\* The structure has no cycles, whatever is found and joined.
THEOREM ParentsLeadToRepresentatives == Spec => []Grounded(Parent)
<1>1. Grounded(Parent) /\ [Next]_vars => Grounded(Parent)'
  BY GroundedNext
<1> QED
  BY GroundedInit, <1>1, PTL DEF Spec

\* What unification has found equal stays equal: no later constraint, and no
\* shortening of paths, takes two types apart.
THEOREM EqualTypesStayEqual == Spec => ClassesOnlyGrow
<1> DEFINE Kept == \A t \in DOMAIN Parent :
                       Representative(Parent', t) = Representative(Parent', Class(t))
<1>1. Grounded(Parent) /\ [Next]_vars => [Kept]_vars
  <2> SUFFICES ASSUME Grounded(Parent), [Next]_vars PROVE Kept
    OBVIOUS
  <2>1. CASE Parent' = Parent
    BY <2>1, RepresentativeFacts DEF Representative, Class, Roots
  <2>2. CASE \E pair : Parent' = Unify(Parent, pair).parent
    BY <2>2, UnifyKeepsClasses DEF Representative, Class
  <2> QED
    BY <2>1, <2>2, Steps
<1> QED
  BY <1>1, ParentsLeadToRepresentatives, PTL DEF Spec, ClassesOnlyGrow

-------------------------------------------------------------------------------
(* Classes are uniform *)

Uniform(parent) ==
    \A t \in DOMAIN parent : IsVar(t) \/ SameShape(t, Representatives(parent)[t])

\* Between a representative and the one its class gets.
Resembles(a, b) == a = b \/ (CanJoin(a, b) /\ (IsVar(b) => IsVar(a)))

LEMMA ShapesAgree ==
    ASSUME NEW t, NEW a, NEW b, ~ IsVar(t), SameShape(t, a), Resembles(a, b)
    PROVE  SameShape(t, b)
BY DEF SameShape, Resembles, CanJoin, IsVar, IsPointerLike

LEMMA UnifyResembles ==
    ASSUME NEW parent, NEW pair, Grounded(parent)
    PROVE  LET joined == Unify(parent, pair).parent IN
           \A t \in DOMAIN joined :
              Resembles(RepresentativeOf(parent, t), Representatives(joined)[t])
<1> DEFINE joined == Unify(parent, pair).parent
           r1 == RepresentativeOf(parent, pair[1])
           r2 == RepresentativeOf(parent, pair[2])
<1>1. \/ CanJoin(r1, r2) /\ Joins(parent, joined, r1, r2)
      \/ SameClasses(parent, joined)
  BY UnifyFacts
<1>2. CanJoin(r1, r2) => CanJoin(r2, r1)
  BY DEF CanJoin
<1> HIDE DEF joined, r1, r2
<1>3. CASE CanJoin(r1, r2) /\ Joins(parent, joined, r1, r2)
  <2>1. PICK a \in {r1, r2}, b \in {r1, r2} :
            /\ \A t \in DOMAIN joined :
                  Representatives(joined)[t] =
                      IF RepresentativeOf(parent, t) = a THEN b ELSE RepresentativeOf(parent, t)
            /\ a # b
            /\ IsVar(b) => IsVar(a)
    BY <1>3 DEF Joins
  <2>2. CanJoin(a, b)
    BY <1>2, <1>3, <2>1
  <2> QED
    BY <2>1, <2>2 DEF Resembles, joined
<1>4. CASE SameClasses(parent, joined)
  BY <1>4 DEF SameClasses, RepresentativeOf, Resembles, joined
<1> QED
  BY <1>1, <1>3, <1>4

LEMMA UnifyKeepsShapes ==
    ASSUME NEW parent, NEW pair, Grounded(parent), Uniform(parent)
    PROVE  Uniform(Unify(parent, pair).parent)
<1> DEFINE joined == Unify(parent, pair).parent
<1>1. \A t \in DOMAIN joined :
         Resembles(RepresentativeOf(parent, t), Representatives(joined)[t])
  BY UnifyResembles
<1> HIDE DEF joined
<1>2. ASSUME NEW t \in DOMAIN joined, ~ IsVar(t)
      PROVE  SameShape(t, Representatives(joined)[t])
  <2>1. SameShape(t, RepresentativeOf(parent, t))
    BY <1>2 DEF Uniform, RepresentativeOf, SameShape
  <2> QED
    BY <1>1, <1>2, <2>1, ShapesAgree
<1> QED
  BY <1>2 DEF Uniform, joined

LEMMA UniformNext == Grounded(Parent) /\ Uniform(Parent) /\ [Next]_vars => Uniform(Parent)'
<1> SUFFICES ASSUME Grounded(Parent), Uniform(Parent), [Next]_vars
             PROVE  Uniform(Parent')
  OBVIOUS
<1>1. CASE Parent' = Parent
  BY <1>1
<1>2. CASE \E pair : Parent' = Unify(Parent, pair).parent
  BY <1>2, UnifyKeepsShapes
<1> QED
  BY <1>1, <1>2, Steps

\* A class is represented by a type of the shape that its types have.
THEOREM RepresentativesHaveTheShape == Spec => []ClassesAreUniform
<1>1. Init => Uniform(Parent)
  BY DEF Init, Uniform
<1>2. Grounded(Parent) /\ Uniform(Parent) /\ [Next]_vars => Uniform(Parent)'
  BY UniformNext
<1>3. Uniform(Parent) => ClassesAreUniform
  BY DEF Uniform, ClassesAreUniform, Class, Representative
<1> QED
  BY <1>1, <1>2, <1>3, ParentsLeadToRepresentatives, PTL DEF Spec

-------------------------------------------------------------------------------
(* Solved constraints *)

TypesInv(Types) ==
    /\ program \in DOMAIN Systems
    /\ DOMAIN Parent \subseteq Types
    /\ Constraints \in Seq(Constraint(Types))
    /\ pending \in Seq(Constraint(Types))

\* The representative of a type, old or new, is among the types.
LEMMA RepresentativesAreTypes ==
    ASSUME NEW Types, NEW parent, Grounded(parent), DOMAIN parent \subseteq Types,
           NEW t \in Types
    PROVE  RepresentativeOf(parent, t) \in Types
BY RepresentativeFacts DEF RepresentativeOf, Roots

LEMMA PartsAreTypes ==
    ASSUME NEW Types, HasParts(Types), NEW r1 \in Types, NEW r2 \in Types,
           CanJoin(r1, r2)
    PROVE  PartsOf(r1, r2) \in Seq(Constraint(Types))
<1>1. CASE IsVar(r1) \/ IsVar(r2)
  BY <1>1 DEF PartsOf
<1>2. CASE ~ IsVar(r1) /\ ~ IsVar(r2) /\ IsPointerLike(r1)
  <2>1. IsPointerLike(r2)
    BY <1>2 DEF CanJoin, IsPointerLike
  <2>2. << r1.elem, r2.elem >> \in Constraint(Types)
    BY <1>2, <2>1 DEF HasParts, Constraint
  <2> QED
    BY <1>2, <2>2 DEF PartsOf
<1>3. CASE ~ IsVar(r1) /\ ~ IsVar(r2) /\ ~ IsPointerLike(r1)
  <2>1. /\ r1.params \in Seq(Types) /\ r1.ret \in Types
        /\ r2.params \in Seq(Types) /\ r2.ret \in Types
        /\ Len(r1.params) = Len(r2.params)
    BY <1>3 DEF CanJoin, HasParts
  <2> DEFINE params == [n \in DOMAIN r1.params |-> << r1.params[n], r2.params[n] >>]
  <2>2. params \in Seq(Constraint(Types))
    BY <2>1 DEF Constraint
  <2>3. << << r1.ret, r2.ret >> >> \in Seq(Constraint(Types))
    BY <2>1 DEF Constraint
  <2>4. PartsOf(r1, r2) = params \o << << r1.ret, r2.ret >> >>
    BY <1>3 DEF PartsOf
  <2> HIDE DEF params
  <2> QED
    BY <2>2, <2>3, <2>4
<1> QED
  BY <1>1, <1>2, <1>3

LEMMA UnifyKeepsTypes ==
    ASSUME NEW Types, HasParts(Types), NEW parent, Grounded(parent),
           DOMAIN parent \subseteq Types, NEW pair \in Constraint(Types)
    PROVE  /\ DOMAIN Unify(parent, pair).parent \subseteq Types
           /\ Unify(parent, pair).parts \in Seq(Constraint(Types))
<1>1. pair[1] \in Types /\ pair[2] \in Types
  BY DEF Constraint
<1> DEFINE r1 == RepresentativeOf(parent, pair[1])
           r2 == RepresentativeOf(parent, pair[2])
<1>2. r1 \in Types /\ r2 \in Types
  BY <1>1, RepresentativesAreTypes
<1>3. Unify(parent, pair).parts = << >> \/
          (Unify(parent, pair).parts = PartsOf(r1, r2) /\ CanJoin(r1, r2))
  BY UnifyFacts
<1>4. DOMAIN Unify(parent, pair).parent = DOMAIN parent \cup {pair[1], pair[2]}
  BY UnifyFacts
<1>5. << >> \in Seq(Constraint(Types))
  OBVIOUS
<1> HIDE DEF r1, r2
<1>6. CanJoin(r1, r2) => PartsOf(r1, r2) \in Seq(Constraint(Types))
  BY <1>2, PartsAreTypes
<1>7. Unify(parent, pair).parts \in Seq(Constraint(Types))
  BY <1>3, <1>5, <1>6
<1> QED
  BY <1>1, <1>4, <1>7

LEMMA TypesInit ==
    ASSUME NEW Types, SystemsAreOver(Types)
    PROVE  Init => TypesInv(Types)
BY DEF Init, TypesInv, SystemsAreOver

LEMMA TypesNext ==
    ASSUME NEW Types, HasParts(Types)
    PROVE  Grounded(Parent) /\ TypesInv(Types) /\ [Next]_vars => TypesInv(Types)'
<1> SUFFICES ASSUME Grounded(Parent), TypesInv(Types), [Next]_vars
             PROVE  TypesInv(Types)'
  OBVIOUS
<1> DEFINE Calls == Seq(Constraint(Types))
<1>1. /\ program \in DOMAIN Systems /\ DOMAIN Parent \subseteq Types
      /\ Constraints \in Calls /\ pending \in Calls
  BY DEF TypesInv
<1>2. HasParts(Types)
  OBVIOUS
<1>3. ASSUME NEW calls \in Calls, calls # << >>
      PROVE  Head(calls) \in Constraint(Types) /\ Tail(calls) \in Calls
  <2> DEFINE C == Constraint(Types)
  <2> HIDE DEF C
  <2> QED
    BY <1>3 DEF C
<1>4. ASSUME NEW pair \in Constraint(Types)
      PROVE  /\ DOMAIN Unify(Parent, pair).parent \subseteq Types
             /\ Unify(Parent, pair).parts \in Calls
  BY <1>1, <1>2, UnifyKeepsTypes
<1>5. CASE /\ pending = << >> /\ Constraints # << >>
           /\ Parent' = Unify(Parent, Head(Constraints)).parent
           /\ pending' = Unify(Parent, Head(Constraints)).parts
           /\ Constraints' = Tail(Constraints)
           /\ program' = program
  BY <1>1, <1>3, <1>4, <1>5 DEF TypesInv
<1>6. CASE /\ pending # << >>
           /\ Parent' = Unify(Parent, Head(pending)).parent
           /\ pending' = Unify(Parent, Head(pending)).parts \o Tail(pending)
           /\ UNCHANGED << program, Constraints >>
  <2>1. pending' \in Calls
    <3> DEFINE C == Constraint(Types)
               parts == Unify(Parent, Head(pending)).parts
               rest == Tail(pending)
    <3>1. parts \in Seq(C) /\ rest \in Seq(C)
      BY <1>1, <1>3, <1>4, <1>6
    <3>2. pending' = parts \o rest
      BY <1>6
    <3> HIDE DEF C, parts, rest
    <3>3. parts \o rest \in Seq(C)
      BY <3>1
    <3> QED
      BY <3>2, <3>3 DEF C
  <2>2. DOMAIN Parent' \subseteq Types
    BY <1>1, <1>3, <1>4, <1>6
  <2> QED
    BY <1>1, <1>6, <2>1, <2>2 DEF TypesInv
<1>7. CASE UNCHANGED << program, Constraints, Parent, pending >>
  BY <1>1, <1>7 DEF TypesInv
<1> QED
  BY <1>5, <1>6, <1>7, Steps

\* The two sides of a constraint are in one class.
Same(parent, pair) ==
    /\ pair[1] \in DOMAIN parent /\ pair[2] \in DOMAIN parent
    /\ Representatives(parent)[pair[1]] = Representatives(parent)[pair[2]]

\* Each constraint of the system is solved or still to be solved.
SolvedInv ==
    /\ result # "false" =>
          \A n \in DOMAIN Systems[program] :
              \/ Same(Parent, Systems[program][n])
              \/ \E m \in DOMAIN Constraints : Constraints[m] = Systems[program][n]
    /\ result = "true" => Constraints = << >>

LEMMA UnifyMakesSame ==
    ASSUME NEW parent, NEW pair, Grounded(parent),
           LET r1 == RepresentativeOf(parent, pair[1])
               r2 == RepresentativeOf(parent, pair[2])
           IN  r1 = r2 \/ CanJoin(r1, r2)
    PROVE  Same(Unify(parent, pair).parent, pair)
<1> DEFINE joined == Unify(parent, pair).parent
           r1 == RepresentativeOf(parent, pair[1])
           r2 == RepresentativeOf(parent, pair[2])
<1>1. /\ DOMAIN joined = DOMAIN parent \cup {pair[1], pair[2]}
      /\ r1 # r2 => Joins(parent, joined, r1, r2)
      /\ r1 = r2 => SameClasses(parent, joined)
  BY UnifyFacts
<1> HIDE DEF joined
<1>2. CASE r1 # r2
  <2>1. PICK a \in {r1, r2}, b \in {r1, r2} :
            /\ \A t \in DOMAIN joined :
                  Representatives(joined)[t] =
                      IF RepresentativeOf(parent, t) = a THEN b ELSE RepresentativeOf(parent, t)
            /\ a # b
    BY <1>1, <1>2 DEF Joins
  <2>2. Representatives(joined)[pair[1]] = b /\ Representatives(joined)[pair[2]] = b
    BY <1>1, <1>2, <2>1
  <2> QED
    BY <1>1, <2>2 DEF Same, joined
<1>3. CASE r1 = r2
  BY <1>1, <1>3 DEF SameClasses, RepresentativeOf, Same, joined
<1> QED
  BY <1>2, <1>3

LEMMA UnifyKeepsSame ==
    ASSUME NEW parent, NEW pair, Grounded(parent), NEW other, Same(parent, other)
    PROVE  Same(Unify(parent, pair).parent, other)
<1>1. DOMAIN parent \subseteq DOMAIN Unify(parent, pair).parent
  BY UnifyFacts
<1> QED
  BY <1>1, UnifyKeepsClasses DEF Same

LEMMA SolvedNext ==
    ASSUME NEW Types, SystemsAreOver(Types)
    PROVE  Grounded(Parent) /\ TypesInv(Types) /\ SolvedInv /\ [Next]_vars => SolvedInv'
<1> SUFFICES ASSUME Grounded(Parent), TypesInv(Types), SolvedInv, [Next]_vars
             PROVE  SolvedInv'
  OBVIOUS
<1>1. CASE /\ Constraints # << >> /\ result = "none"
           /\ Parent' = Unify(Parent, Head(Constraints)).parent
           /\ result' = IF Unify(Parent, Head(Constraints)).ok THEN "none" ELSE "false"
           /\ Constraints' = Tail(Constraints)
           /\ program' = program
  <2> SUFFICES ASSUME result' # "false", NEW n \in DOMAIN Systems[program],
                      ~ (\E m \in DOMAIN Constraints' : Constraints'[m] = Systems[program][n])
               PROVE  Same(Parent', Systems[program][n])
    BY <1>1 DEF SolvedInv
  <2>1. Same(Parent', Head(Constraints))
    BY <1>1, UnifyFacts, UnifyMakesSame
  <2>2. Same(Parent, Systems[program][n]) => Same(Parent', Systems[program][n])
    BY <1>1, UnifyKeepsSame
  <2>3. ASSUME NEW m \in DOMAIN Constraints, Constraints[m] = Systems[program][n]
        PROVE  Constraints[m] = Head(Constraints)
    <3> DEFINE C == Constraint(Types)
    <3>1. Constraints \in Seq(C)
      BY DEF TypesInv
    <3> HIDE DEF C
    <3>2. Constraints' = Tail(Constraints) /\ Constraints # << >>
      BY <1>1
    <3>3. m # 1 => m - 1 \in DOMAIN Tail(Constraints) /\ Tail(Constraints)[m - 1] = Constraints[m]
      BY <3>1, <3>2
    <3>4. m = 1
      BY <2>3, <3>2, <3>3
    <3> QED
      BY <3>1, <3>2, <3>4
  <2> QED
    BY <1>1, <2>1, <2>2, <2>3 DEF SolvedInv
<1>2. CASE /\ Parent' = Unify(Parent, Head(pending)).parent
           /\ UNCHANGED << program, Constraints, result >>
  BY <1>2, UnifyKeepsSame DEF SolvedInv
<1>3. CASE /\ UNCHANGED << program, Constraints, Parent, pending >>
           /\ \/ result' = result
              \/ result = "none" /\ result' = "true" /\ Constraints = << >>
  BY <1>3 DEF SolvedInv
<1> QED
  BY <1>1, <1>2, <1>3, Steps

\* When the analysis accepts a program, all its constraints hold between the classes,
\* those solved first included.
THEOREM AcceptedProgramsAreSolved ==
    (\E Types : SystemsAreOver(Types)) => (Spec => []AcceptedIsSolved)
<1> SUFFICES ASSUME NEW Types, SystemsAreOver(Types) PROVE Spec => []AcceptedIsSolved
  OBVIOUS
<1>1. Init => SolvedInv
  BY DEF Init, SolvedInv
<1>2. Init => TypesInv(Types)
  BY TypesInit
<1>3. Grounded(Parent) /\ TypesInv(Types) /\ [Next]_vars => TypesInv(Types)'
  BY TypesNext DEF SystemsAreOver
<1>4. Grounded(Parent) /\ TypesInv(Types) /\ SolvedInv /\ [Next]_vars => SolvedInv'
  BY SolvedNext
<1>5. SolvedInv => AcceptedIsSolved
  BY DEF SolvedInv, AcceptedIsSolved, Same
<1> QED
  BY <1>1, <1>2, <1>3, <1>4, <1>5, ParentsLeadToRepresentatives, PTL DEF Spec

-------------------------------------------------------------------------------
(* The parts of equal types *)

CallsOf(calls) == { calls[n] : n \in DOMAIN calls }

LEMMA HeadAndTailCalls ==
    ASSUME NEW C, NEW calls \in Seq(C), calls # << >>
    PROVE  CallsOf(calls) = {Head(calls)} \cup CallsOf(Tail(calls))
<1>1. /\ DOMAIN calls = 1 .. Len(calls) /\ Len(calls) \in Nat \ {0}
      /\ DOMAIN Tail(calls) = 1 .. Len(calls) - 1
      /\ \A n \in 1 .. Len(calls) - 1 : Tail(calls)[n] = calls[n + 1]
      /\ Head(calls) = calls[1]
  OBVIOUS
<1>2. ASSUME NEW n \in DOMAIN calls
      PROVE  calls[n] \in {Head(calls)} \cup CallsOf(Tail(calls))
  <2>1. CASE n = 1
    BY <1>1, <2>1
  <2>2. CASE n # 1
    <3>1. n - 1 \in DOMAIN Tail(calls) /\ Tail(calls)[n - 1] = calls[n]
      BY <1>1, <2>2
    <3> QED
      BY <3>1 DEF CallsOf
  <2> QED
    BY <2>1, <2>2
<1>3. ASSUME NEW n \in DOMAIN Tail(calls)
      PROVE  Tail(calls)[n] \in CallsOf(calls)
  <2>1. n + 1 \in DOMAIN calls /\ Tail(calls)[n] = calls[n + 1]
    BY <1>1
  <2> QED
    BY <2>1 DEF CallsOf
<1>4. Head(calls) \in CallsOf(calls)
  BY <1>1 DEF CallsOf
<1> QED
  BY <1>2, <1>3, <1>4 DEF CallsOf

LEMMA JoinedCalls ==
    ASSUME NEW C, NEW p \in Seq(C), NEW q \in Seq(C)
    PROVE  CallsOf(p \o q) = CallsOf(p) \cup CallsOf(q)
<1> DEFINE both == p \o q
<1>1. /\ DOMAIN p = 1 .. Len(p) /\ DOMAIN q = 1 .. Len(q) /\ Len(p) \in Nat /\ Len(q) \in Nat
      /\ DOMAIN both = 1 .. Len(p) + Len(q)
      /\ \A n \in 1 .. Len(p) + Len(q) : both[n] = IF n <= Len(p) THEN p[n] ELSE q[n - Len(p)]
  OBVIOUS
<1> HIDE DEF both
<1>2. ASSUME NEW n \in DOMAIN both
      PROVE  both[n] \in CallsOf(p) \cup CallsOf(q)
  <2>1. CASE n <= Len(p)
    BY <1>1, <2>1 DEF CallsOf
  <2>2. CASE ~ (n <= Len(p))
    <3>1. n - Len(p) \in DOMAIN q /\ both[n] = q[n - Len(p)]
      BY <1>1, <2>2
    <3> QED
      BY <3>1 DEF CallsOf
  <2> QED
    BY <2>1, <2>2
<1>3. ASSUME NEW n \in DOMAIN p PROVE p[n] \in CallsOf(both)
  <2>1. n \in DOMAIN both /\ both[n] = p[n]
    BY <1>1
  <2> QED
    BY <2>1 DEF CallsOf
<1>4. ASSUME NEW n \in DOMAIN q PROVE q[n] \in CallsOf(both)
  <2>1. n + Len(p) \in DOMAIN both /\ both[n + Len(p)] = q[n]
    BY <1>1
  <2> QED
    BY <2>1 DEF CallsOf
<1>5. CallsOf(both) = CallsOf(p) \cup CallsOf(q)
  BY <1>2, <1>3, <1>4 DEF CallsOf
<1> QED
  BY <1>5 DEF both

\* The nested calls are for the components of the two types.
LEMMA PartsAreComponents ==
    ASSUME NEW Types, HasParts(Types), NEW r1 \in Types, NEW r2 \in Types,
           CanJoin(r1, r2), ~ IsVar(r1), ~ IsVar(r2)
    PROVE  CallsOf(PartsOf(r1, r2)) = Components(r1, r2)
<1>1. CASE IsPointerLike(r1)
  BY <1>1 DEF PartsOf, Components, CallsOf
<1>2. CASE ~ IsPointerLike(r1)
  <2>1. /\ r1.params \in Seq(Types) /\ r1.ret \in Types
        /\ r2.params \in Seq(Types) /\ r2.ret \in Types
        /\ Len(r1.params) = Len(r2.params)
    BY <1>2 DEF CanJoin, HasParts
  <2> DEFINE params == [n \in DOMAIN r1.params |-> << r1.params[n], r2.params[n] >>]
             last   == << << r1.ret, r2.ret >> >>
  <2>2. params \in Seq(Types \X Types) /\ last \in Seq(Types \X Types)
    BY <2>1
  <2>3. PartsOf(r1, r2) = params \o last
    BY <1>2 DEF PartsOf
  <2>4. CallsOf(params) = { << r1.params[n], r2.params[n] >> : n \in DOMAIN r1.params }
    BY DEF CallsOf
  <2>5. CallsOf(last) = { << r1.ret, r2.ret >> }
    BY DEF CallsOf
  <2>6. Components(r1, r2) = CallsOf(params) \cup CallsOf(last)
    BY <1>2, <2>4, <2>5 DEF Components
  <2> HIDE DEF params, last
  <2>7. CallsOf(params \o last) = CallsOf(params) \cup CallsOf(last)
    BY <2>2, JoinedCalls
  <2> QED
    BY <2>3, <2>6, <2>7
<1> QED
  BY <1>1, <1>2

\* The components of types of one shape compose, and turn round.
LEMMA ComponentsCompose ==
    ASSUME NEW Types, HasParts(Types), NEW t \in Types, NEW a \in Types, NEW b \in Types,
           ~ IsVar(a), ~ IsVar(b), SameShape(t, a), CanJoin(a, b),
           NEW pair \in Components(t, b)
    PROVE  \E y : << pair[1], y >> \in Components(t, a) /\ << y, pair[2] >> \in Components(a, b)
<1>1. CASE IsPointerLike(a)
  <2>1. IsPointerLike(t)
    BY <1>1 DEF SameShape, IsPointerLike
  <2>2. pair = << t.elem, b.elem >>
    BY <2>1 DEF Components
  <2>3. << t.elem, a.elem >> \in Components(t, a) /\ << a.elem, b.elem >> \in Components(a, b)
    BY <1>1, <2>1 DEF Components
  <2>4. pair[1] = t.elem /\ pair[2] = b.elem
    BY <2>2
  <2> QED
    BY <2>3, <2>4
<1>2. CASE ~ IsPointerLike(a)
  <2>1. /\ t.kind = "function" /\ a.kind = "function" /\ b.kind = "function"
        /\ Len(t.params) = Len(a.params) /\ Len(a.params) = Len(b.params)
    BY <1>2 DEF SameShape, CanJoin
  <2>2. ~ IsPointerLike(t)
    BY <2>1 DEF IsPointerLike
  <2>3. DOMAIN t.params = DOMAIN a.params
    <3>1. t.params \in Seq(Types) /\ a.params \in Seq(Types)
      BY <2>1 DEF HasParts
    <3> QED
      BY <2>1, <3>1
  <2>4. CASE pair = << t.ret, b.ret >>
    <3>1. << t.ret, a.ret >> \in Components(t, a) /\ << a.ret, b.ret >> \in Components(a, b)
      BY <1>2, <2>2 DEF Components
    <3>2. pair[1] = t.ret /\ pair[2] = b.ret
      BY <2>4
    <3> QED
      BY <3>1, <3>2
  <2>5. CASE \E n \in DOMAIN t.params : pair = << t.params[n], b.params[n] >>
    <3>1. PICK n \in DOMAIN t.params : pair = << t.params[n], b.params[n] >>
      BY <2>5
    <3>2. << t.params[n], a.params[n] >> \in Components(t, a)
      BY <2>2 DEF Components
    <3>3. << a.params[n], b.params[n] >> \in Components(a, b)
      BY <1>2, <2>3 DEF Components
    <3>4. pair[1] = t.params[n] /\ pair[2] = b.params[n]
      BY <3>1
    <3> QED
      BY <3>2, <3>3, <3>4
  <2> QED
    BY <2>2, <2>4, <2>5 DEF Components
<1> QED
  BY <1>1, <1>2

LEMMA ComponentsTurn ==
    ASSUME NEW Types, HasParts(Types), NEW a \in Types, NEW b \in Types,
           ~ IsVar(a), ~ IsVar(b), CanJoin(a, b), NEW x, NEW y, << x, y >> \in Components(a, b)
    PROVE  << y, x >> \in Components(b, a)
<1>1. CASE IsPointerLike(a)
  BY <1>1 DEF Components, CanJoin, IsPointerLike
<1>2. CASE ~ IsPointerLike(a)
  <2>1. /\ a.kind = "function" /\ b.kind = "function" /\ Len(a.params) = Len(b.params)
    BY <1>2 DEF CanJoin
  <2>2. DOMAIN a.params = DOMAIN b.params
    <3>1. a.params \in Seq(Types) /\ b.params \in Seq(Types)
      BY <2>1 DEF HasParts
    <3> QED
      BY <2>1, <3>1
  <2>3. ~ IsPointerLike(b)
    BY <2>1 DEF IsPointerLike
  <2>4. CASE << x, y >> = << a.ret, b.ret >>
    BY <2>3, <2>4 DEF Components
  <2>5. CASE \E n \in DOMAIN a.params : << x, y >> = << a.params[n], b.params[n] >>
    BY <2>2, <2>3, <2>5 DEF Components
  <2> QED
    BY <1>2, <2>4, <2>5 DEF Components
<1> QED
  BY <1>1, <1>2

\* Types of one class that do not fit together are never made to fit.
Misfits(parent) ==
    \E t, s \in DOMAIN parent : Misfit(Representatives(parent), t, s)

LEMMA MismatchStays ==
    ASSUME NEW x, NEW y, NEW x1, NEW y1, x # y, ~ CanJoin(x, y),
           Resembles(x, x1), Resembles(y, y1)
    PROVE  x1 # y1 /\ ~ CanJoin(x1, y1)
BY DEF CanJoin, Resembles, IsVar, IsPointerLike

LEMMA MisfitsRemain ==
    ASSUME NEW parent, NEW pair, Grounded(parent), Misfits(parent)
    PROVE  Misfits(Unify(parent, pair).parent)
<1> DEFINE joined == Unify(parent, pair).parent
           rep == Representatives(parent)
           new == Representatives(joined)
<1>1. /\ DOMAIN parent \subseteq DOMAIN joined
      /\ DOMAIN rep = DOMAIN parent /\ DOMAIN new = DOMAIN joined
  BY UnifyFacts, RepresentativeFacts
<1>2. \A t \in DOMAIN parent : new[t] = new[rep[t]]
  BY UnifyKeepsClasses
<1>3. \A t \in DOMAIN parent : Resembles(rep[t], new[t])
  BY <1>1, UnifyResembles DEF RepresentativeOf
<1>4. PICK t \in DOMAIN parent, s \in DOMAIN parent : Misfit(rep, t, s)
  BY DEF Misfits
<1> HIDE DEF joined, rep, new
<1>5. /\ rep[t] = rep[s] /\ t # s /\ ~ IsVar(t) /\ ~ IsVar(s)
      /\ \/ DifferentLengths(t, s)
         \/ \E part \in Components(t, s) :
               /\ {part[1], part[2]} \subseteq DOMAIN rep
               /\ rep[part[1]] # rep[part[2]]
               /\ ~ CanJoin(rep[part[1]], rep[part[2]])
  BY <1>4 DEF Misfit
<1>6. new[t] = new[s]
  BY <1>2, <1>5
<1>7. ASSUME NEW part \in Components(t, s),
             {part[1], part[2]} \subseteq DOMAIN rep,
             rep[part[1]] # rep[part[2]],
             ~ CanJoin(rep[part[1]], rep[part[2]])
      PROVE  /\ {part[1], part[2]} \subseteq DOMAIN new
             /\ new[part[1]] # new[part[2]]
             /\ ~ CanJoin(new[part[1]], new[part[2]])
  <2>1. Resembles(rep[part[1]], new[part[1]]) /\ Resembles(rep[part[2]], new[part[2]])
    BY <1>1, <1>3, <1>7
  <2> QED
    BY <1>1, <1>7, <2>1, MismatchStays
<1>8. Misfit(new, t, s)
  BY <1>5, <1>6, <1>7 DEF Misfit
<1> QED
  BY <1>1, <1>8 DEF Misfits, new, joined

\* Each call still to be made is for the components of two types of one class.
CallsAreParts(parent, calls) ==
    \A c \in calls : \E t, s \in DOMAIN parent :
        /\ Representatives(parent)[t] = Representatives(parent)[s]
        /\ t # s /\ ~ IsVar(t) /\ ~ IsVar(s)
        /\ c \in Components(t, s)

LEMMA CallsRemainParts ==
    ASSUME NEW parent, NEW pair, Grounded(parent), NEW calls, CallsAreParts(parent, calls)
    PROVE  CallsAreParts(Unify(parent, pair).parent, calls)
<1>1. DOMAIN parent \subseteq DOMAIN Unify(parent, pair).parent
  BY UnifyFacts
<1> QED
  BY <1>1, UnifyKeepsClasses DEF CallsAreParts

\* The two representatives end up in one class.
LEMMA RepresentativesJoin ==
    ASSUME NEW parent, NEW pair, Grounded(parent),
           LET r1 == RepresentativeOf(parent, pair[1])
               r2 == RepresentativeOf(parent, pair[2])
           IN  r1 # r2 /\ CanJoin(r1, r2)
    PROVE  LET r1 == RepresentativeOf(parent, pair[1])
               r2 == RepresentativeOf(parent, pair[2])
               joined == Unify(parent, pair).parent
           IN  /\ r1 \in DOMAIN joined /\ r2 \in DOMAIN joined
               /\ Representatives(joined)[r1] = Representatives(joined)[r2]
<1> DEFINE r1 == RepresentativeOf(parent, pair[1])
           r2 == RepresentativeOf(parent, pair[2])
           joined == Unify(parent, pair).parent
<1>1. DOMAIN joined = DOMAIN parent \cup {pair[1], pair[2]} /\ Joins(parent, joined, r1, r2)
  BY UnifyFacts
<1>2. \A t \in DOMAIN joined :
          /\ RepresentativeOf(parent, t) \in DOMAIN joined
          /\ RepresentativeOf(parent, RepresentativeOf(parent, t)) = RepresentativeOf(parent, t)
  BY <1>1, RepresentativeFacts DEF RepresentativeOf, Roots
<1>3. /\ r1 \in DOMAIN joined /\ r2 \in DOMAIN joined
      /\ RepresentativeOf(parent, r1) = r1 /\ RepresentativeOf(parent, r2) = r2
  BY <1>1, <1>2
<1> HIDE DEF r1, r2, joined
<1>4. PICK a \in {r1, r2}, b \in {r1, r2} :
          /\ \A t \in DOMAIN joined :
                Representatives(joined)[t] =
                    IF RepresentativeOf(parent, t) = a THEN b ELSE RepresentativeOf(parent, t)
          /\ a # b
  BY <1>1 DEF Joins
<1>5. Representatives(joined)[r1] = b /\ Representatives(joined)[r2] = b
  BY <1>3, <1>4
<1> QED
  BY <1>3, <1>5 DEF r1, r2, joined

LEMMA NewCallsAreParts ==
    ASSUME NEW Types, HasParts(Types), NEW parent, Grounded(parent),
           DOMAIN parent \subseteq Types, NEW pair \in Constraint(Types)
    PROVE  CallsAreParts(Unify(parent, pair).parent, CallsOf(Unify(parent, pair).parts))
<1> DEFINE r1 == RepresentativeOf(parent, pair[1])
           r2 == RepresentativeOf(parent, pair[2])
           outcome == Unify(parent, pair)
<1>1. r1 \in Types /\ r2 \in Types
  BY RepresentativesAreTypes DEF Constraint
<1>2. outcome.parts =
          IF r1 # r2 /\ CanJoin(r1, r2) /\ ~ DifferentLengths(r1, r2)
          THEN PartsOf(r1, r2) ELSE << >>
  BY UnifyFacts
<1>3. CASE r1 # r2 /\ CanJoin(r1, r2) /\ ~ IsVar(r1) /\ ~ IsVar(r2)
  <2>1. /\ r1 \in DOMAIN outcome.parent /\ r2 \in DOMAIN outcome.parent
        /\ Representatives(outcome.parent)[r1] = Representatives(outcome.parent)[r2]
    BY <1>3, RepresentativesJoin
  <2>2. CallsOf(PartsOf(r1, r2)) = Components(r1, r2)
    BY <1>1, <1>3, PartsAreComponents
  <2>3. CallsOf(outcome.parts) \subseteq Components(r1, r2)
    BY <1>2, <2>2 DEF CallsOf
  <2> HIDE DEF r1, r2, outcome
  <2> QED
    BY <1>3, <2>1, <2>3 DEF CallsAreParts, outcome
<1>4. CASE ~ (r1 # r2 /\ CanJoin(r1, r2) /\ ~ IsVar(r1) /\ ~ IsVar(r2))
  <2>1. outcome.parts = << >>
    BY <1>2, <1>4 DEF PartsOf
  <2> HIDE DEF r1, r2, outcome
  <2>2. CallsOf(outcome.parts) = {}
    BY <2>1 DEF CallsOf
  <2> QED
    BY <2>2 DEF CallsAreParts, outcome
<1> QED
  BY <1>3, <1>4

\* An ignored failure leaves a misfit behind: arrays of different lengths, or the
\* parts that could not be joined.
LEMMA FailureIsAMisfit ==
    ASSUME NEW parent, NEW pair, Grounded(parent),
           LET r1 == RepresentativeOf(parent, pair[1])
               r2 == RepresentativeOf(parent, pair[2])
           IN  r1 # r2 /\ (CanJoin(r1, r2) => DifferentLengths(r1, r2)),
           CallsAreParts(parent, {pair}) \/
               CanJoin(RepresentativeOf(parent, pair[1]), RepresentativeOf(parent, pair[2]))
    PROVE  Misfits(Unify(parent, pair).parent)
<1> DEFINE r1 == RepresentativeOf(parent, pair[1])
           r2 == RepresentativeOf(parent, pair[2])
           joined == Unify(parent, pair).parent
           new == Representatives(joined)
<1>1. DOMAIN new = DOMAIN joined /\ DOMAIN joined = DOMAIN parent \cup {pair[1], pair[2]}
  BY UnifyFacts, RepresentativeFacts
<1>2. CASE CanJoin(r1, r2)
  <2>1. r1 \in DOMAIN joined /\ r2 \in DOMAIN joined /\ new[r1] = new[r2]
    BY <1>2, RepresentativesJoin
  <2>2. DifferentLengths(r1, r2)
    BY <1>2
  <2>3. ~ IsVar(r1) /\ ~ IsVar(r2) /\ r1 # r2
    BY <2>2 DEF DifferentLengths, IsVar
  <2> HIDE DEF r1, r2, joined, new
  <2>4. Misfit(new, r1, r2)
    BY <2>1, <2>2, <2>3 DEF Misfit
  <2> QED
    BY <2>1, <2>4 DEF Misfits, new, joined
<1>3. CASE ~ CanJoin(r1, r2)
  <2>1. SameClasses(parent, joined)
    BY <1>3, UnifyFacts
  <2>2. new[pair[1]] = r1 /\ new[pair[2]] = r2
    BY <1>1, <2>1 DEF SameClasses, RepresentativeOf
  <2>3. PICK t \in DOMAIN parent, s \in DOMAIN parent :
            /\ Representatives(parent)[t] = Representatives(parent)[s]
            /\ t # s /\ ~ IsVar(t) /\ ~ IsVar(s)
            /\ pair \in Components(t, s)
    BY <1>3 DEF CallsAreParts
  <2>4. new[t] = new[s]
    BY <2>3, UnifyKeepsClasses
  <2>5. r1 # r2
    OBVIOUS
  <2> HIDE DEF r1, r2, joined, new
  <2>6. Misfit(new, t, s)
    BY <1>1, <1>3, <2>2, <2>3, <2>4, <2>5 DEF Misfit
  <2> QED
    BY <1>1, <2>6 DEF Misfits, new, joined
<1> QED
  BY <1>2, <1>3

\* A labelling that is the same within each class and for both types of each call.
Respects(f, parent, calls) ==
    /\ \A t \in DOMAIN parent : f[t] = f[Representatives(parent)[t]]
    /\ \A c \in calls : f[c[1]] = f[c[2]]

KnownTo(parent, calls, x) == x \in DOMAIN parent \/ \E c \in calls : x = c[1] \/ x = c[2]

\* Two types that are in one class, or will be once the calls are made: no labelling
\* tells them apart.
Linked(parent, calls, x, y) ==
    /\ KnownTo(parent, calls, x) /\ KnownTo(parent, calls, y)
    /\ \A f : Respects(f, parent, calls) => f[x] = f[y]

PartsLinked(parent, calls) ==
    \A t \in DOMAIN parent :
        t # Representatives(parent)[t] /\ ~ IsVar(t) =>
            \A part \in Components(t, Representatives(parent)[t]) :
                Linked(parent, calls, part[1], part[2])

LEMMA LinksRemain ==
    ASSUME NEW parent, NEW pair, Grounded(parent), NEW calls, NEW more,
           calls \subseteq {pair} \cup more,
           pair \in calls => Same(Unify(parent, pair).parent, pair),
           NEW x, NEW y, Linked(parent, calls, x, y)
    PROVE  Linked(Unify(parent, pair).parent, more, x, y)
<1> DEFINE joined == Unify(parent, pair).parent
           rep == Representatives(parent)
           new == Representatives(joined)
<1>1. DOMAIN joined = DOMAIN parent \cup {pair[1], pair[2]}
  BY UnifyFacts
<1>2. \A t \in DOMAIN parent : rep[t] \in DOMAIN parent /\ new[t] = new[rep[t]]
  BY UnifyKeepsClasses, RepresentativeFacts DEF Roots
<1>3. pair \in calls => new[pair[1]] = new[pair[2]]
  BY DEF Same
<1> HIDE DEF joined, rep, new
<1>4. ASSUME NEW f, Respects(f, joined, more)
      PROVE  Respects(f, parent, calls)
  <2>1. \A t \in DOMAIN joined : f[t] = f[new[t]]
    BY <1>4 DEF Respects, new
  <2>2. \A t \in DOMAIN parent : f[t] = f[rep[t]]
    BY <1>1, <1>2, <2>1
  <2>3. ASSUME NEW c \in calls PROVE f[c[1]] = f[c[2]]
    <3>1. CASE c = pair
      BY <1>1, <1>3, <2>1, <2>3, <3>1
    <3>2. CASE c # pair
      BY <1>4, <2>3, <3>2 DEF Respects
    <3> QED
      BY <3>1, <3>2
  <2> QED
    BY <2>2, <2>3 DEF Respects, rep
<1>5. ASSUME NEW z, KnownTo(parent, calls, z) PROVE KnownTo(joined, more, z)
  BY <1>1, <1>5 DEF KnownTo
<1> QED
  BY <1>4, <1>5 DEF Linked, joined

LEMMA PartsStayLinked ==
    ASSUME NEW Types, HasParts(Types), NEW parent, Grounded(parent), Uniform(parent),
           DOMAIN parent \subseteq Types, NEW pair \in Constraint(Types),
           NEW calls, NEW more, PartsLinked(parent, calls),
           calls \subseteq {pair} \cup more,
           CallsOf(Unify(parent, pair).parts) \subseteq more,
           LET r1 == RepresentativeOf(parent, pair[1])
               r2 == RepresentativeOf(parent, pair[2])
           IN  \/ r1 = r2
               \/ CanJoin(r1, r2) /\ ~ DifferentLengths(r1, r2)
               \/ ~ CanJoin(r1, r2) /\ pair \notin calls
    PROVE  PartsLinked(Unify(parent, pair).parent, more)
<1> DEFINE joined == Unify(parent, pair).parent
           new == Representatives(joined)
           r1 == RepresentativeOf(parent, pair[1])
           r2 == RepresentativeOf(parent, pair[2])
<1>1. DOMAIN joined = DOMAIN parent \cup {pair[1], pair[2]}
  BY UnifyFacts
<1>2. pair \in calls => Same(joined, pair)
  BY UnifyMakesSame
<1>3. ASSUME NEW x, NEW y, Linked(parent, calls, x, y)
      PROVE  Linked(joined, more, x, y)
  <2> HIDE DEF joined
  <2> QED
    BY <1>2, <1>3, LinksRemain DEF joined
<1>4. ASSUME NEW t \in DOMAIN joined, ~ IsVar(t), t # RepresentativeOf(parent, t),
             NEW part \in Components(t, RepresentativeOf(parent, t))
      PROVE  Linked(joined, more, part[1], part[2])
  <2>1. Linked(parent, calls, part[1], part[2])
    BY <1>4 DEF RepresentativeOf, PartsLinked
  <2> HIDE DEF joined
  <2> QED
    BY <1>3, <2>1
<1>5. CASE ~ (r1 # r2 /\ CanJoin(r1, r2))
  <2>1. \A t \in DOMAIN joined : new[t] = RepresentativeOf(parent, t)
    BY <1>5, UnifyFacts DEF SameClasses, RepresentativeOf
  <2> HIDE DEF joined, r1, r2
  <2> QED
    BY <1>4, <2>1 DEF PartsLinked, joined
<1>6. CASE r1 # r2 /\ CanJoin(r1, r2)
  <2>1. PICK a \in {r1, r2}, b \in {r1, r2} :
            /\ \A t \in DOMAIN joined :
                  new[t] = IF RepresentativeOf(parent, t) = a THEN b
                           ELSE RepresentativeOf(parent, t)
            /\ a # b
            /\ IsVar(b) => IsVar(a)
    BY <1>6, UnifyFacts DEF Joins
  <2>2. r1 \in Types /\ r2 \in Types
    BY RepresentativesAreTypes DEF Constraint
  <2>3. CallsOf(PartsOf(r1, r2)) \subseteq more
    BY <1>6, UnifyFacts
  <2>4. a \in Types /\ b \in Types /\ CanJoin(a, b)
    BY <1>6, <2>1, <2>2 DEF CanJoin
  <2>5. ASSUME ~ IsVar(a), NEW x, NEW y, << x, y >> \in Components(a, b)
        PROVE  Linked(joined, more, x, y)
    <3>1. ~ IsVar(b)
      BY <2>1, <2>5
    <3>2. CallsOf(PartsOf(r1, r2)) = Components(r1, r2)
      BY <1>6, <2>1, <2>2, <2>5, <3>1, PartsAreComponents
    <3>3. << x, y >> \in more \/ << y, x >> \in more
      <4>1. CASE a = r1 /\ b = r2
        BY <2>3, <2>5, <3>2, <4>1
      <4>2. CASE a = r2 /\ b = r1
        <5>1. << y, x >> \in Components(b, a)
          BY <2>4, <2>5, <3>1, ComponentsTurn
        <5> QED
          BY <2>3, <3>2, <4>2, <5>1
      <4> QED
        BY <2>1, <4>1, <4>2
    <3> DEFINE c == IF << x, y >> \in more THEN << x, y >> ELSE << y, x >>
    <3>4. c \in more /\ {c[1], c[2]} = {x, y}
      BY <3>3
    <3> HIDE DEF c, joined
    <3>5. \A f : f[c[1]] = f[c[2]] => f[x] = f[y]
      BY <3>4
    <3> QED
      BY <3>4, <3>5 DEF Linked, KnownTo, Respects
  <2> HIDE DEF r1, r2
  <2>6. ASSUME NEW t \in DOMAIN joined, ~ IsVar(t), t # new[t],
               NEW part \in Components(t, new[t])
        PROVE  Linked(joined, more, part[1], part[2])
    <3>1. CASE RepresentativeOf(parent, t) # a
      BY <1>4, <2>1, <2>6, <3>1
    <3>2. CASE RepresentativeOf(parent, t) = a
      <4>1. new[t] = b /\ SameShape(t, a)
        BY <2>1, <2>6, <3>2 DEF Uniform, RepresentativeOf, SameShape
      <4>2. ~ IsVar(a) /\ ~ IsVar(b)
        BY <2>1, <2>6, <4>1 DEF SameShape, IsVar, IsPointerLike
      <4>3. t \in Types
        BY <1>1 DEF Constraint
      <4>4. PICK y : /\ << part[1], y >> \in Components(t, a)
                     /\ << y, part[2] >> \in Components(a, b)
        BY <2>4, <2>6, <4>1, <4>2, <4>3, ComponentsCompose
      <4>5. Linked(joined, more, y, part[2])
        BY <2>5, <4>2, <4>4
      <4>6. CASE t = a
        <5>1. part \in Components(a, b)
          BY <2>6, <4>1, <4>6
        <5>2. part = << part[1], part[2] >>
          BY <5>1 DEF Components
        <5> QED
          BY <2>5, <4>2, <5>1, <5>2
      <4>7. CASE t # a
        <5> DEFINE first == << part[1], y >>
        <5>1. first \in Components(t, RepresentativeOf(parent, t)) /\ t # RepresentativeOf(parent, t)
          BY <3>2, <4>4, <4>7
        <5>2. Linked(joined, more, first[1], first[2])
          <6> HIDE DEF first, joined
          <6> QED
            BY <1>4, <2>6, <5>1
        <5>3. Linked(joined, more, part[1], y)
          BY <5>2
        <5> HIDE DEF joined
        <5> QED
          BY <4>5, <5>3 DEF Linked
      <4> QED
        BY <4>6, <4>7
    <3> QED
      BY <3>1, <3>2
  <2> QED
    BY <2>6 DEF PartsLinked
<1> QED
  BY <1>5, <1>6

\* The parts of a type and of its representative are linked, unless two types of one
\* class do not fit together.
PartsInv ==
    /\ CallsAreParts(Parent, CallsOf(pending))
    /\ Misfits(Parent) \/ PartsLinked(Parent, CallsOf(pending))

LEMMA PartsNext ==
    ASSUME NEW Types, SystemsAreOver(Types)
    PROVE  Grounded(Parent) /\ Uniform(Parent) /\ TypesInv(Types) /\ PartsInv /\ [Next]_vars
               => PartsInv'
<1> SUFFICES ASSUME Grounded(Parent), Uniform(Parent), TypesInv(Types), PartsInv, [Next]_vars
             PROVE  PartsInv'
  OBVIOUS
<1>1. HasParts(Types) /\ DOMAIN Parent \subseteq Types
  BY DEF SystemsAreOver, TypesInv
<1>2. ASSUME NEW pair \in Constraint(Types), NEW more,
             Parent' = Unify(Parent, pair).parent,
             CallsOf(pending') = CallsOf(Unify(Parent, pair).parts) \cup more,
             more \subseteq CallsOf(pending),
             CallsOf(pending) \subseteq {pair} \cup more
      PROVE  PartsInv'
  <2> DEFINE joined == Unify(Parent, pair).parent
             parts  == CallsOf(Unify(Parent, pair).parts)
             calls  == CallsOf(pending)
             r1     == RepresentativeOf(Parent, pair[1])
             r2     == RepresentativeOf(Parent, pair[2])
  <2>1. CallsAreParts(joined, calls)
    BY CallsRemainParts DEF PartsInv
  <2>2. CallsAreParts(joined, parts)
    BY <1>1, NewCallsAreParts
  <2>3. CallsAreParts(joined, parts \cup more)
    BY <1>2, <2>1, <2>2 DEF CallsAreParts
  <2>4. Misfits(Parent) => Misfits(joined)
    BY MisfitsRemain
  <2>5. CASE r1 # r2 /\ (CanJoin(r1, r2) => DifferentLengths(r1, r2))
             /\ (CanJoin(r1, r2) \/ pair \in calls)
    <3>1. CallsAreParts(Parent, {pair}) \/ CanJoin(r1, r2)
      BY <2>5 DEF PartsInv, CallsAreParts
    <3>2. Misfits(joined)
      BY <2>5, <3>1, FailureIsAMisfit
    <3> QED
      BY <1>2, <2>3, <3>2 DEF PartsInv
  <2>6. CASE \/ r1 = r2
             \/ CanJoin(r1, r2) /\ ~ DifferentLengths(r1, r2)
             \/ ~ CanJoin(r1, r2) /\ pair \notin calls
    <3>1. ASSUME PartsLinked(Parent, calls) PROVE PartsLinked(joined, parts \cup more)
      <4>1. parts \subseteq parts \cup more /\ calls \subseteq {pair} \cup (parts \cup more)
        BY <1>2
      <4> DEFINE all == parts \cup more
      <4>2. parts \subseteq all /\ calls \subseteq {pair} \cup all
        BY <4>1
      <4> HIDE DEF all
      <4>3. PartsLinked(joined, all)
        BY <1>1, <2>6, <3>1, <4>2, PartsStayLinked
      <4> QED
        BY <4>3 DEF all
    <3> QED
      BY <1>2, <2>3, <2>4, <3>1 DEF PartsInv
  <2> QED
    BY <2>5, <2>6
<1>3. CASE /\ pending = << >> /\ Constraints # << >>
           /\ Parent' = Unify(Parent, Head(Constraints)).parent
           /\ pending' = Unify(Parent, Head(Constraints)).parts
  <2>1. Head(Constraints) \in Constraint(Types)
    <3> DEFINE C == Constraint(Types)
    <3>1. Constraints \in Seq(C) /\ Constraints # << >>
      BY <1>3 DEF TypesInv
    <3> HIDE DEF C
    <3>2. Head(Constraints) \in C
      BY <3>1
    <3> QED
      BY <3>2 DEF C
  <2>2. CallsOf(pending) = {}
    BY <1>3 DEF CallsOf
  <2> QED
    BY <1>2, <1>3, <2>1, <2>2
<1>4. CASE /\ pending # << >>
           /\ Parent' = Unify(Parent, Head(pending)).parent
           /\ pending' = Unify(Parent, Head(pending)).parts \o Tail(pending)
  <2> DEFINE C == Constraint(Types)
             pair == Head(pending)
             rest == Tail(pending)
             parts == Unify(Parent, pair).parts
  <2>1. pending \in Seq(C) /\ pending # << >>
    BY <1>4 DEF TypesInv
  <2>2. pair \in C /\ rest \in Seq(C)
    <3> HIDE DEF C
    <3> QED
      BY <2>1
  <2>3. parts \in Seq(C)
    <3> HIDE DEF pair
    <3> QED
      BY <1>1, <2>2, UnifyKeepsTypes
  <2>4. CallsOf(pending) = {pair} \cup CallsOf(rest)
    BY <2>1, HeadAndTailCalls
  <2>5. CallsOf(parts \o rest) = CallsOf(parts) \cup CallsOf(rest)
    <3> HIDE DEF C, parts, rest
    <3> QED
      BY <2>2, <2>3, JoinedCalls
  <2>6. Parent' = Unify(Parent, pair).parent /\ pending' = parts \o rest
    BY <1>4
  <2> DEFINE more == CallsOf(rest)
  <2>7. /\ CallsOf(pending') = CallsOf(parts) \cup more
        /\ more \subseteq CallsOf(pending) /\ CallsOf(pending) \subseteq {pair} \cup more
    BY <2>4, <2>5, <2>6
  <2> HIDE DEF pair, more
  <2> QED
    BY <1>2, <2>2, <2>6, <2>7
<1>5. CASE UNCHANGED << Parent, pending >>
  BY <1>5 DEF PartsInv
<1> QED
  BY <1>3, <1>4, <1>5, Steps

\* Between two constraints the parts of a type and of its representative are in one
\* class, although they were never compared with each other, as long as no nested call
\* found two types that cannot be joined.
THEOREM EqualTypesHaveEqualParts ==
    (\E Types : SystemsAreOver(Types)) => (Spec => []PartsAreJoined)
<1> SUFFICES ASSUME NEW Types, SystemsAreOver(Types) PROVE Spec => []PartsAreJoined
  OBVIOUS
<1>1. Init => PartsInv
  BY DEF Init, PartsInv, PartsLinked, CallsAreParts, CallsOf
<1>2. Init => TypesInv(Types)
  BY TypesInit
<1>3. Grounded(Parent) /\ TypesInv(Types) /\ [Next]_vars => TypesInv(Types)'
  BY TypesNext DEF SystemsAreOver
<1>4. Grounded(Parent) /\ Uniform(Parent) /\ TypesInv(Types) /\ PartsInv /\ [Next]_vars
          => PartsInv'
  BY PartsNext
<1>5. Grounded(Parent) /\ PartsInv => PartsAreJoined
  <2> SUFFICES ASSUME Grounded(Parent), PartsInv, pending = << >>, ~ Misfits(Parent),
                      NEW t \in DOMAIN Parent, t # Representatives(Parent)[t], ~ IsVar(t),
                      NEW part \in Components(t, Representatives(Parent)[t])
               PROVE  /\ {part[1], part[2]} \subseteq DOMAIN Parent
                      /\ Representatives(Parent)[part[1]] = Representatives(Parent)[part[2]]
    BY RepresentativeFacts DEF PartsAreJoined, Misfits
  <2> DEFINE class == Representatives(Parent)
  <2>1. CallsOf(pending) = {}
    BY DEF CallsOf
  <2>2. Linked(Parent, {}, part[1], part[2])
    BY <2>1 DEF PartsInv, PartsLinked
  <2>3. \A s \in DOMAIN Parent : class[s] = class[class[s]]
    BY RepresentativeFacts DEF Roots
  <2>4. Respects(class, Parent, {})
    BY <2>3 DEF Respects
  <2> HIDE DEF class
  <2>5. class[part[1]] = class[part[2]]
    BY <2>2, <2>4 DEF Linked
  <2> QED
    BY <2>2, <2>5 DEF Linked, KnownTo, class
<1>6. Init => Uniform(Parent)
  BY DEF Init, Uniform
<1>7. Grounded(Parent) /\ Uniform(Parent) /\ [Next]_vars => Uniform(Parent)'
  BY UniformNext
<1> QED
  BY <1>1, <1>2, <1>3, <1>4, <1>5, <1>6, <1>7, ParentsLeadToRepresentatives, PTL DEF Spec

-------------------------------------------------------------------------------
(* Systems that have a solution *)

\* The value of a type is that of its class, and the two types of each call of unify
\* that is still to be made have one value.
ValueInv(value) ==
    /\ \A t \in DOMAIN Parent : value[t] = value[Representatives(Parent)[t]]
    /\ \A c \in CallsOf(pending) \cup CallsOf(Constraints) : value[c[1]] = value[c[2]]
    /\ result # "false"

\* Types of one value are joined without a failure, and so are their parts.
LEMMA UnifyKeepsValues ==
    ASSUME NEW value, HasParts(DOMAIN value), TellsMisfitsApart(value),
           NEW parent, Grounded(parent), DOMAIN parent \subseteq DOMAIN value,
           \A t \in DOMAIN parent : value[t] = value[Representatives(parent)[t]],
           NEW pair \in Constraint(DOMAIN value), value[pair[1]] = value[pair[2]]
    PROVE  LET outcome == Unify(parent, pair) IN
           /\ outcome.ok
           /\ \A c \in CallsOf(outcome.parts) : value[c[1]] = value[c[2]]
           /\ \A t \in DOMAIN outcome.parent :
                 value[t] = value[Representatives(outcome.parent)[t]]
<1> DEFINE outcome == Unify(parent, pair)
           joined == outcome.parent
           r1 == RepresentativeOf(parent, pair[1])
           r2 == RepresentativeOf(parent, pair[2])
<1>1. /\ DOMAIN joined = DOMAIN parent \cup {pair[1], pair[2]}
      /\ IF r1 # r2 /\ CanJoin(r1, r2) THEN Joins(parent, joined, r1, r2)
         ELSE SameClasses(parent, joined)
      /\ outcome.ok <=> r1 = r2 \/ (CanJoin(r1, r2) /\ ~ DifferentLengths(r1, r2))
      /\ outcome.parts =
            IF r1 # r2 /\ CanJoin(r1, r2) /\ ~ DifferentLengths(r1, r2)
            THEN PartsOf(r1, r2) ELSE << >>
  BY UnifyFacts
<1>2. pair[1] \in DOMAIN value /\ pair[2] \in DOMAIN value
  BY DEF Constraint
<1>3. \A t : value[t] = value[RepresentativeOf(parent, t)]
  BY DEF RepresentativeOf
<1>4. /\ r1 \in DOMAIN value /\ r2 \in DOMAIN value
      /\ value[r1] = value[r2]
  BY <1>2, <1>3, RepresentativesAreTypes
<1> HIDE DEF outcome, r1, r2
<1>5. CASE r1 = r2
  <2>1. SameClasses(parent, joined) /\ outcome.ok /\ outcome.parts = << >>
    BY <1>1, <1>5
  <2>2. \A t \in DOMAIN joined : value[t] = value[Representatives(joined)[t]]
    BY <1>3, <2>1 DEF SameClasses, RepresentativeOf
  <2>3. CallsOf(outcome.parts) = {}
    BY <2>1 DEF CallsOf
  <2> QED
    BY <2>1, <2>2, <2>3 DEF outcome
<1>6. CASE r1 # r2
  <2>1. CanJoin(r1, r2) /\ ~ DifferentLengths(r1, r2)
    BY <1>4, <1>6 DEF TellsMisfitsApart, CanJoin, SameShape, DifferentLengths, IsVar
  <2>2. PICK a \in {r1, r2}, b \in {r1, r2} :
            \A t \in DOMAIN joined :
                Representatives(joined)[t] =
                    IF RepresentativeOf(parent, t) = a THEN b ELSE RepresentativeOf(parent, t)
    BY <1>1, <1>6, <2>1 DEF Joins
  <2>3. \A t \in DOMAIN joined : value[t] = value[Representatives(joined)[t]]
    BY <1>3, <1>4, <2>2
  <2>4. outcome.ok /\ outcome.parts = PartsOf(r1, r2)
    BY <1>1, <1>6, <2>1
  <2>5. CASE IsVar(r1) \/ IsVar(r2)
    <3>1. CallsOf(outcome.parts) = {}
      BY <2>4, <2>5 DEF PartsOf, CallsOf
    <3> QED
      BY <2>3, <2>4, <3>1 DEF outcome
  <2>6. CASE ~ IsVar(r1) /\ ~ IsVar(r2)
    <3>1. CallsOf(outcome.parts) = Components(r1, r2)
      BY <1>4, <2>1, <2>4, <2>6, PartsAreComponents
    <3>2. \A c \in Components(r1, r2) : value[c[1]] = value[c[2]]
      BY <1>4, <1>6, <2>6 DEF TellsMisfitsApart
    <3> QED
      BY <2>3, <2>4, <3>1, <3>2 DEF outcome
  <2> QED
    BY <2>5, <2>6
<1> QED
  BY <1>5, <1>6

LEMMA ValueNext ==
    ASSUME NEW value, HasParts(DOMAIN value), TellsMisfitsApart(value),
           Grounded(Parent), TypesInv(DOMAIN value), ValueInv(value), [Next]_vars
    PROVE  ValueInv(value)'
<1> DEFINE C == Constraint(DOMAIN value)
<1>1. /\ DOMAIN Parent \subseteq DOMAIN value
      /\ Constraints \in Seq(C) /\ pending \in Seq(C)
      /\ \A t \in DOMAIN Parent : value[t] = value[Representatives(Parent)[t]]
      /\ result # "false"
  BY DEF TypesInv, ValueInv
<1>2. ASSUME NEW pair \in C, value[pair[1]] = value[pair[2]]
      PROVE  LET outcome == Unify(Parent, pair) IN
             /\ outcome.ok
             /\ outcome.parts \in Seq(C)
             /\ \A c \in CallsOf(outcome.parts) : value[c[1]] = value[c[2]]
             /\ \A t \in DOMAIN outcome.parent :
                   value[t] = value[Representatives(outcome.parent)[t]]
  BY <1>1, <1>2, UnifyKeepsValues, UnifyKeepsTypes
<1>3. ASSUME NEW calls \in Seq(C), calls # << >>,
             \A c \in CallsOf(calls) : value[c[1]] = value[c[2]]
      PROVE  /\ Head(calls) \in C /\ Tail(calls) \in Seq(C)
             /\ value[Head(calls)[1]] = value[Head(calls)[2]]
             /\ \A c \in CallsOf(Tail(calls)) : value[c[1]] = value[c[2]]
  <2> HIDE DEF C
  <2>1. Head(calls) \in C /\ Tail(calls) \in Seq(C)
    BY <1>3
  <2> QED
    BY <1>3, <2>1, HeadAndTailCalls
<1> HIDE DEF C
<1>4. CASE /\ pending = << >> /\ Constraints # << >> /\ result = "none"
           /\ Parent' = Unify(Parent, Head(Constraints)).parent
           /\ pending' = Unify(Parent, Head(Constraints)).parts
           /\ result' = IF Unify(Parent, Head(Constraints)).ok THEN "none" ELSE "false"
           /\ Constraints' = Tail(Constraints)
  BY <1>1, <1>2, <1>3, <1>4 DEF ValueInv
<1>5. CASE /\ pending # << >>
           /\ Parent' = Unify(Parent, Head(pending)).parent
           /\ pending' = Unify(Parent, Head(pending)).parts \o Tail(pending)
           /\ UNCHANGED << Constraints, result >>
  <2>1. \A c \in CallsOf(pending) : value[c[1]] = value[c[2]]
    BY DEF ValueInv
  <2> DEFINE parts == Unify(Parent, Head(pending)).parts
  <2>2. /\ parts \in Seq(C) /\ Tail(pending) \in Seq(C)
        /\ \A c \in CallsOf(parts) \cup CallsOf(Tail(pending)) : value[c[1]] = value[c[2]]
        /\ \A t \in DOMAIN Parent' : value[t] = value[Representatives(Parent')[t]]
    BY <1>1, <1>2, <1>3, <1>5, <2>1
  <2>3. pending' = parts \o Tail(pending)
    BY <1>5
  <2> HIDE DEF parts
  <2>4. CallsOf(pending') = CallsOf(parts) \cup CallsOf(Tail(pending))
    BY <2>2, <2>3, JoinedCalls
  <2> QED
    BY <1>1, <1>5, <2>2, <2>4 DEF ValueInv
<1>6. CASE /\ UNCHANGED << Constraints, Parent, pending >>
           /\ result' = result \/ result' = "true"
  BY <1>1, <1>6 DEF ValueInv
<1> QED
  BY <1>4, <1>5, <1>6, Steps

\* No system that has a solution is rejected, in whatever order its constraints come
\* and whatever array and pointer types they bring into one class.
THEOREM SolvableSystemsAreAccepted == Spec => []SolvableIsAccepted
<1> DEFINE Typed == program \in DOMAIN Solutions =>
                        /\ TypesInv(DOMAIN Solutions[program])
                        /\ ValueInv(Solutions[program])
<1>1. ASSUME NEW n \in DOMAIN Solutions
      PROVE  /\ HasParts(DOMAIN Solutions[n])
             /\ Systems[n] \in Seq(Constraint(DOMAIN Solutions[n]))
             /\ TellsMisfitsApart(Solutions[n])
             /\ \A k \in DOMAIN Systems[n] :
                    Solutions[n][Systems[n][k][1]] = Solutions[n][Systems[n][k][2]]
  BY SolutionsAssumption DEF Solves
<1>2. Init => Typed
  BY <1>1 DEF Init, TypesInv, ValueInv, CallsOf
<1>3. Grounded(Parent) /\ Typed /\ [Next]_vars => Typed'
  <2> SUFFICES ASSUME Grounded(Parent), Typed, [Next]_vars, program' \in DOMAIN Solutions
               PROVE  /\ TypesInv(DOMAIN Solutions[program])'
                      /\ ValueInv(Solutions[program])'
    OBVIOUS
  <2>1. program' = program
    BY Steps
  <2> DEFINE value == Solutions[program]
  <2>2. HasParts(DOMAIN value) /\ TellsMisfitsApart(value)
    BY <1>1, <2>1
  <2>3. TypesInv(DOMAIN value) /\ ValueInv(value)
    BY <2>1
  <2>4. PICK known : known = value
    OBVIOUS
  <2>5. TypesInv(DOMAIN known)' /\ ValueInv(known)'
    BY <2>2, <2>3, <2>4, TypesNext, ValueNext
  <2> QED
    BY <2>1, <2>4, <2>5 DEF TypesInv, ValueInv
<1>4. Typed => SolvableIsAccepted
  BY DEF ValueInv, SolvableIsAccepted
<1> QED
  BY <1>2, <1>3, <1>4, ParentsLeadToRepresentatives, PTL DEF Spec

===============================================================================
