----------------------------- MODULE HouseProofs -----------------------------
(***************************************************************************)
(* Proofs about the gold of the auction house, for any number of guilds,   *)
(* items, requests, settlers and auctions: what a guild has reserved is    *)
(* what its standing bids come to, no release or payment finds it gone,    *)
(* settlements neither make nor destroy gold, and the transactions         *)
(* together implement the abstract auction house.                          *)
(***************************************************************************)
EXTENDS BiddingProofs, FiniteSetTheorems

-----------------------------------------------------------------------------
(* Sums over finite sets.  A fold is a CHOOSE of a function that solves a  *)
(* recursive equation; induction over the finite sets goes by way of a     *)
(* least counterexample.                                                   *)

Solves(f, S, s) ==
    s = [U \in SUBSET S |-> IF U = {} THEN 0
                            ELSE LET x == CHOOSE x \in U : TRUE IN f[x] + s[U \ {x}]]

SumOver(f, S) == (CHOOSE s : Solves(f, S, s))[S]

(***************************************************************************)
(* Among subsets of a finite set there is a least one.                     *)
(***************************************************************************)
LEMMA LeastSet ==
    ASSUME NEW S, IsFiniteSet(S), NEW C \in SUBSET SUBSET S, C # {}
    PROVE  \E U \in C : \A V \in C : V \subseteq U => V = U
<1>1. SUBSET S = FiniteSubsetsOf(S)
  BY FS_FiniteSubsetsOfFinite
<1>2. IsWellFoundedOn(StrictSubsetOrdering(S), SUBSET S)
  BY <1>1, FS_StrictSubsetOrderingWellFounded
<1>3. PICK U \in C : \A V \in C : <<V, U>> \notin StrictSubsetOrdering(S)
  BY <1>2, WFMin
<1> QED
  BY <1>3 DEF StrictSubsetOrdering

(***************************************************************************)
(* Two solutions agree where the summed values do.                         *)
(***************************************************************************)
LEMMA SolutionsAgree ==
    ASSUME NEW S, NEW T, NEW f, NEW h, NEW r, NEW s, Solves(f, S, r), Solves(h, T, s),
           NEW U \in SUBSET (S \cap T), IsFiniteSet(U), \A x \in U : f[x] = h[x]
    PROVE  r[U] = s[U]
<1> DEFINE C == {V \in SUBSET U : r[V] # s[V]}
<1>1. SUFFICES ASSUME C # {} PROVE FALSE
  OBVIOUS
<1>2. PICK V \in C : \A W \in C : W \subseteq V => W = V
  <2>1. C \in SUBSET SUBSET U
    OBVIOUS
  <2> HIDE DEF C
  <2> QED
    BY <1>1, <2>1, LeastSet
<1>3. V \in SUBSET S /\ V \in SUBSET T
  OBVIOUS
<1>4. CASE V = {}
  BY <1>3, <1>4 DEF Solves
<1>5. CASE V # {}
  <2> DEFINE y == CHOOSE x \in V : TRUE
             W == V \ {y}
  <2>1. y \in V
    BY <1>5
  <2>2. r[V] = f[y] + r[W] /\ s[V] = h[y] + s[W]
    BY <1>3, <1>5 DEF Solves
  <2>3. W \notin C /\ W \in SUBSET U
    BY <1>2, <2>1
  <2>4. r[W] = s[W] /\ f[y] = h[y]
    BY <2>1, <2>3
  <2> QED
    BY <2>2, <2>4
<1> QED
  BY <1>4, <1>5

(***************************************************************************)
(* There is a solution: put together the solutions of all smaller sets.    *)
(***************************************************************************)
LEMMA SumExists ==
    ASSUME NEW f, NEW S, IsFiniteSet(S)
    PROVE  \E s : Solves(f, S, s)
<1> DEFINE C == {U \in SUBSET S : ~\E s : Solves(f, U, s)}
<1>1. SUFFICES ASSUME C # {} PROVE FALSE
  OBVIOUS
<1>2. PICK U \in C : \A V \in C : V \subseteq U => V = U
  <2>1. C \in SUBSET SUBSET S
    OBVIOUS
  <2> HIDE DEF C
  <2> QED
    BY <1>1, <2>1, LeastSet
<1> DEFINE sol(V) == CHOOSE s : Solves(f, V, s)
           val(V) == IF V = {} THEN 0
                     ELSE LET x == CHOOSE x \in V : TRUE IN f[x] + sol(V \ {x})[V \ {x}]
           w == [V \in SUBSET U |-> val(V)]
<1>3. \A V \in SUBSET U : V # U => Solves(f, V, sol(V))
  <2> TAKE V \in SUBSET U
  <2> HAVE V # U
  <2>1. V \notin C /\ V \in SUBSET S
    BY <1>2
  <2>2. \E s : Solves(f, V, s)
    BY <2>1
  <2> HIDE DEF C
  <2> QED
    BY <2>2
<1>4. ASSUME NEW V \in SUBSET U, V # U
      PROVE  sol(V)[V] = w[V]
  <2>1. Solves(f, V, sol(V))
    BY <1>3, <1>4
  <2>2. CASE V = {}
    BY <2>1, <2>2 DEF Solves
  <2>3. CASE V # {}
    <3> DEFINE y == CHOOSE x \in V : TRUE
               W == V \ {y}
    <3>1. y \in V /\ W \in SUBSET U /\ W # U
      BY <2>3
    <3>2. sol(V)[V] = f[y] + sol(V)[W]
      BY <2>1, <2>3 DEF Solves
    <3>3. w[V] = f[y] + sol(W)[W]
      BY <2>3
    <3>4. Solves(f, W, sol(W))
      BY <1>3, <3>1
    <3>5. IsFiniteSet(W) /\ W \in SUBSET (V \cap W)
      <4>1. W \in SUBSET S
        OBVIOUS
      <4> QED
        BY <4>1, FS_Subset
    <3> HIDE DEF sol, W
    <3>6. sol(V)[W] = sol(W)[W]
      BY <2>1, <3>4, <3>5, SolutionsAgree
    <3> QED
      BY <3>2, <3>3, <3>6
  <2> QED
    BY <2>2, <2>3
<1>5. Solves(f, U, w)
  <2>1. ASSUME NEW V \in SUBSET U, V # {}
        PROVE  LET x == CHOOSE x \in V : TRUE IN w[V] = f[x] + w[V \ {x}]
    <3> DEFINE y == CHOOSE x \in V : TRUE
               W == V \ {y}
    <3>1. y \in V /\ W \in SUBSET U /\ W # U
      BY <2>1
    <3>2. w[V] = f[y] + sol(W)[W]
      BY <2>1
    <3>3. sol(W)[W] = w[W]
      BY <1>4, <3>1
    <3> QED
      BY <3>2, <3>3
  <2>2. w[{}] = 0
    OBVIOUS
  <2>3. w = [V \in SUBSET U |-> w[V]]
    OBVIOUS
  <2> HIDE DEF w
  <2> QED
    BY <2>1, <2>2, <2>3 DEF Solves
<1> QED
  BY <1>2, <1>5

(***************************************************************************)
(* The sum is what any solution says.                                      *)
(***************************************************************************)
LEMMA SumIs ==
    ASSUME NEW f, NEW S, NEW U \in SUBSET S, IsFiniteSet(U), NEW s, Solves(f, S, s)
    PROVE  SumOver(f, U) = s[U]
<1> DEFINE r == CHOOSE v : Solves(f, U, v)
<1>1. Solves(f, U, r)
  BY SumExists
<1> HIDE DEF r
<1>2. r[U] = s[U]
  BY <1>1, SolutionsAgree
<1> QED
  BY <1>2 DEF SumOver, r

(***************************************************************************)
(* Only the values at the elements count.                                  *)
(***************************************************************************)
LEMMA SumSame ==
    ASSUME NEW f, NEW h, NEW S, IsFiniteSet(S), \A x \in S : f[x] = h[x]
    PROVE  SumOver(f, S) = SumOver(h, S)
<1>1. PICK r : Solves(f, S, r)
  BY SumExists
<1>2. PICK s : Solves(h, S, s)
  BY SumExists
<1>3. SumOver(f, S) = r[S] /\ SumOver(h, S) = s[S]
  BY <1>1, <1>2, SumIs
<1> QED
  BY <1>1, <1>2, <1>3, SolutionsAgree

(***************************************************************************)
(* The sum goes down by the chosen element.                                *)
(***************************************************************************)
LEMMA SumStep ==
    ASSUME NEW f, NEW S, IsFiniteSet(S)
    PROVE  /\ SumOver(f, {}) = 0
           /\ S # {} => \E x \in S : SumOver(f, S) = f[x] + SumOver(f, S \ {x})
<1>1. PICK s : Solves(f, S, s)
  BY SumExists
<1>2. \A U \in SUBSET S : SumOver(f, U) = s[U]
  <2> TAKE U \in SUBSET S
  <2>1. IsFiniteSet(U)
    BY FS_Subset
  <2> QED
    BY <1>1, <2>1, SumIs
<1>3. s[{}] = 0
  BY <1>1 DEF Solves
<1>4. CASE S # {}
  <2> DEFINE y == CHOOSE x \in S : TRUE
  <2>1. y \in S
    BY <1>4
  <2>2. s[S] = f[y] + s[S \ {y}]
    BY <1>1, <1>4 DEF Solves
  <2> QED
    BY <1>2, <1>3, <2>1, <2>2
<1> QED
  BY <1>2, <1>3, <1>4

(***************************************************************************)
(* A sum of integers is an integer.                                        *)
(***************************************************************************)
LEMMA SumType ==
    ASSUME NEW S, IsFiniteSet(S), NEW f, \A x \in S : f[x] \in Int
    PROVE  SumOver(f, S) \in Int
<1> DEFINE C == {U \in SUBSET S : SumOver(f, U) \notin Int}
<1>1. SUFFICES ASSUME C # {} PROVE FALSE
  OBVIOUS
<1>2. PICK U \in C : \A V \in C : V \subseteq U => V = U
  <2>1. C \in SUBSET SUBSET S
    OBVIOUS
  <2> HIDE DEF C
  <2> QED
    BY <1>1, <2>1, LeastSet
<1>3. IsFiniteSet(U)
  BY FS_Subset
<1>4. CASE U = {}
  BY <1>3, <1>4, SumStep
<1>5. ASSUME NEW x \in U, SumOver(f, U) = f[x] + SumOver(f, U \ {x})
      PROVE  FALSE
  <2>1. U \ {x} \notin C /\ U \ {x} \in SUBSET S
    BY <1>2
  <2> QED
    BY <1>5, <2>1
<1> QED
  BY <1>3, <1>4, <1>5, SumStep

(***************************************************************************)
(* Any element may be the one taken out.                                   *)
(***************************************************************************)
LEMMA SumWithout ==
    ASSUME NEW S, IsFiniteSet(S), NEW f, \A x \in S : f[x] \in Int, NEW x \in S
    PROVE  /\ SumOver(f, S) = f[x] + SumOver(f, S \ {x})
           /\ SumOver(f, S \ {x}) \in Int
<1> DEFINE C == {U \in SUBSET S : ~\A y \in U : SumOver(f, U) = f[y] + SumOver(f, U \ {y})}
<1>1. \A U \in SUBSET S : IsFiniteSet(U) /\ SumOver(f, U) \in Int
  <2> TAKE U \in SUBSET S
  <2>1. IsFiniteSet(U)
    BY FS_Subset
  <2> QED
    BY <2>1, SumType
<1>2. CASE C # {}
  <2>1. PICK U \in C : \A V \in C : V \subseteq U => V = U
    <3>1. C \in SUBSET SUBSET S
      OBVIOUS
    <3> HIDE DEF C
    <3> QED
      BY <1>2, <3>1, LeastSet
  <2>2. PICK y \in U : SumOver(f, U) # f[y] + SumOver(f, U \ {y})
    OBVIOUS
  <2>3. PICK z \in U : SumOver(f, U) = f[z] + SumOver(f, U \ {z})
    <3>1. IsFiniteSet(U) /\ U # {}
      BY <1>1, <2>2
    <3> QED
      BY <3>1, SumStep
  <2>4. y # z
    BY <2>2, <2>3
  <2> DEFINE W == U \ {y, z}
  <2>5. SumOver(f, U \ {z}) = f[y] + SumOver(f, W)
    <3>1. U \ {z} \notin C /\ U \ {z} \in SUBSET S /\ y \in U \ {z}
      BY <2>1, <2>4
    <3>2. (U \ {z}) \ {y} = W
      OBVIOUS
    <3> QED
      BY <3>1, <3>2
  <2>6. SumOver(f, U \ {y}) = f[z] + SumOver(f, W)
    <3>1. U \ {y} \notin C /\ U \ {y} \in SUBSET S /\ z \in U \ {y}
      BY <2>1, <2>4
    <3>2. (U \ {y}) \ {z} = W
      OBVIOUS
    <3> QED
      BY <3>1, <3>2
  <2>7. /\ f[y] \in Int /\ f[z] \in Int
        /\ SumOver(f, W) \in Int
    <3>1. W \in SUBSET S
      OBVIOUS
    <3> QED
      BY <1>1, <3>1
  <2> HIDE DEF C, W
  <2> QED
    BY <2>2, <2>3, <2>5, <2>6, <2>7
<1>3. CASE C = {}
  BY <1>1, <1>3
<1> QED
  BY <1>2, <1>3

(***************************************************************************)
(* The sum over two parts.                                                 *)
(***************************************************************************)
LEMMA SumParts ==
    ASSUME NEW S, IsFiniteSet(S), NEW f, \A x \in S : f[x] \in Int, NEW P \in SUBSET S
    PROVE  /\ SumOver(f, S) = SumOver(f, S \ P) + SumOver(f, P)
           /\ SumOver(f, S \ P) \in Int /\ SumOver(f, P) \in Int
<1> DEFINE C == {U \in SUBSET P : SumOver(f, S) # SumOver(f, S \ U) + SumOver(f, U)}
<1>1. \A U \in SUBSET S : IsFiniteSet(U) /\ SumOver(f, U) \in Int
  <2> TAKE U \in SUBSET S
  <2>1. IsFiniteSet(U)
    BY FS_Subset
  <2> QED
    BY <2>1, SumType
<1>2. CASE C # {}
  <2>1. PICK U \in C : \A V \in C : V \subseteq U => V = U
    <3>1. C \in SUBSET SUBSET P /\ IsFiniteSet(P)
      BY <1>1
    <3> HIDE DEF C
    <3> QED
      BY <1>2, <3>1, LeastSet
  <2>2. CASE U = {}
    <3>1. SumOver(f, {}) = 0 /\ SumOver(f, S) \in Int /\ S \ {} = S
      BY <1>1, SumStep
    <3> QED
      BY <2>2, <3>1
  <2>3. ASSUME NEW y \in U
        PROVE  FALSE
    <3> DEFINE W == U \ {y}
    <3>1. W \notin C /\ W \in SUBSET P
      BY <2>1
    <3>2. SumOver(f, S) = SumOver(f, S \ W) + SumOver(f, W)
      BY <3>1
    <3>3. SumOver(f, U) = f[y] + SumOver(f, W)
      BY <1>1, SumWithout
    <3>4. SumOver(f, S \ W) = f[y] + SumOver(f, S \ U)
      <4>1. y \in S \ W /\ (S \ W) \ {y} = S \ U /\ S \ W \in SUBSET S
        OBVIOUS
      <4> HIDE DEF W
      <4> QED
        BY <1>1, <4>1, SumWithout
    <3>5. /\ f[y] \in Int /\ SumOver(f, W) \in Int /\ SumOver(f, S \ U) \in Int
          /\ SumOver(f, S) # SumOver(f, S \ U) + SumOver(f, U)
      BY <1>1
    <3> HIDE DEF C, W
    <3> QED
      BY <3>2, <3>3, <3>4, <3>5
  <2> QED
    BY <2>2, <2>3
<1>3. CASE C = {}
  BY <1>1, <1>3
<1> QED
  BY <1>2, <1>3

(***************************************************************************)
(* A sum of amounts is an amount, and none of them is more than the sum.   *)
(***************************************************************************)
LEMMA SumOfNats ==
    ASSUME NEW S, IsFiniteSet(S), NEW f, \A x \in S : f[x] \in Nat
    PROVE  /\ SumOver(f, S) \in Nat
           /\ \A x \in S : f[x] <= SumOver(f, S)
<1> DEFINE C == {U \in SUBSET S : SumOver(f, U) \notin Nat}
<1>1. \A U \in SUBSET S : IsFiniteSet(U)
  BY FS_Subset
<1>2. CASE C # {}
  <2>1. PICK U \in C : \A V \in C : V \subseteq U => V = U
    <3>1. C \in SUBSET SUBSET S
      OBVIOUS
    <3> HIDE DEF C
    <3> QED
      BY <1>2, <3>1, LeastSet
  <2>2. CASE U = {}
    BY <1>1, <2>2, SumStep
  <2>3. ASSUME NEW y \in U, SumOver(f, U) = f[y] + SumOver(f, U \ {y})
        PROVE  FALSE
    <3>1. U \ {y} \notin C /\ U \ {y} \in SUBSET S
      BY <2>1
    <3> QED
      BY <2>3, <3>1
  <2> QED
    BY <1>1, <2>2, <2>3, SumStep
<1>3. CASE C = {}
  <2>1. SumOver(f, S) \in Nat /\ \A x \in S : SumOver(f, S \ {x}) \in Nat
    BY <1>3
  <2>2. ASSUME NEW x \in S
        PROVE  f[x] <= SumOver(f, S)
    <3>1. SumOver(f, S) = f[x] + SumOver(f, S \ {x})
      BY SumWithout
    <3>2. f[x] \in Nat /\ SumOver(f, S \ {x}) \in Nat
      BY <2>1
    <3> HIDE DEF C
    <3> QED
      BY <3>1, <3>2
  <2> QED
    BY <2>1, <2>2
<1> QED
  BY <1>2, <1>3

\* On S, h is f but for d more at x.
Raised(h, f, S, x, d) == \A y \in S : h[y] = f[y] + (IF y = x THEN d ELSE 0)

(***************************************************************************)
(* When one term changes, so does the sum.                                 *)
(***************************************************************************)
LEMMA SumChange ==
    ASSUME NEW S, IsFiniteSet(S), NEW f, \A y \in S : f[y] \in Int, NEW x \in S, NEW d \in Int,
           NEW h, Raised(h, f, S, x, d)
    PROVE  SumOver(h, S) = SumOver(f, S) + d
<1>1. /\ h[x] = f[x] + d /\ \A y \in S : h[y] \in Int
      /\ \A y \in S \ {x} : h[y] = f[y]
  BY DEF Raised
<1>2. IsFiniteSet(S \ {x})
  BY FS_RemoveElement
<1>3. SumOver(h, S \ {x}) = SumOver(f, S \ {x})
  BY <1>1, <1>2, SumSame
<1>4. /\ SumOver(f, S) = f[x] + SumOver(f, S \ {x})
      /\ SumOver(f, S \ {x}) \in Int
  BY SumWithout
<1>5. SumOver(h, S) = h[x] + SumOver(h, S \ {x})
  BY <1>1, SumWithout
<1>6. f[x] \in Int
  OBVIOUS
<1> QED
  BY <1>1, <1>3, <1>4, <1>5, <1>6

(***************************************************************************)
(* The sum of equal terms.                                                 *)
(***************************************************************************)
LEMMA SumOfEqual ==
    ASSUME NEW S, IsFiniteSet(S), NEW n \in Nat, NEW f, \A x \in S : f[x] = n
    PROVE  SumOver(f, S) = Cardinality(S) * n
<1> DEFINE C == {U \in SUBSET S : SumOver(f, U) # Cardinality(U) * n}
<1>1. \A U \in SUBSET S : IsFiniteSet(U) /\ Cardinality(U) \in Nat
  BY FS_Subset, FS_CardinalityType
<1>2. CASE C # {}
  <2>1. PICK U \in C : \A V \in C : V \subseteq U => V = U
    <3>1. C \in SUBSET SUBSET S
      OBVIOUS
    <3> HIDE DEF C
    <3> QED
      BY <1>2, <3>1, LeastSet
  <2>2. CASE U = {}
    <3>1. SumOver(f, {}) = 0 /\ Cardinality({}) = 0 /\ 0 * n = 0
      BY SumStep, FS_EmptySet
    <3> QED
      BY <2>2, <3>1
  <2>3. ASSUME NEW y \in U, SumOver(f, U) = f[y] + SumOver(f, U \ {y})
        PROVE  FALSE
    <3>1. U \ {y} \notin C /\ U \ {y} \in SUBSET S
      BY <2>1
    <3>2. SumOver(f, U \ {y}) = Cardinality(U \ {y}) * n /\ f[y] = n
      BY <3>1
    <3>3. Cardinality(U \ {y}) = Cardinality(U) - 1
      BY <1>1, FS_RemoveElement
    <3>4. /\ Cardinality(U) \in Nat
          /\ SumOver(f, U) # Cardinality(U) * n
      BY <1>1
    <3>5. ASSUME NEW k \in Nat
          PROVE  n + (k - 1) * n = k * n
      OBVIOUS
    <3> HIDE DEF C
    <3> QED
      BY <2>3, <3>2, <3>3, <3>4, <3>5
  <2> QED
    BY <1>1, <2>2, <2>3, SumStep
<1>3. CASE C = {}
  BY <1>3
<1> QED
  BY <1>2, <1>3

-----------------------------------------------------------------------------
(* The sums of the specification.                                          *)

\* What the bids of S come to, B being the bids.
Owed(B, S) == MapThenSumSet(LAMBDA b : B[b].amount, S)

\* The gold there is, P being the pouches.
AllGold(P) == MapThenSumSet(LAMBDA g : P[g].total, Guilds)

ActiveBy(B, g) == {b \in DOMAIN B : B[b].guild = g /\ B[b].status = "ACTIVE"}

(***************************************************************************)
(* What bids come to is the sum of a function.                             *)
(***************************************************************************)
LEMMA OwedIsSum ==
    ASSUME NEW B, NEW S, IsFiniteSet(S)
    PROVE  Owed(B, S) = SumOver([b \in S |-> B[b].amount], S)
<1> DEFINE f == [b \in S |-> B[b].amount]
           Q(s) == s = [U \in SUBSET S |->
                          IF U = {} THEN 0
                          ELSE LET x == CHOOSE x \in U : TRUE IN B[x].amount + s[U \ {x}]]
<1>1. ASSUME NEW s
      PROVE  Solves(f, S, s) <=> Q(s)
  BY DEF Solves
<1>2. \E r : Solves(f, S, r)
  BY SumExists
<1>3. PICK s : s = CHOOSE r : Q(r)
  OBVIOUS
<1>4. Owed(B, S) = s[S]
  BY <1>3 DEF Owed, MapThenSumSet, MapThenFoldSet
<1> HIDE DEF f, Q
<1>5. Q(s)
  BY <1>1, <1>2, <1>3
<1>6. SumOver(f, S) = s[S]
  BY <1>1, <1>5, SumIs
<1> QED
  BY <1>4, <1>6 DEF f

(***************************************************************************)
(* So is the gold of all guilds.                                           *)
(***************************************************************************)
LEMMA AllGoldIsSum ==
    ASSUME NEW P, PouchTableAssumption
    PROVE  AllGold(P) = SumOver([g \in Guilds |-> P[g].total], Guilds)
<1> DEFINE f == [g \in Guilds |-> P[g].total]
           Q(s) == s = [U \in SUBSET Guilds |->
                          IF U = {} THEN 0
                          ELSE LET x == CHOOSE x \in U : TRUE IN P[x].total + s[U \ {x}]]
<1>1. ASSUME NEW s
      PROVE  Solves(f, Guilds, s) <=> Q(s)
  BY DEF Solves
<1>2. IsFiniteSet(Guilds) /\ \E r : Solves(f, Guilds, r)
  BY SumExists DEF PouchTableAssumption
<1>3. PICK s : s = CHOOSE r : Q(r)
  OBVIOUS
<1>4. AllGold(P) = s[Guilds]
  BY <1>3 DEF AllGold, MapThenSumSet, MapThenFoldSet
<1> HIDE DEF f, Q
<1>5. Q(s)
  BY <1>1, <1>2, <1>3
<1>6. SumOver(f, Guilds) = s[Guilds]
  BY <1>1, <1>2, <1>5, SumIs
<1> QED
  BY <1>4, <1>6 DEF f

(***************************************************************************)
(* The properties in terms of these sums.                                  *)
(***************************************************************************)
LEMMA EscrowIsOwed ==
    /\ EscrowExact <=> \A g \in Guilds : pouch[g].reserved = Owed(bids, ActiveBy(bids, g))
    /\ GoldConserved <=> AllGold(pouch) = Cardinality(Guilds) * InitialGold
<1>1. \A g \in Guilds : ActiveBidsBy(g) = ActiveBy(bids, g)
  BY DEF ActiveBidsBy, ActiveBy
<1>2. ASSUME NEW g \in Guilds
      PROVE  MapThenSumSet(LAMBDA b : bids[b].amount, ActiveBidsBy(g))
                = Owed(bids, ActiveBy(bids, g))
  <2>1. MapThenSumSet(LAMBDA b : bids[b].amount, ActiveBidsBy(g)) = Owed(bids, ActiveBidsBy(g))
    BY DEF Owed
  <2> QED
    BY <1>1, <2>1
<1>3. EscrowExact <=> \A g \in Guilds : pouch[g].reserved = Owed(bids, ActiveBy(bids, g))
  BY <1>2 DEF EscrowExact
<1>4. GoldConserved <=> AllGold(pouch) = Cardinality(Guilds) * InitialGold
  BY DEF GoldConserved, AllGold
<1> QED
  BY <1>3, <1>4

(***************************************************************************)
(* What a set of bids comes to is a number, and at least the amount of     *)
(* each bid; a set can be split, and only the amounts count.               *)
(***************************************************************************)
LEMMA OwedSums ==
    ASSUME NEW A, NEW B, Tables(A, B), NEW S \in SUBSET DOMAIN B
    PROVE  /\ IsFiniteSet(S) /\ Owed(B, S) \in Nat
           /\ Owed(B, {}) = 0
           /\ \A b \in S : /\ Owed(B, {b}) = B[b].amount /\ B[b].amount \in Nat
                           /\ B[b].amount <= Owed(B, S)
           /\ \A P \in SUBSET S : /\ Owed(B, S) = Owed(B, S \ P) + Owed(B, P)
                                  /\ Owed(B, S \ P) \in Nat /\ Owed(B, P) \in Nat
           /\ \A D : (\A b \in S : D[b].amount = B[b].amount) => Owed(D, S) = Owed(B, S)
<1> DEFINE f(T) == [b \in T |-> B[b].amount]
<1>1. \A T \in SUBSET S : IsFiniteSet(T) /\ \A b \in T : f(T)[b] \in Nat /\ f(T)[b] = f(S)[b]
  <2>1. DOMAIN B = 1 .. Len(B) /\ Len(B) \in Nat
    BY DEF Tables
  <2>2. \A T \in SUBSET S : IsFiniteSet(T)
    <3>1. IsFiniteSet(1 .. Len(B)) /\ S \in SUBSET (1 .. Len(B))
      BY <2>1, FS_Interval
    <3> QED
      BY <3>1, FS_Subset
  <2>3. \A b \in S : B[b].amount \in Nat
    BY RowTypes
  <2> QED
    BY <2>2, <2>3
<1>2. \A T \in SUBSET S : Owed(B, T) = SumOver(f(T), T) /\ SumOver(f(T), T) = SumOver(f(S), T)
  <2> TAKE T \in SUBSET S
  <2>1. Owed(B, T) = SumOver(f(T), T)
    BY <1>1, OwedIsSum
  <2> HIDE DEF f
  <2>2. SumOver(f(T), T) = SumOver(f(S), T)
    BY <1>1, SumSame
  <2> QED
    BY <2>1, <2>2
<1>3. \A b \in S : f(S)[b] = B[b].amount
  OBVIOUS
<1>4. ASSUME NEW D, \A b \in S : D[b].amount = B[b].amount
      PROVE  Owed(D, S) = Owed(B, S)
  <2> DEFINE h == [b \in S |-> D[b].amount]
  <2>1. Owed(D, S) = SumOver(h, S)
    BY <1>1, OwedIsSum
  <2>2. \A b \in S : h[b] = f(S)[b]
    BY <1>4
  <2> HIDE DEF h, f
  <2> QED
    BY <1>1, <1>2, <2>1, <2>2, SumSame
<1> HIDE DEF f
<1>5. SumOver(f(S), {}) = 0
  BY <1>1, SumStep
<1>6. Owed(B, {}) = 0
  BY <1>2, <1>5
<1>7. \A T \in SUBSET S : Owed(B, T) \in Nat
  BY <1>1, <1>2, SumOfNats
<1>8. \A b \in S : B[b].amount \in Nat /\ B[b].amount <= Owed(B, S)
  <2>1. \A b \in S : f(S)[b] \in Nat /\ f(S)[b] <= SumOver(f(S), S)
    BY <1>1, SumOfNats
  <2> QED
    BY <1>2, <1>3, <2>1
<1>9. ASSUME NEW b \in S
      PROVE  Owed(B, {b}) = B[b].amount
  <2>1. {b} \in SUBSET S /\ IsFiniteSet({b}) /\ {b} \ {b} = {}
    BY <1>1
  <2>2. SumOver(f(S), {b}) = f(S)[b] + SumOver(f(S), {b} \ {b})
    <3>1. \A x \in {b} : f(S)[x] \in Int
      BY <1>1
    <3> QED
      BY <2>1, <3>1, SumWithout
  <2>3. f(S)[b] = B[b].amount /\ B[b].amount \in Nat /\ SumOver(f(S), {b} \ {b}) = 0
    BY <1>3, <1>5, <1>8, <2>1
  <2>4. SumOver(f(S), {b}) = B[b].amount
    BY <2>2, <2>3
  <2> QED
    BY <1>2, <2>1, <2>4
<1>10. ASSUME NEW P \in SUBSET S
       PROVE  Owed(B, S) = Owed(B, S \ P) + Owed(B, P)
  <2>1. SumOver(f(S), S) = SumOver(f(S), S \ P) + SumOver(f(S), P)
    BY <1>1, SumParts
  <2>2. S \ P \in SUBSET S /\ S \in SUBSET S
    OBVIOUS
  <2> QED
    BY <1>2, <2>1, <2>2
<1> QED
  BY <1>1, <1>4, <1>6, <1>7, <1>8, <1>9, <1>10

-----------------------------------------------------------------------------
(* What the transactions know about the rows.                              *)

ActiveOn(B, a) == {b \in On(B, a) : B[b].status = "ACTIVE"}

\* The guilds that have the item i or once had it.
Titled(A, B, i) == {SeedOwner[i]} \cup {B[b].guild : b \in Won(A, B, i)}

(***************************************************************************)
(* What transaction record r has checked and still holds: the bid it       *)
(* withdraws stands, the losers it has yet to pay back stand and are not   *)
(* the winner, the bidder is not the owner, and a first bid is at least    *)
(* the base price.  A seller had the item when it asked.                   *)
(***************************************************************************)
Promise(r, A, B) ==
    /\ r.pc \in CancelPC => B[r.bid].status = "ACTIVE"
    /\ r.pc = "releaseLosers" => r.losers \subseteq ActiveOn(B, r.auction) \ {r.bid}
    /\ r.pc \in {"settleLock", "expire"} => r.losers = {}
    /\ r.pc = "insert" => r.guild \in Titled(A, B, r.item)
    /\ r.pc \in BidPC \cup {"bidLock"} => A[r.auction].owner # r.guild /\ r.amount \in Amounts
    /\ r.pc \in BidPC /\ On(B, r.auction) = {} => A[r.auction].basePrice <= r.amount

PromiseInv == \A t \in Procs : Promise(tx[t], auctions, bids)

(***************************************************************************)
(* The rows whose bids a transaction has already paid back or charged in   *)
(* its draft, but which still show as standing.                            *)
(***************************************************************************)
Gone(r, B) ==
    IF r.pc \in {"cancelCommit", "creditOwner", "transfer"} THEN {r.bid}
    ELSE IF r.pc \in {"releaseLosers", "expire"} THEN ActiveOn(B, r.auction) \ r.losers
    ELSE {}

GoneBy(r, B, g) == {b \in Gone(r, B) : B[b].guild = g}

\* The reservation for a bid that is not in the table yet.
Incoming(r, g) == IF r.pc = "bidCommit" /\ r.guild = g THEN r.amount ELSE 0

PaidPC == {"creditOwner", "transfer", "releaseLosers", "expire"}

\* What g has paid or received in the draft of a settlement.
Charged(r, B, g) ==
    IF r.pc \in PaidPC /\ r.bid # 0 /\ B[r.bid].guild = g THEN B[r.bid].amount ELSE 0

Credited(r, A, B, g) ==
    IF r.pc \in PaidPC \ {"creditOwner"} /\ r.bid # 0 /\ A[r.auction].owner = g
    THEN B[r.bid].amount ELSE 0

\* The difference between what a transaction sees of a pouch and what is committed.
Held(r, B, g) == Incoming(r, g) - Owed(B, GoneBy(r, B, g))

Moved(r, A, B, g) == Credited(r, A, B, g) - Charged(r, B, g)

Backed(t, r, A, B) ==
    \A g \in Guilds :
        /\ SeenRow(t, g).reserved = pouch[g].reserved + Held(r, B, g)
        /\ SeenRow(t, g).total = pouch[g].total + Moved(r, A, B, g)

EscrowInv ==
    /\ \A g \in Guilds : pouch[g].reserved = Owed(bids, ActiveBy(bids, g))
    /\ AllGold(pouch) = Cardinality(Guilds) * InitialGold
    /\ \A t \in Procs : Backed(t, tx[t], auctions, bids)

-----------------------------------------------------------------------------
(* What the other transactions leave alone.                                *)

\* Rows are added, and of an old one some fields change only.
Kept(A, B, A2, B2) ==
    /\ DOMAIN A \subseteq DOMAIN A2 /\ DOMAIN B \subseteq DOMAIN B2
    /\ \A a \in DOMAIN A : /\ A2[a].item = A[a].item /\ A2[a].owner = A[a].owner
                           /\ A2[a].basePrice = A[a].basePrice
    /\ \A b \in DOMAIN B : /\ B2[b].auction = B[b].auction /\ B2[b].guild = B[b].guild
                           /\ B2[b].amount = B[b].amount
                           /\ B[b].status = "WON" => B2[b].status = "WON"

\* What r holds is as it was.
HeldStays(r, A, B, A2, B2) ==
    r.pc \in LockedPC =>
       /\ A2[r.auction] = A[r.auction] /\ On(B2, r.auction) = On(B, r.auction)
       /\ \A b \in On(B, r.auction) : B2[b] = B[b]

(***************************************************************************)
(* Who had an item once, has had it for good.                              *)
(***************************************************************************)
LEMMA TitledGrows ==
    ASSUME NEW A, NEW B, NEW A2, NEW B2, Tables(A, B), Kept(A, B, A2, B2), NEW i
    PROVE  Titled(A, B, i) \subseteq Titled(A2, B2, i)
<1>1. Won(A, B, i) \subseteq Won(A2, B2, i)
  BY DEF Won, Kept, Tables
<1>2. \A b \in Won(A, B, i) : B2[b].guild = B[b].guild
  BY DEF Won, Kept
<1> QED
  BY <1>1, <1>2 DEF Titled

(***************************************************************************)
(* What a transaction has checked still holds when others commit.          *)
(***************************************************************************)
LEMMA PromiseStays ==
    ASSUME NEW A, NEW B, NEW V, NEW n, NEW A2, NEW B2, NEW r,
           Tables(A, B), Kept(A, B, A2, B2), HeldStays(r, A, B, A2, B2),
           Claim(r, A, B, V, n), Refers(r, DOMAIN A, DOMAIN B), Promise(r, A, B)
    PROVE  Promise(r, A2, B2)
<1>1. r.pc \in CancelPC => B2[r.bid].status = "ACTIVE"
  <2>1. r.pc \in CancelPC => r.bid \in On(B, r.auction) /\ r.pc \in LockedPC
    BY DEF Claim, Refers, On, CancelPC, LockedPC
  <2> QED
    BY <2>1 DEF Promise, HeldStays
<1>2. r.pc = "releaseLosers" => r.losers \subseteq ActiveOn(B2, r.auction) \ {r.bid}
  <2>1. r.pc = "releaseLosers" => ActiveOn(B2, r.auction) = ActiveOn(B, r.auction)
    BY DEF ActiveOn, HeldStays, LockedPC
  <2> QED
    BY <2>1 DEF Promise
<1>3. r.pc = "insert" => r.guild \in Titled(A2, B2, r.item)
  BY TitledGrows DEF Promise
<1>4. r.pc \in BidPC \cup {"bidLock"} => A2[r.auction].owner # r.guild /\ r.amount \in Amounts
  <2>1. r.pc \in BidPC \cup {"bidLock"} => r.auction \in DOMAIN A
    BY DEF Refers, BidPC
  <2> QED
    BY <2>1 DEF Promise, Kept
<1>5. r.pc \in BidPC /\ On(B2, r.auction) = {} => A2[r.auction].basePrice <= r.amount
  BY DEF Promise, HeldStays, BidPC, LockedPC
<1> QED
  BY <1>1, <1>2, <1>3, <1>4, <1>5 DEF Promise

(***************************************************************************)
(* A transaction that returns has no losers to pay back.                   *)
(***************************************************************************)
LEMMA ReturnEmpty ==
    ASSUME AuctionInv, NEW t \in Procs, Return(t)
    PROVE  \E r \in Tx : /\ tx' = [tx EXCEPT ![t] = r]
                         /\ r.pc \in {"idle", "settleLock"} /\ r.losers = {}
<1>1. PICK r \in Tx : tx' = [tx EXCEPT ![t] = r] /\ r.pc \in {"idle", "settleLock"}
  BY ReturnRecord
<1>2. tx'[t] = r
  BY <1>1 DEF AuctionInv, TypeOK, Procs
<1>3. tx'[t].losers = {}
  <2> DEFINE rest == tx[t].queue \ {tx[t].auction}
             q == IF rest = {} THEN Idle
                  ELSE [Idle EXCEPT !.pc = "settleLock", !.auction = Min(rest), !.queue = rest]
  <2>1. tx' = [tx EXCEPT ![t] = q]
    BY Zenon DEF Return
  <2>2. q.losers = {}
    BY DEF Idle
  <2> HIDE DEF q
  <2> QED
    BY <2>1, <2>2 DEF AuctionInv, TypeOK, Procs
<1> QED
  BY <1>1, <1>2, <1>3

(***************************************************************************)
(* What PlaceBid commits.                                                  *)
(***************************************************************************)
LEMMA BidRows ==
    ASSUME AuctionInv, AuctionAssumption, NEW t \in Procs, CommitBid(t)
    PROVE  LET a == tx[t].auction
               m == Len(bids) + 1
           IN  /\ a \in DOMAIN auctions /\ DOMAIN auctions' = DOMAIN auctions
               /\ \A c \in DOMAIN auctions :
                     /\ auctions'[c].item = auctions[c].item
                     /\ auctions'[c].owner = auctions[c].owner
                     /\ auctions'[c].status = auctions[c].status
                     /\ auctions'[c].basePrice = auctions[c].basePrice
               /\ DOMAIN bids' = DOMAIN bids \cup {m} /\ m \notin DOMAIN bids
               /\ \A b \in DOMAIN bids : bids'[b] = bids[b]
               /\ bids'[m].auction = a /\ bids'[m].guild = tx[t].guild
               /\ bids'[m].amount = tx[t].amount /\ bids'[m].status = "ACTIVE"
               /\ UNCHANGED inv
<1> DEFINE a == tx[t].auction
           m == Len(bids) + 1
           e == [auction |-> a, guild |-> tx[t].guild, amount |-> tx[t].amount,
                 status |-> "ACTIVE", at |-> tx[t].at]
           end == ExtendedEnd(auctions[a].endTime, tx[t].at)
<1>1. /\ a \in DOMAIN auctions /\ auctions[a] \in Auction
      /\ tx[t].guild \in Guilds /\ tx[t].amount \in Nat /\ tx[t].at \in Nat
      /\ auctions \in Seq(Auction) /\ bids \in Seq(Bid)
  BY Types DEF CommitBid, Refers, Tx
<1>2. /\ bids' = Append(bids, e) /\ UNCHANGED inv
      /\ auctions' = [auctions EXCEPT ![a].endTime = end]
  BY DEF CommitBid
<1> HIDE DEF end
<1>3. ASSUME NEW c \in DOMAIN auctions
      PROVE  /\ auctions'[c].item = auctions[c].item /\ auctions'[c].owner = auctions[c].owner
             /\ auctions'[c].status = auctions[c].status
             /\ auctions'[c].basePrice = auctions[c].basePrice
  <2>1. auctions[c] \in Auction
    BY Types
  <2> QED
    BY <1>2, <2>1 DEF Auction
<1>4. e \in Bid
  BY <1>1, Types DEF Bid, BidStatus
<1>5. /\ e.auction = a /\ e.guild = tx[t].guild /\ e.amount = tx[t].amount
      /\ e.status = "ACTIVE"
  OBVIOUS
<1> HIDE DEF e
<1>6. /\ DOMAIN bids' = DOMAIN bids \cup {m} /\ bids'[m] = e
      /\ \A b \in DOMAIN bids : bids'[b] = bids[b] /\ b < m
  BY <1>1, <1>2, <1>4, InsertRow, SMTT(30)
<1>7. DOMAIN auctions' = DOMAIN auctions /\ m \notin DOMAIN bids
  BY <1>1, <1>2
<1> QED
  BY <1>1, <1>2, <1>3, <1>5, <1>6, <1>7

(***************************************************************************)
(* What CancelBid commits.                                                 *)
(***************************************************************************)
LEMMA CancelRows ==
    ASSUME AuctionInv, AuctionAssumption, BiddingInv, NEW t \in Procs, CommitCancel(t)
    PROVE  LET k == tx[t].bid
           IN  /\ k \in On(bids, tx[t].auction)
               /\ SameBids(bids, bids') /\ bids'[k].status = "CANCELLED"
               /\ \A b \in DOMAIN bids \ {k} : bids'[b] = bids[b]
               /\ UNCHANGED <<auctions, inv>>
<1> DEFINE k == tx[t].bid
<1>1. /\ tx[t].pc = "cancelCommit" /\ k \in DOMAIN bids /\ bids[k] \in Bid
      /\ Claim(tx[t], auctions, bids, inv, now)
  BY Types DEF CommitCancel, Refers, BiddingInv
<1>2. bids' = [bids EXCEPT ![k].status = "CANCELLED"] /\ UNCHANGED <<auctions, inv>>
  BY DEF CommitCancel
<1>3. \A b \in DOMAIN bids \ {k} : bids'[b] = bids[b]
  BY <1>2
<1>4. /\ bids'[k].status = "CANCELLED" /\ bids'[k].auction = bids[k].auction
      /\ bids'[k].guild = bids[k].guild /\ bids'[k].amount = bids[k].amount
      /\ bids'[k].at = bids[k].at
  BY <1>1, <1>2 DEF Bid
<1>5. SameBids(bids, bids')
  BY <1>2, <1>3, <1>4 DEF SameBids
<1>6. k \in On(bids, tx[t].auction)
  BY <1>1 DEF Claim, CancelPC, On
<1> QED
  BY <1>2, <1>3, <1>4, <1>5, <1>6

(***************************************************************************)
(* What a settlement commits.                                              *)
(***************************************************************************)
LEMMA SettlementCommits ==
    ASSUME AuctionInv, AuctionAssumption, NEW s \in Procs, CommitSettlement(s)
    PROVE  LET a == tx[s].auction
               w == tx[s].bid
           IN  /\ a \in DOMAIN auctions /\ w \in DOMAIN bids \cup {0}
               /\ auctions' = [auctions EXCEPT ![a].status = "EXPIRED"]
               /\ DOMAIN auctions' = DOMAIN auctions
               /\ \A c \in DOMAIN auctions :
                     /\ auctions'[c].item = auctions[c].item
                     /\ auctions'[c].owner = auctions[c].owner
                     /\ auctions'[c].basePrice = auctions[c].basePrice
                     /\ auctions'[c].status = IF c = a THEN "EXPIRED" ELSE auctions[c].status
               /\ SameBids(bids, bids')
               /\ \A b \in DOMAIN bids :
                     bids'[b].status = IF b = w THEN "WON"
                                       ELSE IF b \in ActiveOn(bids, a) THEN "LOST"
                                       ELSE bids[b].status
               /\ inv' = HandOver(a, w)
<1> DEFINE a == tx[s].auction
           w == tx[s].bid
<1>1. a \in DOMAIN auctions /\ auctions[a] \in Auction /\ w \in DOMAIN bids \cup {0}
  BY Types DEF CommitSettlement, Refers
<1>2. /\ auctions' = [auctions EXCEPT ![a].status = "EXPIRED"]
      /\ bids' = [b \in DOMAIN bids |-> [bids[b] EXCEPT !.status = Verdict(b, a, w)]]
      /\ inv' = HandOver(a, w)
  BY Zenon DEF CommitSettlement
<1>3. ActiveBidsOf(a) = ActiveOn(bids, a)
  BY DEF ActiveBidsOf, BidsOf, ActiveOn, On
<1> HIDE DEF a, w
<1>4. ASSUME NEW b \in DOMAIN bids
      PROVE  /\ bids'[b].auction = bids[b].auction /\ bids'[b].guild = bids[b].guild
             /\ bids'[b].amount = bids[b].amount /\ bids'[b].at = bids[b].at
             /\ bids'[b].status = Verdict(b, a, w)
  <2>1. bids'[b] = [bids[b] EXCEPT !.status = Verdict(b, a, w)]
    BY <1>2
  <2>2. bids[b] \in Bid
    BY Types
  <2> QED
    BY <2>1, <2>2 DEF Bid
<1>5. SameBids(bids, bids')
  BY <1>2, <1>4 DEF SameBids
<1>6. ASSUME NEW b \in DOMAIN bids
      PROVE  bids'[b].status = IF b = w THEN "WON" ELSE IF b \in ActiveOn(bids, a) THEN "LOST"
                               ELSE bids[b].status
  BY <1>3, <1>4 DEF Verdict
<1>7. ASSUME NEW c \in DOMAIN auctions
      PROVE  /\ auctions'[c].item = auctions[c].item /\ auctions'[c].owner = auctions[c].owner
             /\ auctions'[c].basePrice = auctions[c].basePrice
             /\ auctions'[c].status = IF c = a THEN "EXPIRED" ELSE auctions[c].status
  <2>1. auctions[c] \in Auction
    BY Types
  <2> QED
    BY <1>2, <2>1 DEF Auction
<1>8. DOMAIN auctions' = DOMAIN auctions
  BY <1>2
<1> QED
  BY <1>1, <1>2, <1>5, <1>6, <1>7, <1>8 DEF a, w

(***************************************************************************)
(* What CreateAuction commits.                                             *)
(***************************************************************************)
LEMMA InsertedRow ==
    ASSUME AuctionInv, NEW t \in Procs, InsertAuction(t)
    PROVE  /\ DOMAIN auctions \subseteq DOMAIN auctions'
           /\ \A c \in DOMAIN auctions : auctions'[c] = auctions[c]
           /\ UNCHANGED <<bids, inv>>
<1>1. PICK e : auctions' = Append(auctions, e)
  BY DEF InsertAuction
<1>2. auctions \in Seq(Auction)
  BY DEF AuctionInv, TypeOK
<1> QED
  BY <1>1, <1>2 DEF InsertAuction

Commits(t) == InsertAuction(t) \/ CommitBid(t) \/ CommitCancel(t) \/ CommitSettlement(t)

(***************************************************************************)
(* A COMMIT keeps the rows, and what the other transactions hold.          *)
(***************************************************************************)
LEMMA CommitsKeepRows ==
    ASSUME AuctionInv, AuctionAssumption, BiddingInv, NEW t \in Procs, Commits(t)
    PROVE  /\ Kept(auctions, bids, auctions', bids')
           /\ \A u \in Procs \ {t} :
                 HeldStays(tx[u], auctions, bids, auctions', bids')
           /\ \E r \in Tx : /\ tx' = [tx EXCEPT ![t] = r]
                            /\ r.pc \in {"idle", "settleLock"} /\ r.losers = {}
<1>1. Kept(auctions, bids, auctions', bids')
  <2>1. CASE InsertAuction(t)
    BY <2>1, InsertedRow DEF Kept
  <2>2. CASE CommitBid(t)
    BY <2>2, BidRows DEF Kept
  <2>3. CASE CommitCancel(t)
    <3>1. auctions[tx[t].auction].status = "ACTIVE" /\ tx[t].auction \in DOMAIN auctions
      BY <2>3, WritesOpenAuction
    <3>2. bids[tx[t].bid].status # "WON"
      BY <2>3, <3>1, CancelRows DEF BiddingInv, Sound, Orderly, OpenBids
    <3> QED
      BY <2>3, <3>2, CancelRows DEF Kept, SameBids
  <2>4. CASE CommitSettlement(t)
    <3>1. \A b \in DOMAIN bids : bids[b].status = "WON" => bids'[b].status = "WON"
      BY <2>4, SettlementCommits DEF ActiveOn
    <3> QED
      BY <2>4, <3>1, SettlementCommits DEF Kept, SameBids
  <2> QED
    BY <2>1, <2>2, <2>3, <2>4 DEF Commits
<1>2. ASSUME NEW u \in Procs \ {t}
      PROVE  HeldStays(tx[u], auctions, bids, auctions', bids')
  <2>1. tx[u].pc \in LockedPC => tx[u].auction \in DOMAIN auctions
    BY Types DEF Refers, LockedPC
  <2>2. CASE InsertAuction(t)
    BY <2>1, <2>2, InsertedRow DEF HeldStays
  <2>3. CASE CommitBid(t) \/ CommitCancel(t) \/ CommitSettlement(t)
    <3>1. tx[t].pc \in LockedPC
      BY <2>3 DEF CommitBid, CommitCancel, CommitSettlement, LockedPC
    <3>2. tx[u].pc \in LockedPC => tx[u].auction # tx[t].auction
      BY <3>1 DEF BiddingInv, Exclusive
    <3>3. Elsewhere(tx[t].auction, auctions, bids, auctions', bids')
      BY <2>3, WritesOpenAuction
    <3> QED
      BY <2>1, <3>2, <3>3 DEF Elsewhere, HeldStays
  <2> QED
    BY <2>2, <2>3 DEF Commits
<1>3. Return(t)
  BY DEF Commits, InsertAuction, CommitBid, CommitCancel, CommitSettlement
<1> QED
  BY <1>1, <1>2, <1>3, ReturnEmpty

-----------------------------------------------------------------------------
(* PromiseInv is inductive.                                                *)

(***************************************************************************)
(* A step of one transaction: what the others have checked still holds.    *)
(***************************************************************************)
LEMMA PromiseFrame ==
    ASSUME AuctionInv, AuctionAssumption, BiddingInv, PromiseInv, NEW t \in Procs, NEW r,
           tx' = [tx EXCEPT ![t] = r], Promise(r, auctions', bids'),
           UNCHANGED <<auctions, bids>> \/ Commits(t)
    PROVE  PromiseInv'
<1>1. tx'[t] = r /\ \A u \in Procs \ {t} : tx'[u] = tx[u]
  BY DEF AuctionInv, TypeOK, Procs
<1>2. ASSUME NEW u \in Procs \ {t}
      PROVE  Promise(tx[u], auctions', bids')
  <2>1. CASE UNCHANGED <<auctions, bids>>
    BY <2>1 DEF PromiseInv
  <2>2. CASE Commits(t)
    <3>1. /\ Kept(auctions, bids, auctions', bids')
          /\ HeldStays(tx[u], auctions, bids, auctions', bids')
      BY <2>2, CommitsKeepRows
    <3>2. /\ Tables(auctions, bids) /\ Claim(tx[u], auctions, bids, inv, now)
          /\ Refers(tx[u], DOMAIN auctions, DOMAIN bids) /\ Promise(tx[u], auctions, bids)
      BY TablesHold, Types DEF BiddingInv, PromiseInv
    <3> QED
      BY <3>1, <3>2, PromiseStays
  <2> QED
    BY <2>1, <2>2
<1> QED
  BY <1>1, <1>2 DEF PromiseInv

(***************************************************************************)
(* Steps at which a transaction has nothing checked that must hold on.     *)
(***************************************************************************)
LEMMA NothingPromised ==
    ASSUME NEW r, NEW A, NEW B, r.pc = "settleLock" => r.losers = {},
           r.pc \in {"idle", "settleLock", "cancelLock", "settleWinner", "creditOwner", "transfer"}
    PROVE  Promise(r, A, B)
<1>1. r.pc \notin CancelPC /\ r.pc \notin BidPC \cup {"bidLock"}
  BY DEF CancelPC, BidPC
<1> QED
  BY <1>1 DEF Promise

(***************************************************************************)
(* Going on to the next step leaves the rest of the record as it is.       *)
(***************************************************************************)
LEMMA GotoKeepsRecord ==
    ASSUME AuctionInv, AuctionAssumption, NEW t \in Procs, NEW step, Goto(t, step)
    PROVE  \E r : /\ tx' = [tx EXCEPT ![t] = r] /\ r.pc = step /\ SameWork(r, tx[t])
                  /\ r.guild = tx[t].guild /\ r.losers = tx[t].losers
<1> DEFINE r == [tx[t] EXCEPT !.pc = step]
<1>1. tx' = [tx EXCEPT ![t] = r]
  BY Zenon DEF Goto
<1>2. tx[t] \in Tx
  BY Types
<1>3. /\ r.pc = step /\ SameWork(r, tx[t])
      /\ r.guild = tx[t].guild /\ r.losers = tx[t].losers
  BY <1>2 DEF Tx, SameWork
<1> QED
  BY <1>1, <1>3

(***************************************************************************)
(* The loop over the losers replaces the step and the losers.              *)
(***************************************************************************)
LEMMA LoopRecord ==
    ASSUME AuctionInv, AuctionAssumption, NEW s \in Procs, NEW rest, LoopOver(s, rest)
    PROVE  \E r : /\ tx' = [tx EXCEPT ![s] = r] /\ SameWork(r, tx[s]) /\ r.losers = rest
                  /\ r.pc = IF rest = {} THEN "expire" ELSE "releaseLosers"
<1> DEFINE next == IF rest = {} THEN "expire" ELSE "releaseLosers"
           r == [tx[s] EXCEPT !.pc = next, !.losers = rest]
<1>1. tx' = [tx EXCEPT ![s] = r]
  BY Zenon DEF LoopOver
<1>2. tx[s] \in Tx
  BY Types
<1>3. r.pc = next /\ SameWork(r, tx[s]) /\ r.losers = rest
  BY <1>2 DEF Tx, SameWork
<1> QED
  BY <1>1, <1>3

(***************************************************************************)
(* Who has an item has it by title.                                        *)
(***************************************************************************)
LEMMA HolderIsTitled ==
    ASSUME BiddingInv, NEW i \in Items, NEW g \in Guilds, <<g, i>> \in inv
    PROVE  g \in Titled(auctions, bids, i)
<1>1. Owned(auctions, bids, inv, i) /\ g \in OwnersOf(inv, i)
  BY DEF BiddingInv, Sound, OwnersOf
<1> QED
  BY <1>1 DEF Owned, Titled

(***************************************************************************)
(* The first steps: a seller has the item, a bidder is not the owner.      *)
(***************************************************************************)
LEMMA BeginPromises ==
    ASSUME AuctionInv, AuctionAssumption, BiddingInv, PromiseInv, NEW t \in Procs,
           Begin(t) \/ Tick(t)
    PROVE  PromiseInv'
<1>0. UNCHANGED <<auctions, bids>>
  BY DEF Begin, CreateRequest, BidRequest, CancelRequest, BeginCreate, BeginBid,
         BeginCancel, Tick, auctionVars
<1>1. ASSUME NEW g \in Guilds, NEW i \in Items, NEW d \in Durations, BeginCreate(t, g, i, d)
      PROVE  PromiseInv'
  <2> DEFINE r == [Idle EXCEPT !.pc = "insert", !.guild = g, !.item = i, !.duration = d,
                               !.at = now]
  <2>1. tx' = [tx EXCEPT ![t] = r] /\ <<g, i>> \in inv
    BY <1>1 DEF BeginCreate
  <2>2. r.pc = "insert" /\ r.guild = g /\ r.item = i
    BY DEF Idle
  <2> HIDE DEF r
  <2>3. Promise(r, auctions, bids)
    BY <2>1, <2>2, HolderIsTitled DEF Promise, CancelPC, BidPC
  <2> QED
    BY <1>0, <2>1, <2>3, PromiseFrame
<1>2. ASSUME NEW g \in Guilds, NEW i \in Items, NEW amount \in Amounts,
             BeginBid(t, g, i, amount)
      PROVE  PromiseInv'
  <2>1. PICK a \in ActiveAuctions(i) :
           /\ auctions[a].owner # g
           /\ tx' = [tx EXCEPT ![t] = [Idle EXCEPT !.pc = "bidLock", !.guild = g,
                                                   !.auction = a, !.amount = amount]]
    BY <1>2 DEF BeginBid
  <2> DEFINE r == [Idle EXCEPT !.pc = "bidLock", !.guild = g, !.auction = a, !.amount = amount]
  <2>2. tx' = [tx EXCEPT ![t] = r]
    BY <2>1
  <2>3. r.pc = "bidLock" /\ r.guild = g /\ r.auction = a /\ r.amount = amount
    BY DEF Idle
  <2> HIDE DEF r
  <2>4. Promise(r, auctions, bids)
    BY <2>1, <2>3 DEF Promise, CancelPC, BidPC
  <2> QED
    BY <1>0, <2>2, <2>4, PromiseFrame
<1>3. ASSUME NEW g \in Guilds, NEW i \in Items, NEW b \in DOMAIN bids, BeginCancel(t, g, i, b)
      PROVE  PromiseInv'
  <2> DEFINE a == bids[b].auction
             r == [Idle EXCEPT !.pc = "cancelLock", !.guild = g, !.item = i,
                               !.auction = a, !.bid = b]
  <2>1. tx' = [tx EXCEPT ![t] = r]
    BY <1>3 DEF BeginCancel
  <2>2. r.pc = "cancelLock"
    BY DEF Idle
  <2> HIDE DEF r
  <2>3. Promise(r, auctions, bids)
    BY <2>2, NothingPromised
  <2> QED
    BY <1>0, <2>1, <2>3, PromiseFrame
<1>4. CASE Tick(t)
  <2> DEFINE due == {a \in DOMAIN auctions :
                       auctions[a].status = "ACTIVE" /\ auctions[a].endTime <= now}
             r == [Idle EXCEPT !.pc = "settleLock", !.auction = Min(due), !.queue = due]
  <2>1. tx' = [tx EXCEPT ![t] = r]
    BY <1>4 DEF Tick
  <2> HIDE DEF due
  <2>2. r.pc = "settleLock" /\ r.losers = {}
    BY DEF Idle
  <2> HIDE DEF r
  <2>3. Promise(r, auctions, bids)
    BY <2>2, NothingPromised
  <2> QED
    BY <1>0, <2>1, <2>3, PromiseFrame
<1> QED
  BY <1>1, <1>2, <1>3, <1>4 DEF Begin, CreateRequest, BidRequest, CancelRequest

(***************************************************************************)
(* PlaceBid under the lock: a first bid meets the base price.              *)
(***************************************************************************)
LEMMA BidPromises ==
    ASSUME AuctionInv, AuctionAssumption, BiddingInv, PromiseInv, NEW t \in Procs,
           LockForBid(t) \/ ReserveForBid(t)
    PROVE  PromiseInv'
<1>0. UNCHANGED <<auctions, bids>> /\ Promise(tx[t], auctions, bids)
  BY DEF LockForBid, ReserveForBid, auctionVars, PromiseInv
<1>1. CASE LockForBid(t)
  <2> DEFINE r == [tx[t] EXCEPT !.pc = "bidReserve", !.at = now]
  <2>1. tx[t].pc = "bidLock" /\ BidAllowed(t)
    BY <1>1, Zenon DEF LockForBid
  <2>2. tx' = [tx EXCEPT ![t] = r]
    BY <1>1, Zenon DEF LockForBid
  <2>3. tx[t] \in Tx
    BY Types
  <2>4. /\ r.pc = "bidReserve" /\ r.guild = tx[t].guild /\ r.auction = tx[t].auction
        /\ r.amount = tx[t].amount
    BY <2>3 DEF Tx
  <2> HIDE DEF r
  <2>5. On(bids, tx[t].auction) = {} => auctions[tx[t].auction].basePrice <= tx[t].amount
    <3>1. On(bids, tx[t].auction) = {} => Highest(tx[t].auction) = {}
      BY DEF On, Highest, ActiveBidsOf, BidsOf
    <3>2. auctions[tx[t].auction].basePrice \in Nat /\ tx[t].amount \in Nat
      BY <2>1, <2>3, Types DEF Refers, Auction, Tx
    <3>3. MeetsFloor(tx[t].auction, tx[t].amount)
      BY <2>1 DEF BidAllowed
    <3> QED
      BY <3>1, <3>2, <3>3 DEF MeetsFloor
  <2>6. Promise(r, auctions, bids)
    BY <1>0, <2>1, <2>4, <2>5 DEF Promise, CancelPC, BidPC
  <2> QED
    BY <1>0, <2>2, <2>6, PromiseFrame
<1>2. CASE ReserveForBid(t)
  <2>1. tx[t].pc = "bidReserve" /\ Goto(t, "bidCommit")
    BY <1>2 DEF ReserveForBid
  <2>2. PICK r : /\ tx' = [tx EXCEPT ![t] = r] /\ r.pc = "bidCommit" /\ SameWork(r, tx[t])
                 /\ r.guild = tx[t].guild
    BY <2>1, GotoKeepsRecord
  <2>3. Promise(r, auctions, bids)
    BY <1>0, <2>1, <2>2 DEF Promise, CancelPC, BidPC, SameWork
  <2> QED
    BY <1>0, <2>2, <2>3, PromiseFrame
<1> QED
  BY <1>1, <1>2

(***************************************************************************)
(* CancelBid under the lock: the bid stands.                               *)
(***************************************************************************)
LEMMA CancelPromises ==
    ASSUME AuctionInv, AuctionAssumption, BiddingInv, PromiseInv, NEW t \in Procs,
           LockForCancel(t) \/ ReleaseForCancel(t)
    PROVE  PromiseInv'
<1>0. UNCHANGED <<auctions, bids>> /\ Promise(tx[t], auctions, bids)
  BY DEF LockForCancel, ReleaseForCancel, auctionVars, PromiseInv
<1>1. bids[tx[t].bid].status = "ACTIVE"
  BY <1>0 DEF LockForCancel, ReleaseForCancel, CancelAllowed, Promise, CancelPC
<1>2. PICK step \in CancelPC : Goto(t, step)
  BY DEF LockForCancel, ReleaseForCancel, CancelPC
<1>3. PICK r : tx' = [tx EXCEPT ![t] = r] /\ r.pc = step /\ SameWork(r, tx[t])
  BY <1>2, GotoKeepsRecord
<1>4. Promise(r, auctions, bids)
  BY <1>1, <1>3, SMTT(30) DEF Promise, CancelPC, BidPC, SameWork
<1> QED
  BY <1>0, <1>3, <1>4, PromiseFrame

(***************************************************************************)
(* The Settler before the loop.                                            *)
(***************************************************************************)
LEMMA SettlerPromises ==
    ASSUME AuctionInv, AuctionAssumption, BiddingInv, PromiseInv, NEW s \in Procs,
           LockForSettlement(s) \/ SettleWinner(s) \/ CreditOwner(s)
    PROVE  PromiseInv'
<1>0. UNCHANGED <<auctions, bids>> /\ Promise(tx[s], auctions, bids)
  BY DEF LockForSettlement, SettleWinner, CreditOwner, auctionVars, PromiseInv
<1>1. CASE tx[s].pc = "settleLock" /\ Goto(s, "expire")
  <2>1. PICK r : tx' = [tx EXCEPT ![s] = r] /\ r.pc = "expire" /\ r.losers = tx[s].losers
    BY <1>1, GotoKeepsRecord
  <2>2. Promise(r, auctions, bids)
    BY <1>0, <1>1, <2>1 DEF Promise, CancelPC, BidPC
  <2> QED
    BY <1>0, <2>1, <2>2, PromiseFrame
<1>2. ASSUME NEW w, tx' = [tx EXCEPT ![s] = [@ EXCEPT !.pc = "settleWinner", !.bid = w]]
      PROVE  PromiseInv'
  <2> DEFINE r == [tx[s] EXCEPT !.pc = "settleWinner", !.bid = w]
  <2>1. tx' = [tx EXCEPT ![s] = r]
    BY <1>2, Zenon
  <2>2. tx[s] \in Tx
    BY Types
  <2>3. r.pc = "settleWinner"
    BY <2>2 DEF Tx
  <2> HIDE DEF r
  <2>4. Promise(r, auctions, bids)
    BY <2>3, NothingPromised
  <2> QED
    BY <1>0, <2>1, <2>4, PromiseFrame
<1>3. ASSUME NEW step \in {"creditOwner", "transfer"}, Goto(s, step)
      PROVE  PromiseInv'
  <2>1. PICK r : tx' = [tx EXCEPT ![s] = r] /\ r.pc = step
    BY <1>3, GotoKeepsRecord
  <2>2. Promise(r, auctions, bids)
    BY <2>1, NothingPromised
  <2> QED
    BY <1>0, <2>1, <2>2, PromiseFrame
<1> QED
  BY <1>1, <1>2, <1>3, ZenonT(40) DEF LockForSettlement, SettleWinner, CreditOwner

(***************************************************************************)
(* The loop over the losers.                                               *)
(***************************************************************************)
LEMMA LoopPromises ==
    ASSUME AuctionInv, AuctionAssumption, BiddingInv, PromiseInv, NEW s \in Procs,
           Transfer(s) \/ ReleaseLoser(s)
    PROVE  PromiseInv'
<1>0. UNCHANGED <<auctions, bids>> /\ Promise(tx[s], auctions, bids)
  BY DEF Transfer, ReleaseLoser, auctionVars, PromiseInv
<1>1. PICK rest : /\ LoopOver(s, rest)
                  /\ rest \subseteq ActiveOn(bids, tx[s].auction) \ {tx[s].bid}
  <2>1. CASE Transfer(s)
    BY <2>1 DEF Transfer, Losers, ActiveBidsOf, BidsOf, ActiveOn, On
  <2>2. CASE ReleaseLoser(s)
    <3>1. tx[s].losers \subseteq ActiveOn(bids, tx[s].auction) \ {tx[s].bid}
      BY <1>0, <2>2 DEF ReleaseLoser, Promise
    <3>2. LoopOver(s, tx[s].losers \ {Min(tx[s].losers)})
      BY <2>2, Zenon DEF ReleaseLoser
    <3> QED
      BY <3>1, <3>2, SMTT(30)
  <2> QED
    BY <2>1, <2>2
<1>2. PICK r : /\ tx' = [tx EXCEPT ![s] = r] /\ SameWork(r, tx[s]) /\ r.losers = rest
               /\ r.pc = IF rest = {} THEN "expire" ELSE "releaseLosers"
  BY <1>1, LoopRecord
<1>3. Promise(r, auctions, bids)
  BY <1>1, <1>2 DEF Promise, CancelPC, BidPC, SameWork
<1> QED
  BY <1>0, <1>2, <1>3, PromiseFrame

(***************************************************************************)
(* A transaction that ends, well or not.                                   *)
(***************************************************************************)
LEMMA EndPromises ==
    ASSUME AuctionInv, AuctionAssumption, BiddingInv, PromiseInv, NEW t \in Procs,
           Commits(t) \/ Abort(t)
    PROVE  PromiseInv'
<1>1. PICK r \in Tx : /\ tx' = [tx EXCEPT ![t] = r]
                      /\ r.pc \in {"idle", "settleLock"} /\ r.losers = {}
  BY CommitsKeepRows, ReturnEmpty DEF Abort
<1>2. Promise(r, auctions', bids')
  BY <1>1, NothingPromised
<1>3. Commits(t) \/ UNCHANGED <<auctions, bids>>
  BY DEF Abort, auctionVars
<1> QED
  BY <1>1, <1>2, <1>3, PromiseFrame

(***************************************************************************)
(* Every step keeps PromiseInv.                                            *)
(***************************************************************************)
LEMMA StepKeepsPromises ==
    ASSUME AuctionInv, BiddingInv, PromiseInv, [AuctionNext]_vars
    PROVE  PromiseInv'
<1> USE AuctionAssumption
<1>1. ASSUME NEW t \in Handlers, Begin(t) \/ HandlerStep(t) \/ Fault(t)
      PROVE  PromiseInv'
  <2>1. t \in Procs
    BY DEF Procs
  <2>2. CASE Begin(t)
    BY <2>1, <2>2, BeginPromises
  <2>3. CASE LockForBid(t) \/ ReserveForBid(t)
    BY <2>1, <2>3, BidPromises
  <2>4. CASE LockForCancel(t) \/ ReleaseForCancel(t)
    BY <2>1, <2>4, CancelPromises
  <2>5. CASE InsertAuction(t) \/ CommitBid(t) \/ CommitCancel(t) \/ Refuse(t) \/ Fault(t)
    BY <2>1, <2>5, EndPromises DEF Commits, Refuse, Fault
  <2> QED
    BY <1>1, <2>2, <2>3, <2>4, <2>5 DEF HandlerStep
<1>2. ASSUME NEW s \in Settlers, Tick(s) \/ SettlerStep(s) \/ Fault(s)
      PROVE  PromiseInv'
  <2>1. s \in Procs
    BY DEF Procs
  <2>2. CASE Tick(s)
    BY <2>1, <2>2, BeginPromises
  <2>3. CASE LockForSettlement(s) \/ SettleWinner(s) \/ CreditOwner(s)
    BY <2>1, <2>3, SettlerPromises
  <2>4. CASE Transfer(s) \/ ReleaseLoser(s)
    BY <2>1, <2>4, LoopPromises
  <2>5. CASE CommitSettlement(s) \/ Refuse(s) \/ Fault(s)
    BY <2>1, <2>5, EndPromises DEF Commits, Refuse, Fault
  <2> QED
    BY <1>2, <2>2, <2>3, <2>4, <2>5 DEF SettlerStep
<1>3. CASE Crash
  <2>1. UNCHANGED <<auctions, bids>> /\ \A t \in Procs : tx'[t].pc = "idle"
    BY <1>3 DEF Crash, auctionVars, Procs, Idle
  <2>2. \A t \in Procs : Promise(tx'[t], auctions', bids')
    BY <2>1, NothingPromised
  <2> QED
    BY <2>2 DEF PromiseInv
<1>4. CASE Time \/ UNCHANGED vars
  BY <1>4 DEF Time, auctionVars, vars, PromiseInv
<1> QED
  BY <1>1, <1>2, <1>3, <1>4 DEF AuctionNext, Quiescent

(***************************************************************************)
(* PromiseInv is inductive relative to AuctionInv and BiddingInv.          *)
(***************************************************************************)
THEOREM PromiseInvariant == AuctionSpec => []PromiseInv
<1>1. AuctionInit => PromiseInv
  <2> SUFFICES ASSUME AuctionInit PROVE PromiseInv
    OBVIOUS
  <2>1. \A t \in Procs : tx[t].pc = "idle"
    BY DEF AuctionInit, Idle, Procs
  <2> QED
    BY <2>1, NothingPromised DEF PromiseInv
<1>2. AuctionInv /\ BiddingInv /\ PromiseInv /\ [AuctionNext]_vars => PromiseInv'
  BY StepKeepsPromises
<1> QED
  BY <1>1, <1>2, AuctionInvariant, BiddingInvariant, PTL DEF AuctionSpec

-----------------------------------------------------------------------------
(* What a step of one transaction leaves of the pouches to the others.     *)

\* Transaction u sees the pouch of g as before, or it has not touched it.
Apart(u, g) ==
    \/ SeenRow(u, g)' = SeenRow(u, g) /\ pouch'[g] = pouch[g]
    \/ SeenRow(u, g)' = pouch'[g] /\ SeenRow(u, g) = pouch[g]

(***************************************************************************)
(* A row that is rewritten under its lock is seen by the holder alone.     *)
(***************************************************************************)
LEMMA WriteApart ==
    ASSUME PouchInv, PouchTableAssumption, NEW t \in Txs, NEW h \in Guilds, NEW gp,
           RowFree(t, h), holder' = [holder EXCEPT ![h] = t], draft' = [draft EXCEPT ![h] = gp],
           pouch' = pouch
    PROVE  /\ \A g \in Guilds : SeenRow(t, g)' = IF g = h THEN gp ELSE SeenRow(t, g)
           /\ \A u \in Txs \ {t}, g \in Guilds : Apart(u, g)
  BY DEF PouchInv, PouchTypeOK, PouchTableAssumption, RowFree, SeenRow, Apart

(***************************************************************************)
(* COMMIT publishes what the transaction saw.                              *)
(***************************************************************************)
LEMMA CommitApart ==
    ASSUME PouchInv, PouchTableAssumption, NEW t \in Txs, CommitRows(t)
    PROVE  /\ \A g \in Guilds : pouch'[g] = SeenRow(t, g) /\ SeenRow(t, g)' = pouch'[g]
           /\ \A u \in Txs \ {t}, g \in Guilds : Apart(u, g)
  BY DEF PouchInv, PouchTypeOK, PouchTableAssumption, CommitRows, SeenRow, Apart

(***************************************************************************)
(* ROLLBACK drops what the transaction saw.                                *)
(***************************************************************************)
LEMMA RollbackApart ==
    ASSUME PouchInv, PouchTableAssumption, NEW t \in Txs, RollbackRows(t)
    PROVE  /\ pouch' = pouch /\ \A g \in Guilds : SeenRow(t, g)' = pouch[g]
           /\ \A u \in Txs \ {t}, g \in Guilds : Apart(u, g)
  BY DEF PouchInv, PouchTypeOK, PouchTableAssumption, RollbackRows, SeenRow, Apart

(***************************************************************************)
(* What a transaction has paid back, taken or charged is a number, and     *)
(* nothing before it has written a pouch.                                  *)
(***************************************************************************)
LEMMA EffectTypes ==
    ASSUME NEW A, NEW B, Tables(A, B), NEW r \in Tx, Refers(r, DOMAIN A, DOMAIN B), NEW g
    PROVE  /\ GoneBy(r, B, g) \in SUBSET DOMAIN B
           /\ Held(r, B, g) \in Int /\ Moved(r, A, B, g) \in Int
           /\ r.pc \in FreshPC => Held(r, B, g) = 0 /\ Moved(r, A, B, g) = 0
<1>1. GoneBy(r, B, g) \in SUBSET DOMAIN B
  BY DEF GoneBy, Gone, Refers, ActiveOn, On
<1>2. Owed(B, GoneBy(r, B, g)) \in Nat /\ Owed(B, {}) = 0
  BY <1>1, OwedSums
<1>3. Incoming(r, g) \in Nat
  BY DEF Incoming, Tx
<1>4. r.pc \in PaidPC /\ r.bid # 0 => r.bid \in DOMAIN B /\ B[r.bid].amount \in Nat
  BY RowTypes DEF PaidPC, Refers
<1>5. Charged(r, B, g) \in Nat /\ Credited(r, A, B, g) \in Nat
  BY <1>4 DEF Charged, Credited
<1>6. ASSUME r.pc \in FreshPC
      PROVE  Held(r, B, g) = 0 /\ Moved(r, A, B, g) = 0
  <2>1. GoneBy(r, B, g) = {} /\ Incoming(r, g) = 0
    BY <1>6 DEF FreshPC, GoneBy, Gone, Incoming
  <2>2. Charged(r, B, g) = 0 /\ Credited(r, A, B, g) = 0
    BY <1>6 DEF FreshPC, Charged, Credited, PaidPC
  <2> QED
    BY <1>2, <2>1, <2>2 DEF Held, Moved
<1> QED
  BY <1>1, <1>2, <1>3, <1>5, <1>6 DEF Held, Moved

(***************************************************************************)
(* It stays the same when others commit.                                   *)
(***************************************************************************)
LEMMA EffectStays ==
    ASSUME NEW A, NEW B, NEW A2, NEW B2, Tables(A, B), NEW r \in Tx,
           Refers(r, DOMAIN A, DOMAIN B), Kept(A, B, A2, B2), HeldStays(r, A, B, A2, B2), NEW g
    PROVE  Held(r, B2, g) = Held(r, B, g) /\ Moved(r, A2, B2, g) = Moved(r, A, B, g)
<1>1. GoneBy(r, B2, g) = GoneBy(r, B, g)
  <2>1. CASE r.pc \in {"cancelCommit", "creditOwner", "transfer"}
    BY <2>1 DEF GoneBy, Gone, Refers, Kept
  <2>2. CASE r.pc \in {"releaseLosers", "expire"}
    <3>1. ActiveOn(B2, r.auction) = ActiveOn(B, r.auction)
      BY <2>2 DEF ActiveOn, HeldStays, LockedPC
    <3>2. \A b \in ActiveOn(B, r.auction) : B2[b].guild = B[b].guild
      BY DEF Kept, ActiveOn, On
    <3> QED
      BY <2>2, <3>1, <3>2 DEF GoneBy, Gone
  <2>3. CASE r.pc \notin {"cancelCommit", "creditOwner", "transfer", "releaseLosers", "expire"}
    BY <2>3 DEF GoneBy, Gone
  <2> QED
    BY <2>1, <2>2, <2>3
<1>2. Owed(B2, GoneBy(r, B, g)) = Owed(B, GoneBy(r, B, g))
  <2>1. GoneBy(r, B, g) \in SUBSET DOMAIN B
    BY EffectTypes
  <2>2. \A b \in GoneBy(r, B, g) : B2[b].amount = B[b].amount
    BY <2>1 DEF Kept
  <2> QED
    BY <2>1, <2>2, OwedSums
<1>3. ASSUME r.pc \in PaidPC, r.bid # 0
      PROVE  /\ B2[r.bid].guild = B[r.bid].guild /\ B2[r.bid].amount = B[r.bid].amount
             /\ A2[r.auction].owner = A[r.auction].owner
  BY <1>3 DEF PaidPC, Refers, Kept
<1> QED
  BY <1>1, <1>2, <1>3 DEF Held, Moved, Charged, Credited

-----------------------------------------------------------------------------
(* EscrowInv under the steps that do not commit.                           *)

(***************************************************************************)
(* A step of one transaction: what the others see stays explained.         *)
(***************************************************************************)
LEMMA BackedFrame ==
    ASSUME AuctionInv, AuctionInv', AuctionAssumption, BiddingInv, EscrowInv,
           NEW t \in Procs, NEW r, tx' = [tx EXCEPT ![t] = r],
           UNCHANGED <<auctions, bids>> \/ Commits(t),
           \A u \in Txs \ {t}, g \in Guilds : Apart(u, g),
           \A g \in Guilds :
              /\ (SeenRow(t, g)').reserved = pouch'[g].reserved + Held(r, bids', g)
              /\ (SeenRow(t, g)').total = pouch'[g].total + Moved(r, auctions', bids', g)
    PROVE  \A u \in Procs : Backed(u, tx[u], auctions, bids)'
<1>1. tx'[t] = r /\ \A u \in Procs \ {t} : tx'[u] = tx[u]
  BY DEF AuctionInv, TypeOK, Procs
<1>2. ASSUME NEW u \in Procs \ {t}, NEW g \in Guilds
      PROVE  /\ (SeenRow(u, g)').reserved = pouch'[g].reserved + Held(tx[u], bids', g)
             /\ (SeenRow(u, g)').total = pouch'[g].total + Moved(tx[u], auctions', bids', g)
  <2>1. /\ Held(tx[u], bids', g) = Held(tx[u], bids, g)
        /\ Moved(tx[u], auctions', bids', g) = Moved(tx[u], auctions, bids, g)
    <3>1. CASE UNCHANGED <<auctions, bids>>
      BY <3>1
    <3>2. CASE Commits(t)
      <4>1. /\ Kept(auctions, bids, auctions', bids')
            /\ HeldStays(tx[u], auctions, bids, auctions', bids')
        BY <3>2, CommitsKeepRows
      <4>2. /\ Tables(auctions, bids) /\ tx[u] \in Tx
            /\ Refers(tx[u], DOMAIN auctions, DOMAIN bids)
        BY TablesHold, Types
      <4> QED
        BY <4>1, <4>2, EffectStays
    <3> QED
      BY <3>1, <3>2
  <2>2. /\ SeenRow(u, g).reserved = pouch[g].reserved + Held(tx[u], bids, g)
        /\ SeenRow(u, g).total = pouch[g].total + Moved(tx[u], auctions, bids, g)
    BY DEF EscrowInv, Backed
  <2>3. /\ Held(tx[u], bids, g) \in Int /\ Moved(tx[u], auctions, bids, g) \in Int
    BY TablesHold, Types, EffectTypes
  <2>4. /\ pouch[g].reserved \in Int /\ pouch[g].total \in Int
        /\ pouch'[g].reserved \in Int /\ pouch'[g].total \in Int
    BY RowFields DEF AuctionInv, PouchInv, PouchTypeOK
  <2>5. Apart(u, g)
    BY Types
  <2>6. CASE SeenRow(u, g)' = SeenRow(u, g) /\ pouch'[g] = pouch[g]
    BY <2>1, <2>2, <2>6
  <2>7. CASE SeenRow(u, g)' = pouch'[g] /\ SeenRow(u, g) = pouch[g]
    <3>1. Held(tx[u], bids, g) = 0 /\ Moved(tx[u], auctions, bids, g) = 0
      BY <2>2, <2>3, <2>4, <2>7
    <3> QED
      BY <2>1, <2>4, <2>7, <3>1
  <2> QED
    BY <2>5, <2>6, <2>7 DEF Apart
<1> QED
  BY <1>1, <1>2 DEF Backed

(***************************************************************************)
(* A step that leaves the pouches and the tables as they are.              *)
(***************************************************************************)
LEMMA EscrowReads ==
    ASSUME AuctionInv, AuctionInv', AuctionAssumption, BiddingInv, EscrowInv,
           NEW t \in Procs, NEW r, tx' = [tx EXCEPT ![t] = r],
           UNCHANGED <<pouch, draft, holder, auctions, bids>>,
           \A g \in Guilds : /\ Held(r, bids, g) = Held(tx[t], bids, g)
                             /\ Moved(r, auctions, bids, g) = Moved(tx[t], auctions, bids, g)
    PROVE  EscrowInv'
<1>1. \A u, g : SeenRow(u, g)' = SeenRow(u, g)
  BY DEF SeenRow
<1>2. \A u \in Txs \ {t}, g \in Guilds : Apart(u, g)
  BY <1>1 DEF Apart
<1>3. \A u \in Procs : Backed(u, tx[u], auctions, bids)'
  BY <1>1, <1>2, BackedFrame DEF EscrowInv, Backed
<1> QED
  BY <1>3 DEF EscrowInv

\* Row gp2 has dh more reserved and dm more in total than gp.
Differ(gp2, gp, dh, dm) == gp2.reserved = gp.reserved + dh /\ gp2.total = gp.total + dm

\* Record r stands for as much more of the pouch of h than record q.
Shifts(q, r, h, dh, dm) ==
    \A g \in Guilds :
        /\ Held(r, bids, g) = Held(q, bids, g) + (IF g = h THEN dh ELSE 0)
        /\ Moved(r, auctions, bids, g)
              = Moved(q, auctions, bids, g) + (IF g = h THEN dm ELSE 0)

(***************************************************************************)
(* A step that rewrites one pouch.                                         *)
(***************************************************************************)
LEMMA EscrowWrites ==
    ASSUME AuctionInv, AuctionInv', PouchTableAssumption, AuctionAssumption, BiddingInv,
           EscrowInv, NEW t \in Procs, NEW r, tx' = [tx EXCEPT ![t] = r],
           NEW h \in Guilds, NEW gp, NEW dh \in Int, NEW dm \in Int,
           RowFree(t, h), holder' = [holder EXCEPT ![h] = t], draft' = [draft EXCEPT ![h] = gp],
           UNCHANGED <<pouch, auctions, bids>>,
           Differ(gp, SeenRow(t, h), dh, dm), Shifts(tx[t], r, h, dh, dm)
    PROVE  EscrowInv'
<1>1. t \in Txs /\ PouchInv
  BY Types DEF AuctionInv
<1>2. /\ pouch' = pouch /\ \A u \in Txs \ {t}, g \in Guilds : Apart(u, g)
      /\ \A g \in Guilds : SeenRow(t, g)' = IF g = h THEN gp ELSE SeenRow(t, g)
  BY <1>1, WriteApart
<1>3. ASSUME NEW g \in Guilds
      PROVE  /\ (SeenRow(t, g)').reserved = pouch'[g].reserved + Held(r, bids', g)
             /\ (SeenRow(t, g)').total = pouch'[g].total + Moved(r, auctions', bids', g)
  <2>1. /\ SeenRow(t, g).reserved = pouch[g].reserved + Held(tx[t], bids, g)
        /\ SeenRow(t, g).total = pouch[g].total + Moved(tx[t], auctions, bids, g)
    BY DEF EscrowInv, Backed
  <2>2. /\ Held(tx[t], bids, g) \in Int /\ Moved(tx[t], auctions, bids, g) \in Int
    BY TablesHold, Types, EffectTypes
  <2>3. pouch[g].reserved \in Int /\ pouch[g].total \in Int
    BY RowFields DEF AuctionInv, PouchInv, PouchTypeOK
  <2>4. /\ (SeenRow(t, g)').reserved = SeenRow(t, g).reserved + IF g = h THEN dh ELSE 0
        /\ (SeenRow(t, g)').total = SeenRow(t, g).total + IF g = h THEN dm ELSE 0
    BY <1>2, <2>1, <2>2, <2>3 DEF Differ
  <2>5. /\ Held(r, bids, g) = Held(tx[t], bids, g) + (IF g = h THEN dh ELSE 0)
        /\ Moved(r, auctions, bids, g)
              = Moved(tx[t], auctions, bids, g) + (IF g = h THEN dm ELSE 0)
    BY DEF Shifts
  <2> QED
    BY <1>2, <2>1, <2>2, <2>3, <2>4, <2>5
<1>4. \A u \in Procs : Backed(u, tx[u], auctions, bids)'
  BY <1>2, <1>3, BackedFrame
<1> QED
  BY <1>2, <1>4 DEF EscrowInv

(***************************************************************************)
(* A transaction that gives up.                                            *)
(***************************************************************************)
LEMMA EscrowAborts ==
    ASSUME AuctionInv, AuctionInv', PouchTableAssumption, AuctionAssumption, BiddingInv,
           EscrowInv, NEW t \in Procs, Abort(t)
    PROVE  EscrowInv'
<1>1. t \in Txs /\ PouchInv /\ RollbackRows(t) /\ UNCHANGED <<auctions, bids>>
  BY Types DEF AuctionInv, Abort, auctionVars
<1>2. /\ pouch' = pouch /\ \A g \in Guilds : SeenRow(t, g)' = pouch[g]
      /\ \A u \in Txs \ {t}, g \in Guilds : Apart(u, g)
  BY <1>1, RollbackApart
<1>3. PICK r \in Tx : /\ tx' = [tx EXCEPT ![t] = r] /\ r.pc \in {"idle", "settleLock"}
                      /\ Refers(r, DOMAIN auctions, DOMAIN bids)
  BY ReturnRecord DEF Abort
<1>4. \A g \in Guilds : Held(r, bids, g) = 0 /\ Moved(r, auctions, bids, g) = 0
  BY <1>3, TablesHold, EffectTypes DEF FreshPC
<1>5. \A g \in Guilds : pouch[g].reserved \in Int /\ pouch[g].total \in Int
  BY RowFields DEF AuctionInv, PouchInv, PouchTypeOK
<1>6. \A u \in Procs : Backed(u, tx[u], auctions, bids)'
  <2>1. \A g \in Guilds :
           /\ (SeenRow(t, g)').reserved = pouch'[g].reserved + Held(r, bids', g)
           /\ (SeenRow(t, g)').total = pouch'[g].total + Moved(r, auctions', bids', g)
    BY <1>1, <1>2, <1>4, <1>5
  <2> QED
    BY <1>1, <1>2, <1>3, <2>1, BackedFrame, ZenonT(40)
<1> QED
  BY <1>1, <1>2, <1>6 DEF EscrowInv

-----------------------------------------------------------------------------
(* EscrowInv is inductive.                                                 *)

(***************************************************************************)
(* What an operation in progress has done to the pouches is nothing before *)
(* its first write, and a number later.                                    *)
(***************************************************************************)
LEMMA NextEffects ==
    ASSUME AuctionInv, AuctionInv', AuctionAssumption, NEW t \in Procs, NEW g,
           UNCHANGED <<auctions, bids>>
    PROVE  /\ tx[t].pc \in FreshPC =>
                 Held(tx[t], bids, g) = 0 /\ Moved(tx[t], auctions, bids, g) = 0
           /\ tx'[t].pc \in FreshPC =>
                 Held(tx'[t], bids, g) = 0 /\ Moved(tx'[t], auctions, bids, g) = 0
<1>1. /\ tx[t] \in Tx /\ Refers(tx[t], DOMAIN auctions, DOMAIN bids)
      /\ Tables(auctions, bids)
  BY Types, TablesHold
<1>2. tx'[t] \in Tx /\ Refers(tx'[t], DOMAIN auctions, DOMAIN bids)
  BY DEF AuctionInv, TypeOK, References, Procs
<1> QED
  BY <1>1, <1>2, EffectTypes

(***************************************************************************)
(* The steps before a transaction has touched a pouch.                     *)
(***************************************************************************)
LEMMA FreshStepsKeepEscrow ==
    ASSUME AuctionInv, AuctionInv', PouchTableAssumption, AuctionAssumption, BiddingInv,
           EscrowInv, NEW t \in Procs, NEW r, tx' = [tx EXCEPT ![t] = r],
           tx[t].pc \in FreshPC, r.pc \in FreshPC,
           UNCHANGED <<pouchVars, auctionVars>>
    PROVE  EscrowInv'
<1>1. tx'[t] = r
  BY DEF AuctionInv, TypeOK, Procs
<1>2. UNCHANGED <<pouch, draft, holder, auctions, bids>>
  BY DEF pouchVars, auctionVars
<1>3. \A g \in Guilds : /\ Held(r, bids, g) = Held(tx[t], bids, g)
                        /\ Moved(r, auctions, bids, g) = Moved(tx[t], auctions, bids, g)
  BY <1>1, <1>2, NextEffects
<1> QED
  BY <1>2, <1>3, EscrowReads

(***************************************************************************)
(* Reading requests and the first locks.                                   *)
(***************************************************************************)
LEMMA BeginKeepsEscrow ==
    ASSUME AuctionInv, AuctionInv', PouchTableAssumption, AuctionAssumption, BiddingInv,
           EscrowInv, NEW t \in Procs, Begin(t) \/ Tick(t) \/ LockForBid(t) \/ LockForCancel(t)
    PROVE  EscrowInv'
<1>0. /\ tx[t].pc \in FreshPC /\ UNCHANGED <<pouchVars, auctionVars>>
      /\ tx[t] \in Tx
  BY Types DEF Begin, CreateRequest, BidRequest, CancelRequest, BeginCreate, BeginBid,
         BeginCancel, Tick, LockForBid, LockForCancel, FreshPC
<1>1. \A g, i, d :
         LET r == [Idle EXCEPT !.pc = "insert", !.guild = g, !.item = i, !.duration = d,
                               !.at = now]
         IN  r.pc \in FreshPC
  BY DEF Idle, FreshPC
<1>2. \A g, a, n :
         LET r == [Idle EXCEPT !.pc = "bidLock", !.guild = g, !.auction = a, !.amount = n]
         IN  r.pc \in FreshPC
  BY DEF Idle, FreshPC
<1>3. \A g, i, a, b :
         LET r == [Idle EXCEPT !.pc = "cancelLock", !.guild = g, !.item = i, !.auction = a,
                               !.bid = b]
         IN  r.pc \in FreshPC
  BY DEF Idle, FreshPC
<1>4. \A a, q :
         LET r == [Idle EXCEPT !.pc = "settleLock", !.auction = a, !.queue = q]
         IN  r.pc \in FreshPC
  BY DEF Idle, FreshPC
<1>5. LET r == [tx[t] EXCEPT !.pc = "bidReserve", !.at = now] IN r.pc \in FreshPC
  BY <1>0 DEF Tx, FreshPC
<1>6. LET r == [tx[t] EXCEPT !.pc = "cancelRelease"] IN r.pc \in FreshPC
  BY <1>0 DEF Tx, FreshPC
<1>7. CASE Begin(t)
  <2>1. ASSUME NEW g \in Guilds, NEW i \in Items, NEW d \in Durations, BeginCreate(t, g, i, d)
        PROVE  EscrowInv'
    BY <1>0, <1>1, <2>1, FreshStepsKeepEscrow DEF BeginCreate
  <2>2. ASSUME NEW g \in Guilds, NEW i \in Items, NEW n \in Amounts, BeginBid(t, g, i, n)
        PROVE  EscrowInv'
    BY <1>0, <1>2, <2>2, FreshStepsKeepEscrow DEF BeginBid
  <2>3. ASSUME NEW g \in Guilds, NEW i \in Items, NEW b \in DOMAIN bids,
               BeginCancel(t, g, i, b)
        PROVE  EscrowInv'
    BY <1>0, <1>3, <2>3, FreshStepsKeepEscrow DEF BeginCancel
  <2> QED
    BY <1>7, <2>1, <2>2, <2>3 DEF Begin, CreateRequest, BidRequest, CancelRequest
<1>8. CASE Tick(t)
  <2> DEFINE due == {a \in DOMAIN auctions :
                       auctions[a].status = "ACTIVE" /\ auctions[a].endTime <= now}
  <2>1. tx' = [tx EXCEPT ![t] = [Idle EXCEPT !.pc = "settleLock", !.auction = Min(due),
                                             !.queue = due]]
    BY <1>8 DEF Tick
  <2> HIDE DEF due
  <2> QED
    BY <1>0, <1>4, <2>1, FreshStepsKeepEscrow
<1>9. CASE LockForBid(t)
  <2>1. tx' = [tx EXCEPT ![t] = [tx[t] EXCEPT !.pc = "bidReserve", !.at = now]]
    BY <1>9, Zenon DEF LockForBid
  <2> QED
    BY <1>0, <1>5, <2>1, FreshStepsKeepEscrow
<1>10. CASE LockForCancel(t)
  <2>1. tx' = [tx EXCEPT ![t] = [tx[t] EXCEPT !.pc = "cancelRelease"]]
    BY <1>10, Zenon DEF LockForCancel, Goto
  <2> QED
    BY <1>0, <1>6, <2>1, FreshStepsKeepEscrow
<1> QED
  BY <1>7, <1>8, <1>9, <1>10

(***************************************************************************)
(* The Settler locks an auction: without a bid there is nothing to charge. *)
(***************************************************************************)
LEMMA LockForSettlementKeepsEscrow ==
    ASSUME AuctionInv, AuctionInv', PouchTableAssumption, AuctionAssumption, BiddingInv,
           EscrowInv, NEW s \in Procs, LockForSettlement(s)
    PROVE  EscrowInv'
<1> DEFINE a == tx[s].auction
<1>1. /\ tx[s].pc = "settleLock" /\ Eligible(a) /\ UNCHANGED <<pouchVars, auctionVars>>
      /\ \/ Highest(a) = {} /\ Goto(s, "expire")
         \/ \E w \in Highest(a) :
               tx' = [tx EXCEPT ![s] = [tx[s] EXCEPT !.pc = "settleWinner", !.bid = w]]
  BY Zenon DEF LockForSettlement
<1>2. tx[s] \in Tx /\ Refers(tx[s], DOMAIN auctions, DOMAIN bids)
  BY Types
<1>3. ASSUME NEW w,
             tx' = [tx EXCEPT ![s] = [tx[s] EXCEPT !.pc = "settleWinner", !.bid = w]]
      PROVE  EscrowInv'
  <2> DEFINE r == [tx[s] EXCEPT !.pc = "settleWinner", !.bid = w]
  <2>1. r.pc \in FreshPC /\ tx[s].pc \in FreshPC
    BY <1>1, <1>2 DEF Tx, FreshPC
  <2>2. tx' = [tx EXCEPT ![s] = r]
    BY <1>3
  <2> HIDE DEF r
  <2> QED
    BY <1>1, <2>1, <2>2, FreshStepsKeepEscrow
<1>4. CASE Highest(a) = {} /\ Goto(s, "expire")
  <2>1. PICK r : /\ tx' = [tx EXCEPT ![s] = r] /\ r.pc = "expire" /\ SameWork(r, tx[s])
    BY <1>4, GotoKeepsRecord
  <2>2. a \in DOMAIN auctions /\ auctions[a].status = "ACTIVE" /\ tx[s].bid = 0
    BY <1>1, <1>2 DEF Refers, Eligible
  <2>3. On(bids, a) = {}
    BY <1>4, <2>2, HighestIsLast, TablesHold DEF BiddingInv, Sound
  <2>4. ASSUME NEW g \in Guilds
        PROVE  Held(r, bids, g) = 0 /\ Moved(r, auctions, bids, g) = 0
    <3>1. GoneBy(r, bids, g) = {} /\ Incoming(r, g) = 0
      BY <2>1, <2>3 DEF GoneBy, Gone, ActiveOn, Incoming, SameWork
    <3>2. Charged(r, bids, g) = 0 /\ Credited(r, auctions, bids, g) = 0
      BY <2>1, <2>2 DEF Charged, Credited, SameWork
    <3>3. Owed(bids, {}) = 0
      BY TablesHold, OwedSums
    <3> QED
      BY <3>1, <3>2, <3>3 DEF Held, Moved
  <2>5. UNCHANGED <<pouch, draft, holder, auctions, bids>>
    BY <1>1 DEF pouchVars, auctionVars
  <2>6. \A g \in Guilds : Held(tx[s], bids, g) = 0 /\ Moved(tx[s], auctions, bids, g) = 0
    BY <1>1, <2>5, NextEffects DEF FreshPC
  <2>7. \A g \in Guilds : /\ Held(r, bids, g) = Held(tx[s], bids, g)
                          /\ Moved(r, auctions, bids, g) = Moved(tx[s], auctions, bids, g)
    BY <2>4, <2>6
  <2> QED
    BY <2>1, <2>5, <2>7, EscrowReads, ZenonT(40)
<1> QED
  BY <1>1, <1>3, <1>4

\* The bid k alone, if it is one of g.
OnlyBy(B, k, g) == {b \in {k} : B[b].guild = g}

(***************************************************************************)
(* What it comes to.                                                       *)
(***************************************************************************)
LEMMA OwedForOne ==
    ASSUME NEW A, NEW B, Tables(A, B), NEW k \in DOMAIN B, NEW g
    PROVE  Owed(B, OnlyBy(B, k, g)) = IF B[k].guild = g THEN B[k].amount ELSE 0
<1>1. Owed(B, {k}) = B[k].amount /\ Owed(B, {}) = 0
  BY OwedSums
<1>2. OnlyBy(B, k, g) = IF B[k].guild = g THEN {k} ELSE {}
  BY DEF OnlyBy
<1> QED
  BY <1>1, <1>2

(***************************************************************************)
(* What each operation on a pouch adds to what it reserves and to its gold.*)
(***************************************************************************)
LEMMA ReserveDiffers ==
    ASSUME NEW x \in Pouch, NEW n \in Nat, NEW date \in Nat
    PROVE  Differ(Reserve(x, n, date), x, n, 0)
<1>1. x.total \in Int /\ x.reserved \in Int
  BY RowFields
<1>2. /\ Reserve(x, n, date).total = x.total
      /\ Reserve(x, n, date).reserved = x.reserved + n
  BY ReserveRow
<1> QED
  BY <1>1, <1>2 DEF Differ

LEMMA ReleaseDiffers ==
    ASSUME NEW x \in Pouch, NEW n \in Nat
    PROVE  Differ(Release(x, n), x, 0 - n, 0)
<1>1. x.total \in Int /\ x.reserved \in Int
  BY RowFields
<1>2. Release(x, n).total = x.total /\ Release(x, n).reserved = x.reserved - n
  BY ReleaseRow
<1> QED
  BY <1>1, <1>2 DEF Differ

LEMMA SettleDiffers ==
    ASSUME NEW x \in Pouch, NEW n \in Nat, NEW date \in Nat
    PROVE  Differ(Settle(x, n, date), x, 0 - n, 0 - n)
<1>1. x.total \in Int /\ x.reserved \in Int
  BY RowFields
<1>2. /\ Settle(x, n, date).total = x.total - n
      /\ Settle(x, n, date).reserved = x.reserved - n
  BY SettleRow
<1> QED
  BY <1>1, <1>2 DEF Differ

LEMMA CreditDiffers ==
    ASSUME NEW x \in Pouch, NEW n \in Nat
    PROVE  Differ(Credit(x, n), x, 0, n)
<1>1. x.total \in Int /\ x.reserved \in Int
  BY RowFields
<1>2. Credit(x, n).total = x.total + n /\ Credit(x, n).reserved = x.reserved
  BY CreditRow
<1> QED
  BY <1>1, <1>2 DEF Differ

(***************************************************************************)
(* PlaceBid reserves the amount of the bid to come.                        *)
(***************************************************************************)
LEMMA ReserveKeepsEscrow ==
    ASSUME AuctionInv, AuctionInv', PouchTableAssumption, AuctionAssumption, BiddingInv,
           EscrowInv, NEW t \in Procs, ReserveForBid(t)
    PROVE  EscrowInv'
<1> DEFINE h == tx[t].guild
           n == tx[t].amount
           gp == Reserve(SeenRow(t, h), n, today)
           dh == n
           dm == 0
<1>1. /\ tx[t].pc = "bidReserve" /\ RowFree(t, h) /\ Goto(t, "bidCommit")
      /\ holder' = [holder EXCEPT ![h] = t] /\ draft' = [draft EXCEPT ![h] = gp]
      /\ UNCHANGED <<pouch, auctions, bids>>
  BY DEF ReserveForBid, WriteRow, auctionVars
<1>2. h \in Guilds /\ n \in Nat /\ today \in Nat
  BY <1>1, Types DEF Refers, Tx, AuctionInv, PouchInv, PouchTypeOK
<1>3. Differ(gp, SeenRow(t, h), dh, dm)
  <2> HIDE DEF h, n
  <2>1. SeenRow(t, h) \in Pouch
    BY <1>2, SeenRowIsSolvent DEF AuctionInv
  <2> QED
    BY <1>2, <2>1, ReserveDiffers
<1>4. PICK r : /\ tx' = [tx EXCEPT ![t] = r] /\ r.pc = "bidCommit" /\ SameWork(r, tx[t])
               /\ r.guild = h
  BY <1>1, GotoKeepsRecord
<1>5. Shifts(tx[t], r, h, dh, dm)
  <2> SUFFICES ASSUME NEW g \in Guilds
               PROVE  /\ Held(r, bids, g) = Held(tx[t], bids, g) + (IF g = h THEN dh ELSE 0)
                      /\ Moved(r, auctions, bids, g)
                            = Moved(tx[t], auctions, bids, g) + (IF g = h THEN dm ELSE 0)
    BY DEF Shifts
  <2>1. Held(tx[t], bids, g) = 0 /\ Moved(tx[t], auctions, bids, g) = 0
    BY <1>1, NextEffects DEF FreshPC
  <2>2. GoneBy(r, bids, g) = {} /\ Incoming(r, g) = IF g = h THEN n ELSE 0
    BY <1>4 DEF GoneBy, Gone, Incoming, SameWork
  <2>3. Charged(r, bids, g) = 0 /\ Credited(r, auctions, bids, g) = 0
    BY <1>4 DEF Charged, Credited, PaidPC
  <2>4. Owed(bids, {}) = 0
    BY TablesHold, OwedSums
  <2> QED
    BY <1>2, <2>1, <2>2, <2>3, <2>4 DEF Held, Moved
<1>6. dh \in Int /\ dm \in Int
  BY <1>2
<1> HIDE DEF dh, dm, gp, n, h
<1> QED
  BY <1>1, <1>2, <1>3, <1>4, <1>5, <1>6, EscrowWrites

(***************************************************************************)
(* CancelBid releases the amount of the bid, which still shows as standing.*)
(***************************************************************************)
LEMMA ReleaseKeepsEscrow ==
    ASSUME AuctionInv, AuctionInv', PouchTableAssumption, AuctionAssumption, BiddingInv,
           EscrowInv, NEW t \in Procs, ReleaseForCancel(t)
    PROVE  EscrowInv'
<1> DEFINE k == tx[t].bid
           h == bids[k].guild
           n == bids[k].amount
           gp == Release(SeenRow(t, h), n)
           dh == 0 - n
           dm == 0
<1>1. /\ tx[t].pc = "cancelRelease" /\ RowFree(t, h) /\ Goto(t, "cancelCommit")
      /\ holder' = [holder EXCEPT ![h] = t] /\ draft' = [draft EXCEPT ![h] = gp]
      /\ UNCHANGED <<pouch, auctions, bids>>
  BY DEF ReleaseForCancel, WriteRow, auctionVars
<1>2. k \in DOMAIN bids /\ h \in Guilds /\ n \in Nat
  BY <1>1, Types DEF Refers, Bid
<1>3. Differ(gp, SeenRow(t, h), dh, dm)
  <2> HIDE DEF h, n
  <2>1. SeenRow(t, h) \in Pouch
    BY <1>2, SeenRowIsSolvent DEF AuctionInv
  <2> QED
    BY <1>2, <2>1, ReleaseDiffers
<1>4. PICK r : tx' = [tx EXCEPT ![t] = r] /\ r.pc = "cancelCommit" /\ SameWork(r, tx[t])
  BY <1>1, GotoKeepsRecord
<1>5. Shifts(tx[t], r, h, dh, dm)
  <2> SUFFICES ASSUME NEW g \in Guilds
               PROVE  /\ Held(r, bids, g) = Held(tx[t], bids, g) + (IF g = h THEN dh ELSE 0)
                      /\ Moved(r, auctions, bids, g)
                            = Moved(tx[t], auctions, bids, g) + (IF g = h THEN dm ELSE 0)
    BY DEF Shifts
  <2>1. Held(tx[t], bids, g) = 0 /\ Moved(tx[t], auctions, bids, g) = 0
    BY <1>1, NextEffects DEF FreshPC
  <2>2. GoneBy(r, bids, g) = OnlyBy(bids, k, g)
    BY <1>4 DEF GoneBy, Gone, SameWork, OnlyBy
  <2>3. Charged(r, bids, g) = 0 /\ Credited(r, auctions, bids, g) = 0
    BY <1>4 DEF Charged, Credited, PaidPC
  <2>4. Owed(bids, GoneBy(r, bids, g)) = IF h = g THEN n ELSE 0
    <3>1. Tables(auctions, bids) /\ k \in DOMAIN bids
      BY <1>2, TablesHold
    <3> QED
      BY <2>2, <3>1, OwedForOne
  <2>5. Incoming(r, g) = 0
    BY <1>4 DEF Incoming
  <2> QED
    BY <1>2, <2>1, <2>3, <2>4, <2>5 DEF Held, Moved
<1>6. dh \in Int /\ dm \in Int
  BY <1>2
<1> HIDE DEF dh, dm, gp, n, h, k
<1> QED
  BY <1>1, <1>2, <1>3, <1>4, <1>5, <1>6, EscrowWrites

(***************************************************************************)
(* The winner's reservation and gold are taken.                            *)
(***************************************************************************)
LEMMA SettleKeepsEscrow ==
    ASSUME AuctionInv, AuctionInv', PouchTableAssumption, AuctionAssumption, BiddingInv,
           EscrowInv, NEW s \in Procs, SettleWinner(s)
    PROVE  EscrowInv'
<1> DEFINE k == tx[s].bid
           h == bids[k].guild
           n == bids[k].amount
           gp == Settle(SeenRow(s, h), n, today)
           dh == 0 - n
           dm == 0 - n
<1>1. /\ tx[s].pc = "settleWinner" /\ RowFree(s, h) /\ Goto(s, "creditOwner")
      /\ holder' = [holder EXCEPT ![h] = s] /\ draft' = [draft EXCEPT ![h] = gp]
      /\ UNCHANGED <<pouch, auctions, bids>>
  BY DEF SettleWinner, WriteRow, auctionVars
<1>2. /\ k \in DOMAIN bids /\ k # 0 /\ h \in Guilds /\ n \in Nat /\ today \in Nat
  BY <1>1, Types DEF Refers, Bid, AuctionInv, PouchInv, PouchTypeOK
<1>3. Differ(gp, SeenRow(s, h), dh, dm)
  <2> HIDE DEF h, n
  <2>1. SeenRow(s, h) \in Pouch
    BY <1>2, SeenRowIsSolvent DEF AuctionInv
  <2> QED
    BY <1>2, <2>1, SettleDiffers
<1>4. PICK r : tx' = [tx EXCEPT ![s] = r] /\ r.pc = "creditOwner" /\ SameWork(r, tx[s])
  BY <1>1, GotoKeepsRecord
<1>5. Shifts(tx[s], r, h, dh, dm)
  <2> SUFFICES ASSUME NEW g \in Guilds
               PROVE  /\ Held(r, bids, g) = Held(tx[s], bids, g) + (IF g = h THEN dh ELSE 0)
                      /\ Moved(r, auctions, bids, g)
                            = Moved(tx[s], auctions, bids, g) + (IF g = h THEN dm ELSE 0)
    BY DEF Shifts
  <2>1. Held(tx[s], bids, g) = 0 /\ Moved(tx[s], auctions, bids, g) = 0
    BY <1>1, NextEffects DEF FreshPC
  <2>2. GoneBy(r, bids, g) = OnlyBy(bids, k, g)
    BY <1>4 DEF GoneBy, Gone, SameWork, OnlyBy
  <2>3. /\ Charged(r, bids, g) = IF h = g THEN n ELSE 0
        /\ Credited(r, auctions, bids, g) = 0
    BY <1>2, <1>4 DEF Charged, Credited, PaidPC, SameWork
  <2>4. Owed(bids, GoneBy(r, bids, g)) = IF h = g THEN n ELSE 0
    <3>1. Tables(auctions, bids) /\ k \in DOMAIN bids
      BY <1>2, TablesHold
    <3> QED
      BY <2>2, <3>1, OwedForOne
  <2>5. Incoming(r, g) = 0
    BY <1>4 DEF Incoming
  <2> QED
    BY <1>2, <2>1, <2>3, <2>4, <2>5 DEF Held, Moved
<1>6. dh \in Int /\ dm \in Int
  BY <1>2
<1> HIDE DEF dh, dm, gp, n, h, k
<1> QED
  BY <1>1, <1>2, <1>3, <1>4, <1>5, <1>6, EscrowWrites

(***************************************************************************)
(* The seller is credited.                                                 *)
(***************************************************************************)
LEMMA CreditKeepsEscrow ==
    ASSUME AuctionInv, AuctionInv', PouchTableAssumption, AuctionAssumption, BiddingInv,
           EscrowInv, NEW s \in Procs, CreditOwner(s)
    PROVE  EscrowInv'
<1> DEFINE k == tx[s].bid
           h == auctions[tx[s].auction].owner
           n == bids[k].amount
           gp == Credit(SeenRow(s, h), n)
           dh == 0
           dm == n
<1>1. /\ tx[s].pc = "creditOwner" /\ RowFree(s, h) /\ Goto(s, "transfer")
      /\ holder' = [holder EXCEPT ![h] = s] /\ draft' = [draft EXCEPT ![h] = gp]
      /\ UNCHANGED <<pouch, auctions, bids>>
  BY DEF CreditOwner, WriteRow, auctionVars
<1>2. k \in DOMAIN bids /\ k # 0 /\ h \in Guilds /\ n \in Nat
  BY <1>1, Types DEF Refers, Bid, Auction
<1>3. Differ(gp, SeenRow(s, h), dh, dm)
  <2> HIDE DEF h, n
  <2>1. SeenRow(s, h) \in Pouch
    BY <1>2, SeenRowIsSolvent DEF AuctionInv
  <2> QED
    BY <1>2, <2>1, CreditDiffers
<1>4. PICK r : tx' = [tx EXCEPT ![s] = r] /\ r.pc = "transfer" /\ SameWork(r, tx[s])
  BY <1>1, GotoKeepsRecord
<1>5. Shifts(tx[s], r, h, dh, dm)
  <2> SUFFICES ASSUME NEW g \in Guilds
               PROVE  /\ Held(r, bids, g) = Held(tx[s], bids, g) + (IF g = h THEN dh ELSE 0)
                      /\ Moved(r, auctions, bids, g)
                            = Moved(tx[s], auctions, bids, g) + (IF g = h THEN dm ELSE 0)
    BY DEF Shifts
  <2>1. /\ Held(tx[s], bids, g) \in Int /\ Moved(tx[s], auctions, bids, g) \in Int
    BY TablesHold, Types, EffectTypes
  <2>2. GoneBy(r, bids, g) = GoneBy(tx[s], bids, g) /\ Incoming(r, g) = Incoming(tx[s], g)
    BY <1>1, <1>4 DEF GoneBy, Gone, Incoming, SameWork
  <2>3. /\ Charged(r, bids, g) = Charged(tx[s], bids, g)
        /\ Credited(tx[s], auctions, bids, g) = 0
        /\ Credited(r, auctions, bids, g) = IF h = g THEN n ELSE 0
        /\ Charged(tx[s], bids, g) \in Int
    BY <1>1, <1>2, <1>4, Types, SMTT(30) DEF Charged, Credited, PaidPC, SameWork, Bid
  <2>4. Held(r, bids, g) = Held(tx[s], bids, g)
    BY <2>2 DEF Held
  <2>5. Moved(r, auctions, bids, g) = Moved(tx[s], auctions, bids, g) + IF g = h THEN n ELSE 0
    BY <1>2, <2>3 DEF Moved
  <2> QED
    BY <2>1, <2>4, <2>5
<1>6. dh \in Int /\ dm \in Int
  BY <1>2
<1> HIDE DEF dh, dm, gp, n, h, k
<1> QED
  BY <1>1, <1>2, <1>3, <1>4, <1>5, <1>6, EscrowWrites

(***************************************************************************)
(* The bid that a settlement awards stands until it commits.               *)
(***************************************************************************)
LEMMA WinnerStands ==
    ASSUME AuctionInv, AuctionAssumption, BiddingInv, NEW s \in Procs, tx[s].pc \in SettlePC,
           tx[s].bid # 0
    PROVE  /\ tx[s].bid \in ActiveOn(bids, tx[s].auction) /\ tx[s].bid \in DOMAIN bids
           /\ IsLast(bids, tx[s].auction, tx[s].bid)
<1>1. Claim(tx[s], auctions, bids, inv, now) /\ Refers(tx[s], DOMAIN auctions, DOMAIN bids)
  BY Types DEF BiddingInv
<1>2. /\ tx[s].auction \in DOMAIN auctions /\ auctions[tx[s].auction].status = "ACTIVE"
      /\ IsLast(bids, tx[s].auction, tx[s].bid)
  BY <1>1 DEF Claim, Refers, SettlePC, LockedPC
<1>3. OpenBids(bids, tx[s].auction)
  BY <1>2 DEF BiddingInv, Sound, Orderly
<1>4. \A b, c \in On(bids, tx[s].auction) : b \in Nat /\ c \in Nat
  BY Types DEF On
<1>5. bids[tx[s].bid].status = "ACTIVE"
  BY <1>2, <1>3, <1>4 DEF OpenBids, IsLast
<1> QED
  BY <1>2, <1>5 DEF ActiveOn, IsLast, On

(***************************************************************************)
(* Handing the item over touches no pouch, and only the winner has paid.   *)
(***************************************************************************)
LEMMA TransferKeepsEscrow ==
    ASSUME AuctionInv, AuctionInv', PouchTableAssumption, AuctionAssumption, BiddingInv,
           EscrowInv, NEW s \in Procs, Transfer(s)
    PROVE  EscrowInv'
<1> DEFINE a == tx[s].auction
           w == tx[s].bid
           rest == Losers(a, w)
<1>1. /\ tx[s].pc = "transfer" /\ LoopOver(s, rest)
      /\ UNCHANGED <<pouch, draft, holder, auctions, bids>>
  BY DEF Transfer, pouchVars, auctionVars
<1>2. w \in DOMAIN bids /\ w # 0
  BY <1>1, Types DEF Refers
<1>3. w \in ActiveOn(bids, a)
  BY <1>1, <1>2, WinnerStands DEF SettlePC
<1>4. rest = ActiveOn(bids, a) \ {w}
  BY DEF Losers, ActiveBidsOf, BidsOf, ActiveOn, On
<1> HIDE DEF rest
<1>5. PICK r : /\ tx' = [tx EXCEPT ![s] = r] /\ SameWork(r, tx[s]) /\ r.losers = rest
               /\ r.pc = IF rest = {} THEN "expire" ELSE "releaseLosers"
  BY <1>1, LoopRecord
<1>6. r.pc \in {"releaseLosers", "expire"} /\ r.auction = a /\ r.bid = w
  BY <1>5 DEF SameWork
<1>7. Gone(r, bids) = {w} /\ Gone(tx[s], bids) = {w}
  BY <1>1, <1>3, <1>4, <1>5, <1>6 DEF Gone
<1>8. ASSUME NEW g \in Guilds
      PROVE  /\ Held(r, bids, g) = Held(tx[s], bids, g)
             /\ Moved(r, auctions, bids, g) = Moved(tx[s], auctions, bids, g)
  <2>1. GoneBy(r, bids, g) = GoneBy(tx[s], bids, g)
    BY <1>7 DEF GoneBy
  <2>2. Incoming(r, g) = Incoming(tx[s], g)
    BY <1>1, <1>6 DEF Incoming
  <2>3. /\ Charged(r, bids, g) = Charged(tx[s], bids, g)
        /\ Credited(r, auctions, bids, g) = Credited(tx[s], auctions, bids, g)
    BY <1>1, <1>6 DEF Charged, Credited, PaidPC
  <2> QED
    BY <2>1, <2>2, <2>3 DEF Held, Moved
<1> QED
  BY <1>1, <1>5, <1>8, EscrowReads

(***************************************************************************)
(* One more loser gets its reservation back.                               *)
(***************************************************************************)
LEMMA ReleaseLoserKeepsEscrow ==
    ASSUME AuctionInv, AuctionInv', PouchTableAssumption, AuctionAssumption, BiddingInv,
           PromiseInv, EscrowInv, NEW s \in Procs, ReleaseLoser(s)
    PROVE  EscrowInv'
<1> DEFINE k == Min(tx[s].losers)
           h == bids[k].guild
           n == bids[k].amount
           gp == Release(SeenRow(s, h), n)
           rest == tx[s].losers \ {k}
           dh == 0 - n
           dm == 0
<1>1. /\ tx[s].pc = "releaseLosers" /\ RowFree(s, h)
      /\ holder' = [holder EXCEPT ![h] = s] /\ draft' = [draft EXCEPT ![h] = gp]
      /\ LoopOver(s, rest) /\ UNCHANGED <<pouch, auctions, bids>>
  BY Zenon DEF ReleaseLoser, WriteRow, auctionVars
<1>2. /\ tx[s].losers \subseteq ActiveOn(bids, tx[s].auction)
      /\ tx[s].losers # {} /\ tx[s].losers \in SUBSET Nat
      /\ tx[s] \in Tx /\ Refers(tx[s], DOMAIN auctions, DOMAIN bids)
  BY <1>1, Types DEF PromiseInv, Promise, Refers, Tx
<1>3. k \in tx[s].losers
  BY <1>2, MinIsMember
<1> HIDE DEF k
<1>4. k \in ActiveOn(bids, tx[s].auction) /\ k \in DOMAIN bids /\ h \in Guilds /\ n \in Nat
  BY <1>2, <1>3, Types DEF Refers, Bid
<1>5. Differ(gp, SeenRow(s, h), dh, dm)
  <2>1. SeenRow(s, h) \in Pouch
    BY <1>4, SeenRowIsSolvent DEF AuctionInv
  <2>2. SeenRow(s, h).total \in Int /\ SeenRow(s, h).reserved \in Int
    BY <2>1, RowFields
  <2>3. gp.reserved = SeenRow(s, h).reserved - n /\ gp.total = SeenRow(s, h).total
    BY <1>4, <2>1, ReleaseRow
  <2> QED
    BY <1>4, <2>2, <2>3 DEF Differ
<1>6. PICK r : /\ tx' = [tx EXCEPT ![s] = r] /\ SameWork(r, tx[s]) /\ r.losers = rest
               /\ r.pc = IF rest = {} THEN "expire" ELSE "releaseLosers"
  BY <1>1, LoopRecord
<1>7. r.pc \in {"releaseLosers", "expire"} /\ r.auction = tx[s].auction /\ r.bid = tx[s].bid
  BY <1>6 DEF SameWork
<1>8. Gone(r, bids) = Gone(tx[s], bids) \cup {k} /\ k \notin Gone(tx[s], bids)
  <2>1. Gone(r, bids) = ActiveOn(bids, tx[s].auction) \ rest
    BY <1>6, <1>7 DEF Gone
  <2>2. Gone(tx[s], bids) = ActiveOn(bids, tx[s].auction) \ tx[s].losers
    BY <1>1 DEF Gone
  <2> QED
    BY <1>3, <1>4, <2>1, <2>2
<1>9. Shifts(tx[s], r, h, dh, dm)
  <2> SUFFICES ASSUME NEW g \in Guilds
               PROVE  /\ Held(r, bids, g) = Held(tx[s], bids, g) + (IF g = h THEN dh ELSE 0)
                      /\ Moved(r, auctions, bids, g)
                            = Moved(tx[s], auctions, bids, g) + (IF g = h THEN dm ELSE 0)
    BY DEF Shifts
  <2> DEFINE S == GoneBy(r, bids, g)
             P == OnlyBy(bids, k, g)
  <2>1. Tables(auctions, bids) /\ k \in DOMAIN bids
    BY <1>4, TablesHold
  <2>2. S \in SUBSET DOMAIN bids
    <3>1. r \in Tx /\ Refers(r, DOMAIN auctions, DOMAIN bids)
      <4>1. tx'[s] = r
        BY <1>6 DEF AuctionInv, TypeOK, Procs
      <4> QED
        BY <1>1, <4>1 DEF AuctionInv, TypeOK, References, Procs
    <3> QED
      BY <2>1, <3>1, EffectTypes
  <2>3. P \in SUBSET S /\ S \ P = GoneBy(tx[s], bids, g)
    BY <1>8 DEF GoneBy, OnlyBy
  <2>4. Owed(bids, P) = IF h = g THEN n ELSE 0
    BY <2>1, OwedForOne
  <2> HIDE DEF S, P
  <2>5. /\ Owed(bids, S) = Owed(bids, GoneBy(tx[s], bids, g)) + Owed(bids, P)
        /\ Owed(bids, GoneBy(tx[s], bids, g)) \in Nat
    BY <2>1, <2>2, <2>3, OwedSums
  <2>6. Incoming(r, g) = 0 /\ Incoming(tx[s], g) = 0
    BY <1>1, <1>7 DEF Incoming
  <2>7. /\ Charged(r, bids, g) = Charged(tx[s], bids, g)
        /\ Credited(r, auctions, bids, g) = Credited(tx[s], auctions, bids, g)
    BY <1>1, <1>7 DEF Charged, Credited, PaidPC
  <2>8. Moved(tx[s], auctions, bids, g) \in Int
    BY <1>2, <2>1, EffectTypes
  <2>9. Moved(r, auctions, bids, g) = Moved(tx[s], auctions, bids, g)
    BY <2>7 DEF Moved
  <2>10. /\ Held(r, bids, g) = 0 - Owed(bids, S)
         /\ Held(tx[s], bids, g) = 0 - Owed(bids, GoneBy(tx[s], bids, g))
    BY <2>6 DEF Held, S
  <2> QED
    BY <1>4, <2>4, <2>5, <2>8, <2>9, <2>10
<1>10. dh \in Int /\ dm \in Int
  BY <1>4
<1> HIDE DEF dh, dm, gp, n, h
<1> QED
  BY <1>1, <1>4, <1>5, <1>6, <1>9, <1>10, EscrowWrites

\* What g gains when w pays p to v.
Gain(g, v, w, p) == (IF g = v THEN p ELSE 0) - (IF g = w THEN p ELSE 0)

\* A step in which w pays p to v.
Payment(v, w, p) ==
    \A g \in Guilds : /\ pouch[g].total \in Int
                      /\ pouch'[g].total = pouch[g].total + Gain(g, v, w, p)

(***************************************************************************)
(* A payment of one guild to another leaves the gold of all as it is.      *)
(***************************************************************************)
LEMMA PaymentKeepsGold ==
    ASSUME PouchTableAssumption, NEW v \in Guilds, NEW w \in Guilds, NEW p \in Int,
           Payment(v, w, p)
    PROVE  AllGold(pouch') = AllGold(pouch)
<1> DEFINE f == [g \in Guilds |-> pouch[g].total]
           f1 == [g \in Guilds |-> f[g] + (IF g = v THEN p ELSE 0)]
           h == [g \in Guilds |-> pouch'[g].total]
<1>1. \A g \in Guilds : f[g] \in Int /\ f1[g] \in Int
  BY DEF Payment
<1>2. Raised(f1, f, Guilds, v, p)
  BY DEF Raised
<1>3. Raised(h, f1, Guilds, w, 0 - p)
  BY <1>1 DEF Raised, Gain, Payment
<1>4. AllGold(pouch) = SumOver(f, Guilds) /\ AllGold(pouch') = SumOver(h, Guilds)
  BY AllGoldIsSum
<1>5. IsFiniteSet(Guilds) /\ 0 - p \in Int
  BY DEF PouchTableAssumption
<1> HIDE DEF f, f1, h
<1>6. SumOver(f1, Guilds) = SumOver(f, Guilds) + p
  BY <1>1, <1>2, <1>5, SumChange
<1>7. SumOver(h, Guilds) = SumOver(f1, Guilds) + (0 - p)
  BY <1>1, <1>3, <1>5, SumChange
<1>8. SumOver(f, Guilds) \in Int
  BY <1>1, <1>5, SumType
<1> QED
  BY <1>4, <1>6, <1>7, <1>8

(***************************************************************************)
(* So does a step that changes no total.                                   *)
(***************************************************************************)
LEMMA SameGold ==
    ASSUME PouchTableAssumption, NEW P, NEW P2, \A g \in Guilds : P2[g].total = P[g].total
    PROVE  AllGold(P2) = AllGold(P)
<1>1. [g \in Guilds |-> P2[g].total] = [g \in Guilds |-> P[g].total]
  OBVIOUS
<1> QED
  BY <1>1, AllGoldIsSum

(***************************************************************************)
(* COMMIT turns what a transaction saw into what everybody sees.           *)
(***************************************************************************)
LEMMA CommitBacks ==
    ASSUME AuctionInv, AuctionInv', PouchTableAssumption, AuctionAssumption, BiddingInv,
           PromiseInv, EscrowInv, NEW t \in Procs, CommitRows(t), Commits(t)
    PROVE  /\ \A g \in Guilds :
                 /\ pouch[g].reserved \in Int /\ pouch[g].total \in Int
                 /\ pouch'[g].reserved = pouch[g].reserved + Held(tx[t], bids, g)
                 /\ pouch'[g].total = pouch[g].total + Moved(tx[t], auctions, bids, g)
           /\ \A u \in Procs : Backed(u, tx[u], auctions, bids)'
<1>1. t \in Txs /\ PouchInv
  BY Types DEF AuctionInv
<1>2. /\ \A g \in Guilds : pouch'[g] = SeenRow(t, g) /\ SeenRow(t, g)' = pouch'[g]
      /\ \A u \in Txs \ {t}, g \in Guilds : Apart(u, g)
  BY <1>1, CommitApart
<1>3. PICK r \in Tx : tx' = [tx EXCEPT ![t] = r] /\ r.pc \in {"idle", "settleLock"}
  BY CommitsKeepRows
<1>4. Tables(auctions', bids') /\ Refers(r, DOMAIN auctions', DOMAIN bids')
  <2>1. tx'[t] = r
    BY <1>3 DEF AuctionInv, TypeOK, Procs
  <2> QED
    BY <2>1 DEF AuctionInv, TypeOK, References, Procs, Tables
<1>5. \A g \in Guilds : Held(r, bids', g) = 0 /\ Moved(r, auctions', bids', g) = 0
  BY <1>3, <1>4, EffectTypes DEF FreshPC
<1>6. \A g \in Guilds : /\ pouch[g].reserved \in Int /\ pouch[g].total \in Int
                        /\ pouch'[g].reserved \in Int /\ pouch'[g].total \in Int
  BY RowFields DEF AuctionInv, PouchInv, PouchTypeOK
<1>7. \A u \in Procs : Backed(u, tx[u], auctions, bids)'
  <2>1. \A g \in Guilds :
           /\ (SeenRow(t, g)').reserved = pouch'[g].reserved + Held(r, bids', g)
           /\ (SeenRow(t, g)').total = pouch'[g].total + Moved(r, auctions', bids', g)
    BY <1>2, <1>5, <1>6
  <2> QED
    BY <1>2, <1>3, <2>1, BackedFrame
<1>8. \A g \in Guilds :
         /\ pouch'[g].reserved = pouch[g].reserved + Held(tx[t], bids, g)
         /\ pouch'[g].total = pouch[g].total + Moved(tx[t], auctions, bids, g)
  BY <1>2 DEF EscrowInv, Backed
<1> QED
  BY <1>6, <1>7, <1>8

(***************************************************************************)
(* A bid is committed with its reservation.                                *)
(***************************************************************************)
LEMMA CommitBidKeepsEscrow ==
    ASSUME AuctionInv, AuctionInv', PouchTableAssumption, AuctionAssumption, BiddingInv,
           PromiseInv, EscrowInv, NEW t \in Procs, CommitBid(t)
    PROVE  EscrowInv'
<1> DEFINE m == Len(bids) + 1
<1>1. /\ \A g \in Guilds :
            /\ pouch[g].reserved \in Int /\ pouch[g].total \in Int
            /\ pouch'[g].reserved = pouch[g].reserved + Held(tx[t], bids, g)
            /\ pouch'[g].total = pouch[g].total + Moved(tx[t], auctions, bids, g)
      /\ \A u \in Procs : Backed(u, tx[u], auctions, bids)'
  BY CommitBacks DEF CommitBid, Commits
<1>2. /\ DOMAIN bids' = DOMAIN bids \cup {m} /\ m \notin DOMAIN bids
      /\ \A b \in DOMAIN bids : bids'[b] = bids[b]
      /\ bids'[m].guild = tx[t].guild /\ bids'[m].amount = tx[t].amount
      /\ bids'[m].status = "ACTIVE"
  BY BidRows
<1> HIDE DEF m
<1>3. Tables(auctions, bids) /\ Tables(auctions', bids')
  <2>1. Tables(auctions', bids')
    BY DEF AuctionInv, TypeOK, References, Tables
  <2> QED
    BY <2>1, TablesHold
<1>4. tx[t].pc = "bidCommit" /\ tx[t].amount \in Nat
  BY Types DEF CommitBid, Tx
<1>5. ASSUME NEW g \in Guilds
      PROVE  /\ Held(tx[t], bids, g) = IF g = tx[t].guild THEN tx[t].amount ELSE 0
             /\ Moved(tx[t], auctions, bids, g) = 0
  <2>1. GoneBy(tx[t], bids, g) = {}
    BY <1>4 DEF GoneBy, Gone
  <2>2. /\ Charged(tx[t], bids, g) = 0 /\ Credited(tx[t], auctions, bids, g) = 0
        /\ Incoming(tx[t], g) = IF g = tx[t].guild THEN tx[t].amount ELSE 0
    BY <1>4 DEF Charged, Credited, Incoming, PaidPC
  <2>3. Owed(bids, {}) = 0
    BY <1>3, OwedSums
  <2> QED
    BY <1>4, <2>1, <2>2, <2>3 DEF Held, Moved
<1>6. ASSUME NEW g \in Guilds
      PROVE  pouch'[g].reserved = Owed(bids', ActiveBy(bids', g))
  <2> DEFINE S == ActiveBy(bids, g)
             S2 == ActiveBy(bids', g)
             P == IF g = tx[t].guild THEN {m} ELSE {}
  <2>1. S2 = S \cup P /\ S \in SUBSET DOMAIN bids /\ S2 \in SUBSET DOMAIN bids'
    BY <1>2 DEF ActiveBy
  <2>2. P \in SUBSET S2 /\ S = S2 \ P
    BY <1>2, <2>1
  <2>3. pouch[g].reserved = Owed(bids, S)
    BY DEF EscrowInv
  <2> HIDE DEF S, S2
  <2>4. Owed(bids', S) = Owed(bids, S)
    <3>1. \A b \in S : bids'[b].amount = bids[b].amount
      BY <1>2, <2>1
    <3> QED
      BY <1>3, <2>1, <3>1, OwedSums
  <2>5. Owed(bids', S2) = Owed(bids', S) + Owed(bids', P) /\ Owed(bids', S) \in Nat
    BY <1>3, <2>1, <2>2, OwedSums, SMTT(30)
  <2>6. Owed(bids', P) = IF g = tx[t].guild THEN tx[t].amount ELSE 0
    <3>1. Owed(bids', {}) = 0
      BY <1>3, <2>1, OwedSums
    <3>2. m \in S2 => Owed(bids', {m}) = bids'[m].amount
      BY <1>3, <2>1, OwedSums
    <3> QED
      BY <1>2, <2>2, <3>1, <3>2
  <2>7. Owed(bids', S2) = Owed(bids, S) + Held(tx[t], bids, g)
    BY <1>5, <2>4, <2>5, <2>6
  <2> QED
    BY <1>1, <2>3, <2>7 DEF S2
<1>7. AllGold(pouch') = AllGold(pouch)
  <2>1. \A g \in Guilds : pouch'[g].total = pouch[g].total
    BY <1>1, <1>5
  <2> QED
    BY <2>1, SameGold
<1> QED
  BY <1>1, <1>6, <1>7 DEF EscrowInv

(***************************************************************************)
(* When the bids of G no longer stand, that much less is owed.             *)
(***************************************************************************)
LEMMA LessOwed ==
    ASSUME NEW A, NEW B, Tables(A, B), NEW B2, SameBids(B, B2), NEW g,
           NEW G \in SUBSET ActiveBy(B, g), ActiveBy(B2, g) = ActiveBy(B, g) \ G
    PROVE  /\ Owed(B2, ActiveBy(B2, g)) = Owed(B, ActiveBy(B, g)) - Owed(B, G)
           /\ Owed(B, G) \in Nat /\ Owed(B, ActiveBy(B, g)) \in Nat
<1> DEFINE S == ActiveBy(B, g)
           R == S \ G
<1>1. S \in SUBSET DOMAIN B /\ R \in SUBSET DOMAIN B
  BY DEF ActiveBy
<1>2. \A b \in R : B2[b].amount = B[b].amount
  BY <1>1 DEF SameBids
<1>3. ActiveBy(B, g) = S /\ ActiveBy(B2, g) = R /\ G \in SUBSET S
  OBVIOUS
<1> HIDE DEF S
<1>4. /\ Owed(B, S) = Owed(B, R) + Owed(B, G) /\ Owed(B, S) \in Nat
      /\ Owed(B, R) \in Nat /\ Owed(B, G) \in Nat
  BY <1>1, <1>3, OwedSums, ZenonT(40)
<1> HIDE DEF R
<1>5. Owed(B2, R) = Owed(B, R)
  BY <1>1, <1>2, OwedSums
<1> QED
  BY <1>3, <1>4, <1>5

(***************************************************************************)
(* A withdrawal is committed with its release.                             *)
(***************************************************************************)
LEMMA CommitCancelKeepsEscrow ==
    ASSUME AuctionInv, AuctionInv', PouchTableAssumption, AuctionAssumption, BiddingInv,
           PromiseInv, EscrowInv, NEW t \in Procs, CommitCancel(t)
    PROVE  EscrowInv'
<1> DEFINE k == tx[t].bid
<1>1. /\ \A g \in Guilds :
            /\ pouch[g].reserved \in Int /\ pouch[g].total \in Int
            /\ pouch'[g].reserved = pouch[g].reserved + Held(tx[t], bids, g)
            /\ pouch'[g].total = pouch[g].total + Moved(tx[t], auctions, bids, g)
      /\ \A u \in Procs : Backed(u, tx[u], auctions, bids)'
  BY CommitBacks DEF CommitCancel, Commits
<1>2. /\ SameBids(bids, bids') /\ bids'[k].status = "CANCELLED" /\ k \in DOMAIN bids
      /\ \A b \in DOMAIN bids \ {k} : bids'[b] = bids[b]
  BY CancelRows DEF On
<1>3. tx[t].pc = "cancelCommit" /\ bids[k].status = "ACTIVE" /\ Tables(auctions, bids)
  BY TablesHold DEF CommitCancel, PromiseInv, Promise, CancelPC
<1> HIDE DEF k
<1>4. ASSUME NEW g \in Guilds
      PROVE  pouch'[g].reserved = Owed(bids', ActiveBy(bids', g))
  <2> DEFINE G == GoneBy(tx[t], bids, g)
  <2>1. G \in SUBSET ActiveBy(bids, g) /\ ActiveBy(bids', g) = ActiveBy(bids, g) \ G
    <3>1. G = {b \in {k} : bids[b].guild = g}
      BY <1>3 DEF GoneBy, Gone, k
    <3> QED
      BY <1>2, <1>3, <3>1 DEF ActiveBy, SameBids
  <2>2. Held(tx[t], bids, g) = 0 - Owed(bids, G)
    BY <1>3 DEF Held, Incoming
  <2> HIDE DEF G
  <2>3. /\ Owed(bids', ActiveBy(bids', g)) = Owed(bids, ActiveBy(bids, g)) - Owed(bids, G)
        /\ Owed(bids, G) \in Nat /\ Owed(bids, ActiveBy(bids, g)) \in Nat
    BY <1>2, <1>3, <2>1, LessOwed
  <2>4. pouch[g].reserved = Owed(bids, ActiveBy(bids, g))
    BY DEF EscrowInv
  <2> QED
    BY <1>1, <2>2, <2>3, <2>4
<1>5. AllGold(pouch') = AllGold(pouch)
  <2>1. \A g \in Guilds : Moved(tx[t], auctions, bids, g) = 0
    BY <1>3 DEF Moved, Charged, Credited, PaidPC
  <2>2. \A g \in Guilds : pouch'[g].total = pouch[g].total
    BY <1>1, <2>1
  <2> QED
    BY <2>2, SameGold
<1> QED
  BY <1>1, <1>4, <1>5 DEF EscrowInv

(***************************************************************************)
(* What a settlement has done to the pouches when it commits: all bids     *)
(* that still stand are paid for or paid back, and the winner's gold is    *)
(* the seller's.                                                           *)
(***************************************************************************)
LEMMA SettlementEffect ==
    ASSUME AuctionInv, AuctionAssumption, BiddingInv, PromiseInv, NEW s \in Procs,
           tx[s].pc = "expire"
    PROVE  /\ \A g : /\ GoneBy(tx[s], bids, g)
                           = {b \in ActiveOn(bids, tx[s].auction) : bids[b].guild = g}
                     /\ Held(tx[s], bids, g) = 0 - Owed(bids, GoneBy(tx[s], bids, g))
           /\ IF tx[s].bid = 0
              THEN \A g : Moved(tx[s], auctions, bids, g) = 0
              ELSE LET p == bids[tx[s].bid].amount
                       v == auctions[tx[s].auction].owner
                       w == bids[tx[s].bid].guild
                   IN  /\ p \in Nat /\ v \in Guilds /\ w \in Guilds
                       /\ \A g : Moved(tx[s], auctions, bids, g) = Gain(g, v, w, p)
<1> DEFINE p == bids[tx[s].bid].amount
           v == auctions[tx[s].auction].owner
           w == bids[tx[s].bid].guild
<1>1. tx[s].losers = {} /\ Refers(tx[s], DOMAIN auctions, DOMAIN bids)
  BY Types DEF PromiseInv, Promise
<1>2. \A g : GoneBy(tx[s], bids, g)
               = {b \in ActiveOn(bids, tx[s].auction) : bids[b].guild = g}
  BY <1>1 DEF GoneBy, Gone
<1>3. \A g : Held(tx[s], bids, g) = 0 - Owed(bids, GoneBy(tx[s], bids, g))
  BY DEF Held, Incoming
<1>4. tx[s].bid = 0 => \A g : Moved(tx[s], auctions, bids, g) = 0
  BY DEF Moved, Charged, Credited
<1>5. ASSUME tx[s].bid # 0
      PROVE  /\ p \in Nat /\ v \in Guilds /\ w \in Guilds
             /\ \A g : Moved(tx[s], auctions, bids, g) = Gain(g, v, w, p)
  <2>1. p \in Nat /\ v \in Guilds /\ w \in Guilds
    BY <1>1, <1>5, TablesHold, RowTypes DEF Refers
  <2>2. \A g : /\ Credited(tx[s], auctions, bids, g) = IF g = v THEN p ELSE 0
               /\ Charged(tx[s], bids, g) = IF g = w THEN p ELSE 0
    BY <1>5 DEF Credited, Charged, PaidPC
  <2> QED
    BY <2>1, <2>2 DEF Moved, Gain
<1> QED
  BY <1>2, <1>3, <1>4, <1>5

(***************************************************************************)
(* A settlement is committed with all payments and releases.               *)
(***************************************************************************)
LEMMA CommitSettlementKeepsEscrow ==
    ASSUME AuctionInv, AuctionInv', PouchTableAssumption, AuctionAssumption, BiddingInv,
           PromiseInv, EscrowInv, NEW s \in Procs, CommitSettlement(s)
    PROVE  EscrowInv'
<1> DEFINE a == tx[s].auction
           w == tx[s].bid
<1>1. /\ \A g \in Guilds :
            /\ pouch[g].reserved \in Int /\ pouch[g].total \in Int
            /\ pouch'[g].reserved = pouch[g].reserved + Held(tx[s], bids, g)
            /\ pouch'[g].total = pouch[g].total + Moved(tx[s], auctions, bids, g)
      /\ \A u \in Procs : Backed(u, tx[u], auctions, bids)'
  BY CommitBacks DEF CommitSettlement, Commits
<1>2. tx[s].pc = "expire" /\ Tables(auctions, bids)
  BY TablesHold DEF CommitSettlement
<1>3. /\ SameBids(bids, bids')
      /\ \A b \in DOMAIN bids :
            bids'[b].status = IF b = w THEN "WON" ELSE IF b \in ActiveOn(bids, a) THEN "LOST"
                              ELSE bids[b].status
  BY SettlementCommits
<1>4. w \in DOMAIN bids => w \in ActiveOn(bids, a)
  BY <1>2, Types, WinnerStands DEF SettlePC
<1> HIDE DEF a, w
<1>5. ASSUME NEW g \in Guilds
      PROVE  pouch'[g].reserved = Owed(bids', ActiveBy(bids', g))
  <2> DEFINE G == GoneBy(tx[s], bids, g)
  <2>1. /\ G = {b \in ActiveOn(bids, a) : bids[b].guild = g}
        /\ Held(tx[s], bids, g) = 0 - Owed(bids, G)
    BY <1>2, SettlementEffect DEF a
  <2> HIDE DEF G
  <2>2. G \in SUBSET ActiveBy(bids, g) /\ ActiveBy(bids', g) = ActiveBy(bids, g) \ G
    <3>1. DOMAIN bids' = DOMAIN bids /\ \A b \in DOMAIN bids : bids'[b].guild = bids[b].guild
      BY <1>3 DEF SameBids
    <3>2. G = {b \in ActiveBy(bids, g) : b \in ActiveOn(bids, a)}
      BY <2>1 DEF ActiveBy, ActiveOn, On
    <3>3. \A b \in DOMAIN bids : bids'[b].status = "ACTIVE" <=>
                                   bids[b].status = "ACTIVE" /\ b \notin ActiveOn(bids, a)
      BY <1>3, <1>4
    <3> QED
      BY <3>1, <3>2, <3>3 DEF ActiveBy
  <2>3. /\ Owed(bids', ActiveBy(bids', g)) = Owed(bids, ActiveBy(bids, g)) - Owed(bids, G)
        /\ Owed(bids, G) \in Nat /\ Owed(bids, ActiveBy(bids, g)) \in Nat
    BY <1>2, <1>3, <2>2, LessOwed
  <2>4. pouch[g].reserved = Owed(bids, ActiveBy(bids, g))
    BY DEF EscrowInv
  <2> QED
    BY <1>1, <2>1, <2>3, <2>4
<1>6. AllGold(pouch') = AllGold(pouch)
  <2>1. CASE w = 0
    <3>1. \A g \in Guilds : Moved(tx[s], auctions, bids, g) = 0
      BY <1>2, <2>1, SettlementEffect DEF w
    <3>2. \A g \in Guilds : pouch'[g].total = pouch[g].total
      BY <1>1, <3>1
    <3> QED
      BY <3>2, SameGold
  <2>2. CASE w # 0
    <3>1. PICK p \in Nat, x \in Guilds, y \in Guilds :
             \A g : Moved(tx[s], auctions, bids, g) = Gain(g, x, y, p)
      BY <1>2, <2>2, SettlementEffect, ZenonT(60) DEF w
    <3>2. Payment(x, y, p)
      BY <1>1, <3>1 DEF Payment
    <3>3. p \in Int
      OBVIOUS
    <3> QED
      BY <3>2, <3>3, PaymentKeepsGold
  <2> QED
    BY <2>1, <2>2
<1> QED
  BY <1>1, <1>5, <1>6 DEF EscrowInv

(***************************************************************************)
(* CreateAuction has nothing to do with gold.                              *)
(***************************************************************************)
LEMMA InsertKeepsEscrow ==
    ASSUME AuctionInv, AuctionInv', PouchTableAssumption, AuctionAssumption, BiddingInv,
           PromiseInv, EscrowInv, NEW t \in Procs, InsertAuction(t)
    PROVE  EscrowInv'
<1>1. /\ tx[t].pc = "insert" /\ UNCHANGED <<pouch, draft, holder, bids>>
  BY DEF InsertAuction, pouchVars
<1>2. PICK r \in Tx : tx' = [tx EXCEPT ![t] = r] /\ r.pc \in {"idle", "settleLock"}
  BY CommitsKeepRows DEF Commits
<1>3. /\ Tables(auctions, bids) /\ tx[t] \in Tx /\ Refers(tx[t], DOMAIN auctions, DOMAIN bids)
  BY Types, TablesHold
<1>4. Tables(auctions', bids') /\ Refers(r, DOMAIN auctions', DOMAIN bids')
  <2>1. tx'[t] = r
    BY <1>2 DEF AuctionInv, TypeOK, Procs
  <2> QED
    BY <2>1 DEF AuctionInv, TypeOK, References, Procs, Tables
<1>5. \A g \in Guilds : /\ Held(r, bids', g) = 0 /\ Moved(r, auctions', bids', g) = 0
                        /\ Held(tx[t], bids, g) = 0 /\ Moved(tx[t], auctions, bids, g) = 0
  <2>1. \A g \in Guilds : Held(r, bids', g) = 0 /\ Moved(r, auctions', bids', g) = 0
    BY <1>2, <1>4, EffectTypes DEF FreshPC
  <2>2. \A g \in Guilds : Held(tx[t], bids, g) = 0 /\ Moved(tx[t], auctions, bids, g) = 0
    BY <1>1, <1>3, EffectTypes DEF FreshPC
  <2> QED
    BY <2>1, <2>2
<1>6. \A u, g : SeenRow(u, g)' = SeenRow(u, g)
  BY <1>1 DEF SeenRow
<1>7. \A u \in Txs \ {t}, g \in Guilds : Apart(u, g)
  BY <1>1, <1>6 DEF Apart
<1>8. \A g \in Guilds :
         /\ (SeenRow(t, g)').reserved = pouch'[g].reserved + Held(r, bids', g)
         /\ (SeenRow(t, g)').total = pouch'[g].total + Moved(r, auctions', bids', g)
  <2>1. \A g \in Guilds :
           /\ SeenRow(t, g).reserved = pouch[g].reserved + Held(tx[t], bids, g)
           /\ SeenRow(t, g).total = pouch[g].total + Moved(tx[t], auctions, bids, g)
    BY DEF EscrowInv, Backed
  <2> QED
    BY <1>1, <1>5, <1>6, <2>1
<1>9. \A u \in Procs : Backed(u, tx[u], auctions, bids)'
  BY <1>2, <1>7, <1>8, BackedFrame DEF Commits
<1> QED
  BY <1>1, <1>9 DEF EscrowInv

(***************************************************************************)
(* A restart leaves the committed rows, which explain themselves.          *)
(***************************************************************************)
LEMMA CrashKeepsEscrow ==
    ASSUME AuctionInv, PouchTableAssumption, AuctionAssumption, EscrowInv, Crash
    PROVE  EscrowInv'
<1>1. /\ pouch' = pouch /\ auctions' = auctions /\ bids' = bids
      /\ \A t \in Procs : tx'[t] = Idle
      /\ draft' = pouch
  BY DEF Crash, RollbackAllRows, auctionVars, Procs
<1>2. \A t, g : SeenRow(t, g)' = pouch'[g]
  BY <1>1 DEF SeenRow
<1>3. Refers(Idle, DOMAIN auctions, DOMAIN bids) /\ Idle.pc = "idle"
  BY DEF Refers, Idle
<1>4. \A g : Held(Idle, bids, g) = 0 /\ Moved(Idle, auctions, bids, g) = 0
  BY <1>3, IdleIsTx, TablesHold, EffectTypes DEF FreshPC
<1>5. \A g \in Guilds : pouch[g].reserved \in Int /\ pouch[g].total \in Int
  BY RowFields DEF AuctionInv, PouchInv, PouchTypeOK
<1>6. ASSUME NEW t \in Procs, NEW g \in Guilds
      PROVE  /\ (SeenRow(t, g)').reserved = pouch'[g].reserved + Held(tx'[t], bids', g)
             /\ (SeenRow(t, g)').total = pouch'[g].total + Moved(tx'[t], auctions', bids', g)
  BY <1>1, <1>2, <1>4, <1>5
<1> QED
  BY <1>1, <1>6 DEF EscrowInv, Backed

(***************************************************************************)
(* Every step keeps EscrowInv.                                             *)
(***************************************************************************)
LEMMA StepKeepsEscrow ==
    ASSUME AuctionInv, AuctionInv', BiddingInv, PromiseInv, EscrowInv, [AuctionNext]_vars
    PROVE  EscrowInv'
<1> USE PouchTableAssumption, AuctionAssumption
<1>1. ASSUME NEW t \in Handlers, Begin(t) \/ HandlerStep(t) \/ Fault(t)
      PROVE  EscrowInv'
  <2>1. t \in Procs
    BY DEF Procs
  <2>2. CASE Begin(t) \/ LockForBid(t) \/ LockForCancel(t)
    BY <2>1, <2>2, BeginKeepsEscrow
  <2>3. CASE InsertAuction(t)
    BY <2>1, <2>3, InsertKeepsEscrow
  <2>4. CASE ReserveForBid(t)
    BY <2>1, <2>4, ReserveKeepsEscrow
  <2>5. CASE CommitBid(t)
    BY <2>1, <2>5, CommitBidKeepsEscrow
  <2>6. CASE ReleaseForCancel(t)
    BY <2>1, <2>6, ReleaseKeepsEscrow
  <2>7. CASE CommitCancel(t)
    BY <2>1, <2>7, CommitCancelKeepsEscrow
  <2>8. CASE Refuse(t) \/ Fault(t)
    BY <2>1, <2>8, EscrowAborts DEF Refuse, Fault
  <2> QED
    BY <1>1, <2>2, <2>3, <2>4, <2>5, <2>6, <2>7, <2>8 DEF HandlerStep
<1>2. ASSUME NEW s \in Settlers, Tick(s) \/ SettlerStep(s) \/ Fault(s)
      PROVE  EscrowInv'
  <2>1. s \in Procs
    BY DEF Procs
  <2>2. CASE Tick(s)
    BY <2>1, <2>2, BeginKeepsEscrow
  <2>3. CASE LockForSettlement(s)
    BY <2>1, <2>3, LockForSettlementKeepsEscrow
  <2>4. CASE SettleWinner(s)
    BY <2>1, <2>4, SettleKeepsEscrow
  <2>5. CASE CreditOwner(s)
    BY <2>1, <2>5, CreditKeepsEscrow
  <2>6. CASE Transfer(s)
    BY <2>1, <2>6, TransferKeepsEscrow
  <2>7. CASE ReleaseLoser(s)
    BY <2>1, <2>7, ReleaseLoserKeepsEscrow
  <2>8. CASE CommitSettlement(s)
    BY <2>1, <2>8, CommitSettlementKeepsEscrow
  <2>9. CASE Refuse(s) \/ Fault(s)
    BY <2>1, <2>9, EscrowAborts DEF Refuse, Fault
  <2> QED
    BY <1>2, <2>2, <2>3, <2>4, <2>5, <2>6, <2>7, <2>8, <2>9 DEF SettlerStep
<1>3. CASE Crash
  BY <1>3, CrashKeepsEscrow
<1>4. CASE Time \/ UNCHANGED vars
  <2>1. UNCHANGED <<pouch, draft, holder, auctions, bids, tx>>
    BY <1>4 DEF Time, pouchVars, auctionVars, vars
  <2>2. \A u, g : SeenRow(u, g)' = SeenRow(u, g)
    BY <2>1 DEF SeenRow
  <2> QED
    BY <2>1, <2>2 DEF EscrowInv, Backed
<1> QED
  BY <1>1, <1>2, <1>3, <1>4 DEF AuctionNext, Quiescent

(***************************************************************************)
(* At the start nothing is owed, and the gold is the seed gold.            *)
(***************************************************************************)
LEMMA SeedIsBacked ==
    ASSUME AuctionInv, PouchTableAssumption, AuctionAssumption, AuctionInit
    PROVE  EscrowInv
<1>1. /\ bids = <<>> /\ draft = pouch /\ \A t \in Procs : tx[t] = Idle
      /\ \A g \in Guilds : pouch[g].total = InitialGold /\ pouch[g].reserved = 0
  BY DEF AuctionInit, PouchInit, SeedPouch, Procs
<1>2. Refers(Idle, DOMAIN auctions, DOMAIN bids) /\ Idle.pc = "idle" /\ Tables(auctions, bids)
  BY TablesHold DEF Refers, Idle
<1>3. \A g : Held(Idle, bids, g) = 0 /\ Moved(Idle, auctions, bids, g) = 0
  BY <1>2, IdleIsTx, EffectTypes DEF FreshPC
<1>4. \A g \in Guilds : pouch[g].reserved = Owed(bids, ActiveBy(bids, g))
  <2>1. \A g : ActiveBy(bids, g) = {}
    BY <1>1 DEF ActiveBy
  <2>2. Owed(bids, {}) = 0
    BY <1>2, OwedSums
  <2> QED
    BY <1>1, <2>1, <2>2
<1>5. AllGold(pouch) = Cardinality(Guilds) * InitialGold
  <2> DEFINE f == [g \in Guilds |-> pouch[g].total]
  <2>1. \A g \in Guilds : f[g] = InitialGold
    BY <1>1
  <2>2. AllGold(pouch) = SumOver(f, Guilds)
    BY AllGoldIsSum
  <2> HIDE DEF f
  <2>3. IsFiniteSet(Guilds) /\ InitialGold \in Nat
    BY DEF PouchTableAssumption
  <2> QED
    BY <2>1, <2>2, <2>3, SumOfEqual
<1>6. \A t \in Procs : Backed(t, tx[t], auctions, bids)
  <2>1. \A t, g : SeenRow(t, g) = pouch[g]
    BY <1>1 DEF SeenRow
  <2>2. InitialGold \in Int
    BY DEF PouchTableAssumption
  <2> QED
    BY <1>1, <1>3, <2>1, <2>2 DEF Backed
<1> QED
  BY <1>1, <1>4, <1>5, <1>6 DEF EscrowInv

(***************************************************************************)
(* EscrowInv is inductive relative to the invariants before it.            *)
(***************************************************************************)
THEOREM EscrowInvariant == AuctionSpec => []EscrowInv
<1>1. AuctionInv /\ AuctionInit => EscrowInv
  BY SeedIsBacked, PouchTableAssumption, AuctionAssumption
<1>2. AuctionInv /\ AuctionInv' /\ BiddingInv /\ PromiseInv /\ EscrowInv /\ [AuctionNext]_vars
         => EscrowInv'
  BY StepKeepsEscrow
<1> QED
  BY <1>1, <1>2, AuctionInvariant, BiddingInvariant, PromiseInvariant, PTL DEF AuctionSpec

(***************************************************************************)
(* The escrow is exact: what a guild has reserved is the sum of its bids   *)
(* that stand.                                                             *)
(***************************************************************************)
THEOREM EscrowIsExact == AuctionSpec => []EscrowExact
<1>1. EscrowInv => EscrowExact
  BY EscrowIsOwed DEF EscrowInv
<1> QED
  BY <1>1, EscrowInvariant, PTL

(***************************************************************************)
(* Settlements neither make nor destroy gold.                              *)
(***************************************************************************)
THEOREM GoldIsConserved == AuctionSpec => []GoldConserved
<1>1. EscrowInv => GoldConserved
  BY EscrowIsOwed DEF EscrowInv
<1> QED
  BY <1>1, EscrowInvariant, PTL

(***************************************************************************)
(* What a guild has reserved covers each of its bids that stands and is    *)
(* not paid or paid back by the transaction that looks.                    *)
(***************************************************************************)
LEMMA BidIsCovered ==
    ASSUME AuctionInv, AuctionAssumption, EscrowInv, NEW t \in Procs, NEW k \in DOMAIN bids,
           tx[t].pc # "bidCommit", bids[k].status = "ACTIVE", k \notin Gone(tx[t], bids),
           Gone(tx[t], bids) \subseteq {b \in DOMAIN bids : bids[b].status = "ACTIVE"}
    PROVE  SeenRow(t, bids[k].guild).reserved >= bids[k].amount
<1> DEFINE g == bids[k].guild
           S == ActiveBy(bids, g)
           P == GoneBy(tx[t], bids, g)
<1>1. g \in Guilds /\ Tables(auctions, bids)
  BY TablesHold, RowTypes
<1>2. SeenRow(t, g).reserved = pouch[g].reserved + Held(tx[t], bids, g)
  BY <1>1 DEF EscrowInv, Backed
<1>3. pouch[g].reserved = Owed(bids, S) /\ Held(tx[t], bids, g) = 0 - Owed(bids, P)
  BY <1>1 DEF EscrowInv, Held, Incoming
<1>4. S \in SUBSET DOMAIN bids /\ P \in SUBSET S /\ k \in S \ P
  BY DEF ActiveBy, GoneBy
<1> HIDE DEF S, P
<1>5. S \ P \in SUBSET DOMAIN bids
  BY <1>4
<1>6. /\ Owed(bids, S) = Owed(bids, S \ P) + Owed(bids, P)
      /\ Owed(bids, S \ P) \in Nat /\ Owed(bids, P) \in Nat
  BY <1>1, <1>4, OwedSums
<1>7. bids[k].amount \in Nat /\ bids[k].amount <= Owed(bids, S \ P)
  BY <1>1, <1>4, <1>5, OwedSums
<1>8. SeenRow(t, g).reserved = Owed(bids, S \ P)
  BY <1>2, <1>3, <1>6
<1> QED
  BY <1>6, <1>7, <1>8

(***************************************************************************)
(* Releases and charges always find the reservation they take back.        *)
(***************************************************************************)
LEMMA ReservationsAreThere ==
    ASSUME AuctionInv, AuctionAssumption, BiddingInv, PromiseInv, EscrowInv
    PROVE  ReservationStands
<1>1. ASSUME NEW t \in Procs, tx[t].pc \in {"cancelRelease", "settleWinner"}
      PROVE  SeenRow(t, bids[tx[t].bid].guild).reserved >= bids[tx[t].bid].amount
  <2>1. tx[t].bid \in DOMAIN bids /\ tx[t].bid # 0
    BY <1>1, Types DEF Refers
  <2>2. bids[tx[t].bid].status = "ACTIVE"
    <3>1. CASE tx[t].pc = "cancelRelease"
      BY <3>1 DEF PromiseInv, Promise, CancelPC
    <3>2. CASE tx[t].pc = "settleWinner"
      BY <2>1, <3>2, WinnerStands DEF SettlePC, ActiveOn
    <3> QED
      BY <1>1, <3>1, <3>2
  <2>3. Gone(tx[t], bids) = {}
    BY <1>1 DEF Gone
  <2> QED
    BY <1>1, <2>1, <2>2, <2>3, BidIsCovered
<1>2. ASSUME NEW t \in Procs, tx[t].pc = "releaseLosers"
      PROVE  LET l == Min(tx[t].losers)
             IN  SeenRow(t, bids[l].guild).reserved >= bids[l].amount
  <2> DEFINE l == Min(tx[t].losers)
  <2>1. /\ tx[t].losers \subseteq ActiveOn(bids, tx[t].auction)
        /\ tx[t].losers # {} /\ tx[t].losers \in SUBSET Nat
    BY <1>2, Types DEF PromiseInv, Promise, Refers, Tx
  <2>2. l \in tx[t].losers
    BY <2>1, MinIsMember
  <2> HIDE DEF l
  <2>3. l \in DOMAIN bids /\ bids[l].status = "ACTIVE"
    BY <2>1, <2>2 DEF ActiveOn, On
  <2>4. Gone(tx[t], bids) = ActiveOn(bids, tx[t].auction) \ tx[t].losers
    BY <1>2 DEF Gone
  <2>5. Gone(tx[t], bids) \subseteq {b \in DOMAIN bids : bids[b].status = "ACTIVE"}
    BY <2>4 DEF ActiveOn, On
  <2>6. SeenRow(t, bids[l].guild).reserved >= bids[l].amount
    BY <1>2, <2>2, <2>3, <2>4, <2>5, BidIsCovered
  <2> QED
    BY <2>6 DEF l
<1> QED
  BY <1>1, <1>2 DEF ReservationStands, Procs

(***************************************************************************)
(* ErrInsufficientReserved cannot happen.                                  *)
(***************************************************************************)
THEOREM ReservationsStand == AuctionSpec => []ReservationStands
<1>1. AuctionInv /\ BiddingInv /\ PromiseInv /\ EscrowInv => ReservationStands
  BY ReservationsAreThere, AuctionAssumption
<1> QED
  BY <1>1, AuctionInvariant, BiddingInvariant, PromiseInvariant, EscrowInvariant, PTL
-----------------------------------------------------------------------------
(* The abstract auction house.                                             *)

(***************************************************************************)
(* What an onlooker sees of the tables.                                    *)
(***************************************************************************)
LEMMA HouseView ==
    ASSUME AuctionInv
    PROVE  /\ DOMAIN Lots = DOMAIN auctions /\ DOMAIN Offers = DOMAIN bids
           /\ \A a \in DOMAIN auctions :
                 /\ Lots[a].item = auctions[a].item /\ Lots[a].seller = auctions[a].owner
                 /\ Lots[a].price = auctions[a].basePrice
                 /\ Lots[a].open <=> auctions[a].status = "ACTIVE"
           /\ \A b \in DOMAIN bids :
                 /\ Offers[b].lot = bids[b].auction /\ Offers[b].guild = bids[b].guild
                 /\ Offers[b].amount = bids[b].amount /\ Offers[b].status = bids[b].status
           /\ \A a : House!Standing(a) = ActiveOn(bids, a)
           /\ \A a : House!Best(a) = Highest(a)
           /\ \A i : House!Owners(i) = Titled(auctions, bids, i)
           /\ \A g \in Guilds : Gold[g] = pouch[g].total
<1>1. /\ DOMAIN Lots = DOMAIN auctions /\ DOMAIN Offers = DOMAIN bids
      /\ \A a \in DOMAIN auctions :
            /\ Lots[a].item = auctions[a].item /\ Lots[a].seller = auctions[a].owner
            /\ Lots[a].price = auctions[a].basePrice
            /\ Lots[a].open <=> auctions[a].status = "ACTIVE"
      /\ \A b \in DOMAIN bids :
            /\ Offers[b].lot = bids[b].auction /\ Offers[b].guild = bids[b].guild
            /\ Offers[b].amount = bids[b].amount /\ Offers[b].status = bids[b].status
  BY DEF Lots, Offers
<1>2. \A a : House!Standing(a) = ActiveOn(bids, a)
  BY <1>1 DEF House!Standing, ActiveOn, On
<1>3. \A a : House!Best(a) = Highest(a)
  <2>1. \A a : ActiveBidsOf(a) = ActiveOn(bids, a) /\ ActiveOn(bids, a) \subseteq DOMAIN bids
    BY DEF ActiveBidsOf, BidsOf, ActiveOn, On
  <2> QED
    BY <1>1, <1>2, <2>1 DEF House!Best, Highest
<1>4. \A i : House!Owners(i) = Titled(auctions, bids, i)
  <2>1. \A b \in DOMAIN bids : bids[b].auction \in DOMAIN auctions
    BY TablesHold DEF Tables
  <2> QED
    BY <1>1, <2>1 DEF House!Owners, Titled, Won
<1> QED
  BY <1>1, <1>2, <1>3, <1>4 DEF Gold

(***************************************************************************)
(* What a guild has promised is what it has reserved.                      *)
(***************************************************************************)
LEMMA PromisedIsReserved ==
    ASSUME AuctionInv, EscrowInv, NEW g \in Guilds
    PROVE  House!Promised(g) = pouch[g].reserved
<1>1. House!Promised(g) = Owed(Offers, ActiveBy(Offers, g))
  BY DEF House!Promised, House!MapThenSumSet, House!MapThenFoldSet, MapThenSumSet,
         MapThenFoldSet, Owed, ActiveBy
<1>2. ActiveBy(Offers, g) = ActiveBy(bids, g)
  BY HouseView DEF ActiveBy
<1>3. Owed(Offers, ActiveBy(bids, g)) = Owed(bids, ActiveBy(bids, g))
  <2>1. ActiveBy(bids, g) \in SUBSET DOMAIN bids /\ Tables(auctions, bids)
    BY TablesHold DEF ActiveBy
  <2>2. \A b \in ActiveBy(bids, g) : Offers[b].amount = bids[b].amount
    BY <2>1, HouseView
  <2> QED
    BY <2>1, <2>2, OwedSums
<1> QED
  BY <1>1, <1>2, <1>3 DEF EscrowInv

(***************************************************************************)
(* An onlooker sees a row that is added, or changed in place.              *)
(***************************************************************************)
LEMMA SeenAppended ==
    ASSUME NEW n \in Nat, NEW f, f = [k \in 1 .. n |-> f[k]], NEW y,
           NEW h, h = [k \in 1 .. n + 1 |-> h[k]],
           h[n + 1] = y, \A k \in 1 .. n : h[k] = f[k]
    PROVE  h = Append(f, y)
<1> DEFINE T == {f[k] : k \in 1 .. n}
<1>1. f \in [1 .. n -> T]
  OBVIOUS
<1>2. \A m \in Nat : \A T1, f1 : f1 \in [1 .. m -> T1] => f1 \in Seq(T1)
  BY SMTT(60)
<1>3. f \in Seq(T)
  BY <1>1, <1>2, Zenon
<1> HIDE DEF T
<1>4. Len(f) = n
  BY <1>1, <1>3
<1>5. /\ Append(f, y) = [k \in 1 .. n + 1 |-> Append(f, y)[k]]
      /\ Append(f, y)[n + 1] = y /\ \A k \in 1 .. n : Append(f, y)[k] = f[k]
  BY <1>3, <1>4
<1>6. \A k \in 1 .. n + 1 : h[k] = Append(f, y)[k]
  <2>1. \A k \in 1 .. n + 1 : k \in 1 .. n \/ k = n + 1
    OBVIOUS
  <2> QED
    BY <1>5, <2>1
<1>7. [k \in 1 .. n + 1 |-> h[k]] = [k \in 1 .. n + 1 |-> Append(f, y)[k]]
  BY <1>6
<1> QED
  BY <1>5, <1>7, Zenon

(***************************************************************************)
(* CreateAuction opens a lot.                                              *)
(***************************************************************************)
LEMMA InsertOpensLot ==
    ASSUME AuctionInv, AuctionAssumption, PromiseInv, NEW t \in Procs, InsertAuction(t)
    PROVE  House!HouseNext
<1> DEFINE g == tx[t].guild
           i == tx[t].item
           n == Len(auctions)
<1>0. PICK p \in BasePrices :
         \E end : auctions' = Append(auctions, [item |-> i, owner |-> g, status |-> "ACTIVE",
                                               basePrice |-> p, endTime |-> end])
  BY DEF InsertAuction
<1>1. PICK end :
         auctions' = Append(auctions, [item |-> i, owner |-> g, status |-> "ACTIVE",
                                       basePrice |-> p, endTime |-> end])
  BY <1>0
<1>2. UNCHANGED <<pouch, inv, bids>> /\ OneActivePerItem(i) /\ tx[t].pc = "insert"
  BY DEF InsertAuction, RowAdmitted, pouchVars
<1>3. auctions \in Seq(Auction) /\ g \in Guilds /\ i \in Items /\ g \in Titled(auctions, bids, i)
  BY <1>2, Types DEF PromiseInv, Promise, Refers
<1> DEFINE e == [item |-> i, owner |-> g, status |-> "ACTIVE", basePrice |-> p, endTime |-> end]
           y == [item |-> i, seller |-> g, price |-> p, open |-> TRUE]
<1> HIDE DEF g, i
<1>4. /\ y = [item |-> e.item, seller |-> e.owner, price |-> e.basePrice,
              open |-> e.status = "ACTIVE"]
  OBVIOUS
<1>5. auctions' = Append(auctions, e)
  BY <1>1
<1> HIDE DEF e, y
<1>6. /\ n \in Nat /\ DOMAIN auctions = 1 .. n /\ DOMAIN auctions' = 1 .. n + 1
      /\ auctions'[n + 1] = e /\ \A a \in 1 .. n : auctions'[a] = auctions[a]
  BY <1>3, <1>5
<1> HIDE DEF n
<1>7. /\ Lots = [a \in 1 .. n |-> Lots[a]] /\ Lots' = [a \in 1 .. n + 1 |-> Lots'[a]]
      /\ Lots'[n + 1] = y /\ \A a \in 1 .. n : Lots'[a] = Lots[a]
  BY <1>4, <1>6 DEF Lots
<1>8. Lots' = Append(Lots, y)
  BY <1>6, <1>7, SeenAppended
<1>9. Gold' = Gold /\ Offers' = Offers /\ inv' = inv
  BY <1>2 DEF Gold, Offers
<1>10. \A a \in DOMAIN Lots : Lots[a].item = i => ~Lots[a].open
  BY <1>2, HouseView DEF OneActivePerItem, ActiveAuctions
<1>11. g \in House!Owners(i)
  BY <1>3, HouseView
<1>12. House!OpenLot(g, i, p)
  BY <1>8, <1>9, <1>10, <1>11 DEF House!OpenLot, y
<1> QED
  BY <1>3, <1>12 DEF House!HouseNext

(***************************************************************************)
(* The gold is where it was if the totals are.                             *)
(***************************************************************************)
LEMMA GoldSeen ==
    ASSUME \A g \in Guilds : pouch'[g].total = pouch[g].total
    PROVE  Gold' = Gold
  BY DEF Gold

(***************************************************************************)
(* PlaceBid makes an offer that tops the best one and is covered.          *)
(***************************************************************************)
LEMMA BidIsOffer ==
    ASSUME AuctionInv, AuctionInv', AuctionAssumption, PouchTableAssumption, BiddingInv,
           PromiseInv, EscrowInv, NEW t \in Procs, CommitBid(t)
    PROVE  House!HouseNext
<1> DEFINE a == tx[t].auction
           g == tx[t].guild
           x == tx[t].amount
           n == Len(bids)
<1>1. /\ tx[t].pc = "bidCommit" /\ g \in Guilds /\ x \in Nat /\ bids \in Seq(Bid)
      /\ Claim(tx[t], auctions, bids, inv, now) /\ Promise(tx[t], auctions, bids)
      /\ Tables(auctions, bids)
  <2>1. tx[t].pc = "bidCommit"
    BY DEF CommitBid
  <2>2. g \in Guilds /\ x \in Nat /\ bids \in Seq(Bid)
    BY <2>1, Types DEF Refers, Tx
  <2> QED
    BY <2>1, <2>2, TablesHold DEF BiddingInv, PromiseInv
<1>2. /\ a \in DOMAIN auctions /\ auctions[a].status = "ACTIVE" /\ auctions[a].owner # g
      /\ x \in Amounts /\ x > 0 /\ Tops(x, bids, a)
      /\ On(bids, a) = {} => auctions[a].basePrice <= x
  BY <1>1, BidRows DEF Claim, Promise, BidPC, LockedPC
<1>3. Lots' = Lots
  <2>1. /\ DOMAIN auctions' = DOMAIN auctions
        /\ \A c \in DOMAIN auctions :
              /\ auctions'[c].item = auctions[c].item /\ auctions'[c].owner = auctions[c].owner
              /\ auctions'[c].status = auctions[c].status
              /\ auctions'[c].basePrice = auctions[c].basePrice
    BY BidRows
  <2> QED
    BY <2>1 DEF Lots
<1>4. /\ \A h \in Guilds :
            /\ pouch[h].reserved \in Int /\ pouch[h].total \in Int
            /\ pouch'[h].reserved = pouch[h].reserved + Held(tx[t], bids, h)
            /\ pouch'[h].total = pouch[h].total + Moved(tx[t], auctions, bids, h)
  BY CommitBacks DEF CommitBid, Commits
<1>5. /\ \A h \in Guilds : Moved(tx[t], auctions, bids, h) = 0
      /\ Held(tx[t], bids, g) = x
  <2>1. GoneBy(tx[t], bids, g) = {} /\ Owed(bids, {}) = 0
    BY <1>1, OwedSums DEF GoneBy, Gone
  <2>2. Incoming(tx[t], g) = x
    BY <1>1 DEF Incoming
  <2>3. \A h : Charged(tx[t], bids, h) = 0 /\ Credited(tx[t], auctions, bids, h) = 0
    BY <1>1 DEF Charged, Credited, PaidPC
  <2> HIDE DEF g, x
  <2>4. Held(tx[t], bids, g) = x - 0
    BY <2>1, <2>2 DEF Held
  <2> QED
    BY <1>1, <2>3, <2>4 DEF Moved
<1>6. Gold' = Gold
  BY <1>4, <1>5, GoldSeen
<1>7. House!Promised(g) + x <= Gold[g]
  <2>1. pouch'[g].reserved <= pouch'[g].total
    BY <1>1 DEF AuctionInv, PouchInv, RowsSolvent, SolventPouch
  <2>2. House!Promised(g) = pouch[g].reserved /\ Gold[g] = pouch[g].total
    BY <1>1, PromisedIsReserved, HouseView
  <2> QED
    BY <1>1, <1>4, <1>5, <2>1, <2>2
<1>8. IF House!Standing(a) = {} THEN x >= Lots[a].price
      ELSE \A o \in House!Best(a) : 100 * x >= 105 * Offers[o].amount
  <2>1. House!Standing(a) = {} => On(bids, a) = {}
    <3>1. OpenBids(bids, a)
      BY <1>2 DEF BiddingInv, Sound, Orderly
    <3> QED
      BY <3>1, HouseView DEF OpenBids, ActiveOn
  <2>2. House!Best(a) \subseteq On(bids, a)
    BY HouseView DEF Highest, ActiveBidsOf, BidsOf, On
  <2>3. \A o \in On(bids, a) : 100 * x >= 105 * bids[o].amount /\ Offers[o].amount = bids[o].amount
    <3>1. \A o \in On(bids, a) : o \in DOMAIN bids /\ bids[o].amount \in Nat
      BY <1>1, RowTypes DEF On
    <3> QED
      BY <1>1, <1>2, <3>1, HouseView DEF Tops, minBidNumerator, minBidDenominator
  <2>4. Lots[a].price = auctions[a].basePrice /\ auctions[a].basePrice \in Nat
    BY <1>2, HouseView, Types DEF Auction
  <2> QED
    BY <1>1, <1>2, <2>1, <2>2, <2>3, <2>4
<1>9. Offers' = Append(Offers, [lot |-> a, guild |-> g, amount |-> x, status |-> "ACTIVE"])
  <2> DEFINE y == [lot |-> a, guild |-> g, amount |-> x, status |-> "ACTIVE"]
  <2>1. /\ DOMAIN bids' = DOMAIN bids \cup {n + 1} /\ \A b \in DOMAIN bids : bids'[b] = bids[b]
        /\ y = [lot |-> bids'[n + 1].auction, guild |-> bids'[n + 1].guild,
                amount |-> bids'[n + 1].amount, status |-> bids'[n + 1].status]
    BY BidRows
  <2> HIDE DEF y
  <2>2. n \in Nat /\ DOMAIN bids = 1 .. n
    BY <1>1
  <2> HIDE DEF n
  <2>3. DOMAIN bids' = 1 .. n + 1
    BY <2>1, <2>2
  <2>4. /\ Offers = [b \in 1 .. n |-> Offers[b]] /\ Offers' = [b \in 1 .. n + 1 |-> Offers'[b]]
        /\ Offers'[n + 1] = y /\ \A b \in 1 .. n : Offers'[b] = Offers[b]
    BY <2>1, <2>2, <2>3 DEF Offers
  <2>5. Offers' = Append(Offers, y)
    BY <2>2, <2>4, SeenAppended
  <2> QED
    BY <2>5 DEF y
<1>10. inv' = inv
  BY BidRows
<1> HIDE DEF a, g, x
<1>11. /\ Lots[a].open /\ Lots[a].seller # g /\ a \in DOMAIN Lots
  BY <1>2, HouseView
<1>12. House!Offer(g, a, x)
  BY <1>2, <1>3, <1>6, <1>7, <1>8, <1>9, <1>10, <1>11 DEF House!Offer
<1> QED
  BY <1>1, <1>2, <1>11, <1>12 DEF House!HouseNext

(***************************************************************************)
(* CancelBid withdraws an offer that is not the best.                      *)
(***************************************************************************)
LEMMA CancelWithdraws ==
    ASSUME AuctionInv, AuctionInv', AuctionAssumption, PouchTableAssumption, BiddingInv,
           PromiseInv, EscrowInv, NEW t \in Procs, CommitCancel(t)
    PROVE  House!HouseNext
<1> DEFINE a == tx[t].auction
           k == tx[t].bid
<1>1. /\ tx[t].pc = "cancelCommit" /\ a \in DOMAIN auctions /\ k \in On(bids, a)
      /\ auctions[a].status = "ACTIVE" /\ bids[k].status = "ACTIVE"
      /\ \E c \in On(bids, a) : k < c
  <2>1. tx[t].pc = "cancelCommit"
    BY DEF CommitCancel
  <2>2. a \in DOMAIN auctions /\ auctions[a].status = "ACTIVE" /\ k \in On(bids, a)
    BY WritesOpenAuction, CancelRows
  <2> QED
    BY <2>1, <2>2 DEF BiddingInv, Claim, PromiseInv, Promise, CancelPC
<1>2. /\ SameBids(bids, bids') /\ bids'[k].status = "CANCELLED"
      /\ \A b \in DOMAIN bids \ {k} : bids'[b] = bids[b]
      /\ UNCHANGED <<auctions, inv>>
  BY CancelRows
<1>3. Gold' = Gold
  <2>1. \A h \in Guilds :
           /\ pouch[h].total \in Int
           /\ pouch'[h].total = pouch[h].total + Moved(tx[t], auctions, bids, h)
    BY CommitBacks DEF CommitCancel, Commits
  <2>2. \A h : Moved(tx[t], auctions, bids, h) = 0
    BY <1>1 DEF Moved, Charged, Credited, PaidPC
  <2> QED
    BY <2>1, <2>2, GoldSeen
<1>4. Lots' = Lots
  BY <1>2 DEF Lots
<1>5. k \in House!Standing(a) \ House!Best(a)
  <2>1. k \in ActiveOn(bids, a)
    BY <1>1 DEF ActiveOn
  <2>2. k \notin Highest(a)
    <3>1. PICK b \in On(bids, a) : IsLast(bids, a, b) /\ Highest(a) = {b}
      BY <1>1, TablesHold, HighestIsLast DEF BiddingInv, Sound
    <3>2. \A c \in On(bids, a) : c \in Nat
      BY Types DEF On
    <3> QED
      BY <1>1, <3>1, <3>2 DEF IsLast
  <2> QED
    BY <2>1, <2>2, HouseView
<1>6. Offers[k].lot = a /\ k \in DOMAIN Offers /\ Lots[a].open /\ k \in DOMAIN bids
  BY <1>1, HouseView DEF On
<1> HIDE DEF a, k
<1>7. Offers' = [Offers EXCEPT ![k].status = "CANCELLED"]
  <2> DEFINE y == [Offers[k] EXCEPT !.status = "CANCELLED"]
  <2>1. /\ DOMAIN bids' = DOMAIN bids
        /\ y = [lot |-> bids'[k].auction, guild |-> bids'[k].guild,
                amount |-> bids'[k].amount, status |-> bids'[k].status]
    BY <1>2, <1>6 DEF SameBids, Offers
  <2> HIDE DEF y
  <2>2. /\ DOMAIN Offers' = DOMAIN Offers /\ Offers'[k] = y
        /\ \A b \in DOMAIN Offers \ {k} : Offers'[b] = Offers[b]
        /\ Offers' = [b \in DOMAIN bids |-> Offers'[b]]
        /\ Offers = [b \in DOMAIN bids |-> Offers[b]]
    BY <1>2, <1>6, <2>1 DEF Offers
  <2>3. Offers' = [Offers EXCEPT ![k] = y]
    BY <1>6, <2>2
  <2> QED
    BY <2>3 DEF y
<1>8. House!Withdraw(k)
  BY <1>2, <1>3, <1>4, <1>5, <1>6, <1>7 DEF House!Withdraw
<1> QED
  BY <1>6, <1>8 DEF House!HouseNext

(***************************************************************************)
(* The Settler retires a lot nobody wants, or awards it to the best offer, *)
(* gold against title.                                                     *)
(***************************************************************************)
LEMMA SettlementCloses ==
    ASSUME AuctionInv, AuctionInv', AuctionAssumption, PouchTableAssumption, BiddingInv,
           PromiseInv, EscrowInv, NEW s \in Procs, CommitSettlement(s)
    PROVE  House!HouseNext
<1> DEFINE a == tx[s].auction
           w == tx[s].bid
           v == auctions[a].owner
           p == bids[w].amount
           g == bids[w].guild
           i == auctions[a].item
<1>1. /\ tx[s].pc = "expire" /\ a \in DOMAIN auctions /\ auctions[a].status = "ACTIVE"
      /\ Claim(tx[s], auctions, bids, inv, now)
  BY WritesOpenAuction DEF CommitSettlement, BiddingInv
<1>2. /\ SameBids(bids, bids') /\ inv' = HandOver(a, w)
      /\ auctions' = [auctions EXCEPT ![a].status = "EXPIRED"]
      /\ \A b \in DOMAIN bids :
            bids'[b].status = IF b = w THEN "WON"
                              ELSE IF b \in ActiveOn(bids, a) THEN "LOST" ELSE bids[b].status
      /\ DOMAIN auctions' = DOMAIN auctions
      /\ \A c \in DOMAIN auctions :
            /\ auctions'[c].item = auctions[c].item /\ auctions'[c].owner = auctions[c].owner
            /\ auctions'[c].basePrice = auctions[c].basePrice
            /\ auctions'[c].status = IF c = a THEN "EXPIRED" ELSE auctions[c].status
  BY SettlementCommits
<1>3. Lots[a].open /\ a \in DOMAIN Lots /\ Lots[a].seller = v /\ Lots[a].item = i
  BY <1>1, HouseView
<1>4. \A h \in Guilds :
         /\ pouch[h].total \in Int
         /\ pouch'[h].total = pouch[h].total + Moved(tx[s], auctions, bids, h)
  BY CommitBacks DEF CommitSettlement, Commits
<1>5. Lots' = [Lots EXCEPT ![a].open = FALSE]
  <2> DEFINE y == [Lots[a] EXCEPT !.open = FALSE]
             o == auctions'[a].status = "ACTIVE"
  <2>1. y = [item |-> auctions'[a].item, seller |-> auctions'[a].owner,
             price |-> auctions'[a].basePrice, open |-> o]
    <3>1. auctions'[a].status = "EXPIRED"
      BY <1>1, <1>2
    <3>2. ~o
      BY <3>1
    <3>3. o = FALSE
      BY <3>2, Zenon
    <3> DEFINE c == auctions[a].status = "ACTIVE"
    <3> HIDE DEF o, a
    <3>4. Lots[a] = [item |-> auctions[a].item, seller |-> auctions[a].owner,
                     price |-> auctions[a].basePrice, open |-> c]
      BY <1>1 DEF Lots
    <3> HIDE DEF c
    <3>5. \A z : [Lots[a] EXCEPT !.open = z]
                    = [item |-> auctions[a].item, seller |-> auctions[a].owner,
                       price |-> auctions[a].basePrice, open |-> z]
      BY <3>4
    <3>6. y = [item |-> auctions'[a].item, seller |-> auctions'[a].owner,
               price |-> auctions'[a].basePrice, open |-> FALSE]
      BY <1>1, <1>2, <3>5
    <3> HIDE DEF y
    <3> QED
      BY <3>3, <3>6, Zenon
  <2> HIDE DEF a
  <2> HIDE DEF y
  <2>2. /\ DOMAIN Lots' = DOMAIN Lots /\ Lots'[a] = y
        /\ \A c \in DOMAIN Lots \ {a} : Lots'[c] = Lots[c]
        /\ Lots' = [c \in DOMAIN auctions |-> Lots'[c]]
        /\ Lots = [c \in DOMAIN auctions |-> Lots[c]]
    BY <1>1, <1>2, <2>1 DEF Lots
  <2>3. Lots' = [Lots EXCEPT ![a] = y]
    BY <1>1, <2>2
  <2> QED
    BY <2>3 DEF y
<1>6. CASE w = 0
  <2>1. On(bids, a) = {}
    BY <1>1, <1>6 DEF Claim, SettlePC
  <2>2. House!Standing(a) = {}
    BY <2>1, HouseView DEF ActiveOn
  <2>3. Gold' = Gold
    <3>1. \A h : Moved(tx[s], auctions, bids, h) = 0
      BY <1>1, <1>6, SettlementEffect
    <3> QED
      BY <1>4, <3>1, GoldSeen
  <2>4. Offers' = Offers
    <3>1. w \notin DOMAIN bids /\ ActiveOn(bids, a) = {}
      BY <1>6, <2>1, Types DEF ActiveOn
    <3>2. /\ DOMAIN bids' = DOMAIN bids
          /\ \A b \in DOMAIN bids :
                /\ bids'[b].auction = bids[b].auction /\ bids'[b].guild = bids[b].guild
                /\ bids'[b].amount = bids[b].amount /\ bids'[b].status = bids[b].status
      BY <1>2, <3>1 DEF SameBids
    <3> QED
      BY <3>2 DEF Offers
  <2>5. inv' = inv
    BY <1>2, <1>6 DEF HandOver
  <2> HIDE DEF a
  <2>6. House!Retire(a)
    BY <1>3, <1>5, <2>2, <2>3, <2>4, <2>5 DEF House!Retire
  <2> QED
    BY <1>3, <2>6 DEF House!HouseNext
<1>7. CASE w # 0
  <2>1. /\ w \in ActiveOn(bids, a) /\ w \in DOMAIN bids /\ IsLast(bids, a, w)
        /\ <<v, i>> \in inv
    BY <1>1, <1>7, WinnerStands DEF Claim, SettlePC
  <2>2. w \in House!Best(a) /\ Offers[w].guild = g /\ Offers[w].amount = p
    <3>1. PICK b \in On(bids, a) : IsLast(bids, a, b) /\ Highest(a) = {b}
      BY <1>1, <2>1, TablesHold, HighestIsLast DEF BiddingInv, Sound, IsLast
    <3>2. w = b
      <4>1. \A c \in On(bids, a) : c \in Nat
        BY Types DEF On
      <4> QED
        BY <2>1, <3>1, <4>1 DEF IsLast
    <3> QED
      BY <2>1, <3>1, <3>2, HouseView
  <2>3. p \in Nat /\ v \in Guilds /\ g \in Guilds
        /\ \A h : Moved(tx[s], auctions, bids, h) = Gain(h, v, g, p)
    BY <1>1, <1>7, SettlementEffect
  <2>4. \A h \in Guilds : Gold[h] \in Int /\ Gold'[h] = Gold[h] + Gain(h, v, g, p)
    BY <1>4, <2>3 DEF Gold
  <2>5. inv' = (inv \ {<<v, i>>}) \cup {<<g, i>>}
    BY <1>2, <1>7 DEF HandOver
  <2>6. House!Standing(a) = ActiveOn(bids, a)
    BY HouseView
  <2> HIDE DEF a, w, v, p, g, i
  <2>7. Gold' = House!Transfer(g, v, p)
    <3> DEFINE F == [Gold EXCEPT ![g] = @ - p]
               G == [F EXCEPT ![v] = @ + p]
    <3>1. Gold = [h \in Guilds |-> Gold[h]] /\ Gold' = [h \in Guilds |-> Gold'[h]]
      BY DEF Gold
    <3>2. /\ F = [h \in Guilds |-> F[h]]
          /\ \A h \in Guilds : F[h] \in Int /\ F[h] = Gold[h] - IF h = g THEN p ELSE 0
      BY <2>3, <2>4, <3>1
    <3> HIDE DEF F
    <3>3. /\ G = [h \in Guilds |-> G[h]]
          /\ \A h \in Guilds : G[h] = F[h] + IF h = v THEN p ELSE 0
      BY <2>3, <3>2
    <3> HIDE DEF G
    <3>4. \A h \in Guilds : Gold'[h] = G[h]
      BY <2>3, <2>4, <3>2, <3>3 DEF Gain
    <3>5. Gold' = G
      BY <3>1, <3>3, <3>4
    <3> QED
      BY <3>5, Zenon DEF F, G, House!Transfer
  <2>8. Offers' = [q \in DOMAIN Offers |->
                     IF q \notin House!Standing(a) THEN Offers[q]
                     ELSE [Offers[q] EXCEPT !.status = IF q = w THEN "WON" ELSE "LOST"]]
    <3> DEFINE N(q) == IF q \notin ActiveOn(bids, a) THEN Offers[q]
                       ELSE [Offers[q] EXCEPT !.status = IF q = w THEN "WON" ELSE "LOST"]
    <3>1. DOMAIN bids' = DOMAIN bids /\ DOMAIN Offers = DOMAIN bids
      BY <1>2 DEF SameBids, Offers
    <3>2. ASSUME NEW q \in DOMAIN bids
          PROVE  N(q) = [lot |-> bids'[q].auction, guild |-> bids'[q].guild,
                         amount |-> bids'[q].amount, status |-> bids'[q].status]
      <4>1. /\ bids'[q].auction = bids[q].auction /\ bids'[q].guild = bids[q].guild
            /\ bids'[q].amount = bids[q].amount
            /\ bids'[q].status = IF q \in ActiveOn(bids, a)
                                 THEN IF q = w THEN "WON" ELSE "LOST" ELSE bids[q].status
        BY <1>2, <2>1 DEF SameBids
      <4>2. Offers[q] = [lot |-> bids[q].auction, guild |-> bids[q].guild,
                         amount |-> bids[q].amount, status |-> bids[q].status]
        BY DEF Offers
      <4> QED
        BY <4>1, <4>2
    <3>3. Offers' = [q \in DOMAIN bids |-> N(q)]
      BY <3>1, <3>2 DEF Offers
    <3> QED
      BY <2>6, <3>1, <3>3
  <2>9. House!Award(a, w)
    BY <1>3, <1>5, <2>1, <2>2, <2>5, <2>7, <2>8 DEF House!Award
  <2> QED
    BY <1>3, <2>1, <2>9, HouseView DEF House!HouseNext
<1> QED
  BY <1>6, <1>7

(***************************************************************************)
(* The steps before a COMMIT, and all failures, are not seen.              *)
(***************************************************************************)
LEMMA HouseUnmoved ==
    ASSUME UNCHANGED <<pouch, auctions, bids, inv>>
    PROVE  UNCHANGED House!houseVars
<1>1. Gold' = Gold /\ Lots' = Lots /\ Offers' = Offers
  BY DEF Gold, Lots, Offers
<1> QED
  BY <1>1 DEF House!houseVars

(***************************************************************************)
(* Every step is a step of the auction house or none.                      *)
(***************************************************************************)
LEMMA StepsOfHouse ==
    ASSUME AuctionInv, AuctionInv', BiddingInv, PromiseInv, EscrowInv, [AuctionNext]_vars
    PROVE  [House!HouseNext]_(House!houseVars)
<1> USE PouchTableAssumption, AuctionAssumption
<1>1. ASSUME NEW t \in Procs, Commits(t)
      PROVE  House!HouseNext
  <2>1. CASE InsertAuction(t)
    BY <2>1, InsertOpensLot
  <2>2. CASE CommitBid(t)
    BY <2>2, BidIsOffer
  <2>3. CASE CommitCancel(t)
    BY <2>3, CancelWithdraws
  <2>4. CASE CommitSettlement(t)
    BY <2>4, SettlementCloses
  <2> QED
    BY <1>1, <2>1, <2>2, <2>3, <2>4 DEF Commits
<1>2. ASSUME NEW t \in Procs,
             \/ Begin(t) \/ Tick(t) \/ LockForBid(t) \/ ReserveForBid(t)
             \/ LockForCancel(t) \/ ReleaseForCancel(t)
             \/ LockForSettlement(t) \/ SettleWinner(t) \/ CreditOwner(t) \/ Transfer(t)
             \/ ReleaseLoser(t) \/ Refuse(t) \/ Fault(t)
      PROVE  UNCHANGED <<pouch, auctions, bids, inv>>
  <2>1. CASE Begin(t) \/ Tick(t)
    BY <2>1 DEF Begin, CreateRequest, BidRequest, CancelRequest, BeginCreate, BeginBid,
                BeginCancel, Tick, pouchVars, auctionVars
  <2>2. CASE LockForBid(t) \/ ReserveForBid(t) \/ LockForCancel(t) \/ ReleaseForCancel(t)
    BY <2>2, SMTT(40) DEF LockForBid, ReserveForBid, LockForCancel, ReleaseForCancel, WriteRow,
                pouchVars, auctionVars
  <2>3. CASE \/ LockForSettlement(t) \/ SettleWinner(t) \/ CreditOwner(t) \/ Transfer(t)
             \/ ReleaseLoser(t)
    BY <2>3, ZenonT(40) DEF LockForSettlement, SettleWinner, CreditOwner, Transfer, ReleaseLoser,
                WriteRow, pouchVars, auctionVars
  <2>4. CASE Refuse(t) \/ Fault(t)
    BY <2>4 DEF Refuse, Fault, Abort, RollbackRows, auctionVars
  <2> QED
    BY <1>2, <2>1, <2>2, <2>3, <2>4
<1>3. Crash \/ Time \/ UNCHANGED vars => UNCHANGED <<pouch, auctions, bids, inv>>
  BY DEF Crash, RollbackAllRows, Time, pouchVars, auctionVars, vars
<1>4. \/ \E t \in Procs : Commits(t)
      \/ UNCHANGED <<pouch, auctions, bids, inv>>
  <2>1. ASSUME NEW t \in Handlers, Begin(t) \/ HandlerStep(t) \/ Fault(t)
        PROVE  Commits(t) \/ UNCHANGED <<pouch, auctions, bids, inv>>
    BY <1>2, <2>1 DEF HandlerStep, Commits, Procs
  <2>2. ASSUME NEW s \in Settlers, Tick(s) \/ SettlerStep(s) \/ Fault(s)
        PROVE  Commits(s) \/ UNCHANGED <<pouch, auctions, bids, inv>>
    BY <1>2, <2>2 DEF SettlerStep, Commits, Procs
  <2> QED
    BY <1>3, <2>1, <2>2 DEF AuctionNext, Quiescent, Procs
<1> QED
  BY <1>1, <1>4, HouseUnmoved

(***************************************************************************)
(* At the start there are no lots, and the seeded titles and gold.         *)
(***************************************************************************)
LEMMA SeedOpensHouse ==
    ASSUME AuctionInit
    PROVE  House!HouseInit
<1>1. Gold = [g \in Guilds |-> InitialGold]
  BY DEF Gold, AuctionInit, PouchInit, SeedPouch
<1>2. Lots = <<>> /\ Offers = <<>>
  BY DEF Lots, Offers, AuctionInit
<1> QED
  BY <1>1, <1>2 DEF House!HouseInit, AuctionInit

(***************************************************************************)
(* The service implements the auction house in which every operation is a  *)
(* single step: no race, lock, refusal, fault or restart is ever seen in   *)
(* the committed rows.                                                     *)
(***************************************************************************)
THEOREM AuctionsImplementHouse == AuctionSpec => ImplementsHouse
<1>1. AuctionInit => House!HouseInit
  BY SeedOpensHouse
<1>2. AuctionInv /\ AuctionInv' /\ BiddingInv /\ PromiseInv /\ EscrowInv /\ [AuctionNext]_vars
         => [House!HouseNext]_(House!houseVars)
  BY StepsOfHouse
<1> QED
  BY <1>1, <1>2, AuctionInvariant, BiddingInvariant, PromiseInvariant, EscrowInvariant, PTL
     DEF AuctionSpec, ImplementsHouse, House!HouseSpec
=============================================================================
