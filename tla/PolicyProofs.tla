---------------------------- MODULE PolicyProofs ----------------------------
(***************************************************************************)
(* Proofs about what the policies decide (PolicyEngine, as Gateway uses it): *)
(* globMatch finds a match whenever there is one, three-valued groups mean   *)
(* what they say, and the policy that wins is as strict as the strictest     *)
(* that applies.                                                           *)
(***************************************************************************)
EXTENDS GatewayProofs, WellFoundedInduction, FiniteSetTheorems

----------------------------------------------------------------------------
(* Least elements: what the proofs below have for an induction *)

LEMMA LeastNatural ==
    ASSUME NEW S \in SUBSET Nat, S # {}
    PROVE  \E n \in S : \A m \in S : n <= m
<1>1. PICK R : R = OpToRel(<, Nat)
  OBVIOUS
<1>2. \A a, b \in Nat : <<a, b>> \in R <=> a < b
  BY <1>1 DEF OpToRel
<1>3. IsWellFoundedOn(R, Nat)
  BY <1>1, NatLessThanWellFounded
<1>4. PICK n \in S : \A m \in S : ~(<<m, n>> \in R)
  BY <1>3, WFMin
<1>5. ASSUME NEW m \in S
      PROVE  n <= m
  <2>1. ~(<<m, n>> \in R) /\ m \in Nat /\ n \in Nat
    BY <1>4
  <2>2. ~(m < n)
    BY <1>2, <2>1
  <2>3. QED
    BY <2>1, <2>2
<1>6. QED
  BY <1>5

----------------------------------------------------------------------------
(* globMatch: the loop ends, so that GlobMatch is what its turns make of it *)

\* How long the loop can go on from a position: it goes back with the mark further on, or
\* forth in the pattern.
Weight(V, at) == IF at.mark <= at.v THEN Len(V) - at.mark ELSE Len(V) + 2
TurnsLeft(P, V, at) == Weight(V, at) * (Len(P) + 1) + (Len(P) - at.p)

LEMMA Products ==
    ASSUME NEW N \in Nat, NEW a \in Nat, NEW b \in Nat, a < b
    PROVE  a * N \in Nat /\ b * N \in Nat /\ a * N + N <= b * N
<1>1. a * N \in Nat /\ b * N \in Nat
  OBVIOUS
<1>2. PICK c \in Nat : b = a + 1 + c
  <2>1. b - a - 1 \in Nat /\ b = a + 1 + (b - a - 1)
    OBVIOUS
  <2>2. QED
    BY <2>1
<1>3. b * N = a * N + N + c * N /\ c * N \in Nat
  BY <1>2
<1>4. QED
  BY <1>1, <1>3

\* Pairs in lexicographic order, as one number.
LEMMA Lexicographic ==
    ASSUME NEW N \in Nat, NEW a \in Nat, NEW b \in Nat, NEW c \in Nat, NEW d \in Nat,
           \/ a < b /\ c < N
           \/ a <= b /\ c < d
    PROVE  a * N + c \in Nat /\ a * N + c < b * N + d
<1>1. a * N \in Nat /\ b * N \in Nat
  OBVIOUS
<1>2. CASE a = b
  <2>1. c < d
    BY <1>2
  <2>2. PICK x \in Nat : x = a * N /\ x = b * N
    BY <1>1, <1>2
  <2>3. QED
    BY <2>1, <2>2
<1>3. CASE a < b
  <2>1. PICK x \in Nat, y \in Nat : x = a * N /\ y = b * N /\ x + N <= y
    BY <1>1, <1>3, Products
  <2>2. c < N \/ c < d
    OBVIOUS
  <2>3. c < N \/ (x <= y /\ c < d)
    BY <2>1, <2>2
  <2>4. QED
    BY <2>1, <2>3
<1>4. QED
  BY <1>2, <1>3

LEMMA Positions ==
    ASSUME NEW P, NEW V, Len(P) \in Nat, Len(V) \in Nat, NEW at \in GlobPositions(P, V)
    PROVE  /\ at.p \in 0..Len(P) /\ at.v \in 0..Len(V)
           /\ at.star \in -1..(Len(P) - 1) /\ at.mark \in 0..Len(V)
           /\ Weight(V, at) \in 0..(Len(V) + 2)
           /\ Len(P) - at.p \in 0..Len(P)
BY DEF GlobPositions, Weight

LEMMA TurnsAreLeft ==
    ASSUME NEW P, NEW V, Len(P) \in Nat, Len(V) \in Nat, NEW at \in GlobPositions(P, V)
    PROVE  /\ TurnsLeft(P, V, at) \in Nat
           /\ TurnsLeft(P, V, at) < (Len(V) + 3) * (Len(P) + 1)
<1>1. PICK a \in Nat, b \in Nat, c \in Nat, N \in Nat :
          a = Weight(V, at) /\ b = Len(V) + 3 /\ c = Len(P) - at.p /\ N = Len(P) + 1
  <2>1. /\ Weight(V, at) \in Nat /\ Len(V) + 3 \in Nat /\ Len(P) - at.p \in Nat
        /\ Len(P) + 1 \in Nat
    BY Positions
  <2>2. QED
    BY <2>1
<1>2. a < b /\ c < N
  BY <1>1, Positions
<1>3. a * N + c \in Nat /\ a * N + c < b * N + 0
  BY <1>2, Lexicographic
<1>4. TurnsLeft(P, V, at) = a * N + c /\ (Len(V) + 3) * (Len(P) + 1) = b * N
  BY <1>1 DEF TurnsLeft
<1>5. b * N \in Nat
  OBVIOUS
<1>6. QED
  BY <1>3, <1>4, <1>5

LEMMA FewerTurns ==
    ASSUME NEW P, NEW V, Len(P) \in Nat, Len(V) \in Nat,
           NEW at \in GlobPositions(P, V), NEW x \in GlobPositions(P, V),
           \/ Weight(V, x) <= Weight(V, at) /\ x.p > at.p
           \/ Weight(V, x) < Weight(V, at)
    PROVE  TurnsLeft(P, V, x) < TurnsLeft(P, V, at)
<1>1. PICK a \in Nat, b \in Nat, c \in Nat, d \in Nat, N \in Nat :
          /\ a = Weight(V, x) /\ b = Weight(V, at) /\ c = Len(P) - x.p /\ d = Len(P) - at.p
          /\ N = Len(P) + 1
  <2>1. /\ Weight(V, x) \in Nat /\ Weight(V, at) \in Nat /\ Len(P) + 1 \in Nat
        /\ Len(P) - x.p \in Nat /\ Len(P) - at.p \in Nat
    BY Positions
  <2>2. QED
    BY <2>1
<1>2. \/ a < b /\ c < N
      \/ a <= b /\ c < d
  BY <1>1, Positions
<1>3. a * N + c < b * N + d
  BY <1>2, Lexicographic
<1>4. TurnsLeft(P, V, x) = a * N + c /\ TurnsLeft(P, V, at) = b * N + d
  BY <1>1 DEF TurnsLeft
<1>5. QED
  BY <1>3, <1>4

\* What a turn comes to, for any answers f about the positions it leads to.
Wild(at)  == [p |-> at.p + 1, v |-> at.v, star |-> at.p, mark |-> at.v]
Along(at) == [p |-> at.p + 1, v |-> at.v + 1, star |-> at.star, mark |-> at.mark]
Back(at)  == [p |-> at.star + 1, v |-> at.mark + 1, star |-> at.star, mark |-> at.mark + 1]

AtWild(P, V, at)  == at.v # Len(V) /\ at.p < Len(P) /\ P[at.p + 1] = "*"
AtPiece(P, V, at) == at.v # Len(V) /\ at.p < Len(P) /\ P[at.p + 1] # "*" /\ P[at.p + 1] = V[at.v + 1]
AtMiss(P, V, at)  == at.v # Len(V) /\ ~AtWild(P, V, at) /\ ~AtPiece(P, V, at)

LEMMA TurnAtWild ==
    ASSUME NEW P, NEW V, Len(P) \in Nat, Len(V) \in Nat, NEW at \in GlobPositions(P, V),
           AtWild(P, V, at)
    PROVE  /\ Wild(at) \in GlobPositions(P, V)
           /\ TurnsLeft(P, V, Wild(at)) < TurnsLeft(P, V, at)
           /\ \A f : GlobTurn(f, P, V, at) = f[Wild(at)]
<1>1. Wild(at) \in GlobPositions(P, V)
  BY Positions DEF AtWild, GlobPositions, Wild
<1>2. Weight(V, Wild(at)) <= Weight(V, at) /\ Wild(at).p > at.p
  BY Positions DEF Weight, Wild
<1>3. \A f : GlobTurn(f, P, V, at) = f[Wild(at)]
  BY DEF AtWild, GlobTurn, Wild
<1>4. QED
  BY <1>1, <1>2, <1>3, FewerTurns

LEMMA TurnAtPiece ==
    ASSUME NEW P, NEW V, Len(P) \in Nat, Len(V) \in Nat, NEW at \in GlobPositions(P, V),
           AtPiece(P, V, at)
    PROVE  /\ Along(at) \in GlobPositions(P, V)
           /\ TurnsLeft(P, V, Along(at)) < TurnsLeft(P, V, at)
           /\ \A f : GlobTurn(f, P, V, at) = f[Along(at)]
<1>1. Along(at) \in GlobPositions(P, V)
  BY Positions DEF AtPiece, GlobPositions, Along
<1>2. Weight(V, Along(at)) <= Weight(V, at) /\ Along(at).p > at.p
  BY Positions DEF Weight, Along
<1>3. \A f : GlobTurn(f, P, V, at) = f[Along(at)]
  BY DEF AtPiece, GlobTurn, Along
<1>4. QED
  BY <1>1, <1>2, <1>3, FewerTurns

Stuck(V, at) == at.star = -1 \/ at.mark = Len(V)

LEMMA TurnWhenStuck ==
    ASSUME NEW P, NEW V, Len(P) \in Nat, Len(V) \in Nat, NEW at \in GlobPositions(P, V),
           AtMiss(P, V, at), Stuck(V, at)
    PROVE  \A f : GlobTurn(f, P, V, at) = FALSE
<1>1. ~(at.star # -1 /\ at.mark < Len(V))
  BY Positions DEF Stuck
<1>2. QED
  BY <1>1 DEF AtMiss, AtWild, AtPiece, GlobTurn

LEMMA TurnBack ==
    ASSUME NEW P, NEW V, Len(P) \in Nat, Len(V) \in Nat, NEW at \in GlobPositions(P, V),
           AtMiss(P, V, at), ~Stuck(V, at)
    PROVE  /\ Back(at) \in GlobPositions(P, V)
           /\ TurnsLeft(P, V, Back(at)) < TurnsLeft(P, V, at)
           /\ \A f : GlobTurn(f, P, V, at) = f[Back(at)]
<1>1. at.star # -1 /\ at.mark < Len(V)
  BY Positions DEF Stuck
<1>2. \A f : GlobTurn(f, P, V, at) = f[Back(at)]
  BY <1>1 DEF AtMiss, AtWild, AtPiece, GlobTurn, Back
<1>3. Back(at) \in GlobPositions(P, V)
  BY <1>1, Positions DEF GlobPositions, Back
<1>4. Weight(V, Back(at)) < Weight(V, at)
  BY <1>1, Positions DEF Weight, Back
<1>5. QED
  BY <1>2, <1>3, <1>4, FewerTurns

\* Two answers that agree on the positions with fewer turns left give the same turn.
LEMMA TurnsAgree ==
    ASSUME NEW P, NEW V, Len(P) \in Nat, Len(V) \in Nat, NEW at \in GlobPositions(P, V),
           NEW g, NEW h,
           \A x \in GlobPositions(P, V) :
               TurnsLeft(P, V, x) < TurnsLeft(P, V, at) => g[x] = h[x]
    PROVE  GlobTurn(g, P, V, at) = GlobTurn(h, P, V, at)
<1>1. CASE at.v = Len(V)
  BY <1>1 DEF GlobTurn
<1>2. CASE AtWild(P, V, at)
  <2>1. g[Wild(at)] = h[Wild(at)]
    BY <1>2, TurnAtWild
  <2>2. \A f : GlobTurn(f, P, V, at) = f[Wild(at)]
    BY <1>2, TurnAtWild
  <2>3. QED
    BY <2>1, <2>2
<1>3. CASE AtPiece(P, V, at)
  <2>1. g[Along(at)] = h[Along(at)]
    BY <1>3, TurnAtPiece
  <2>2. \A f : GlobTurn(f, P, V, at) = f[Along(at)]
    BY <1>3, TurnAtPiece
  <2>3. QED
    BY <2>1, <2>2
<1>4. CASE AtMiss(P, V, at) /\ Stuck(V, at)
  <2>1. \A f : GlobTurn(f, P, V, at) = FALSE
    BY <1>4, TurnWhenStuck
  <2>2. QED
    BY <2>1
<1>5. CASE AtMiss(P, V, at) /\ ~Stuck(V, at)
  <2>1. g[Back(at)] = h[Back(at)]
    BY <1>5, TurnBack
  <2>2. \A f : GlobTurn(f, P, V, at) = f[Back(at)]
    BY <1>5, TurnBack
  <2>3. QED
    BY <2>1, <2>2
<1>6. QED
  BY <1>1, <1>2, <1>3, <1>4, <1>5 DEF AtMiss

\* g is right wherever there are fewer than k turns left.
RightFor(P, V, g, k) ==
    /\ g = [at \in GlobPositions(P, V) |-> g[at]]
    /\ \A at \in GlobPositions(P, V) : TurnsLeft(P, V, at) < k => g[at] = GlobTurn(g, P, V, at)

LEMMA LoopHasAnswers ==
    ASSUME NEW P, NEW V, Len(P) \in Nat, Len(V) \in Nat
    PROVE  \E g : g = [at \in GlobPositions(P, V) |-> GlobTurn(g, P, V, at)]
<1> DEFINE S == {k \in Nat : ~\E g : RightFor(P, V, g, k)}
           bound == (Len(V) + 3) * (Len(P) + 1)
<1>1. S = {}
  <2>1. SUFFICES ASSUME S # {} PROVE FALSE
    OBVIOUS
  <2>2. PICK k \in S : \A j \in S : k <= j
    BY <2>1, LeastNatural
  <2>3. k # 0
    <3>1. PICK g : g = [at \in GlobPositions(P, V) |-> TRUE]
      OBVIOUS
    <3>2. \A at \in GlobPositions(P, V) : ~(TurnsLeft(P, V, at) < 0)
      BY TurnsAreLeft
    <3>3. RightFor(P, V, g, 0)
      BY <3>1, <3>2 DEF RightFor
    <3>4. QED
      BY <3>3
  <2>4. k - 1 \in Nat /\ k - 1 \notin S
    BY <2>2, <2>3
  <2>5. PICK g : RightFor(P, V, g, k - 1)
    BY <2>4
  <2>6. PICK h : h = [at \in GlobPositions(P, V) |-> GlobTurn(g, P, V, at)]
    OBVIOUS
  <2>7. ASSUME NEW at \in GlobPositions(P, V), TurnsLeft(P, V, at) < k
        PROVE  h[at] = GlobTurn(h, P, V, at)
    <3>1. ASSUME NEW x \in GlobPositions(P, V), TurnsLeft(P, V, x) < TurnsLeft(P, V, at)
          PROVE  g[x] = h[x]
      <4>1. TurnsLeft(P, V, x) < k - 1
        BY <2>4, <2>7, <3>1, TurnsAreLeft
      <4>2. g[x] = GlobTurn(g, P, V, x)
        BY <2>5, <4>1 DEF RightFor
      <4>3. QED
        BY <2>6, <4>2
    <3>2. GlobTurn(g, P, V, at) = GlobTurn(h, P, V, at)
      BY <3>1, TurnsAgree
    <3>3. QED
      BY <2>6, <3>2
  <2>8. RightFor(P, V, h, k)
    BY <2>6, <2>7 DEF RightFor
  <2>9. QED
    BY <2>8
<1>2. bound \in Nat
  OBVIOUS
<1>3. PICK g : RightFor(P, V, g, bound)
  BY <1>1, <1>2
<1>4. \A at \in GlobPositions(P, V) : g[at] = GlobTurn(g, P, V, at)
  BY <1>3, TurnsAreLeft DEF RightFor
<1>5. g = [at \in GlobPositions(P, V) |-> GlobTurn(g, P, V, at)]
  BY <1>3, <1>4 DEF RightFor
<1>6. QED
  BY <1>5

\* The answers of the loop, for every position.
Loop(P, V) == CHOOSE g : g = [at \in GlobPositions(P, V) |-> GlobTurn(g, P, V, at)]
Start == [p |-> 0, v |-> 0, star |-> -1, mark |-> 0]

LEMMA LoopTurns ==
    ASSUME NEW P, NEW V, Len(P) \in Nat, Len(V) \in Nat
    PROVE  /\ \A at \in GlobPositions(P, V) : Loop(P, V)[at] = GlobTurn(Loop(P, V), P, V, at)
           /\ GlobMatch(P, V) = Loop(P, V)[Start]
<1>1. Loop(P, V) = [at \in GlobPositions(P, V) |-> GlobTurn(Loop(P, V), P, V, at)]
  BY LoopHasAnswers DEF Loop
<1>2. \A at \in GlobPositions(P, V) : Loop(P, V)[at] = GlobTurn(Loop(P, V), P, V, at)
  BY <1>1
<1>3. GlobMatch(P, V) = Loop(P, V)[Start]
  BY DEF GlobMatch, Loop, Start
<1>4. QED
  BY <1>2, <1>3

----------------------------------------------------------------------------
(* globMatch: what it finds is a match, and it finds one if there is one *)

\* The value from v on can be cut into parts for the pattern from p on.
Piece(P, V, i, u, w) == (P[i] = "*" /\ u <= w) \/ (w = u + 1 /\ P[i] = V[w])
From(P, V, p, v) ==
    \E f \in [0..Len(P) -> 0..Len(V)] :
        /\ f[p] = v /\ f[Len(P)] = Len(V)
        /\ \A i \in (p + 1)..Len(P) : Piece(P, V, i, f[i - 1], f[i])

LEMMA FromStart ==
    ASSUME NEW P, NEW V, Len(P) \in Nat, Len(V) \in Nat
    PROVE  Matches(P, V) <=> From(P, V, 0, 0)
BY DEF Matches, From, Piece

LEMMA FromEnd ==
    ASSUME NEW P, NEW V, Len(P) \in Nat, Len(V) \in Nat, NEW v \in 0..Len(V)
    PROVE  From(P, V, Len(P), v) <=> v = Len(V)
<1>1. ASSUME v = Len(V) PROVE From(P, V, Len(P), v)
  <2>1. PICK f \in [0..Len(P) -> 0..Len(V)] : f = [i \in 0..Len(P) |-> Len(V)]
    <3>1. [i \in 0..Len(P) |-> Len(V)] \in [0..Len(P) -> 0..Len(V)]
      OBVIOUS
    <3>2. QED
      BY <3>1
  <2>2. f[Len(P)] = Len(V)
    BY <2>1
  <2>3. QED
    BY <1>1, <2>2 DEF From
<1>2. QED
  BY <1>1 DEF From

LEMMA FromStep ==
    ASSUME NEW P, NEW V, Len(P) \in Nat, Len(V) \in Nat,
           NEW p \in 0..Len(P), p # Len(P), NEW v \in 0..Len(V)
    PROVE  From(P, V, p, v) <=> \E w \in 0..Len(V) : Piece(P, V, p + 1, v, w) /\ From(P, V, p + 1, w)
<1>1. ASSUME From(P, V, p, v)
      PROVE  \E w \in 0..Len(V) : Piece(P, V, p + 1, v, w) /\ From(P, V, p + 1, w)
  <2>1. PICK f \in [0..Len(P) -> 0..Len(V)] :
            /\ f[p] = v /\ f[Len(P)] = Len(V)
            /\ \A i \in (p + 1)..Len(P) : Piece(P, V, i, f[i - 1], f[i])
    BY <1>1 DEF From
  <2>2. p + 1 \in 0..Len(P) /\ (p + 1) - 1 = p /\ f[p + 1] \in 0..Len(V)
    OBVIOUS
  <2>3. Piece(P, V, p + 1, v, f[p + 1])
    <3>1. p + 1 \in (p + 1)..Len(P)
      OBVIOUS
    <3>2. Piece(P, V, p + 1, f[(p + 1) - 1], f[p + 1])
      BY <2>1, <3>1
    <3>3. QED
      BY <2>1, <2>2, <3>2
  <2>4. \A i \in (p + 1 + 1)..Len(P) : i \in (p + 1)..Len(P)
    OBVIOUS
  <2>5. \A i \in (p + 1 + 1)..Len(P) : Piece(P, V, i, f[i - 1], f[i])
    BY <2>1, <2>4
  <2>6. From(P, V, p + 1, f[p + 1])
    BY <2>1, <2>5 DEF From
  <2>7. QED
    BY <2>2, <2>3, <2>6
<1>2. ASSUME NEW w \in 0..Len(V), Piece(P, V, p + 1, v, w), From(P, V, p + 1, w)
      PROVE  From(P, V, p, v)
  <2>1. PICK f \in [0..Len(P) -> 0..Len(V)] :
            /\ f[p + 1] = w /\ f[Len(P)] = Len(V)
            /\ \A i \in (p + 1 + 1)..Len(P) : Piece(P, V, i, f[i - 1], f[i])
    BY <1>2 DEF From
  <2>2. PICK g : g = [f EXCEPT ![p] = v]
    OBVIOUS
  <2>3. g \in [0..Len(P) -> 0..Len(V)] /\ g[p] = v /\ g[Len(P)] = Len(V)
    BY <2>1, <2>2
  <2>4. \A i \in (p + 1)..Len(P) : g[i] = f[i]
    BY <2>2
  <2>5. ASSUME NEW i \in (p + 1)..Len(P)
        PROVE  Piece(P, V, i, g[i - 1], g[i])
    <3>1. CASE i = p + 1
      <4>1. g[i - 1] = v /\ g[i] = w
        BY <2>1, <2>3, <2>4, <3>1
      <4>2. QED
        BY <1>2, <3>1, <4>1
    <3>2. CASE i # p + 1
      <4>1. i - 1 \in (p + 1)..Len(P) /\ i \in (p + 1 + 1)..Len(P)
        BY <3>2
      <4>2. g[i - 1] = f[i - 1] /\ g[i] = f[i]
        BY <2>4, <4>1
      <4>3. QED
        BY <2>1, <4>1, <4>2
    <3>3. QED
      BY <3>1, <3>2
  <2>6. QED
    BY <2>3, <2>5 DEF From
<1>3. QED
  BY <1>1, <1>2

LEMMA FromWild ==
    ASSUME NEW P, NEW V, Len(P) \in Nat, Len(V) \in Nat,
           NEW p \in 0..Len(P), p # Len(P), NEW v \in 0..Len(V), P[p + 1] = "*"
    PROVE  From(P, V, p, v) <=> \E w \in v..Len(V) : From(P, V, p + 1, w)
<1>1. \A w \in 0..Len(V) : Piece(P, V, p + 1, v, w) <=> w \in v..Len(V)
  BY DEF Piece
<1>2. v..Len(V) \subseteq 0..Len(V)
  OBVIOUS
<1>3. QED
  BY <1>1, <1>2, FromStep

LEMMA FromPiece ==
    ASSUME NEW P, NEW V, Len(P) \in Nat, Len(V) \in Nat,
           NEW p \in 0..Len(P), p # Len(P), NEW v \in 0..Len(V), P[p + 1] # "*"
    PROVE  /\ From(P, V, p, v) <=> v # Len(V) /\ P[p + 1] = V[v + 1] /\ From(P, V, p + 1, v + 1)
<1>1. \A w \in 0..Len(V) : Piece(P, V, p + 1, v, w) <=> w = v + 1 /\ P[p + 1] = V[v + 1]
  BY DEF Piece
<1>2. v # Len(V) <=> v + 1 \in 0..Len(V)
  OBVIOUS
<1>3. QED
  BY <1>1, <1>2, FromStep

\* At the end of the value there is room for wildcards only.
LEMMA FromWildsOnly ==
    ASSUME NEW P, NEW V, Len(P) \in Nat, Len(V) \in Nat, NEW p \in 0..Len(P)
    PROVE  From(P, V, p, Len(V)) <=> \A i \in (p + 1)..Len(P) : P[i] = "*"
<1>1. ASSUME \A i \in (p + 1)..Len(P) : P[i] = "*"
      PROVE  From(P, V, p, Len(V))
  <2>1. PICK f \in [0..Len(P) -> 0..Len(V)] : f = [i \in 0..Len(P) |-> Len(V)]
    <3>1. [i \in 0..Len(P) |-> Len(V)] \in [0..Len(P) -> 0..Len(V)]
      OBVIOUS
    <3>2. QED
      BY <3>1
  <2>2. f[p] = Len(V) /\ f[Len(P)] = Len(V)
    BY <2>1
  <2>3. \A i \in (p + 1)..Len(P) : f[i - 1] = Len(V) /\ f[i] = Len(V)
    BY <2>1
  <2>4. \A i \in (p + 1)..Len(P) : Piece(P, V, i, f[i - 1], f[i])
    BY <1>1, <2>3 DEF Piece
  <2>5. QED
    BY <2>2, <2>4 DEF From
<1>2. ASSUME From(P, V, p, Len(V))
      PROVE  \A i \in (p + 1)..Len(P) : P[i] = "*"
  <2>1. PICK f \in [0..Len(P) -> 0..Len(V)] :
            /\ f[p] = Len(V) /\ f[Len(P)] = Len(V)
            /\ \A i \in (p + 1)..Len(P) : Piece(P, V, i, f[i - 1], f[i])
    BY <1>2 DEF From
  <2> DEFINE Off == {i \in (p + 1)..Len(P) : ~(P[i] = "*" /\ f[i] = Len(V))}
  <2>2. Off = {}
    <3>1. SUFFICES ASSUME Off # {} PROVE FALSE
      OBVIOUS
    <3>2. Off \in SUBSET Nat
      OBVIOUS
    <3>3. PICK i \in Off : \A j \in Off : i <= j
      BY <3>1, <3>2, LeastNatural
    <3>4. f[i - 1] = Len(V)
      <4>1. CASE i = p + 1
        <5>1. i - 1 = p
          BY <4>1
        <5>2. QED
          BY <2>1, <5>1
      <4>2. CASE i # p + 1
        <5>1. i - 1 \in (p + 1)..Len(P) /\ i - 1 < i
          BY <4>2
        <5>2. i - 1 \notin Off
          BY <3>3, <5>1
        <5>3. QED
          BY <5>1, <5>2
      <4>3. QED
        BY <4>1, <4>2
    <3>5. i \in (p + 1)..Len(P) /\ f[i] \in 0..Len(V)
      OBVIOUS
    <3>6. Piece(P, V, i, Len(V), f[i])
      BY <2>1, <3>4, <3>5
    <3>7. P[i] = "*" /\ f[i] = Len(V)
      BY <3>5, <3>6 DEF Piece
    <3>8. QED
      BY <3>7
  <2>3. QED
    BY <2>2
<1>3. QED
  BY <1>1, <1>2

\* What the loop is to find from a position: a match from there on, or one for which the last
\* wildcard stands for more.
Later(P, V, at) == at.star # -1 /\ \E w \in (at.mark + 1)..Len(V) : From(P, V, at.star + 1, w)
Answer(P, V, at) == From(P, V, at.p, at.v) \/ Later(P, V, at)

\* The positions the loop comes to: whatever matches for a later mark has the pattern between
\* the wildcard and p behind it as well.
Sound(P, V, at) ==
    /\ at.mark <= at.v
    /\ at.star # -1 =>
          \A w \in (at.mark + 1)..Len(V) : From(P, V, at.star + 1, w) =>
              w + (at.v - at.mark) <= Len(V) /\ From(P, V, at.p, w + (at.v - at.mark))

LEMMA AnswerAtEnd ==
    ASSUME NEW P, NEW V, Len(P) \in Nat, Len(V) \in Nat, NEW at \in GlobPositions(P, V),
           Sound(P, V, at), at.v = Len(V)
    PROVE  Answer(P, V, at) <=> \A i \in (at.p + 1)..Len(P) : P[i] = "*"
<1>1. ~Later(P, V, at)
  BY Positions DEF Later, Sound
<1>2. QED
  BY <1>1, Positions, FromWildsOnly DEF Answer

LEMMA AnswerAtWild ==
    ASSUME NEW P, NEW V, Len(P) \in Nat, Len(V) \in Nat, NEW at \in GlobPositions(P, V),
           Sound(P, V, at), AtWild(P, V, at)
    PROVE  /\ Sound(P, V, Wild(at))
           /\ Answer(P, V, at) <=> Answer(P, V, Wild(at))
<1>1. /\ at.p \in 0..Len(P) /\ at.p # Len(P) /\ at.v \in 0..Len(V) /\ P[at.p + 1] = "*"
      /\ at.star \in Int /\ at.mark \in Nat
  BY Positions DEF AtWild
<1>2. Sound(P, V, Wild(at))
  BY <1>1 DEF Sound, Wild
<1>3. Answer(P, V, Wild(at)) <=> \E w \in at.v..Len(V) : From(P, V, at.p + 1, w)
  BY <1>1 DEF Answer, Later, Wild
<1>4. From(P, V, at.p, at.v) <=> \E w \in at.v..Len(V) : From(P, V, at.p + 1, w)
  BY <1>1, FromWild
<1>5. ASSUME Later(P, V, at)
      PROVE  From(P, V, at.p, at.v)
  <2>1. PICK w \in (at.mark + 1)..Len(V) : From(P, V, at.star + 1, w)
    BY <1>5 DEF Later
  <2>2. PICK x \in Nat : x = w + (at.v - at.mark) /\ x <= Len(V) /\ From(P, V, at.p, x) /\ at.v <= x
    <3>1. w + (at.v - at.mark) \in Nat /\ at.v <= w + (at.v - at.mark)
      BY <1>1
    <3>2. w + (at.v - at.mark) <= Len(V) /\ From(P, V, at.p, w + (at.v - at.mark))
      BY <1>5, <2>1 DEF Later, Sound
    <3>3. QED
      BY <3>1, <3>2
  <2>3. x \in 0..Len(V)
    BY <2>2
  <2>4. PICK y \in x..Len(V) : From(P, V, at.p + 1, y)
    BY <1>1, <2>2, <2>3, FromWild
  <2>5. y \in at.v..Len(V)
    BY <1>1, <2>2
  <2>6. QED
    BY <1>4, <2>4, <2>5
<1>6. QED
  BY <1>2, <1>3, <1>4, <1>5 DEF Answer

LEMMA AnswerAtPiece ==
    ASSUME NEW P, NEW V, Len(P) \in Nat, Len(V) \in Nat, NEW at \in GlobPositions(P, V),
           Sound(P, V, at), AtPiece(P, V, at)
    PROVE  /\ Sound(P, V, Along(at))
           /\ Answer(P, V, at) <=> Answer(P, V, Along(at))
<1>1. /\ at.p \in 0..Len(P) /\ at.p # Len(P) /\ at.v \in 0..Len(V) /\ P[at.p + 1] # "*"
      /\ at.v # Len(V) /\ P[at.p + 1] = V[at.v + 1]
      /\ at.star \in Int /\ at.mark \in Nat
  BY Positions DEF AtPiece
<1>2. ASSUME at.star # -1, NEW w \in (at.mark + 1)..Len(V), From(P, V, at.star + 1, w)
      PROVE  /\ w + ((at.v + 1) - at.mark) <= Len(V)
             /\ From(P, V, at.p + 1, w + ((at.v + 1) - at.mark))
  <2>1. PICK x \in Nat : x = w + (at.v - at.mark)
    BY <1>1 DEF Sound
  <2>2. x \in 0..Len(V) /\ From(P, V, at.p, x)
    BY <1>2, <2>1 DEF Sound
  <2>3. x # Len(V) /\ From(P, V, at.p + 1, x + 1)
    BY <1>1, <2>2, FromPiece
  <2>4. w + ((at.v + 1) - at.mark) = x + 1
    <3>1. w \in Int /\ at.v \in Int /\ at.mark \in Int
      BY <1>1
    <3>2. QED
      BY <2>1, <3>1
  <2>5. QED
    BY <2>2, <2>3, <2>4
<1>3. Sound(P, V, Along(at))
  <2>1. /\ Along(at).mark = at.mark /\ Along(at).v = at.v + 1 /\ Along(at).star = at.star
        /\ Along(at).p = at.p + 1
    BY DEF Along
  <2>2. at.mark <= at.v + 1
    BY <1>1 DEF Sound
  <2>3. QED
    BY <1>2, <2>1, <2>2 DEF Sound
<1>4. From(P, V, at.p, at.v) <=> From(P, V, at.p + 1, at.v + 1)
  BY <1>1, FromPiece
<1>5. QED
  BY <1>3, <1>4 DEF Answer, Later, Along

LEMMA NothingHere ==
    ASSUME NEW P, NEW V, Len(P) \in Nat, Len(V) \in Nat, NEW at \in GlobPositions(P, V),
           AtMiss(P, V, at)
    PROVE  ~From(P, V, at.p, at.v)
<1>1. at.p \in 0..Len(P) /\ at.v \in 0..Len(V) /\ at.v # Len(V)
  BY Positions DEF AtMiss
<1>2. CASE at.p = Len(P)
  BY <1>1, <1>2, FromEnd
<1>3. CASE at.p # Len(P)
  <2>1. P[at.p + 1] # "*" /\ P[at.p + 1] # V[at.v + 1]
    BY <1>1, <1>3 DEF AtMiss, AtWild, AtPiece
  <2>2. QED
    BY <1>1, <1>3, <2>1, FromPiece
<1>4. QED
  BY <1>2, <1>3

LEMMA AnswerWhenStuck ==
    ASSUME NEW P, NEW V, Len(P) \in Nat, Len(V) \in Nat, NEW at \in GlobPositions(P, V),
           AtMiss(P, V, at), Stuck(V, at)
    PROVE  ~Answer(P, V, at)
BY NothingHere, Positions DEF Answer, Later, Stuck

LEMMA AnswerBack ==
    ASSUME NEW P, NEW V, Len(P) \in Nat, Len(V) \in Nat, NEW at \in GlobPositions(P, V),
           AtMiss(P, V, at), ~Stuck(V, at)
    PROVE  /\ Sound(P, V, Back(at))
           /\ Answer(P, V, at) <=> Answer(P, V, Back(at))
<1>1. at.star # -1 /\ at.star \in Int /\ at.mark \in Nat /\ at.mark + 1 \in 0..Len(V)
  BY Positions DEF Stuck
<1>2. Sound(P, V, Back(at))
  BY <1>1 DEF Sound, Back
<1>3. Answer(P, V, Back(at)) <=> \E w \in (at.mark + 1)..Len(V) : From(P, V, at.star + 1, w)
  BY <1>1 DEF Answer, Later, Back
<1>4. QED
  BY <1>1, <1>2, <1>3, NothingHere DEF Answer, Later

\* Whatever position it is at, the loop answers what it is to find.
LEMMA LoopFinds ==
    ASSUME NEW P, NEW V, Len(P) \in Nat, Len(V) \in Nat
    PROVE  \A at \in GlobPositions(P, V) : Sound(P, V, at) => Loop(P, V)[at] = Answer(P, V, at)
<1> DEFINE Wrong(at) == Sound(P, V, at) /\ Loop(P, V)[at] # Answer(P, V, at)
           S == {k \in Nat : \E at \in GlobPositions(P, V) : Wrong(at) /\ TurnsLeft(P, V, at) = k}
<1>1. S = {}
  <2>1. SUFFICES ASSUME S # {} PROVE FALSE
    OBVIOUS
  <2>2. PICK k \in S : \A j \in S : k <= j
    BY <2>1, LeastNatural
  <2>3. PICK at \in GlobPositions(P, V) : Wrong(at) /\ TurnsLeft(P, V, at) = k
    OBVIOUS
  <2>4. ASSUME NEW x \in GlobPositions(P, V), Sound(P, V, x), TurnsLeft(P, V, x) < k
        PROVE  Loop(P, V)[x] = Answer(P, V, x)
    <3>1. TurnsLeft(P, V, x) \in Nat /\ TurnsLeft(P, V, x) \notin S
      BY <2>2, <2>4, TurnsAreLeft
    <3>2. QED
      BY <2>4, <3>1
  <2>5. Loop(P, V)[at] = GlobTurn(Loop(P, V), P, V, at)
    BY LoopTurns
  <2>6. CASE at.v = Len(V)
    <3>1. GlobTurn(Loop(P, V), P, V, at) = \A i \in (at.p + 1)..Len(P) : P[i] = "*"
      BY <2>6 DEF GlobTurn
    <3>2. Answer(P, V, at) = \A i \in (at.p + 1)..Len(P) : P[i] = "*"
      BY <2>3, <2>6, AnswerAtEnd DEF Answer, Later
    <3>3. QED
      BY <2>3, <2>5, <3>1, <3>2
  <2>7. CASE AtWild(P, V, at)
    <3>1. \A f : GlobTurn(f, P, V, at) = f[Wild(at)]
      BY <2>7, TurnAtWild
    <3>2. Loop(P, V)[Wild(at)] = Answer(P, V, Wild(at))
      BY <2>3, <2>4, <2>7, TurnAtWild, AnswerAtWild
    <3>3. Answer(P, V, at) = Answer(P, V, Wild(at))
      BY <2>3, <2>7, AnswerAtWild DEF Answer, Later
    <3>4. QED
      BY <2>3, <2>5, <3>1, <3>2, <3>3
  <2>8. CASE AtPiece(P, V, at)
    <3>1. \A f : GlobTurn(f, P, V, at) = f[Along(at)]
      BY <2>8, TurnAtPiece
    <3>2. Loop(P, V)[Along(at)] = Answer(P, V, Along(at))
      BY <2>3, <2>4, <2>8, TurnAtPiece, AnswerAtPiece
    <3>3. Answer(P, V, at) = Answer(P, V, Along(at))
      BY <2>3, <2>8, AnswerAtPiece DEF Answer, Later
    <3>4. QED
      BY <2>3, <2>5, <3>1, <3>2, <3>3
  <2>9. CASE AtMiss(P, V, at) /\ Stuck(V, at)
    <3>1. \A f : GlobTurn(f, P, V, at) = FALSE
      BY <2>9, TurnWhenStuck
    <3>2. Answer(P, V, at) = FALSE
      BY <2>9, AnswerWhenStuck DEF Answer, Later
    <3>3. QED
      BY <2>3, <2>5, <3>1, <3>2
  <2>10. CASE AtMiss(P, V, at) /\ ~Stuck(V, at)
    <3>1. \A f : GlobTurn(f, P, V, at) = f[Back(at)]
      BY <2>10, TurnBack
    <3>2. Loop(P, V)[Back(at)] = Answer(P, V, Back(at))
      BY <2>3, <2>4, <2>10, TurnBack, AnswerBack
    <3>3. Answer(P, V, at) = Answer(P, V, Back(at))
      BY <2>10, AnswerBack DEF Answer, Later
    <3>4. QED
      BY <2>3, <2>5, <3>1, <3>2, <3>3
  <2>11. QED
    BY <2>6, <2>7, <2>8, <2>9, <2>10 DEF AtMiss
<1>2. \A at \in GlobPositions(P, V) : ~Wrong(at)
  BY <1>1, TurnsAreLeft
<1>3. QED
  BY <1>2

\* globMatch says that a value matches a pattern exactly if the value can be cut into one part
\* for every piece of the pattern: one wildcard to go back to is enough. (policy-engine.ts:283)
THEOREM GlobFindsEveryMatch ==
    ASSUME NEW P, NEW V, Len(P) \in Nat, Len(V) \in Nat
    PROVE  GlobMatch(P, V) = Matches(P, V)
<1>1. Start \in GlobPositions(P, V) /\ Sound(P, V, Start)
  BY DEF Start, GlobPositions, Sound
<1>2. Loop(P, V)[Start] = Answer(P, V, Start)
  BY <1>1, LoopFinds
<1>3. Answer(P, V, Start) = Matches(P, V)
  <2>1. Answer(P, V, Start) <=> From(P, V, 0, 0)
    BY DEF Answer, Later, Start
  <2>2. Answer(P, V, Start) <=> Matches(P, V)
    BY <2>1, FromStart
  <2>3. Answer(P, V, Start) \in BOOLEAN /\ Matches(P, V) \in BOOLEAN
    BY DEF Answer, Later, Matches
  <2>4. QED
    BY <2>2, <2>3
<1>4. QED
  BY <1>2, <1>3, LoopTurns

----------------------------------------------------------------------------
(* Conditions and groups *)

LEMMA LowerCaseLength ==
    ASSUME NEW x, x.type = "string", Len(x.v) \in Nat, DOMAIN x.v = 1..Len(x.v)
    PROVE  Len(LowerCase(x).v) \in Nat
<1>1. PICK f : f = [i \in DOMAIN x.v |-> IF x.v[i] \in DOMAIN Lower THEN Lower[x.v[i]] ELSE x.v[i]]
  OBVIOUS
<1>2. LowerCase(x).v = f
  BY <1>1 DEF LowerCase, Str
<1>3. PICK n \in Nat : n = Len(x.v)
  OBVIOUS
<1>4. PICK S : S = {f[i] : i \in 1..n}
  OBVIOUS
<1>5. f \in [1..n -> S]
  BY <1>1, <1>3, <1>4
<1>6. f \in Seq(S)
  BY <1>5
<1>7. QED
  BY <1>2, <1>6

LEMMA CanonicalLength ==
    ASSUME NEW c, c.value.type = "string", IsText(c.value)
    PROVE  Len(CanonicalValue(c).v) \in Nat
<1>1. Len(LowerCase(c.value).v) \in Nat
  BY LowerCaseLength DEF IsText
<1>2. QED
  BY <1>1 DEF CanonicalValue, IsText

LEMMA ConditionTruth ==
    ASSUME NEW action, NEW c, ValidCondition(c), IsText(c.value),
           IsText(ReadField(action, c.field))
    PROVE  /\ Truth(action, c) = EvaluateCondition(action, c)
           /\ Truth(action, c) \in {"true", "false", "indeterminate"}
<1>1. EvaluateCondition(action, c) \in {"true", "false", "indeterminate"}
  BY DEF EvaluateCondition
<1>2. CASE c.operator # "glob"
  BY <1>1, <1>2 DEF Truth
<1>3. CASE c.operator = "glob"
  <2>1. PICK actual, canonical : actual = ReadField(action, c.field) /\ canonical = CanonicalValue(c)
    OBVIOUS
  <2>2. c.value.type = "string"
    BY <1>3 DEF ValidCondition, PatternOperators
  <2>3. Len(canonical.v) \in Nat
    BY <2>1, <2>2, CanonicalLength
  <2>4. actual.type = "string" => GlobMatch(canonical.v, actual.v) = Matches(canonical.v, actual.v)
    BY <2>1, <2>3, GlobFindsEveryMatch DEF IsText
  <2>5. Holds(actual, "glob", canonical) <=>
            actual.type = "string" /\ GlobMatch(canonical.v, actual.v)
    BY DEF Holds, NumericOperators
  <2>6. EvaluateCondition(action, c) =
            IF Holds(actual, "glob", canonical) THEN "true" ELSE "false"
    BY <1>3, <2>1 DEF EvaluateCondition, NumericOperators
  <2>7. Truth(action, c) =
            IF actual.type = "string" /\ Matches(canonical.v, actual.v) THEN "true" ELSE "false"
    BY <1>3, <2>1 DEF Truth
  <2>8. QED
    BY <1>1, <2>4, <2>5, <2>6, <2>7
<1>4. QED
  BY <1>2, <1>3

\* The conditions of a group have these truths.
Truths(action, g) == [i \in DOMAIN g.conditions |-> Truth(action, g.conditions[i])]

\* An assignment to the conditions that agrees with what is known of them.
Agrees(u, t, D) ==
    /\ u \in [D -> BOOLEAN]
    /\ \A i \in D : t[i] # "indeterminate" => (u[i] <=> t[i] = "true")
Makes(match, u, D) == IF match = "all" THEN \A i \in D : u[i] ELSE \E i \in D : u[i]

LEMMA OutcomesOf ==
    ASSUME NEW action, NEW p
    PROVE  LET g == p.conditions
               D == DOMAIN g.conditions
               t == Truths(action, g)
           IN  /\ MayHold(action, p) <=> \E u \in [D -> BOOLEAN] : Agrees(u, t, D) /\ Makes(g.match, u, D)
               /\ MustHold(action, p) <=> \A u \in [D -> BOOLEAN] : Agrees(u, t, D) => Makes(g.match, u, D)
<1> DEFINE g == p.conditions
           D == DOMAIN g.conditions
           t == Truths(action, g)
           Known(u) == \A i \in D : LET truth == Truth(action, g.conditions[i])
                                    IN  truth # "indeterminate" => (u[i] <=> truth = "true")
<1>1. Outcomes(action, g) = {Makes(g.match, u, D) : u \in {w \in [D -> BOOLEAN] : Known(w)}}
  BY DEF Outcomes, Makes
<1>2. \A u \in [D -> BOOLEAN] : Known(u) <=> Agrees(u, t, D)
  BY DEF Agrees, Truths
<1>3. \A u : Makes(g.match, u, D) \in BOOLEAN
  BY DEF Makes
<1>4. TRUE \in Outcomes(action, g) <=> \E u \in [D -> BOOLEAN] : Agrees(u, t, D) /\ Makes(g.match, u, D)
  <2> HIDE DEF Known
  <2>1. TRUE \in Outcomes(action, g) <=> \E u \in [D -> BOOLEAN] : Known(u) /\ Makes(g.match, u, D) = TRUE
    BY <1>1
  <2>2. QED
    BY <1>2, <1>3, <2>1
<1>5. FALSE \in Outcomes(action, g) <=> \E u \in [D -> BOOLEAN] : Agrees(u, t, D) /\ ~Makes(g.match, u, D)
  <2> HIDE DEF Known
  <2>1. FALSE \in Outcomes(action, g) <=> \E u \in [D -> BOOLEAN] : Known(u) /\ Makes(g.match, u, D) = FALSE
    BY <1>1
  <2>2. QED
    BY <1>2, <1>3, <2>1
<1>6. QED
  BY <1>4, <1>5 DEF MayHold, MustHold

\* Without the assignments: what leaves it possible, and what makes it certain.
Possible(match, t, D) ==
    IF match = "all" THEN \A i \in D : t[i] # "false" ELSE \E i \in D : t[i] # "false"
Certain(match, t, D) ==
    IF match = "all" THEN \A i \in D : t[i] = "true" ELSE \E i \in D : t[i] = "true"

LEMMA OpenGroups ==
    ASSUME NEW D, NEW t, NEW match, \A i \in D : t[i] \in {"true", "false", "indeterminate"}
    PROVE  /\ (\E u \in [D -> BOOLEAN] : Agrees(u, t, D) /\ Makes(match, u, D)) <=> Possible(match, t, D)
           /\ (\A u \in [D -> BOOLEAN] : Agrees(u, t, D) => Makes(match, u, D)) <=> Certain(match, t, D)
<1>1. PICK most : most = [i \in D |-> t[i] # "false"]
  OBVIOUS
<1>2. PICK least : least = [i \in D |-> t[i] = "true"]
  OBVIOUS
<1>3. most \in [D -> BOOLEAN] /\ least \in [D -> BOOLEAN]
  BY <1>1, <1>2
<1>4. \A i \in D : (most[i] <=> t[i] # "false") /\ (least[i] <=> t[i] = "true")
  BY <1>1, <1>2
<1>5. Agrees(most, t, D) /\ Agrees(least, t, D)
  BY <1>3, <1>4 DEF Agrees
<1>6. ASSUME NEW u \in [D -> BOOLEAN], Agrees(u, t, D)
      PROVE  \A i \in D : (u[i] => most[i]) /\ (least[i] => u[i])
  BY <1>4, <1>6 DEF Agrees
<1>7. (\E u \in [D -> BOOLEAN] : Agrees(u, t, D) /\ Makes(match, u, D)) <=> Makes(match, most, D)
  BY <1>3, <1>5, <1>6 DEF Makes
<1>8. (\A u \in [D -> BOOLEAN] : Agrees(u, t, D) => Makes(match, u, D)) <=> Makes(match, least, D)
  BY <1>3, <1>5, <1>6 DEF Makes
<1>9. QED
  BY <1>4, <1>7, <1>8 DEF Makes, Possible, Certain

\* EvaluateGroup is "false" if the policy cannot hold, and "true" if it must.
LEMMA GroupVerdicts ==
    ASSUME NEW action, NEW p, ValidGroup(p.conditions),
           \A i \in DOMAIN p.conditions.conditions :
               /\ IsText(p.conditions.conditions[i].value)
               /\ IsText(ReadField(action, p.conditions.conditions[i].field))
    PROVE  /\ EvaluateGroup(action, p.conditions) \in {"true", "false", "indeterminate"}
           /\ EvaluateGroup(action, p.conditions) # "false" <=> MayHold(action, p)
           /\ EvaluateGroup(action, p.conditions) = "true" <=> MustHold(action, p)
<1>1. PICK g, D, t : g = p.conditions /\ D = DOMAIN g.conditions /\ t = Truths(action, g)
  OBVIOUS
<1>2. \A i \in D : /\ t[i] = EvaluateCondition(action, g.conditions[i])
                   /\ t[i] \in {"true", "false", "indeterminate"}
  BY <1>1, ConditionTruth DEF ValidGroup, Truths
<1>3. g.match \in {"all", "any"}
  BY <1>1 DEF ValidGroup
<1>4. PICK results : results = {t[i] : i \in D}
  OBVIOUS
<1>5. EvaluateGroup(action, g) =
        LET decisive == IF g.match = "all" THEN "false" ELSE "true"
            otherwise == IF g.match = "all" THEN "true" ELSE "false"
        IN  IF decisive \in results THEN decisive
            ELSE IF "indeterminate" \in results THEN "indeterminate" ELSE otherwise
  <2>1. results = {EvaluateCondition(action, g.conditions[i]) : i \in DOMAIN g.conditions}
    BY <1>1, <1>2, <1>4
  <2>2. QED
    BY <2>1 DEF EvaluateGroup
<1>6. \A x : x \in results <=> \E i \in D : t[i] = x
  BY <1>4
<1>7. /\ MayHold(action, p) <=> Possible(g.match, t, D)
      /\ MustHold(action, p) <=> Certain(g.match, t, D)
  <2>1. /\ MayHold(action, p) <=> \E u \in [D -> BOOLEAN] : Agrees(u, t, D) /\ Makes(g.match, u, D)
        /\ MustHold(action, p) <=> \A u \in [D -> BOOLEAN] : Agrees(u, t, D) => Makes(g.match, u, D)
    BY <1>1, OutcomesOf
  <2>2. \A i \in D : t[i] \in {"true", "false", "indeterminate"}
    BY <1>2
  <2>3. QED
    BY <2>1, <2>2, OpenGroups
<1>8. EvaluateGroup(action, g) \in {"true", "false", "indeterminate"}
  BY <1>5
<1>9. EvaluateGroup(action, g) # "false" <=> MayHold(action, p)
  BY <1>2, <1>3, <1>5, <1>6, <1>7 DEF Possible, Certain
<1>10. EvaluateGroup(action, g) = "true" <=> MustHold(action, p)
  BY <1>2, <1>3, <1>5, <1>6, <1>7 DEF Possible, Certain
<1>11. QED
  BY <1>1, <1>8, <1>9, <1>10

----------------------------------------------------------------------------
(* The decision: whatever the order the engine finds, it is what the policies call for *)

\* The policies that a request of agent a is judged by.
Bearing(a) == PoliciesInScope(policies, a)

LEMMA GroupsOf ==
    ASSUME TypeOK, NEW body \in ValidBodies, NEW p \in policies, ValidGroup(p.conditions)
    PROVE  LET result == EvaluateGroup(Judged(body), p.conditions)
           IN  /\ result \in {"true", "false", "indeterminate"}
               /\ result # "false" <=> MayHold(Judged(body), p)
               /\ result = "true" <=> MustHold(Judged(body), p)
<1>1. p \in PolicyUniverse
  BY DEF TypeOK
<1>2. \A i \in DOMAIN p.conditions.conditions :
          /\ IsText(p.conditions.conditions[i].value)
          /\ IsText(ReadField(Judged(body), p.conditions.conditions[i].field))
  BY <1>1, TextAssumption
<1>3. QED
  BY <1>2, GroupVerdicts

LEMMA AppliesIf ==
    ASSUME TypeOK, NEW body \in ValidBodies, NEW p \in policies, WellFormed(p)
    PROVE  Applies(Judged(body), p) <=>
               IF p.effect = "allow" THEN MustHold(Judged(body), p) ELSE MayHold(Judged(body), p)
BY GroupsOf DEF Applies, WellFormed

\* What the reference comes to once nothing is malformed and the gate is passed.
Strictest(body) ==
    LET a == AgentNamed(body)
    IN  IF \E p \in Bearing(a) : p.effect = "block" /\ MayHold(Judged(body), p) THEN "block"
        ELSE IF \E p \in Bearing(a) : p.effect = "review" /\ MayHold(Judged(body), p) THEN "review"
        ELSE IF \E p \in Bearing(a) : p.effect = "allow" /\ MustHold(Judged(body), p) THEN "allow"
        ELSE DefaultFor(a)

LEMMA EngineIsStrict ==
    ASSUME TypeOK, NEW body \in ValidBodies,
           \A p \in Bearing(AgentNamed(body)) : WellFormed(p),
           NEW result \in Evaluate(Judged(body), AgentNamed(body), policies,
                                   DefaultFor(AgentNamed(body)))
    PROVE  result.decision = Strictest(body)
<1> DEFINE a == AgentNamed(body)
<1>1. PICK matched : matched = Applicable(Judged(body), a, policies)
  OBVIOUS
<1>2. \A p : p \in matched <=>
          /\ p \in Bearing(a)
          /\ IF p.effect = "allow" THEN MustHold(Judged(body), p) ELSE MayHold(Judged(body), p)
  <2>1. \A p \in Bearing(a) : p \in policies
    BY DEF Bearing, PoliciesInScope
  <2>2. QED
    BY <1>1, <2>1, AppliesIf DEF Applicable, Bearing
<1>3. \A p \in matched : p.effect \in {"allow", "review", "block"}
  BY <1>2 DEF WellFormed, Verdicts
<1>4. result \in IF matched = {} THEN {Result(DefaultFor(a), DefaultCode(DefaultFor(a)), NoPolicy, {})}
                ELSE {Result(p.effect, WinnerCode(Judged(body), p), p.id, {q.id : q \in matched}) :
                         p \in {p \in matched : \A q \in matched \ {p} : Precedes(p, q)}}
  <2>1. {p \in PoliciesInScope(policies, a) : ~WellFormed(p)} = {}
    BY DEF Bearing
  <2>2. QED
    BY <1>1, <2>1 DEF Evaluate
<1>5. CASE matched = {}
  <2>1. result.decision = DefaultFor(a)
    BY <1>4, <1>5 DEF Result
  <2>2. QED
    BY <1>2, <1>5, <2>1 DEF Strictest
<1>6. CASE matched # {}
  <2>1. PICK p \in matched : /\ \A q \in matched \ {p} : Precedes(p, q)
                             /\ result.decision = p.effect
    BY <1>4, <1>6 DEF Result
  <2>2. \A q \in matched : EffectRank(p.effect) <= EffectRank(q.effect)
    <3>1. \A q \in matched : EffectRank(q.effect) \in Int
      BY DEF EffectRank
    <3>2. QED
      BY <2>1, <3>1 DEF Precedes
  <2>3. CASE p.effect = "block"
    BY <1>2, <2>1, <2>3 DEF Strictest
  <2>4. CASE p.effect = "review"
    <3>1. \A q \in matched : q.effect # "block"
      BY <2>2, <2>4 DEF EffectRank
    <3>2. QED
      BY <1>2, <2>1, <2>4, <3>1 DEF Strictest
  <2>5. CASE p.effect = "allow"
    <3>1. \A q \in matched : q.effect = "allow"
      BY <1>3, <2>2, <2>5 DEF EffectRank
    <3>2. QED
      BY <1>2, <2>1, <2>5, <3>1 DEF Strictest
  <2>6. QED
    BY <1>3, <2>1, <2>3, <2>4, <2>5
<1>7. QED
  BY <1>5, <1>6

\* The identity gate stops the agents the reference stops.
GateStops(body) ==
    LET a == AgentNamed(body)
    IN  \/ a = None /\ RequireRegistered
        \/ a # None /\ agents[a] = "disabled"
        \/ a # None /\ OutOfPlace(a, ActionOf(body).fields["environment"])

LEMMA GateIs ==
    ASSUME TypeOK, NEW body
    PROVE  IdentityGate(body) # "" <=> GateStops(body)
<1>1. PICK a, declared : a = AgentNamed(body) /\ declared = ActionOf(body).fields["environment"]
  OBVIOUS
<1>2. a \in Agents \cup {None}
  BY <1>1, BodyNames
<1>3. CASE a = None
  BY <1>1, <1>3, GatewayAssumption DEF IdentityGate, GateStops
<1>4. CASE a # None
  <2>1. agents[a] \in {"active", "disabled"}
    BY <1>2, <1>4 DEF TypeOK
  <2>2. QED
    BY <1>1, <1>4, <2>1, GatewayAssumption DEF IdentityGate, GateStops, OutOfPlace
<1>5. QED
  BY <1>3, <1>4

LEMMA ReferenceIs ==
    ASSUME NEW body
    PROVE  Reference(body) =
               IF GateStops(body) \/ \E p \in Bearing(AgentNamed(body)) : ~WellFormed(p) THEN "block"
               ELSE Strictest(body)
BY DEF Reference, GateStops, Strictest, Bearing, PoliciesInScope

\* The engine decides what the policies call for, said without its order of evaluation: blocked
\* by the gate, by a malformed policy or by a policy that may apply, and so on.
LEMMA EngineDecides ==
    ASSUME TypeOK, NEW body \in ValidBodies, NEW result \in PolicyResults(body)
    PROVE  result.decision = Reference(body)
<1> DEFINE a == AgentNamed(body)
<1>1. CASE GateStops(body)
  <2>1. result \in {Result("block", IdentityGate(body), NoPolicy, {})}
    BY <1>1, GateIs DEF PolicyResults, ResultsUnder
  <2>2. QED
    BY <1>1, <2>1, ReferenceIs DEF Result
<1>2. CASE ~GateStops(body)
  <2>1. result \in Evaluate(Judged(body), a, policies, DefaultFor(a))
    BY <1>2, GateIs DEF PolicyResults, ResultsUnder
  <2>2. CASE \E p \in Bearing(a) : ~WellFormed(p)
    <3>1. {p \in PoliciesInScope(policies, a) : ~WellFormed(p)} # {}
      BY <2>2 DEF Bearing
    <3>2. result \in {Result("block", "POLICY_INVALID", p.id, {}) :
                         p \in {p \in PoliciesInScope(policies, a) : ~WellFormed(p)}}
      BY <2>1, <3>1 DEF Evaluate
    <3>3. result.decision = "block"
      BY <3>2 DEF Result
    <3>4. QED
      BY <2>2, <3>3, ReferenceIs
  <2>3. CASE \A p \in Bearing(a) : WellFormed(p)
    BY <1>2, <2>1, <2>3, EngineIsStrict, ReferenceIs
  <2>4. QED
    BY <2>2, <2>3
<1>3. QED
  BY <1>1, <1>2

----------------------------------------------------------------------------
(* What is planned and recorded is what the policies called for, or stricter *)

\* The decision of a request, from what its policies called for.
AsDue(mode, body, decision, due) ==
    /\ Rank(decision) >= Rank(due)
    /\ mode # "enforce" /\ ~Correlated(CorrelationOf(body)) => decision = due

Upholds(q) ==
    /\ q.stage = "context" => q.result = q.due
    /\ q.stage \in {"commit", "core"} => AsDue(q.mode, q.body, q.decision, q.due)

RowUpholds(d) ==
    d # NoRow =>
        /\ Rank(d.decision) >= Rank(d.due)
        /\ d.mode # "enforce" /\ ~Correlated(d.fingerprint.correlation) => d.decision = d.due

PolicyInv ==
    /\ \A r \in Requests : Upholds(req[r])
    /\ \A row \in Rows : RowUpholds(decisions[row])

LEMMA NotStricterThanAsked ==
    ASSUME NEW mode, NEW result \in Verdicts, NEW verdict \in Verdicts
    PROVE  /\ Rank(Effective(mode, result, verdict)) >= Rank(result)
           /\ mode # "enforce" => Effective(mode, result, verdict) = result
BY DEF Effective, MostRestrictive, Rank, EffectRank, Verdicts

\* One invocation has moved on and no decision was written.
LEMMA UpholdsOn ==
    ASSUME Inv, PolicyInv, NEW r \in Requests, NEW new, Upholds(new),
           req' = [req EXCEPT ![r] = new], decisions' = decisions
    PROVE  PolicyInv'
<1>1. ASSUME NEW s \in Requests
      PROVE  Upholds(req'[s])
  BY DEF Inv, TypeOK, PolicyInv
<1>2. QED
  BY <1>1 DEF PolicyInv, Upholds, RowUpholds, AsDue

LEMMA UpholdsDone ==
    ASSUME NEW q, NEW answer
    PROVE  Upholds(Done(q, answer))
BY DEF Upholds, Done

LEMMA UpholdsFound ==
    ASSUME Inv, PolicyInv, NEW r \in Requests,
           NEW q \in [stage : {"context", "reread"}, body : ValidBodies, row : Rows, mode : Modes,
                      open : BOOLEAN],
           Found(r, q), decisions' = decisions
    PROVE  PolicyInv'
<1>1. PICK found : found = [q EXCEPT !.stage = "recheck"]
  OBVIOUS
<1>2. found.stage = "recheck"
  BY <1>1
<1>3. Upholds(found)
  BY <1>2 DEF Upholds
<1>4. \/ \E answer : req' = [req EXCEPT ![r] = Done(q, answer)]
      \/ req' = [req EXCEPT ![r] = found]
  BY <1>1 DEF Found
<1>5. QED
  BY <1>3, <1>4, UpholdsOn, UpholdsDone

LEMMA UpholdsReceive ==
    ASSUME Inv, PolicyInv, NEW r \in Requests, Receive(r)
    PROVE  PolicyInv'
<1>0. decisions' = decisions
  BY DEF Receive, Unchanged
<1>1. PICK body \in Bodies :
        LET q == [stage |-> "context", body |-> body, row |-> RowNamed(body, r), mode |-> org.mode,
                  open |-> OpenUnder(org, risk, body)]
        IN  IF body \notin ValidBodies \/ ~org.usable THEN req' = [req EXCEPT ![r] = Refused]
            ELSE IF decisions[q.row] # NoRow THEN Found(r, q)
            ELSE \E result \in PolicyResults(body) :
                    req' = [req EXCEPT ![r] =
                               [stage |-> "context", body |-> body, row |-> q.row, mode |-> q.mode,
                                open |-> q.open, result |-> result.decision, due |-> Reference(body)]]
  BY DEF Receive
<1>2. CASE body \notin ValidBodies \/ ~org.usable
  <2>1. req' = [req EXCEPT ![r] = Refused]
    BY <1>1, <1>2
  <2>2. Upholds(Refused)
    BY DEF Upholds, Refused
  <2>3. QED
    BY <1>0, <2>1, <2>2, UpholdsOn
<1>3. CASE body \in ValidBodies /\ org.usable
  <2> DEFINE q == [stage |-> "context", body |-> body, row |-> RowNamed(body, r), mode |-> org.mode,
                   open |-> OpenUnder(org, risk, body)]
  <2>1. CASE decisions[q.row] # NoRow
    <3>1. RowNamed(body, r) \in Rows /\ org.mode \in Modes /\ OpenUnder(org, risk, body) \in BOOLEAN
      BY BodyNames, IdsAreRows DEF Inv, TypeOK, OpenUnder
    <3>2. q \in [stage : {"context", "reread"}, body : ValidBodies, row : Rows, mode : Modes,
                 open : BOOLEAN]
      BY <1>3, <3>1
    <3>3. Found(r, q)
      BY <1>1, <1>3, <2>1
    <3>4. QED
      BY <1>0, <3>2, <3>3, UpholdsFound
  <2>2. CASE decisions[q.row] = NoRow
    <3>1. PICK result \in PolicyResults(body) :
            req' = [req EXCEPT ![r] =
                       [stage |-> "context", body |-> body, row |-> q.row, mode |-> q.mode,
                        open |-> q.open, result |-> result.decision, due |-> Reference(body)]]
      BY <1>1, <1>3, <2>2
    <3>2. result.decision = Reference(body)
      BY <1>3, <3>1, EngineDecides DEF Inv
    <3>3. Upholds([stage |-> "context", body |-> body, row |-> q.row, mode |-> q.mode,
                   open |-> q.open, result |-> result.decision, due |-> Reference(body)])
      BY <3>2 DEF Upholds
    <3>4. QED
      BY <1>0, <3>1, <3>3, UpholdsOn
  <2>3. QED
    BY <2>1, <2>2
<1>4. QED
  BY <1>2, <1>3

\* What is planned is the result of the policies or the gate, restricted by the runtime.
LEMMA UpholdsPlanned ==
    ASSUME Inv, PolicyInv, NEW r \in Requests, req[r].stage = "context",
           NEW result \in Verdicts, NEW session, NEW assessment, assessment.verdict \in Verdicts,
           NEW evidence, NEW lease, Rank(result) >= Rank(req[r].result),
           ~Correlated(CorrelationOf(req[r].body)) => result = req[r].result,
           req' = [req EXCEPT ![r] = Planned(req[r], result, session, assessment, evidence, lease)],
           decisions' = decisions
    PROVE  PolicyInv'
<1>1. PICK q, verdict : q = req[r] /\ verdict = assessment.verdict
  OBVIOUS
<1>2. q.result = q.due /\ q.due \in Verdicts /\ q.mode \in Modes
  BY <1>1, RequestTypes, Stages DEF PolicyInv, Upholds
<1>3. PICK decision : decision = Effective(q.mode, result, verdict)
  OBVIOUS
<1>4. /\ decision \in Verdicts /\ Rank(decision) >= Rank(result)
      /\ q.mode # "enforce" => decision = result
  BY <1>1, <1>2, <1>3, Restricts, NotStricterThanAsked
<1>5. \A d \in Verdicts : Rank(d) \in Int
  BY DEF Rank, EffectRank
<1>6. AsDue(q.mode, q.body, decision, q.due)
  BY <1>1, <1>2, <1>4, <1>5 DEF AsDue
<1>7. PICK new : new = Planned(q, result, session, assessment, evidence, lease)
  OBVIOUS
<1>8. /\ new.stage = "commit" /\ new.mode = q.mode /\ new.body = q.body
      /\ new.decision = decision /\ new.due = q.due
  BY <1>1, <1>3, <1>7 DEF Planned
<1>9. Upholds(new)
  BY <1>6, <1>8 DEF Upholds
<1>10. QED
  BY <1>1, <1>7, <1>9, UpholdsOn

LEMMA UpholdsLoad ==
    ASSUME Inv, PolicyInv, NEW r \in Requests, LoadContext(r)
    PROVE  PolicyInv'
<1>1. PICK q, s, a : q = req[r] /\ s = ValidSession(q.body) /\ a = AgentNamed(q.body)
  OBVIOUS
<1>2. PICK result : result = IF CorrelationGate(q.body) # "" THEN "block" ELSE q.result
  OBVIOUS
<1>3. PICK assessment \in IF q.mode = "off" THEN {NoAssessment} ELSE Assessments(q.mode, a, s) :
        req' = [req EXCEPT ![r] =
                   Planned(q, result, s, assessment, q.mode # "off",
                           /\ Claims(q.body, "lease") /\ s # None
                           /\ Effective(q.mode, result, assessment.verdict) = "allow")]
  BY <1>1, <1>2 DEF LoadContext
<1>4. /\ q.stage = "context" /\ q.body \in ValidBodies /\ q.mode \in Modes /\ q.result \in Verdicts
  BY <1>1, RequestTypes, Stages DEF LoadContext
<1>5. assessment.verdict \in Verdicts
  <2>1. a \in Agents \cup {None} /\ s \in Sessions \cup {None}
    BY <1>1, BodyNames DEF ValidSession
  <2>2. QED
    BY <1>3, <1>4, <2>1, AssessmentTypes
<1>6. result \in Verdicts /\ Rank(result) >= Rank(q.result)
  <2>1. PICK asked \in Verdicts : asked = q.result
    BY <1>4
  <2>2. result = "block" \/ result = asked
    BY <1>2, <2>1
  <2>3. result \in Verdicts /\ Rank(result) >= Rank(asked)
    BY <2>2 DEF Verdicts, Rank, EffectRank
  <2>4. QED
    BY <2>1, <2>3
<1>7. ASSUME ~Correlated(CorrelationOf(q.body))
      PROVE  result = q.result
  <2>1. CorrelationOf(q.body) = Correlation(BodyOf[q.body].given)
    BY <1>4 DEF CorrelationOf, Prints, Fingerprint
  <2>2. "session" \in DOMAIN CorrelationOf(q.body) /\ "parent" \in DOMAIN CorrelationOf(q.body)
    BY <2>1 DEF Correlation
  <2>3. ~Claims(q.body, "session") /\ ~Claims(q.body, "parent")
    BY <1>7, <2>2 DEF Correlated, Claims
  <2>4. QED
    BY <1>2, <2>3 DEF CorrelationGate
<1>8. decisions' = decisions
  BY DEF LoadContext, Unchanged
<1>9. QED
  BY <1>1, <1>3, <1>4, <1>5, <1>6, <1>7, <1>8, UpholdsPlanned

LEMMA UpholdsSkip ==
    ASSUME Inv, PolicyInv, NEW r \in Requests, SkipContext(r)
    PROVE  PolicyInv'
<1>1. /\ req[r].stage = "context" /\ req[r].result \in Verdicts
      /\ req' = [req EXCEPT ![r] = Planned(req[r], req[r].result, None, NoAssessment, FALSE, FALSE)]
      /\ decisions' = decisions
  BY RequestTypes, Stages DEF SkipContext
<1>2. NoAssessment.verdict \in Verdicts
  BY DEF NoAssessment, Verdicts
<1>3. Rank(req[r].result) >= Rank(req[r].result)
  BY <1>1 DEF Rank, EffectRank
<1>4. QED
  BY <1>1, <1>2, <1>3, UpholdsPlanned

\* A batch is written, full or not.
LEMMA UpholdsWritten ==
    ASSUME Inv, PolicyInv, NEW r \in Requests, req[r].stage \in {"commit", "core"},
           NEW evidence, NEW approval, NEW lease,
           decisions' = [decisions EXCEPT ![req[r].row] = Recorded(req[r], evidence, approval, lease)],
           NEW new, Upholds(new), req' = [req EXCEPT ![r] = new]
    PROVE  PolicyInv'
<1>1. PICK d : d = Recorded(req[r], evidence, approval, lease)
  OBVIOUS
<1>2. /\ d.decision = req[r].decision /\ d.due = req[r].due /\ d.mode = req[r].mode
      /\ d.fingerprint = Prints[req[r].body]
  BY <1>1 DEF Recorded
<1>3. AsDue(req[r].mode, req[r].body, req[r].decision, req[r].due)
  BY DEF PolicyInv, Upholds
<1>4. RowUpholds(d)
  BY <1>2, <1>3 DEF RowUpholds, AsDue, CorrelationOf
<1>5. ASSUME NEW row \in Rows
      PROVE  RowUpholds(decisions'[row])
  BY <1>1, <1>4 DEF Inv, TypeOK, PolicyInv
<1>6. ASSUME NEW s \in Requests
      PROVE  Upholds(req'[s])
  BY DEF Inv, TypeOK, PolicyInv
<1>7. QED
  BY <1>5, <1>6 DEF PolicyInv, Upholds, RowUpholds, AsDue

LEMMA UpholdsCommit ==
    ASSUME Inv, PolicyInv, NEW r \in Requests, Commit(r) \/ CommitCore(r)
    PROVE  PolicyInv'
<1>1. req' = [req EXCEPT ![r] = Done(req[r], req[r].decision)]
  BY DEF Commit, CommitCore, Ends
<1>2. CASE Commit(r)
  <2>1. decisions' = [decisions EXCEPT ![req[r].row] =
                         Recorded(req[r], req[r].evidence, req[r].decision = "review", req[r].lease)]
    BY <1>2 DEF Commit, FullBatch
  <2>2. QED
    BY <1>1, <1>2, <2>1, UpholdsWritten, UpholdsDone DEF Commit
<1>3. CASE CommitCore(r)
  <2>1. decisions' = [decisions EXCEPT ![req[r].row] =
                         Recorded(req[r], FALSE, req[r].decision = "review", FALSE)]
    BY <1>3 DEF CommitCore, CoreBatch
  <2>2. QED
    BY <1>1, <1>3, <2>1, UpholdsWritten, UpholdsDone DEF CommitCore
<1>4. QED
  BY <1>2, <1>3

LEMMA UpholdsCommitFails ==
    ASSUME Inv, PolicyInv, NEW r \in Requests, CommitFails(r)
    PROVE  PolicyInv'
<1>1. \E new : Upholds(new) /\ req' = [req EXCEPT ![r] = new]
  <2>1. CASE ~FallsBack(req[r])
    BY <2>1, UpholdsDone DEF CommitFails, Ends
  <2>2. CASE FallsBack(req[r])
    <3>1. PICK q : q = req[r]
      OBVIOUS
    <3>2. q.stage = "commit" /\ q \in Invocation /\ Upholds(q)
      BY <3>1, RequestTypes DEF CommitFails, PolicyInv
    <3>3. q \in [stage : {"commit", "core"}, body : ValidBodies, row : Rows, mode : Modes,
                 open : BOOLEAN, due : Verdicts, decision : Verdicts, policy : Verdicts,
                 session : Sessions \cup {None}, quarantine : Subjects \cup {None},
                 evidence : BOOLEAN, lease : BOOLEAN]
      BY <3>2 DEF Invocation, Idle, Refused
    <3>4. PICK new : new = [q EXCEPT !.stage = "core"]
      OBVIOUS
    <3>5. /\ new.stage = "core" /\ new.mode = q.mode /\ new.body = q.body
          /\ new.decision = q.decision /\ new.due = q.due
      BY <3>3, <3>4
    <3>6. Upholds(new)
      BY <3>2, <3>5 DEF Upholds
    <3>7. req' = [req EXCEPT ![r] = new]
      <4>1. req' = [req EXCEPT ![r].stage = "core"]
        BY <2>2 DEF CommitFails
      <4>2. QED
        BY <3>1, <3>4, <4>1
    <3>8. QED
      BY <3>6, <3>7
  <2>3. QED
    BY <2>1, <2>2
<1>2. CASE decisions' = decisions
  BY <1>1, <1>2, UpholdsOn
<1>3. CASE FullBatch(req[r])
  <2>1. decisions' = [decisions EXCEPT ![req[r].row] =
                         Recorded(req[r], req[r].evidence, req[r].decision = "review", req[r].lease)]
    BY <1>3 DEF FullBatch
  <2>2. req[r].stage \in {"commit", "core"}
    BY DEF CommitFails
  <2>3. QED
    BY <1>1, <2>1, <2>2, UpholdsWritten
<1>4. QED
  BY <1>2, <1>3 DEF CommitFails

LEMMA UpholdsElsewhere ==
    ASSUME Inv, PolicyInv, NEW r \in Requests,
           CommitLoses(r) \/ Reread(r) \/ Recheck(r) \/ Fail(r)
    PROVE  PolicyInv'
<1>1. CASE CommitLoses(r)
  <2>1. decisions' = decisions
    BY <1>1 DEF CommitLoses, Lost, Unchanged
  <2>2. Upholds(Reads(req[r]))
    BY DEF Upholds, Reads
  <2>3. QED
    BY <1>1, <2>1, <2>2, UpholdsOn, UpholdsDone DEF CommitLoses, Lost, Ends
<1>2. CASE Reread(r)
  <2>1. req[r] \in [stage : {"context", "reread"}, body : ValidBodies, row : Rows, mode : Modes,
                    open : BOOLEAN]
    <3>1. req[r].stage = "reread" /\ req[r] \in Invocation
      BY <1>2, RequestTypes DEF Reread
    <3>2. QED
      BY <3>1, IdsAreRows DEF Invocation, Idle, Refused
  <2>2. QED
    BY <1>2, <2>1, UpholdsFound DEF Reread, Unchanged
<1>3. CASE Recheck(r)
  BY <1>3, UpholdsOn, UpholdsDone DEF Recheck, Ends, Unchanged
<1>4. CASE Fail(r)
  BY <1>4, UpholdsOn, UpholdsDone DEF Fail, Ends
<1>5. QED
  BY <1>1, <1>2, <1>3, <1>4

LEMMA UpholdsOpened ==
    ASSUME NEW q \in Invocation, q.stage \notin {"idle", "done"}, Upholds(q), NEW opened,
           NEW new, new = [q EXCEPT !.open = opened]
    PROVE  Upholds(new)
<1>1. CASE q \in [stage : {"context"}, body : ValidBodies, row : Rows, mode : Modes,
                  open : BOOLEAN, result : Verdicts, due : Verdicts]
  BY <1>1 DEF Upholds
<1>2. CASE q \in [stage : {"commit", "core"}, body : ValidBodies, row : Rows, mode : Modes,
                  open : BOOLEAN, due : Verdicts, decision : Verdicts, policy : Verdicts,
                  session : Sessions \cup {None}, quarantine : Subjects \cup {None},
                  evidence : BOOLEAN, lease : BOOLEAN]
  <2>1. /\ new.stage = q.stage /\ new.mode = q.mode /\ new.body = q.body
        /\ new.decision = q.decision /\ new.due = q.due /\ q.stage # "context"
    BY <1>2
  <2>2. QED
    BY <2>1 DEF Upholds
<1>3. CASE q \in [stage : {"reread"}, body : ValidBodies, row : Ids, mode : Modes, open : BOOLEAN]
  BY <1>3 DEF Upholds
<1>4. CASE q \in [stage : {"recheck"}, body : ValidBodies, row : Ids, mode : {"enforce"},
                  open : BOOLEAN]
  BY <1>4 DEF Upholds
<1>5. QED
  BY <1>1, <1>2, <1>3, <1>4 DEF Invocation, Idle, Refused

LEMMA UpholdsAround ==
    ASSUME Inv, PolicyInv, \/ ChangeMode \/ RevokeKey \/ ChangePolicies \/ SetAgentStatus
                           \/ EndSession \/ QuarantineSubject \/ ClearSubject \/ UNCHANGED vars
    PROVE  PolicyInv'
<1>1. decisions' = decisions
  BY DEF ChangeMode, RevokeKey, ChangePolicies, SetAgentStatus, EndSession, QuarantineSubject,
         ClearSubject, vars
<1>2. req' = req \/ \E o, states : Witness(o, states)
  BY DEF ChangeMode, RevokeKey, ChangePolicies, SetAgentStatus, EndSession, QuarantineSubject,
         ClearSubject, vars
<1>3. ASSUME NEW o, NEW states, Witness(o, states), NEW r \in Requests
      PROVE  Upholds(req'[r])
  <2>1. PICK q \in Invocation : q = req[r] /\ Upholds(q)
    BY RequestTypes DEF PolicyInv
  <2>2. CASE ~InFlight(r)
    BY <1>3, <2>1, <2>2 DEF Witness
  <2>3. CASE InFlight(r)
    <3>1. PICK new : new = [q EXCEPT !.open = q.open \/ OpenUnder(o, states, q.body)]
      OBVIOUS
    <3>2. req'[r] = new
      BY <1>3, <2>1, <2>3, <3>1 DEF Witness
    <3>3. q.stage \notin {"idle", "done"}
      BY <2>1, <2>3 DEF InFlight
    <3>4. QED
      BY <2>1, <3>1, <3>2, <3>3, UpholdsOpened
  <2>4. QED
    BY <2>2, <2>3
<1>4. \A r \in Requests : Upholds(req'[r])
  BY <1>2, <1>3 DEF PolicyInv
<1>5. QED
  BY <1>1, <1>4 DEF PolicyInv, Upholds, RowUpholds, AsDue

LEMMA InitPolicyInv == Init => PolicyInv
BY DEF Init, PolicyInv, Upholds, RowUpholds, Idle

LEMMA NextPolicyInv == Inv /\ PolicyInv /\ [Next]_vars => PolicyInv'
<1> SUFFICES ASSUME Inv, PolicyInv, [Next]_vars PROVE PolicyInv'
  OBVIOUS
<1>1. CASE \E r \in Requests :
              \/ Receive(r) \/ LoadContext(r) \/ SkipContext(r)
              \/ Commit(r) \/ CommitLoses(r) \/ CommitFails(r) \/ CommitCore(r)
              \/ Reread(r) \/ Recheck(r) \/ Fail(r)
  BY <1>1, UpholdsReceive, UpholdsLoad, UpholdsSkip, UpholdsCommit, UpholdsCommitFails,
     UpholdsElsewhere
<1>2. CASE \/ ChangeMode \/ RevokeKey \/ ChangePolicies \/ SetAgentStatus \/ EndSession
           \/ QuarantineSubject \/ ClearSubject \/ UNCHANGED vars
  BY <1>2, UpholdsAround
<1>3. QED
  BY <1>1, <1>2 DEF Next, AllDone

\* No recorded decision is weaker than what the policies call for, and without enforcement it is
\* exactly that: for any policies, conditions, wildcards, orders of evaluation, runtime verdicts
\* and failures. (policy-engine.ts:360, evaluate.ts:274)
THEOREM PoliciesAreUpheld == Spec => []PolicyIsUpheld
<1>1. Init => Inv /\ PolicyInv
  BY InitInv, InitPolicyInv
<1>2. Inv /\ PolicyInv /\ [Next]_vars => (Inv /\ PolicyInv)'
  BY NextInv, NextPolicyInv
<1>3. PolicyInv => PolicyIsUpheld
  BY DEF PolicyInv, RowUpholds, PolicyIsUpheld
<1>4. QED
  BY <1>1, <1>2, <1>3, PTL DEF Spec

----------------------------------------------------------------------------
(* The simulation *)

\* Policies that can be compared, each with an id of its own.
Comparable(S) ==
    /\ \A p \in S : p.priority \in Nat /\ p.created \in Nat /\ p.id \in Nat
    /\ \A p \in S : \A q \in S : p.id = q.id => p = q

LEMMA RankIsNatural ==
    ASSUME NEW effect
    PROVE  EffectRank(effect) \in Nat
BY DEF EffectRank

\* One of them comes first.
LEMMA OneComesFirst ==
    ASSUME NEW S, S # {}, Comparable(S)
    PROVE  \E p \in S : \A q \in S \ {p} : Precedes(p, q)
<1> DEFINE R(p) == EffectRank(p.effect)
<1>1. PICK A \in S : \A q \in S : R(A) <= R(q)
  <2>1. {R(p) : p \in S} \in SUBSET Nat /\ {R(p) : p \in S} # {}
    BY RankIsNatural
  <2>2. PICK n \in {R(p) : p \in S} : \A m \in {R(p) : p \in S} : n <= m
    BY <2>1, LeastNatural
  <2>3. QED
    BY <2>2
<1>2. PICK T : T = {p \in S : R(p) = R(A)}
  OBVIOUS
<1>3. PICK B \in T : \A q \in T : B.priority <= q.priority
  <2>1. {p.priority : p \in T} \in SUBSET Nat /\ {p.priority : p \in T} # {}
    BY <1>2 DEF Comparable
  <2>2. PICK n \in {p.priority : p \in T} : \A m \in {p.priority : p \in T} : n <= m
    BY <2>1, LeastNatural
  <2>3. QED
    BY <2>2
<1>4. PICK U : U = {p \in T : p.priority = B.priority}
  OBVIOUS
<1>5. PICK C \in U : \A q \in U : C.created <= q.created
  <2>1. {p.created : p \in U} \in SUBSET Nat /\ {p.created : p \in U} # {}
    BY <1>2, <1>4 DEF Comparable
  <2>2. PICK n \in {p.created : p \in U} : \A m \in {p.created : p \in U} : n <= m
    BY <2>1, LeastNatural
  <2>3. QED
    BY <2>2
<1>6. PICK W : W = {p \in U : p.created = C.created}
  OBVIOUS
<1>7. PICK D \in W : \A q \in W : D.id <= q.id
  <2>1. {p.id : p \in W} \in SUBSET Nat /\ {p.id : p \in W} # {}
    BY <1>2, <1>4, <1>6 DEF Comparable
  <2>2. PICK n \in {p.id : p \in W} : \A m \in {p.id : p \in W} : n <= m
    BY <2>1, LeastNatural
  <2>3. QED
    BY <2>2
<1>8. D \in S /\ R(D) = R(A) /\ D.priority = B.priority /\ D.created = C.created
  BY <1>2, <1>4, <1>6, <1>7
<1>9. ASSUME NEW q \in S \ {D}
      PROVE  Precedes(D, q)
  <2>1. /\ R(q) \in Nat /\ R(D) \in Nat /\ q.priority \in Nat /\ D.priority \in Nat
        /\ q.created \in Nat /\ D.created \in Nat /\ q.id \in Nat /\ D.id \in Nat /\ q.id # D.id
    BY <1>8, RankIsNatural DEF Comparable
  <2>2. R(D) < R(q) \/ q \in T
    BY <1>1, <1>2, <1>8, <2>1
  <2>3. q \in T => D.priority < q.priority \/ q \in U
    BY <1>3, <1>4, <1>8, <2>1
  <2>4. q \in U => D.created < q.created \/ q \in W
    BY <1>5, <1>6, <1>8, <2>1
  <2>5. q \in W => D.id < q.id
    BY <1>7, <2>1
  <2>6. q \in T => R(q) = R(D)
    BY <1>2, <1>8
  <2>7. q \in U => q.priority = D.priority
    BY <1>4, <1>8
  <2>8. q \in W => q.created = D.created
    BY <1>6, <1>8
  <2>9. QED
    BY <2>2, <2>3, <2>4, <2>5, <2>6, <2>7, <2>8 DEF Precedes
<1>10. QED
  BY <1>8, <1>9

\* The decision of the engine with these policies, from which of their effects apply.
Applying(action, a, published, effect) ==
    \E p \in PoliciesInScope(published, a) : Applies(action, p) /\ p.effect = effect
Broken(a, published) == \E p \in PoliciesInScope(published, a) : ~WellFormed(p)
Decided(action, a, published, default) ==
    IF Broken(a, published) \/ Applying(action, a, published, "block") THEN "block"
    ELSE IF Applying(action, a, published, "review") THEN "review"
    ELSE IF Applying(action, a, published, "allow") THEN "allow"
    ELSE default

LEMMA EvaluatesTo ==
    ASSUME NEW action, NEW a, NEW published, NEW default, Comparable(published)
    PROVE  {x.decision : x \in Evaluate(action, a, published, default)}
               = {Decided(action, a, published, default)}
<1>1. PICK malformed, matched :
          /\ malformed = {p \in PoliciesInScope(published, a) : ~WellFormed(p)}
          /\ matched = Applicable(action, a, published)
  OBVIOUS
<1>2. malformed # {} <=> Broken(a, published)
  BY <1>1 DEF Broken
<1>3. \A e : Applying(action, a, published, e) <=> \E p \in matched : p.effect = e
  BY <1>1 DEF Applying, Applicable
<1>4. matched \subseteq published
  BY <1>1 DEF Applicable, PoliciesInScope
<1>5. PICK E : E = Evaluate(action, a, published, default)
  OBVIOUS
<1>6. CASE malformed # {}
  <2>1. E = {Result("block", "POLICY_INVALID", p.id, {}) : p \in malformed}
    BY <1>1, <1>5, <1>6 DEF Evaluate
  <2>2. E # {} /\ \A x \in E : x.decision = "block"
    <3>1. E # {}
      BY <1>6, <2>1
    <3>2. \A p : Result("block", "POLICY_INVALID", p.id, {}).decision = "block"
      BY DEF Result
    <3>3. QED
      BY <2>1, <3>1, <3>2
  <2>3. {x.decision : x \in E} = {"block"}
    BY <2>2
  <2>4. QED
    BY <1>2, <1>5, <1>6, <2>3 DEF Decided
<1>7. CASE malformed = {} /\ matched = {}
  <2>1. E = {Result(default, DefaultCode(default), NoPolicy, {})}
    BY <1>1, <1>5, <1>7 DEF Evaluate
  <2>2. {x.decision : x \in E} = {default}
    BY <2>1 DEF Result
  <2>3. QED
    BY <1>2, <1>3, <1>5, <1>7, <2>2 DEF Decided
<1>8. CASE malformed = {} /\ matched # {}
  <2>1. PICK first : first = {p \in matched : \A q \in matched \ {p} : Precedes(p, q)}
    OBVIOUS
  <2>2. E = {Result(p.effect, WinnerCode(action, p), p.id, {q.id : q \in matched}) : p \in first}
    BY <1>1, <1>5, <1>8, <2>1 DEF Evaluate
  <2>3. Comparable(matched)
    BY <1>4 DEF Comparable
  <2>4. first # {}
    BY <1>8, <2>1, <2>3, OneComesFirst
  <2>5. \A p \in matched : p.effect \in {"allow", "review", "block"}
    BY <1>1, <1>8 DEF Applicable, WellFormed, Verdicts
  <2>6. ASSUME NEW p \in first
        PROVE  p.effect = Decided(action, a, published, default)
    <3>1. p \in matched /\ \A q \in matched : EffectRank(p.effect) <= EffectRank(q.effect)
      <4>1. \A q \in matched : EffectRank(q.effect) \in Int
        BY DEF EffectRank
      <4>2. p \in matched /\ \A q \in matched \ {p} : Precedes(p, q)
        BY <2>1
      <4>3. QED
        BY <4>1, <4>2 DEF Precedes
    <3>2. CASE p.effect = "block"
      BY <1>3, <3>1, <3>2 DEF Decided
    <3>3. CASE p.effect = "review"
      <4>1. \A q \in matched : q.effect # "block"
        BY <3>1, <3>3 DEF EffectRank
      <4>2. QED
        BY <1>2, <1>3, <1>8, <3>1, <3>3, <4>1 DEF Decided
    <3>4. CASE p.effect = "allow"
      <4>1. \A q \in matched : q.effect # "block" /\ q.effect # "review"
        BY <3>1, <3>4 DEF EffectRank
      <4>2. QED
        BY <1>2, <1>3, <1>8, <3>1, <3>4, <4>1 DEF Decided
    <3>5. QED
      BY <2>5, <3>1, <3>2, <3>3, <3>4
  <2>7. E # {} /\ \A x \in E : x.decision = Decided(action, a, published, default)
    <3>1. E # {}
      BY <2>2, <2>4
    <3>2. \A p : Result(p.effect, WinnerCode(action, p), p.id, {q.id : q \in matched}).decision = p.effect
      BY DEF Result
    <3>3. \A x \in E : \E p \in first : x.decision = p.effect
      BY <2>2, <3>2
    <3>4. QED
      BY <2>6, <3>1, <3>3
  <2>8. QED
    BY <1>5, <2>7
<1>9. QED
  BY <1>6, <1>7, <1>8

LEMMA NewestExists ==
    ASSUME NEW S, IsFiniteSet(S), S # {}, \A p \in S : p.created \in Nat
    PROVE  \E p \in S : \A q \in S : q.created <= p.created
<1> DEFINE Newest(T) == \E p \in T : \A q \in T : q.created <= p.created
           Wrong(T) == T # {} /\ ~Newest(T)
           K == {k \in Nat : \E T \in SUBSET S : Wrong(T) /\ Cardinality(T) = k}
<1>1. \A T \in SUBSET S : IsFiniteSet(T) /\ Cardinality(T) \in Nat
  BY FS_Subset, FS_CardinalityType
<1>2. K = {}
  <2>1. SUFFICES ASSUME K # {} PROVE FALSE
    OBVIOUS
  <2>2. PICK k \in K : \A j \in K : k <= j
    BY <2>1, LeastNatural
  <2>3. PICK T \in SUBSET S : Wrong(T) /\ Cardinality(T) = k
    OBVIOUS
  <2>4. PICK x \in T : TRUE
    BY <2>3
  <2>5. PICK U \in SUBSET S : U = T \ {x}
    OBVIOUS
  <2>6. Cardinality(U) = k - 1 /\ Cardinality(U) \in Nat
    BY <1>1, <2>3, <2>4, <2>5, FS_RemoveElement
  <2>7. ~Wrong(U)
    <3>1. Cardinality(U) \notin K
      BY <2>2, <2>6
    <3>2. QED
      BY <2>6, <3>1
  <2>8. CASE U = {}
    <3>1. \A q \in T : q = x
      BY <2>5, <2>8
    <3>2. x.created \in Nat
      BY <2>4
    <3>3. QED
      BY <2>3, <2>4, <3>1, <3>2
  <2>9. CASE U # {}
    <3>1. PICK y \in U : \A q \in U : q.created <= y.created
      BY <2>7, <2>9
    <3>2. x.created \in Nat /\ y.created \in Nat /\ y \in T
      BY <2>4, <2>5
    <3>3. \A q \in T : q.created \in Nat /\ (q = x \/ q.created <= y.created)
      BY <2>5, <3>1
    <3>4. CASE x.created <= y.created
      <4>1. \A q \in T : q.created <= y.created
        BY <3>3, <3>4
      <4>2. QED
        BY <2>3, <3>2, <4>1
    <3>5. CASE y.created < x.created
      <4>1. \A q \in T : q.created <= x.created
        BY <3>2, <3>3, <3>5
      <4>2. QED
        BY <2>3, <2>4, <4>1
    <3>6. QED
      BY <3>2, <3>4, <3>5
  <2>10. QED
    BY <2>8, <2>9
<1>3. ~Wrong(S)
  <2>1. S \in SUBSET S /\ Cardinality(S) \in Nat /\ Cardinality(S) \notin K
    BY <1>1, <1>2
  <2>2. QED
    BY <2>1
<1>4. QED
  BY <1>3

LEMMA NewestIsNatural ==
    ASSUME TypeOK, NEW draft, draft.created \in Nat
    PROVE  Max({p.created : p \in policies \cup {draft}}) + 1 \in Nat
<1>1. PICK S : S = policies \cup {draft}
  OBVIOUS
<1>2. IsFiniteSet(S)
  <2>1. IsFiniteSet(policies)
    BY GatewayAssumption, FS_Subset DEF TypeOK
  <2>2. QED
    BY <1>1, <2>1, FS_AddElement
<1>3. \A p \in S : p.created \in Nat
  BY <1>1, GatewayAssumption DEF TypeOK
<1>4. PICK p \in S : \A q \in S : q.created <= p.created
  BY <1>1, <1>2, <1>3, NewestExists
<1>5. PICK C : C = {q.created : q \in S}
  OBVIOUS
<1>6. \E x \in C : \A y \in C : x >= y
  <2>1. p.created \in C
    BY <1>5
  <2>2. \A y \in C : p.created >= y
    BY <1>3, <1>4, <1>5
  <2>3. QED
    BY <2>1, <2>2
<1>7. Max(C) \in C
  BY <1>6 DEF Max
<1>8. Max(C) \in Nat
  BY <1>3, <1>5, <1>7
<1>9. QED
  BY <1>1, <1>5, <1>8

\* Two policies the engine makes the same of.
SameRule(p, q) ==
    /\ p.enabled = q.enabled /\ p.scope = q.scope /\ p.agents = q.agents
    /\ p.effect = q.effect /\ p.conditions = q.conditions

\* Two sets of policies that differ in such a pair.
SameRules(S, T) == \E rest, p, q : SameRule(p, q) /\ S = rest \cup {p} /\ T = rest \cup {q}

LEMMA SameDecision ==
    ASSUME NEW action, NEW a, NEW default, NEW S, NEW T, SameRules(S, T)
    PROVE  Decided(action, a, S, default) = Decided(action, a, T, default)
<1>0. PICK rest, p, q : SameRule(p, q) /\ S = rest \cup {p} /\ T = rest \cup {q}
  BY DEF SameRules
<1>1. p \in PoliciesInScope(S, a) <=> q \in PoliciesInScope(T, a)
  BY <1>0 DEF PoliciesInScope, SameRule
<1>2. \A x \in rest : /\ x \in PoliciesInScope(S, a) <=> x \in PoliciesInScope(rest, a)
                      /\ x \in PoliciesInScope(T, a) <=> x \in PoliciesInScope(rest, a)
  BY <1>0 DEF PoliciesInScope
<1>3. /\ PoliciesInScope(S, a) \subseteq rest \cup {p}
      /\ PoliciesInScope(T, a) \subseteq rest \cup {q}
  BY <1>0 DEF PoliciesInScope
<1>4. (Applies(action, p) <=> Applies(action, q)) /\ (WellFormed(p) <=> WellFormed(q))
  BY <1>0 DEF Applies, WellFormed, SameRule
<1>5. Broken(a, S) <=> Broken(a, T)
  BY <1>1, <1>2, <1>3, <1>4 DEF Broken
<1>6. \A e : Applying(action, a, S, e) <=> Applying(action, a, T, e)
  BY <1>0, <1>1, <1>2, <1>3, <1>4 DEF Applying, SameRule
<1>7. QED
  BY <1>5, <1>6 DEF Decided

LEMMA ComparableWith ==
    ASSUME NEW rest, Comparable(rest), NEW p, \A q \in rest : q.id # p.id,
           p.priority \in Nat, p.created \in Nat, p.id \in Nat
    PROVE  Comparable(rest \cup {p})
BY DEF Comparable

LEMMA SimulatedAsSaved ==
    ASSUME TypeOK, NEW body \in ValidBodies, NEW p \in PolicyUniverse, NEW effect \in Verdicts,
           NEW draft, draft = [p EXCEPT !.effect = effect],
           IdentityGate(body) \in {"", "AGENT_UNKNOWN", "AGENT_DISABLED"}
    PROVE  {x.decision : x \in Simulate(body, draft)}
               = {x.decision : x \in ResultsUnder({q \in policies : q.id # p.id} \cup {draft}, body)}
<1>1. PICK a : a = AgentNamed(body)
  OBVIOUS
<1>2. a # None => agents[a] \in {"active", "disabled"}
  BY <1>1, BodyNames DEF TypeOK
<1>3. CASE IdentityGate(body) # ""
  <2>1. PICK code : /\ code = IdentityGate(body)
                    /\ Simulate(body, draft) = {Result("block", code, NoPolicy, {})}
    BY <1>1, <1>2, <1>3, GatewayAssumption DEF Simulate, IdentityGate
  <2>2. ResultsUnder({q \in policies : q.id # p.id} \cup {draft}, body)
            = {Result("block", code, NoPolicy, {})}
    BY <1>3, <2>1 DEF ResultsUnder
  <2>3. QED
    BY <2>1, <2>2
<1>4. CASE IdentityGate(body) = ""
  <2>1. PICK rest, action, default :
            /\ rest = {q \in policies : q.id # p.id}
            /\ action = Judged(body) /\ default = DefaultFor(a)
    OBVIOUS
  <2>2. Simulate(body, draft) = Evaluate(action, a, WithDraft(draft), default)
    BY <1>1, <1>2, <1>4, <2>1, GatewayAssumption DEF Simulate, IdentityGate
  <2>3. ResultsUnder(rest \cup {draft}, body) = Evaluate(action, a, rest \cup {draft}, default)
    BY <1>1, <1>4, <2>1 DEF ResultsUnder
  <2>4. /\ DOMAIN p = PolicyColumns /\ p.id \in Nat /\ p.enabled /\ p.priority \in Nat
        /\ p.created \in Nat /\ \A q \in PolicyUniverse \ {p} : q.id # p.id
    BY GatewayAssumption
  <2>5. /\ DOMAIN draft = PolicyColumns /\ draft.id = p.id /\ draft.priority = p.priority
        /\ draft.created = p.created /\ draft.enabled = p.enabled
    BY <2>4 DEF PolicyColumns
  <2>6. PICK newest : newest = Max({q.created : q \in policies \cup {draft}}) + 1 /\ newest \in Nat
    BY <2>4, <2>5, NewestIsNatural
  <2>7. PICK tested : tested = [draft EXCEPT !.enabled = TRUE, !.created = newest, !.reason_code = ""]
    OBVIOUS
  <2>8. /\ tested.id = p.id /\ tested.priority = p.priority /\ tested.created = newest
        /\ tested.enabled = TRUE /\ tested.scope = draft.scope /\ tested.agents = draft.agents
        /\ tested.effect = draft.effect /\ tested.conditions = draft.conditions
    BY <2>5, <2>7 DEF PolicyColumns
  <2>9. WithDraft(draft) = rest \cup {tested}
    BY <2>1, <2>5, <2>6, <2>7 DEF WithDraft
  <2>10. Comparable(rest) /\ \A q \in rest : q.id # p.id
    BY <2>1, GatewayAssumption DEF TypeOK, Comparable
  <2>11. Comparable(rest \cup {draft}) /\ Comparable(rest \cup {tested})
    <3>1. Comparable(rest \cup {draft})
      BY <2>4, <2>5, <2>10, ComparableWith
    <3>2. Comparable(rest \cup {tested})
      BY <2>4, <2>6, <2>8, <2>10, ComparableWith
    <3>3. QED
      BY <3>1, <3>2
  <2>12. SameRule(draft, tested)
    BY <2>4, <2>5, <2>8 DEF SameRule
  <2>13. Decided(action, a, rest \cup {draft}, default) = Decided(action, a, rest \cup {tested}, default)
    <3>1. PICK S, T : S = rest \cup {draft} /\ T = rest \cup {tested}
      OBVIOUS
    <3>2. SameRules(S, T)
      BY <2>12, <3>1 DEF SameRules
    <3>3. Decided(action, a, S, default) = Decided(action, a, T, default)
      BY <3>2, SameDecision
    <3>4. QED
      BY <3>1, <3>3
  <2>14. {x.decision : x \in Evaluate(action, a, rest \cup {draft}, default)}
             = {Decided(action, a, rest \cup {draft}, default)}
    BY <2>11, EvaluatesTo, Zenon
  <2>15. {x.decision : x \in Evaluate(action, a, rest \cup {tested}, default)}
             = {Decided(action, a, rest \cup {tested}, default)}
    BY <2>11, EvaluatesTo, Zenon
  <2>16. QED
    BY <2>1, <2>2, <2>3, <2>9, <2>13, <2>14, <2>15
<1>5. QED
  BY <1>3, <1>4

\* What the policy editor's test says of a draft is what the gateway decides once the draft is
\* saved, whatever the other policies, their ages and their ids. (policies.ts:301)
THEOREM SimulationIsRight == Spec => []SimulationForetells
<1>1. TypeOK => SimulationForetells
  BY SimulatedAsSaved DEF SimulationForetells
<1>2. QED
  BY <1>1, TypeCorrect, PTL
=============================================================================
