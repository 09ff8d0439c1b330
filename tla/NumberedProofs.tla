---------------------------- MODULE NumberedProofs ----------------------------
(* What the operators on numbered files return.                               *)
EXTENDS Numbered, WellFoundedInduction, TLAPS

LEMMA LeastOfNaturals ==
    ASSUME NEW S \in SUBSET Nat, S # {}
    PROVE  \E n \in S : \A m \in S : n <= m
<1>1. IsWellFoundedOn(OpToRel(<, Nat), Nat)
  BY NatLessThanWellFounded
<1>2. PICK n \in S : \A m \in S : ~ (<< m, n >> \in OpToRel(<, Nat))
  BY <1>1, WFMin
<1>3. \A m \in S : ~ (m < n)
  BY <1>2 DEF OpToRel
<1>4. QED
  BY <1>3

LEMMA OldestIsLeast ==
    ASSUME NEW S \in SUBSET Nat, S # {}
    PROVE  Oldest(S) \in S /\ \A m \in S : Oldest(S) <= m
  BY LeastOfNaturals DEF Oldest

\* Revisions are numbered from one and there are finitely many of them.
LEMMA NewestIsGreatest ==
    ASSUME NEW S \in SUBSET Nat, S # {}, NEW b \in Nat, \A n \in S : n <= b
    PROVE  Newest(S) \in S /\ \A m \in S : m <= Newest(S)
<1> DEFINE D == {b - n : n \in S}
<1>1. \A n \in S : b - n \in Nat
  OBVIOUS
<1>2. D \in SUBSET Nat /\ D # {}
  BY <1>1
<1>3. PICK d \in D : \A e \in D : d <= e
  BY <1>2, LeastOfNaturals
<1>4. PICK x \in S : d = b - x
  BY <1>3
<1>5. ASSUME NEW m \in S
      PROVE  m <= x
  <2>1. d <= b - m
    BY <1>3
  <2>2. QED
    BY <1>4, <2>1
<1>6. QED
  BY <1>4, <1>5 DEF Newest

LEMMA Written ==
    ASSUME NEW d, NEW r, NEW c
    PROVE  /\ DOMAIN With(d, r, c) = DOMAIN d \cup {r}
           /\ With(d, r, c)[r] = c
           /\ \A n \in DOMAIN d : n # r => With(d, r, c)[n] = d[n]
  BY DEF With

=============================================================================
