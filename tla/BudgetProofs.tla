---------------------------- MODULE BudgetProofs ----------------------------
(* Theorems about the money of a run for every run of Attempts: the run's    *)
(* totals are the sums over the rows of its ledger, and the caps are kept.   *)
EXTENDS AttemptsProofs, FiniteSetTheorems

-----------------------------------------------------------------------------
(* Sums over finite sets of rows.                                           *)

(* Of the sets of a nonempty collection one has none of the others inside.  *)
LEMMA SmallestSet ==
  ASSUME NEW S, IsFiniteSet(S), NEW B \in SUBSET (SUBSET S), B # {}
  PROVE  \E T \in B : \A U \in B : U \subseteq T => U = T
<1>1. B \subseteq FiniteSubsetsOf(S)
  BY FS_FiniteSubsetsOfFinite
<1>2. PICK T \in B : \A U \in B : <<U, T>> \notin StrictSubsetOrdering(S)
  BY <1>1, FS_StrictSubsetOrderingWellFounded, WFMin
<1> QED
  BY <1>2 DEF StrictSubsetOrdering

Pick(s)    == CHOOSE r \in s : TRUE
Body(g, s) == IF s = {} THEN 0 ELSE Pick(s).amount + g[s \ {Pick(s)}]
Sums(g, S) == g = [s \in SUBSET S |-> Body(g, s)]

LEMMA PickIn == \A s : s # {} => Pick(s) \in s
BY DEF Pick

LEMMA SumsAt ==
  ASSUME NEW S, NEW g, Sums(g, S), NEW s \in SUBSET S
  PROVE  g[s] = Body(g, s)
BY DEF Sums

LEMMA SumsAgree ==
  ASSUME NEW S, IsFiniteSet(S), NEW g, NEW h, NEW U, Sums(g, S), Sums(h, U),
         NEW s \in SUBSET S, s \in SUBSET U
  PROVE  g[s] = h[s]
<1> DEFINE B == {t \in SUBSET S : t \subseteq U /\ g[t] # h[t]}
<1> SUFFICES ASSUME B # {} PROVE FALSE
  OBVIOUS
<1>0. B \in SUBSET (SUBSET S)
  OBVIOUS
<1>1. PICK t \in B : \A u \in B : u \subseteq t => u = t
  <2> HIDE DEF B
  <2> QED
    BY <1>0, SmallestSet
<1>2. g[t] = Body(g, t) /\ h[t] = Body(h, t)
  BY <1>1, SumsAt
<1>3. t # {}
  BY <1>1, <1>2 DEF Body
<1>4. Pick(t) \in t
  BY <1>3, PickIn
<1>5. t \ {Pick(t)} \notin B
  BY <1>1, <1>4
<1>6. g[t \ {Pick(t)}] = h[t \ {Pick(t)}]
  BY <1>5
<1> QED
  BY <1>1, <1>2, <1>3, <1>6 DEF Body

LEMMA SumsExist ==
  ASSUME NEW S, IsFiniteSet(S)
  PROVE  \E g : Sums(g, S)
<1> DEFINE B == {t \in SUBSET S : ~\E g : Sums(g, t)}
<1> SUFFICES ASSUME B # {} PROVE FALSE
  OBVIOUS
<1>0. B \in SUBSET (SUBSET S)
  OBVIOUS
<1>1. PICK U \in B : \A t \in B : t \subseteq U => t = U
  <2> HIDE DEF B
  <2> QED
    BY <1>0, SmallestSet
<1> DEFINE G(t) == CHOOSE g : Sums(g, t)
           H == [s \in SUBSET U |-> IF s = {} THEN 0
                   ELSE Pick(s).amount + G(s \ {Pick(s)})[s \ {Pick(s)}]]
<1>2. ASSUME NEW s \in SUBSET U, s # {}
      PROVE  Sums(G(s \ {Pick(s)}), s \ {Pick(s)})
  <2>1. Pick(s) \in s
    BY <1>2, PickIn
  <2>2. s \ {Pick(s)} \notin B
    BY <1>1, <2>1
  <2> QED
    BY <2>2
<1> HIDE DEF G
<1>3. ASSUME NEW s \in SUBSET U, s # {}
      PROVE  H[s \ {Pick(s)}] = G(s \ {Pick(s)})[s \ {Pick(s)}]
  <2> DEFINE u == s \ {Pick(s)}
  <2>1. Sums(G(u), u) /\ u \in SUBSET U /\ IsFiniteSet(u)
    BY <1>2, <1>3, FS_Subset
  <2>2. G(u)[u] = Body(G(u), u)
    BY <2>1, SumsAt
  <2>3. CASE u = {}
    BY <2>1, <2>2, <2>3 DEF Body
  <2>4. CASE u # {}
    <3> DEFINE v == u \ {Pick(u)}
    <3>1. Sums(G(v), v)
      BY <1>2, <2>1, <2>4
    <3>2. G(u)[v] = G(v)[v]
      BY <2>1, <3>1, SumsAgree
    <3> QED
      BY <2>1, <2>2, <2>4, <3>2 DEF Body
  <2> QED
    BY <2>3, <2>4
<1>4. \A s \in SUBSET U : H[s] = Body(H, s)
  BY <1>3 DEF Body
<1>5. Sums(H, U)
  BY <1>4 DEF Sums
<1> QED
  BY <1>1, <1>5

LEMMA TotalIsSum ==
  ASSUME NEW S
  PROVE  Total(S) = (CHOOSE g : Sums(g, S))[S]
BY DEF Total, MapThenSumSet, MapThenFoldSet, Sums, Body, Pick

LEMMA TotalPick ==
  ASSUME NEW S, IsFiniteSet(S)
  PROVE  Total(S) = IF S = {} THEN 0 ELSE Pick(S).amount + Total(S \ {Pick(S)})
<1> DEFINE G(t) == CHOOSE g : Sums(g, t)
<1>1. ASSUME NEW t, IsFiniteSet(t) PROVE Sums(G(t), t) /\ Total(t) = G(t)[t]
  BY <1>1, SumsExist, TotalIsSum
<1> HIDE DEF G
<1>2. Total(S) = Body(G(S), S)
  BY <1>1, SumsAt
<1>3. ASSUME S # {} PROVE G(S)[S \ {Pick(S)}] = Total(S \ {Pick(S)})
  <2> DEFINE u == S \ {Pick(S)}
  <2>1. IsFiniteSet(u)
    BY FS_Subset
  <2> QED
    BY <1>1, <2>1, SumsAgree
<1> QED
  BY <1>2, <1>3 DEF Body

Amounts(S) == IsFiniteSet(S) /\ \A r \in S : r.amount \in Nat

LEMMA TotalType ==
  ASSUME NEW S, Amounts(S)
  PROVE  Total(S) \in Nat
<1> DEFINE B == {t \in SUBSET S : Total(t) \notin Nat}
<1> SUFFICES ASSUME B # {} PROVE FALSE
  OBVIOUS
<1> IsFiniteSet(S)
  BY DEF Amounts
<1>0. B \in SUBSET (SUBSET S)
  OBVIOUS
<1>1. PICK t \in B : \A u \in B : u \subseteq t => u = t
  <2> HIDE DEF B
  <2> QED
    BY <1>0, SmallestSet
<1>2. IsFiniteSet(t)
  BY FS_Subset
<1>3. t # {}
  <2>1. Total(t) \notin Nat
    BY <1>1
  <2> QED
    BY <1>2, <2>1, TotalPick
<1>4. Pick(t) \in t
  BY <1>3, PickIn
<1>5. Total(t \ {Pick(t)}) \in Nat
  BY <1>1, <1>4
<1>6. Pick(t).amount \in Nat
  BY <1>4 DEF Amounts
<1> QED
  BY <1>1, <1>2, <1>3, <1>5, <1>6, TotalPick

LEMMA AmountsLess ==
  ASSUME NEW S, Amounts(S), NEW T \in SUBSET S
  PROVE  Amounts(T)
BY FS_Subset DEF Amounts

(* Any one row can be taken out first.                                      *)
LEMMA TotalRemove ==
  ASSUME NEW S, Amounts(S), NEW r \in S
  PROVE  Total(S) = r.amount + Total(S \ {r})
<1> DEFINE Bad(t) == \E x \in t : Total(t) # x.amount + Total(t \ {x})
           B == {t \in SUBSET S : Bad(t)}
<1> SUFFICES ASSUME B # {} PROVE FALSE
  OBVIOUS
<1> IsFiniteSet(S)
  BY DEF Amounts
<1>0. B \in SUBSET (SUBSET S)
  OBVIOUS
<1>1. PICK t \in B : \A u \in B : u \subseteq t => u = t
  <2> HIDE DEF B
  <2> QED
    BY <1>0, SmallestSet
<1>2. PICK x \in t : Total(t) # x.amount + Total(t \ {x})
  BY <1>1
<1> DEFINE y == Pick(t)
           w == t \ {x, y}
<1>3. y \in t /\ Total(t) = y.amount + Total(t \ {y})
  BY <1>2, TotalPick, PickIn, FS_Subset
<1>4. x # y
  BY <1>2, <1>3
<1>5. ASSUME NEW z \in t PROVE ~Bad(t \ {z})
  <2>1. t \ {z} \notin B
    BY <1>1, <1>5
  <2> QED
    BY <2>1
<1>6. (t \ {x}) \ {y} = w /\ (t \ {y}) \ {x} = w /\ y \in t \ {x} /\ x \in t \ {y}
  BY <1>2, <1>3, <1>4
<1>7. Total(t \ {x}) = y.amount + Total(w) /\ Total(t \ {y}) = x.amount + Total(w)
  BY <1>3, <1>5, <1>6
<1>8. Total(w) \in Nat /\ x.amount \in Nat /\ y.amount \in Nat
  BY <1>2, <1>3, TotalType, AmountsLess DEF Amounts
<1> QED
  BY <1>2, <1>3, <1>7, <1>8

LEMMA TotalEmpty == Total({}) = 0
BY TotalPick, FS_EmptySet

LEMMA TotalAdd ==
  ASSUME NEW S, Amounts(S), NEW r, r.amount \in Nat, r \notin S
  PROVE  /\ Amounts(S \cup {r})
         /\ Total(S \cup {r}) = Total(S) + r.amount
<1>1. Amounts(S \cup {r})
  BY FS_AddElement DEF Amounts
<1>2. (S \cup {r}) \ {r} = S
  OBVIOUS
<1> QED
  BY <1>1, <1>2, TotalRemove, TotalType

-----------------------------------------------------------------------------
(* What LedgerService's methods do to the sums over the rows of any set of  *)
(* attempts: all of the run's, one stage's, or a single one.                *)

Held(a) == Row(a, "reservation", Ceiling[a], TRUE)
WellKept ==
  /\ ledger \subseteq Entry
  /\ IsFiniteSet(ledger)
  /\ \A r \in ledger : r.kind = "reservation" => r = Held(r.attempt)

OpenIn(A)      == {r \in ledger : r.kind = "reservation" /\ r.attempt \in A /\ Open(r.attempt)}
ActualIn(A)    == {r \in ledger : r.kind = "actual" /\ r.attempt \in A}
ConfirmedIn(A) == {r \in ledger : r.kind = "actual" /\ r.attempt \in A /\ r.confirmed}

LEMMA RowsTotal ==
  ASSUME NEW L \in SUBSET Entry, IsFiniteSet(L), NEW S \in SUBSET L
  PROVE  Amounts(S) /\ Total(S) \in Nat
<1>1. Amounts(L)
  BY DEF Amounts, Entry
<1> QED
  BY <1>1, AmountsLess, TotalType

LEMMA SumsType ==
  ASSUME WellKept, NEW A
  PROVE  /\ Amounts(OpenIn(A)) /\ Total(OpenIn(A)) \in Nat
         /\ Amounts(ActualIn(A)) /\ Total(ActualIn(A)) \in Nat
         /\ Amounts(ConfirmedIn(A)) /\ Total(ConfirmedIn(A)) \in Nat
<1>1. Amounts(ledger)
  BY DEF WellKept, Amounts, Entry
<1>2. /\ OpenIn(A) \in SUBSET ledger
      /\ ActualIn(A) \in SUBSET ledger
      /\ ConfirmedIn(A) \in SUBSET ledger
  BY DEF OpenIn, ActualIn, ConfirmedIn
<1> QED
  BY <1>1, <1>2, AmountsLess, TotalType

LEMMA HeldRow ==
  ASSUME NEW a \in Attempt
  PROVE  /\ Held(a) \in Entry
         /\ Held(a).attempt = a /\ Held(a).kind = "reservation" /\ Held(a).amount = Ceiling[a]
         /\ Ceiling[a] \in Nat
BY AttemptsAssumption DEF Held, Row, Entry

(* A first reservation adds its ceiling to the sums of its attempt. *)
LEMMA ReserveSums ==
  ASSUME WellKept, NEW a \in Attempt, Reserve(a), ~HasReservation(a), ~Settled(a), NEW A
  PROVE  /\ WellKept'
         /\ Total(OpenIn(A)') = Total(OpenIn(A)) + IF a \in A THEN Ceiling[a] ELSE 0
         /\ ActualIn(A)' = ActualIn(A)
         /\ ConfirmedIn(A)' = ConfirmedIn(A)
<1> DEFINE new == Held(a)
<1>1. ledger' = ledger \cup {new}
  BY DEF Reserve, Held
<1>2. new \in Entry /\ new.attempt = a /\ new.kind = "reservation" /\ new.amount = Ceiling[a]
      /\ Ceiling[a] \in Nat
  BY HeldRow
<1>3. WellKept'
  <2>1. IsFiniteSet(ledger')
    BY <1>1, FS_AddElement DEF WellKept
  <2>2. \A r \in ledger' : r.kind = "reservation" => r = Held(r.attempt)
    BY <1>1, <1>2 DEF WellKept
  <2> QED
    BY <1>1, <1>2, <2>1, <2>2 DEF WellKept, Held
<1> HIDE DEF new
<1>4. ActualIn(A)' = ActualIn(A) /\ ConfirmedIn(A)' = ConfirmedIn(A)
  BY <1>1, <1>2 DEF ActualIn, ConfirmedIn
<1>5. \A b : b # a => Open(b)' = Open(b)
  BY <1>1, <1>2 DEF Open, HasReservation, Settled, Rows
<1>6. Open(a)' /\ ~Open(a)
  BY <1>1, <1>2 DEF Open, HasReservation, Settled, Rows
<1>7. \A r \in ledger : r.kind = "reservation" => r.attempt # a
  BY DEF HasReservation, Rows
<1>8. CASE a \in A
  <2>1. OpenIn(A)' = OpenIn(A) \cup {new} /\ new \notin OpenIn(A)
    BY <1>1, <1>2, <1>5, <1>6, <1>7, <1>8 DEF OpenIn
  <2> QED
    BY <1>2, <1>3, <1>4, <1>8, <2>1, TotalAdd, SumsType
<1>9. CASE a \notin A
  <2>1. OpenIn(A)' = OpenIn(A)
    BY <1>1, <1>2, <1>5, <1>7, <1>9 DEF OpenIn
  <2> QED
    BY <1>3, <1>4, <1>9, <2>1, SumsType
<1> QED
  BY <1>8, <1>9

(* A first settlement takes the ceiling out and puts the actuals in. *)
LEMMA SettleRowsSums ==
  ASSUME WellKept, NEW a \in Attempt, HasReservation(a), ~Settled(a), NEW A,
         NEW rows \in SUBSET Entry, IsFiniteSet(rows), rows # {}, NEW c,
         \A r \in rows : r.attempt = a /\ r.kind \in {"actual", "release"},
         Settle(a, rows, c)
  PROVE  /\ WellKept'
         /\ Total(OpenIn(A)) = Total(OpenIn(A)') + IF a \in A THEN Ceiling[a] ELSE 0
         /\ ActualIn(A)' = ActualIn(A) \cup IF a \in A THEN {r \in rows : r.kind = "actual"} ELSE {}
         /\ ConfirmedIn(A)' = ConfirmedIn(A) \cup
              IF a \in A THEN {r \in rows : r.kind = "actual" /\ r.confirmed} ELSE {}
         /\ \A r \in rows : r \notin ledger
<1>1. ledger' = ledger \cup rows
  BY DEF Settle
<1>2. WellKept'
  <2>1. IsFiniteSet(ledger')
    BY <1>1, FS_Union DEF WellKept
  <2>2. \A r \in ledger' : r.kind = "reservation" => r = Held(r.attempt)
    BY <1>1 DEF WellKept
  <2> QED
    BY <1>1, <2>1, <2>2 DEF WellKept, Held
<1>3. \A b : b # a => Open(b)' = Open(b)
  BY <1>1 DEF Open, HasReservation, Settled, Rows
<1>4. Open(a) /\ ~Open(a)'
  BY <1>1 DEF Open, HasReservation, Settled, Rows
<1>5. Held(a) \in ledger /\ \A r \in ledger : r.kind = "reservation" /\ r.attempt = a => r = Held(a)
  BY DEF HasReservation, Rows, WellKept
<1>6. ActualIn(A)' = ActualIn(A) \cup IF a \in A THEN {r \in rows : r.kind = "actual"} ELSE {}
  BY <1>1 DEF ActualIn
<1>7. ConfirmedIn(A)' = ConfirmedIn(A) \cup
         IF a \in A THEN {r \in rows : r.kind = "actual" /\ r.confirmed} ELSE {}
  BY <1>1 DEF ConfirmedIn
<1>8. \A r \in rows : r \notin ledger
  BY DEF Settled, Rows
<1>9. Total(OpenIn(A)) = Total(OpenIn(A)') + IF a \in A THEN Ceiling[a] ELSE 0
  <2>1. CASE a \in A
    <3>1. OpenIn(A)' = OpenIn(A) \ {Held(a)} /\ Held(a) \in OpenIn(A)
      BY <1>1, <1>3, <1>4, <1>5, <2>1, HeldRow DEF OpenIn
    <3>2. Total(OpenIn(A)) = Held(a).amount + Total(OpenIn(A)')
      BY <3>1, TotalRemove, SumsType
    <3>3. Total(OpenIn(A)') \in Nat
      BY <3>1, AmountsLess, TotalType, SumsType
    <3> QED
      BY <2>1, <3>2, <3>3, HeldRow
  <2>2. CASE a \notin A
    <3>1. OpenIn(A)' = OpenIn(A)
      BY <1>1, <1>3, <2>2 DEF OpenIn
    <3> QED
      BY <2>2, <3>1, SumsType
  <2> QED
    BY <2>1, <2>2
<1> QED
  BY <1>2, <1>6, <1>7, <1>8, <1>9

LEMMA SuccessSums ==
  ASSUME WellKept, NEW a \in Attempt, HasReservation(a), ~Settled(a), NEW A,
         NEW c \in Nat, SettleSuccess(a, c)
  PROVE  /\ WellKept'
         /\ Total(OpenIn(A)) = Total(OpenIn(A)') + IF a \in A THEN Ceiling[a] ELSE 0
         /\ Total(ActualIn(A)') = Total(ActualIn(A)) + IF a \in A THEN c ELSE 0
         /\ Total(ConfirmedIn(A)') = Total(ConfirmedIn(A)) + IF a \in A THEN c ELSE 0
<1> DEFINE actual  == Row(a, "actual", c, TRUE)
           release == Row(a, "release", Ceiling[a], TRUE)
           rows == {actual, release}
<1>1. /\ actual \in Entry /\ actual.attempt = a /\ actual.kind = "actual"
      /\ actual.confirmed /\ actual.amount = c
      /\ release \in Entry /\ release.attempt = a /\ release.kind = "release"
  BY AttemptsAssumption DEF Row, Entry
<1>2. Settle(a, rows, c)
  BY DEF SettleSuccess
<1> HIDE DEF actual, release
<1>3. rows \in SUBSET Entry /\ rows # {} /\ IsFiniteSet(rows)
  <2>1. IsFiniteSet({actual} \cup {release})
    BY FS_Singleton, FS_AddElement
  <2>2. rows = {actual} \cup {release}
    OBVIOUS
  <2>3. IsFiniteSet(rows)
    BY <2>1, <2>2
  <2> QED
    BY <1>1, <2>3
<1>4. \A r \in rows : r.attempt = a /\ r.kind \in {"actual", "release"}
  BY <1>1
<1>5. /\ WellKept'
      /\ Total(OpenIn(A)) = Total(OpenIn(A)') + IF a \in A THEN Ceiling[a] ELSE 0
      /\ ActualIn(A)' = ActualIn(A) \cup IF a \in A THEN {r \in rows : r.kind = "actual"} ELSE {}
      /\ ConfirmedIn(A)' = ConfirmedIn(A) \cup
            IF a \in A THEN {r \in rows : r.kind = "actual" /\ r.confirmed} ELSE {}
      /\ \A r \in rows : r \notin ledger
  <2> HIDE DEF rows
  <2> QED
    BY <1>2, <1>3, <1>4, SettleRowsSums
<1>6. /\ {r \in rows : r.kind = "actual"} = {actual}
      /\ {r \in rows : r.kind = "actual" /\ r.confirmed} = {actual}
  BY <1>1
<1>7. actual \notin ActualIn(A) /\ actual \notin ConfirmedIn(A)
  BY <1>5 DEF ActualIn, ConfirmedIn
<1>8. CASE a \in A
  <2>1. ActualIn(A)' = ActualIn(A) \cup {actual} /\ ConfirmedIn(A)' = ConfirmedIn(A) \cup {actual}
    BY <1>5, <1>6, <1>8
  <2> QED
    BY <1>1, <1>5, <1>7, <1>8, <2>1, SumsType, TotalAdd
<1>9. CASE a \notin A
  <2>1. ActualIn(A)' = ActualIn(A) /\ ConfirmedIn(A)' = ConfirmedIn(A)
    BY <1>5, <1>9
  <2> QED
    BY <1>5, <1>9, <2>1, SumsType
<1> QED
  BY <1>8, <1>9

LEMMA ProvisionalSums ==
  ASSUME WellKept, NEW a \in Attempt, HasReservation(a), ~Settled(a), NEW A,
         SettleProvisional(a)
  PROVE  /\ WellKept'
         /\ Total(OpenIn(A)) = Total(OpenIn(A)') + IF a \in A THEN Ceiling[a] ELSE 0
         /\ Total(ActualIn(A)') = Total(ActualIn(A)) + IF a \in A THEN Ceiling[a] ELSE 0
         /\ Total(ConfirmedIn(A)') = Total(ConfirmedIn(A))
<1> DEFINE actual == Row(a, "actual", Ceiling[a], FALSE)
           rows == {actual}
<1>1. /\ actual \in Entry /\ actual.attempt = a /\ actual.kind = "actual"
      /\ ~actual.confirmed /\ actual.amount = Ceiling[a] /\ Ceiling[a] \in Nat
  BY AttemptsAssumption DEF Row, Entry
<1>2. Settle(a, rows, Ceiling[a])
  BY DEF SettleProvisional
<1> HIDE DEF actual
<1>3. rows \in SUBSET Entry /\ rows # {} /\ IsFiniteSet(rows)
  BY <1>1, FS_Singleton
<1>4. \A r \in rows : r.attempt = a /\ r.kind \in {"actual", "release"}
  BY <1>1
<1>5. /\ WellKept'
      /\ Total(OpenIn(A)) = Total(OpenIn(A)') + IF a \in A THEN Ceiling[a] ELSE 0
      /\ ActualIn(A)' = ActualIn(A) \cup IF a \in A THEN {r \in rows : r.kind = "actual"} ELSE {}
      /\ ConfirmedIn(A)' = ConfirmedIn(A) \cup
            IF a \in A THEN {r \in rows : r.kind = "actual" /\ r.confirmed} ELSE {}
      /\ \A r \in rows : r \notin ledger
  BY <1>2, <1>3, <1>4, SettleRowsSums
<1>6. /\ {r \in rows : r.kind = "actual"} = {actual}
      /\ {r \in rows : r.kind = "actual" /\ r.confirmed} = {}
  BY <1>1
<1>7. actual \notin ActualIn(A) /\ ConfirmedIn(A)' = ConfirmedIn(A)
  BY <1>5, <1>6 DEF ActualIn
<1>8. CASE a \in A
  <2>1. ActualIn(A)' = ActualIn(A) \cup {actual}
    BY <1>5, <1>6, <1>8
  <2> QED
    BY <1>1, <1>5, <1>7, <1>8, <2>1, SumsType, TotalAdd
<1>9. CASE a \notin A
  <2>1. ActualIn(A)' = ActualIn(A)
    BY <1>5, <1>9
  <2> QED
    BY <1>5, <1>7, <1>9, <2>1, SumsType
<1> QED
  BY <1>8, <1>9

LEMMA ReleaseSums ==
  ASSUME WellKept, NEW a \in Attempt, HasReservation(a), ~Settled(a), NEW A,
         SettleRelease(a)
  PROVE  /\ WellKept'
         /\ Total(OpenIn(A)) = Total(OpenIn(A)') + IF a \in A THEN Ceiling[a] ELSE 0
         /\ ActualIn(A)' = ActualIn(A)
         /\ ConfirmedIn(A)' = ConfirmedIn(A)
<1> DEFINE release == Row(a, "release", Ceiling[a], TRUE)
           rows == {release}
<1>1. release \in Entry /\ release.attempt = a /\ release.kind = "release"
  BY AttemptsAssumption DEF Row, Entry
<1>2. Settle(a, rows, 0)
  BY DEF SettleRelease
<1> HIDE DEF release
<1>3. rows \in SUBSET Entry /\ rows # {} /\ IsFiniteSet(rows)
  BY <1>1, FS_Singleton
<1>4. \A r \in rows : r.attempt = a /\ r.kind \in {"actual", "release"}
  BY <1>1
<1>5. /\ {r \in rows : r.kind = "actual"} = {}
      /\ {r \in rows : r.kind = "actual" /\ r.confirmed} = {}
  BY <1>1
<1> QED
  BY <1>2, <1>3, <1>4, <1>5, SettleRowsSums

-----------------------------------------------------------------------------
(* The columns of the run agree with its ledger.                             *)

InBooks ==
  /\ WellKept
  /\ reserved = Total(OpenIn(Attempt))
  /\ spent = judged + Total(ActualIn(Attempt))

LEMMA InBooksBalanced == Typed /\ InBooks => Balanced
<1> SUFFICES ASSUME Typed, InBooks PROVE Balanced
  OBVIOUS
<1>1. \A r \in ledger : r.attempt \in Attempt
  BY DEF Typed, MoneyType, Entry
<1>2. OpenIn(Attempt) = {r \in ledger : r.kind = "reservation" /\ Open(r.attempt)}
  BY <1>1 DEF OpenIn
<1>3. ActualIn(Attempt) = {r \in ledger : r.kind = "actual"}
  BY <1>1 DEF ActualIn
<1> QED
  BY <1>2, <1>3 DEF InBooks, Balanced

LEMMA UnchangedSums ==
  ASSUME WellKept, UNCHANGED ledger, NEW A
  PROVE  /\ WellKept'
         /\ OpenIn(A)' = OpenIn(A)
         /\ ActualIn(A)' = ActualIn(A)
         /\ ConfirmedIn(A)' = ConfirmedIn(A)
BY DEF WellKept, Held, OpenIn, ActualIn, ConfirmedIn, Open, HasReservation, Settled, Rows

LEMMA SumsPrimed ==
  ASSUME WellKept', NEW A
  PROVE  /\ Total(OpenIn(A)') \in Nat
         /\ Total(ActualIn(A)') \in Nat
         /\ Total(ConfirmedIn(A)') \in Nat
<1>1. /\ OpenIn(A)' \in SUBSET ledger'
      /\ ActualIn(A)' \in SUBSET ledger'
      /\ ConfirmedIn(A)' \in SUBSET ledger'
  BY DEF OpenIn, ActualIn, ConfirmedIn
<1>2. ledger' \in SUBSET Entry /\ IsFiniteSet(ledger')
  BY DEF WellKept
<1> QED
  BY <1>1, <1>2, RowsTotal

(* A settlement frees the ceiling and books at most the cost or the ceiling, *)
(* confirmed at most the cost.                                               *)
LEMMA SettledSums ==
  ASSUME WellKept, NEW a \in Attempt, HasReservation(a), NEW c \in Nat, SettlesNow(a, c), NEW A
  PROVE  /\ WellKept'
         /\ UNCHANGED <<cap, stageCap, judged>>
         /\ \/ Settled(a) /\ UNCHANGED <<ledger, reserved, spent>>
            \/ /\ ~Settled(a)
               /\ reserved' = reserved - Ceiling[a]
               /\ Total(OpenIn(A)) = Total(OpenIn(A)') + IF a \in A THEN Ceiling[a] ELSE 0
               /\ \E booked \in {0, c, Ceiling[a]}, confirmed \in {0, c} :
                    /\ spent' = spent + booked
                    /\ Total(ActualIn(A)') = Total(ActualIn(A)) + IF a \in A THEN booked ELSE 0
                    /\ Total(ConfirmedIn(A)')
                         = Total(ConfirmedIn(A)) + IF a \in A THEN confirmed ELSE 0
<1>0. UNCHANGED <<cap, stageCap, judged>>
  BY DEF SettlesNow, SettleSuccess, SettleProvisional, SettleRelease, Settle
<1>1. CASE Settled(a)
  <2>1. UNCHANGED <<ledger, reserved, spent>>
    BY <1>1 DEF SettlesNow, SettleSuccess, SettleProvisional, SettleRelease, Settle
  <2> QED
    BY <1>0, <1>1, <2>1, UnchangedSums
<1>2. CASE ~Settled(a)
  <2>0. /\ Total(ActualIn(A)) \in Nat /\ Total(ConfirmedIn(A)) \in Nat
        /\ Ceiling[a] \in Nat
    BY SumsType, AttemptsAssumption
  <2>1. CASE SettleSuccess(a, c)
    <3>1. reserved' = reserved - Ceiling[a] /\ spent' = spent + c
      BY <1>2, <2>1 DEF SettleSuccess, Settle
    <3> QED
      BY <1>0, <1>2, <2>1, <3>1, SuccessSums
  <2>2. CASE SettleProvisional(a)
    <3>1. reserved' = reserved - Ceiling[a] /\ spent' = spent + Ceiling[a]
      BY <1>2, <2>2 DEF SettleProvisional, Settle
    <3>2. Total(ConfirmedIn(A)') = Total(ConfirmedIn(A)) + IF a \in A THEN 0 ELSE 0
      BY <1>2, <2>0, <2>2, ProvisionalSums
    <3> QED
      BY <1>0, <1>2, <2>2, <3>1, <3>2, ProvisionalSums
  <2>3. CASE SettleRelease(a)
    <3>1. reserved' = reserved - Ceiling[a] /\ spent' = spent + 0
      BY <1>2, <2>3 DEF SettleRelease, Settle
    <3>2. /\ Total(ConfirmedIn(A)') = Total(ConfirmedIn(A)) + IF a \in A THEN 0 ELSE 0
          /\ Total(ActualIn(A)') = Total(ActualIn(A)) + IF a \in A THEN 0 ELSE 0
      BY <1>2, <2>0, <2>3, ReleaseSums
    <3> QED
      BY <1>0, <1>2, <2>3, <3>1, <3>2, ReleaseSums
  <2> QED
    BY <2>1, <2>2, <2>3 DEF SettlesNow
<1> QED
  BY <1>1, <1>2

LEMMA InBooksInit == Init => InBooks
<1> SUFFICES ASSUME Init PROVE InBooks
  OBVIOUS
<1>1. ledger = {} /\ reserved = 0 /\ spent = 0 /\ judged = 0
  BY DEF Init, NoMoney
<1>2. WellKept
  BY <1>1, FS_EmptySet DEF WellKept
<1>3. OpenIn(Attempt) = {} /\ ActualIn(Attempt) = {}
  BY <1>1 DEF OpenIn, ActualIn
<1> QED
  BY <1>1, <1>2, <1>3, TotalEmpty DEF InBooks

LEMMA InBooksNext == Typed /\ SetAside /\ InBooks /\ [Next]_vars => InBooks'
<1> SUFFICES ASSUME Typed, SetAside, InBooks, [Next]_vars PROVE InBooks'
  OBVIOUS
<1>0. /\ WellKept /\ judged \in Nat
      /\ Total(OpenIn(Attempt)) \in Nat /\ Total(ActualIn(Attempt)) \in Nat
      /\ \A a \in Attempt : Ceiling[a] \in Nat /\ cost[a] \in Nat
  BY SumsType, AttemptsAssumption DEF InBooks, Typed, MoneyType, EngineType
<1>1. CASE UNCHANGED books
  BY <1>0, <1>1, UnchangedSums DEF InBooks, books
<1>2. ASSUME NEW a \in Attempt, ReserveBudget(a) PROVE InBooks'
  <2>1. Reserve(a)
    BY <1>2 DEF ReserveBudget
  <2>2. CASE HasReservation(a)
    BY <1>0, <2>1, <2>2, UnchangedSums DEF InBooks, Reserve
  <2>3. CASE ~HasReservation(a)
    <3>1. ~Settled(a)
      BY <2>3 DEF SetAside
    <3>2. reserved' = reserved + Ceiling[a] /\ UNCHANGED <<spent, judged>>
      BY <2>1, <2>3 DEF Reserve
    <3> QED
      BY <1>0, <2>1, <2>3, <3>1, <3>2, ReserveSums DEF InBooks
  <2> QED
    BY <2>2, <2>3
<1>3. ASSUME NEW q \in Nat, RecordActual(q) PROVE InBooks'
  <2>1. UNCHANGED <<ledger, reserved>> /\ spent' = spent + q /\ judged' = judged + q
    BY <1>3 DEF RecordActual
  <2> QED
    BY <1>0, <2>1, UnchangedSums DEF InBooks
<1>4. ASSUME NEW a \in Attempt, HasReservation(a), SettlesNow(a, cost[a]) PROVE InBooks'
  <2>1. CASE Settled(a)
    <3>1. UNCHANGED <<ledger, reserved, spent, judged>>
      BY <1>0, <1>4, <2>1, SettledSums
    <3> QED
      BY <1>0, <3>1, UnchangedSums DEF InBooks
  <2>2. CASE ~Settled(a)
    <3>1. /\ WellKept' /\ UNCHANGED judged
          /\ reserved' = reserved - Ceiling[a]
          /\ Total(OpenIn(Attempt)) = Total(OpenIn(Attempt)') + Ceiling[a]
      BY <1>0, <1>4, <2>2, SettledSums
    <3>2. PICK booked \in {0, cost[a], Ceiling[a]}, confirmed \in {0, cost[a]} :
            /\ spent' = spent + booked
            /\ Total(ActualIn(Attempt)') = Total(ActualIn(Attempt)) + IF a \in Attempt THEN booked ELSE 0
            /\ Total(ConfirmedIn(Attempt)')
                 = Total(ConfirmedIn(Attempt)) + IF a \in Attempt THEN confirmed ELSE 0
      BY <1>0, <1>4, <2>2, SettledSums
    <3>3. Total(OpenIn(Attempt)') \in Nat
      BY <3>1, SumsPrimed
    <3> QED
      BY <1>0, <3>1, <3>2, <3>3 DEF InBooks
  <2> QED
    BY <2>1, <2>2
<1> QED
  BY <1>1, <1>2, <1>3, <1>4, BooksStep

(* However attempts, replays, the sweep and reconcilers interleave, what the *)
(* run says is reserved and spent is what its ledger adds up to              *)
(* (ledger.service.ts: the ledger remains the source of truth).              *)
THEOREM BooksBalance == Spec => []Balanced
<1> QED
  BY TypedInit, TypedNext, SetAsideInit, SetAsideNext, InBooksInit, InBooksNext,
     InBooksBalanced, PTL DEF Spec

-----------------------------------------------------------------------------
(* What a step leaves alone: the row and the function of an attempt are      *)
(* written by that function, except for the phase, the outcome and the money *)
(* that the sweep and the reconcilers write too.                             *)

Own(a) == Loop(a) \/ Replay(a) \/ Kill(a) \/ JobRuns(a) \/ Expire(a)

Alone(a) == <<epochOf[a], pc[a], verdict[a], limit[a], cost[a], tries[a], bill[a]>>
Kept(a) ==
  /\ UNCHANGED Alone(a)
  /\ a \in closed' <=> a \in closed
  /\ a \in delivered' <=> a \in delivered
  /\ a \in handled' <=> a \in handled

LEMMA StepKinds ==
  ASSUME [Next]_vars
  PROVE  \/ UNCHANGED vars
         \/ Run \/ Sweeping
         \/ \E r \in Reconciler : Reconciling(r)
         \/ \E a \in Attempt : Own(a)
BY DEF Next, Own

LEMMA OthersKeep ==
  ASSUME Typed, NEW a \in Attempt, NEW b \in Attempt, a # b, Own(b)
  PROVE  /\ Kept(a)
         /\ phase'[a] = phase[a] /\ outcome'[a] = outcome[a] /\ job'[a] = job[a]
         /\ UNCHANGED <<runRow, cleanup, stopped>>
         /\ a \in expired' <=> a \in expired
<1>1. CASE \/ BeginAttempt(b) \/ RefuseBudget(b) \/ MarkReserved(b) \/ Admit(b)
           \/ StoreHandle(b) \/ RecordOutput(b) \/ RecordEnd(b)
  BY <1>1 DEF BeginAttempt, RefuseBudget, MarkReserved, Admit, StoreHandle, RecordOutput,
     RecordEnd, StepEnds, StepAgain, Close, Phased, Go, Kept, Alone, Typed, RowType, EngineType,
     ProviderType, money, provider, cleanup, runRow
<1>2. CASE \/ SubmitJob(b) \/ SubmitRejected(b) \/ SubmitThrows(b)
           \/ PollDone(b) \/ PollFailed(b) \/ PollExhausted(b) \/ PollThrows(b) \/ StopJob(b)
           \/ StartFetch(b) \/ DeferQc(b) \/ Replay(b) \/ Kill(b)
  BY <1>2 DEF SubmitJob, SubmitRejected, SubmitThrows, PollDone, PollFailed, PollExhausted,
     PollThrows, StopJob, StartFetch, DeferQc, Replay, Kill, Starts, Drop, CancelAnswer, Go,
     Kept, Alone, Typed, RowType, EngineType, ProviderType, money, row, provider, cleanup,
     runRow, StepEnds, StepAgain
<1>3. CASE \/ RecordRefusal(b) \/ StopIfRunNotRunning(b) \/ RecordFailedPoll(b) \/ RecordError(b)
           \/ JudgeCheckFailed(b) \/ JudgeQcFailed(b) \/ Finalize(b) \/ FinishAttempt(b)
  BY <1>3 DEF RecordRefusal, StopIfRunNotRunning, RecordFailedPoll, RecordError,
     JudgeCheckFailed, JudgeQcFailed, Finalize, FinishAttempt, RecordDiscarded, Close, Phased,
     Drop, CancelAnswer, Go, Kept, Alone, Typed, RowType, EngineType, ProviderType, money, row,
     provider, cleanup, runRow, StepEnds, StepAgain, Deliver
<1>4. CASE \/ ReserveBudget(b) \/ MarkSubmitted(b) \/ PollPending(b) \/ FetchAnswers(b)
           \/ FetchThrows(b) \/ PayForVerdict(b) \/ JobRuns(b) \/ Expire(b)
  BY <1>4 DEF ReserveBudget, Reserve, MarkSubmitted, PollPending, FetchAnswers,
     FetchThrows, PayForVerdict, JobRuns, Expire, MoveExpiry, RecordActual, Charge,
     Go, Kept, Alone, Typed, RowType, EngineType, ProviderType,
     money, row, engine, provider, cleanup, runRow
<1>5. CASE SettleAttempt(b)
  <2>1. UNCHANGED expired
    BY <1>5 DEF SettleAttempt, SettleSuccess, SettleProvisional, SettleRelease, Settle
  <2> QED
    BY <1>5, <2>1 DEF SettleAttempt, Go, Kept, Alone, Typed, EngineType,
       row, provider, cleanup, runRow
<1> QED
  BY <1>1, <1>2, <1>3, <1>4, <1>5 DEF Own, Loop, Submitting, Polling, Finishing

LEMMA OwnScope ==
  ASSUME NEW a \in Attempt, Own(a)
  PROVE  UNCHANGED <<runRow, cleanup, stopped>>
BY DEF Own, Loop, Submitting, Polling, Finishing, BeginAttempt, RefuseBudget, ReserveBudget,
   MarkReserved, Admit, SubmitJob, SubmitRejected, SubmitThrows, MarkSubmitted, StoreHandle,
   PollDone, PollFailed, PollPending, PollExhausted, PollThrows, StopJob, StartFetch,
   FetchAnswers, FetchThrows, SettleAttempt, RecordOutput, RecordEnd, RecordRefusal,
   StopIfRunNotRunning, RecordFailedPoll, RecordDiscarded, RecordError, JudgeCheckFailed,
   DeferQc, PayForVerdict, JudgeQcFailed, Finalize, FinishAttempt, Close, Replay, Kill, JobRuns,
   Expire, cleanup, row, Deliver

LEMMA CleanersKeep ==
  ASSUME NEW a \in Attempt,
         \/ UNCHANGED vars \/ Run \/ Sweeping
         \/ \E r \in Reconciler : Reconciling(r)
  PROVE  Kept(a) /\ UNCHANGED <<engine, bill, epochOf, closed, delivered, handled>>
<1>1. UNCHANGED <<engine, bill, epochOf, closed, delivered, handled>>
  BY DEF Run, Pause, Halt, Resume, Cancel, Raise, Sweeping, SweepSelect, SweepStops,
     SweepSettle, SweepMark, Reconciling, ReconcileSelect, ReconcileDone, ReconcileStops,
     ReconcileAsk, ReconcileBook, ReconcileMark, vars, row, engine, provider
<1> QED
  BY <1>1 DEF Kept, Alone, engine

LEMMA OwnOrKept ==
  ASSUME Typed, [Next]_vars, NEW a \in Attempt, ~Own(a)
  PROVE  Kept(a)
BY StepKinds, OthersKeep, CleanersKeep

-----------------------------------------------------------------------------
(* The caps.  They hold where a call costs no more than was set aside for    *)
(* it, and where no stage is given its first cap while it is at work: what   *)
(* it had reserved by then was compared with no cap.                         *)

CostsFit       == \A a \in Attempt : Costs[a] \subseteq 0..Ceiling[a]
StageCapsStand == NewStageCaps = {} \/ \A s \in Stage : InitialStageCap[s] # NoCap

(* An attempt compares with the stage cap its invocation loaded.             *)
LimitHolds(a) ==
  stageCap[StageOf[a]] # NoCap => limit[a] # NoCap /\ limit[a] <= stageCap[StageOf[a]]
CapsKept ==
  /\ InitialCap > 0 => cap > 0
  /\ NewStageCaps = {} => stageCap = InitialStageCap
  /\ \A s \in Stage : InitialStageCap[s] # NoCap => stageCap[s] # NoCap
LimitsHold ==
  /\ CapsKept
  /\ \A a \in Attempt : cost[a] <= Ceiling[a]
  /\ \A a \in Attempt : pc[a] # "idle" => LimitHolds(a)

LEMMA CapsStep ==
  ASSUME Typed, [Next]_vars
  PROVE  UNCHANGED <<cap, stageCap>> \/ Raise
<1>1. CASE Sweeping
  BY <1>1 DEF Sweeping, SweepSelect, SweepStops, SweepSettle, SweepMark, SettleRelease,
     SettleProvisional, Settle, money
<1>2. ASSUME NEW r \in Reconciler, Reconciling(r) PROVE UNCHANGED <<cap, stageCap>>
  BY <1>2 DEF Reconciling, ReconcileSelect, ReconcileDone, ReconcileStops, ReconcileAsk,
     ReconcileBook, ReconcileMark, SettleRelease, SettleProvisional, Settle, money
<1>3. ASSUME NEW a \in Attempt, Own(a) PROVE UNCHANGED <<cap, stageCap>>
  BY <1>3 DEF Own, Loop, Submitting, Polling, Finishing, BeginAttempt, RefuseBudget,
     ReserveBudget, Reserve, MarkReserved, Admit, SubmitJob, SubmitRejected, SubmitThrows,
     MarkSubmitted, MoveExpiry, StoreHandle, PollDone, PollFailed, PollPending, PollExhausted,
     PollThrows, StopJob, StartFetch, FetchAnswers, FetchThrows, SettleAttempt, SettleSuccess,
     SettleProvisional, SettleRelease, Settle, RecordOutput, RecordEnd, RecordRefusal,
     StopIfRunNotRunning, RecordFailedPoll, RecordError, JudgeCheckFailed, DeferQc,
     PayForVerdict, RecordActual, JudgeQcFailed, Finalize, FinishAttempt, Replay, Kill, JobRuns,
     Expire, money
<1>4. CASE Run
  BY <1>4 DEF Run, Pause, Halt, Resume, Cancel, money
<1>5. CASE UNCHANGED vars
  BY <1>5 DEF vars, money
<1> QED
  BY <1>1, <1>2, <1>3, <1>4, <1>5, StepKinds

LEMMA CapsGrow ==
  ASSUME Typed, CapsKept, StageCapsStand, [Next]_vars
  PROVE  /\ CapsKept'
         /\ cap' >= cap /\ cap' \in Nat
         /\ \A s \in Stage :
              /\ stageCap'[s] \in Nat \cup {NoCap}
              /\ stageCap'[s] # NoCap => stageCap[s] # NoCap /\ stageCap[s] <= stageCap'[s]
<1>0. cap \in Nat /\ stageCap \in [Stage -> Nat \cup {NoCap}]
  BY DEF Typed, MoneyType
<1>1. CASE UNCHANGED <<cap, stageCap>>
  BY <1>0, <1>1 DEF CapsKept, NoCap
<1>2. ASSUME NEW c \in NewCaps, RaiseBudget(c)
      PROVE  UNCHANGED stageCap /\ cap' > cap /\ cap' \in Nat
  BY <1>2, ChargesAssumption DEF RaiseBudget
<1>3. ASSUME NEW s \in Stage, NEW c \in NewStageCaps, RaiseStageCap(s, c)
      PROVE  /\ UNCHANGED cap
             /\ stageCap[s] # NoCap /\ c \in Nat /\ c > stageCap[s]
             /\ stageCap' = [stageCap EXCEPT ![s] = c]
  BY <1>0, <1>3, ChargesAssumption DEF RaiseStageCap, StageCapsStand, CapsKept
<1>4. CASE Raise
  <2>1. CASE \E c \in NewCaps : RaiseBudget(c)
    BY <1>0, <1>2, <2>1 DEF CapsKept, NoCap
  <2>2. CASE \E s \in Stage, c \in NewStageCaps : RaiseStageCap(s, c)
    BY <1>0, <1>3, <2>2 DEF CapsKept, NoCap
  <2> QED
    BY <1>4, <2>1, <2>2 DEF Raise
<1> QED
  BY <1>1, <1>4, CapsStep

LEMMA LimitsHoldInit == CostsFit /\ Init => LimitsHold
<1> SUFFICES ASSUME Init PROVE LimitsHold
  OBVIOUS
<1>1. CapsKept
  BY DEF Init, NoMoney, CapsKept
<1>2. \A a \in Attempt : cost[a] <= Ceiling[a] /\ pc[a] = "idle"
  BY AttemptsAssumption DEF Init
<1> QED
  BY <1>1, <1>2 DEF LimitsHold

LEMMA LimitsHoldNext ==
  ASSUME CostsFit, StageCapsStand, Typed, LimitsHold, [Next]_vars
  PROVE  LimitsHold'
<1>1. /\ CapsKept'
      /\ \A s \in Stage : stageCap'[s] # NoCap =>
           stageCap[s] # NoCap /\ stageCap[s] <= stageCap'[s]
      /\ \A s \in Stage : stageCap'[s] \in Nat \cup {NoCap}
  BY CapsGrow DEF LimitsHold
<1>2. /\ stageCap \in [Stage -> Nat \cup {NoCap}]
      /\ limit \in [Attempt -> Nat \cup {NoCap}]
      /\ \A a \in Attempt : StageOf[a] \in Stage /\ Ceiling[a] \in Nat
  BY AttemptsAssumption DEF Typed, MoneyType, EngineType
<1>3. ASSUME NEW a \in Attempt PROVE cost'[a] <= Ceiling[a]
  <2>1. ~Own(a) => cost'[a] = cost[a]
    BY OwnOrKept DEF Kept, Alone
  <2>2. Own(a) /\ ~FetchAnswers(a) => UNCHANGED cost
    BY DEF Own, Loop, Submitting, Polling, Finishing, BeginAttempt, RefuseBudget, ReserveBudget,
       MarkReserved, Admit, SubmitJob, SubmitRejected, SubmitThrows, MarkSubmitted, StoreHandle,
       PollDone, PollFailed, PollPending, PollExhausted, PollThrows, StopJob, StartFetch,
       FetchThrows, SettleAttempt, RecordOutput, RecordEnd, RecordRefusal, StopIfRunNotRunning,
       RecordFailedPoll, RecordError, JudgeCheckFailed, DeferQc, PayForVerdict, JudgeQcFailed,
       Finalize, FinishAttempt, Replay, Kill, JobRuns, Expire, engine, StepEnds, StepAgain
  <2>3. FetchAnswers(a) => cost'[a] \in 0..Ceiling[a]
    BY <1>2 DEF FetchAnswers, CostsFit, Typed, EngineType
  <2> QED
    BY <1>2, <2>1, <2>2, <2>3 DEF LimitsHold
<1>4. ASSUME NEW a \in Attempt, pc'[a] # "idle" PROVE LimitHolds(a)'
  <2>1. CASE pc[a] # "idle" /\ limit'[a] = limit[a]
    BY <1>1, <1>2, <2>1 DEF LimitsHold, LimitHolds, NoCap
  <2>2. CASE BeginAttempt(a)
    <3> DEFINE sooner == {b \in After[a] : epochOf[b] = epoch}
    <3>1. limit'[a] = IF sooner = {} THEN stageCap[StageOf[a]]
                                     ELSE limit[CHOOSE b \in sooner : TRUE]
      BY <2>2 DEF BeginAttempt, Typed, EngineType
    <3>2. UNCHANGED stageCap
      BY <2>2 DEF BeginAttempt, money
    <3>3. CASE sooner = {}
      BY <1>2, <3>1, <3>2, <3>3 DEF LimitHolds, NoCap
    <3>4. CASE sooner # {}
      <4>1. PICK b \in sooner : b = CHOOSE x \in sooner : TRUE
        BY <3>4
      <4>2. b \in Attempt /\ StageOf[b] = StageOf[a]
        BY <4>1, LoopAssumption
      <4>3. pc[b] = "ended"
        BY <2>2, <4>1 DEF BeginAttempt, MayFollow
      <4>4. LimitHolds(b)
        BY <4>2, <4>3 DEF LimitsHold
      <4> QED
        BY <3>1, <3>2, <3>4, <4>1, <4>2, <4>4 DEF LimitHolds
    <3> QED
      BY <3>3, <3>4
  <2>3. Own(a) /\ ~BeginAttempt(a) => UNCHANGED limit
    BY DEF Own, Loop, Submitting, Polling, Finishing, RefuseBudget, ReserveBudget, MarkReserved,
       Admit, SubmitJob, SubmitRejected, SubmitThrows, MarkSubmitted, StoreHandle, PollDone,
       PollFailed, PollPending, PollExhausted, PollThrows, StopJob, StartFetch, FetchAnswers,
       FetchThrows, SettleAttempt, RecordOutput, RecordEnd, RecordRefusal, StopIfRunNotRunning,
       RecordFailedPoll, RecordError, JudgeCheckFailed, DeferQc, PayForVerdict, JudgeQcFailed,
       Finalize, FinishAttempt, Replay, Kill, JobRuns, Expire, engine, StepEnds, StepAgain
  <2>4. Own(a) /\ ~BeginAttempt(a) => pc[a] # "idle" \/ UNCHANGED pc
    BY ReplayPlaces DEF Own, Loop, Submitting, Polling, Finishing, RefuseBudget, ReserveBudget,
       MarkReserved, Admit, SubmitJob, SubmitRejected, SubmitThrows, MarkSubmitted, StoreHandle,
       PollDone, PollFailed, PollPending, PollExhausted, PollThrows, StopJob, StartFetch,
       FetchAnswers, FetchThrows, SettleAttempt, RecordOutput, RecordEnd, RecordRefusal,
       StopIfRunNotRunning, RecordFailedPoll, RecordError, JudgeCheckFailed, DeferQc,
       PayForVerdict, JudgeQcFailed, Finalize, FinishAttempt, Judged, Kill, Boundary, Settling,
       JobRuns, Expire, engine
  <2>5. ~Own(a) => pc'[a] = pc[a] /\ limit'[a] = limit[a]
    BY OwnOrKept DEF Kept, Alone
  <2> QED
    BY <1>4, <2>1, <2>2, <2>3, <2>4, <2>5
<1> QED
  BY <1>1, <1>3, <1>4 DEF LimitsHold

OfStage(s) == {a \in Attempt : StageOf[a] = s}

LEMMA StageSums ==
  ASSUME Typed, NEW s \in Stage
  PROVE  StageCommitted(s) = Total(OpenIn(OfStage(s))) + Total(ConfirmedIn(OfStage(s)))
<1>1. \A r \in ledger : r.attempt \in Attempt
  BY DEF Typed, MoneyType, Entry
<1>2. OpenIn(OfStage(s)) =
        {r \in ledger : r.kind = "reservation" /\ StageOf[r.attempt] = s /\ Open(r.attempt)}
  BY <1>1 DEF OpenIn, OfStage
<1>3. ConfirmedIn(OfStage(s)) =
        {r \in ledger : r.kind = "actual" /\ StageOf[r.attempt] = s /\ r.confirmed}
  BY <1>1 DEF ConfirmedIn, OfStage
<1> QED
  BY <1>2, <1>3 DEF StageCommitted, OpenCeilings, ConfirmedActuals

RunFits   == InitialCap > 0 => reserved + spent <= cap + judged
StageFits == \A s \in Stage : stageCap[s] # NoCap =>
               Total(OpenIn(OfStage(s))) + Total(ConfirmedIn(OfStage(s))) <= stageCap[s]

LEMMA FitsWithinCaps == Typed /\ RunFits /\ StageFits => WithinCaps
BY StageSums DEF WithinCaps, RunFits, StageFits

LEMMA FitsInit == Init => RunFits /\ StageFits
<1> SUFFICES ASSUME Init PROVE RunFits /\ StageFits
  OBVIOUS
<1>1. ledger = {} /\ reserved = 0 /\ spent = 0 /\ judged = 0 /\ cap \in Nat
      /\ stageCap \in [Stage -> Nat \cup {NoCap}]
  BY CapsAssumption DEF Init, NoMoney
<1>2. \A A : OpenIn(A) = {} /\ ConfirmedIn(A) = {}
  BY <1>1 DEF OpenIn, ConfirmedIn
<1> QED
  BY <1>1, <1>2, TotalEmpty DEF RunFits, StageFits

LEMMA Widen ==
  ASSUME NEW r \in Int, NEW s \in Int, NEW j \in Nat, NEW c \in Nat, NEW d \in Nat,
         d >= c, r + s <= c + j
  PROVE  r + s <= d + j
OBVIOUS

LEMMA RunFitsNext ==
  ASSUME StageCapsStand, Typed, SetAside, InBooks, LimitsHold, RunFits, [Next]_vars
  PROVE  RunFits'
<1> SUFFICES ASSUME InitialCap > 0 PROVE reserved' + spent' <= cap' + judged'
  BY DEF RunFits
<1>0. /\ reserved \in Int /\ spent \in Int /\ judged \in Nat /\ cap \in Nat
      /\ \A a \in Attempt : Ceiling[a] \in Nat /\ cost[a] \in Nat /\ cost[a] <= Ceiling[a]
  BY AttemptsAssumption DEF Typed, MoneyType, EngineType, LimitsHold
<1>1. cap' >= cap /\ cap' \in Nat /\ cap > 0 /\ reserved + spent <= cap + judged
      /\ reserved + spent <= cap' + judged
  <2>1. cap' >= cap /\ cap' \in Nat /\ cap > 0 /\ reserved + spent <= cap + judged
    BY CapsGrow DEF LimitsHold, CapsKept, RunFits
  <2> QED
    BY <1>0, <2>1, Widen
<1>2. CASE UNCHANGED books
  BY <1>1, <1>2 DEF books
<1>3. ASSUME NEW a \in Attempt, ReserveBudget(a) PROVE reserved' + spent' <= cap' + judged'
  <2>1. Ceiling[a] <= cap - reserved - spent
    BY <1>1, <1>3 DEF ReserveBudget, Refusal, FitsRun
  <2>2. /\ reserved' = reserved \/ reserved' = reserved + Ceiling[a]
        /\ UNCHANGED <<spent, judged>>
    BY <1>3 DEF ReserveBudget, Reserve
  <2> QED
    BY <1>0, <1>1, <2>1, <2>2
<1>4. ASSUME NEW q \in Nat, RecordActual(q) PROVE reserved' + spent' <= cap' + judged'
  <2>1. reserved' = reserved /\ spent' = spent + q /\ judged' = judged + q
    BY <1>4 DEF RecordActual
  <2>2. reserved + (spent + q) <= cap' + (judged + q)
    <3>1. /\ reserved + (spent + q) <= cap + (judged + q)
          /\ spent + q \in Int /\ judged + q \in Nat
      BY <1>0, <1>1
    <3> QED
      BY <1>0, <1>1, <3>1, Widen
  <2> QED
    BY <2>1, <2>2
<1>5. ASSUME NEW a \in Attempt, HasReservation(a), SettlesNow(a, cost[a])
      PROVE  reserved' + spent' <= cap' + judged'
  <2>1. UNCHANGED judged
    BY <1>0, <1>5, SettledSums DEF InBooks
  <2>2. CASE Settled(a)
    <3>1. UNCHANGED <<reserved, spent>>
      BY <1>0, <1>5, <2>2, SettledSums DEF InBooks
    <3> QED
      BY <1>1, <2>1, <3>1
  <2>3. CASE ~Settled(a)
    <3>1. PICK booked \in {0, cost[a], Ceiling[a]} :
            reserved' = reserved - Ceiling[a] /\ spent' = spent + booked
      BY <1>0, <1>5, <2>3, SettledSums DEF InBooks
    <3>2. booked \in Nat /\ booked <= Ceiling[a]
      BY <1>0, <3>1
    <3>3. (reserved - Ceiling[a]) + (spent + booked) <= cap + judged
      BY <1>0, <1>1, <3>2
    <3>4. (reserved - Ceiling[a]) + (spent + booked) <= cap' + judged
      BY <1>0, <1>1, <3>2, <3>3, Widen
    <3> QED
      BY <2>1, <3>1, <3>4
  <2> QED
    BY <2>2, <2>3
<1> QED
  BY <1>2, <1>3, <1>4, <1>5, BooksStep

LEMMA StageFitsNext ==
  ASSUME StageCapsStand, Typed, SetAside, InBooks, LimitsHold, StageFits, [Next]_vars
  PROVE  StageFits'
<1> SUFFICES ASSUME NEW s \in Stage, stageCap'[s] # NoCap
             PROVE  Total(OpenIn(OfStage(s))') + Total(ConfirmedIn(OfStage(s))') <= stageCap'[s]
  BY DEF StageFits
<1> DEFINE A == OfStage(s)
<1>0. /\ WellKept
      /\ stageCap \in [Stage -> Nat \cup {NoCap}] /\ stageCap'[s] \in Nat \cup {NoCap}
      /\ Total(OpenIn(A)) \in Nat /\ Total(ConfirmedIn(A)) \in Nat
      /\ \A a \in Attempt : Ceiling[a] \in Nat /\ cost[a] \in Nat /\ cost[a] <= Ceiling[a]
  BY AttemptsAssumption, CapsGrow, SumsType
  DEF Typed, MoneyType, EngineType, LimitsHold, InBooks
<1>1. /\ stageCap[s] # NoCap /\ stageCap[s] <= stageCap'[s]
      /\ Total(OpenIn(A)) + Total(ConfirmedIn(A)) <= stageCap[s]
  BY CapsGrow DEF LimitsHold, StageFits
<1> HIDE DEF A
<1> SUFFICES Total(OpenIn(A)') + Total(ConfirmedIn(A)') <= stageCap[s]
  <2>1. WellKept' => Total(OpenIn(A)') \in Nat /\ Total(ConfirmedIn(A)') \in Nat
    BY SumsPrimed
  <2>2. WellKept'
    BY InBooksNext DEF InBooks
  <2> QED
    BY <1>0, <1>1, <2>1, <2>2 DEF A, NoCap
<1>2. CASE UNCHANGED ledger
  BY <1>0, <1>1, <1>2, UnchangedSums
<1>3. ASSUME NEW a \in Attempt, ReserveBudget(a)
      PROVE  Total(OpenIn(A)') + Total(ConfirmedIn(A)') <= stageCap[s]
  <2>1. Reserve(a) /\ FitsStage(a, limit[a]) /\ pc[a] = "reserve"
    BY <1>3 DEF ReserveBudget, Refusal
  <2>2. CASE HasReservation(a)
    BY <1>2, <2>1, <2>2 DEF Reserve
  <2>3. CASE ~HasReservation(a)
    <3>1. ~Settled(a)
      BY <2>3 DEF SetAside
    <3>2. /\ Total(OpenIn(A)') = Total(OpenIn(A)) + IF a \in A THEN Ceiling[a] ELSE 0
          /\ ConfirmedIn(A)' = ConfirmedIn(A)
      BY <1>0, <2>1, <2>3, <3>1, ReserveSums
    <3>3. ASSUME a \in A
          PROVE  Ceiling[a] <= stageCap[s] - (Total(OpenIn(A)) + Total(ConfirmedIn(A)))
      <4>1. StageOf[a] = s
        BY <3>3 DEF A, OfStage
      <4>2. limit[a] # NoCap /\ limit[a] <= stageCap[s]
        BY <1>1, <2>1, <4>1 DEF LimitsHold, LimitHolds
      <4>3. Ceiling[a] <= limit[a] - (Total(OpenIn(A)) + Total(ConfirmedIn(A)))
        BY <2>1, <4>1, <4>2, StageSums DEF FitsStage, A
      <4>4. limit[a] \in Nat \cup {NoCap}
        BY DEF Typed, EngineType
      <4> QED
        BY <1>0, <1>1, <4>2, <4>3, <4>4
    <3> QED
      BY <1>0, <1>1, <3>2, <3>3
  <2> QED
    BY <2>2, <2>3
<1>4. ASSUME NEW a \in Attempt, HasReservation(a), SettlesNow(a, cost[a])
      PROVE  Total(OpenIn(A)') + Total(ConfirmedIn(A)') <= stageCap[s]
  <2>1. CASE Settled(a)
    BY <1>0, <1>2, <1>4, <2>1, SettledSums
  <2>2. CASE ~Settled(a)
    <3>1. /\ WellKept'
          /\ Total(OpenIn(A)) = Total(OpenIn(A)') + IF a \in A THEN Ceiling[a] ELSE 0
      BY <1>0, <1>4, <2>2, SettledSums
    <3>2. PICK confirmed \in {0, cost[a]} :
            Total(ConfirmedIn(A)') = Total(ConfirmedIn(A)) + IF a \in A THEN confirmed ELSE 0
      BY <1>0, <1>4, <2>2, SettledSums
    <3>3. Total(OpenIn(A)') \in Nat
      BY <3>1, SumsPrimed
    <3> QED
      BY <1>0, <1>1, <3>1, <3>2, <3>3
  <2> QED
    BY <2>1, <2>2
<1> QED
  BY <1>2, <1>3, <1>4, BooksStep DEF books, RecordActual

(* However many attempts of however many stages run at once, what the run    *)
(* and each stage have spent and set aside stays within the caps, whoever    *)
(* raises them meanwhile and whatever settles first.                         *)
THEOREM CapsAreKept ==
  ASSUME CostsFit, StageCapsStand
  PROVE  Spec => []WithinCaps
<1>1. Init => LimitsHold
  BY LimitsHoldInit
<1>2. Typed /\ LimitsHold /\ [Next]_vars => LimitsHold'
  BY LimitsHoldNext
<1>3. Typed /\ SetAside /\ InBooks /\ LimitsHold /\ RunFits /\ StageFits /\ [Next]_vars
        => RunFits' /\ StageFits'
  BY RunFitsNext, StageFitsNext
<1> QED
  BY <1>1, <1>2, <1>3, TypedInit, TypedNext, SetAsideInit, SetAsideNext, InBooksInit,
     InBooksNext, FitsInit, FitsWithinCaps, PTL DEF Spec
=============================================================================
