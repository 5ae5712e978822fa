------------------------ MODULE SpendingAgentsProofs -------------------------
(***************************************************************************)
(* Theorems about ResourceLedger and the agents that spend from it, for    *)
(* every set of reservations, saves, resources, prices and orders.         *)
(***************************************************************************)
EXTENDS SpendingAgents, FiniteSetTheorems, TLAPS

USE DEF ledgerVars

-----------------------------------------------------------------------------
(* The ledger alone.                                                         *)

(* Superseding leaves well-formed rows, the active ones of one save.         *)
LEMMA SupersedingType ==
  ASSUME LedgerTypeOK, NEW s \in Saves
  PROVE  /\ Superseding(rows, s) \in [Reservations -> Row]
         /\ \A i \in Reservations : Superseding(rows, s)[i].state = "active"
                                    => Superseding(rows, s)[i].save = s
BY DEF LedgerTypeOK, Superseding, Row, States

(* An absent row is a row.                                                   *)
LEMMA NoRowType == NoRow \in Row /\ NoRow.state = "absent"
BY LedgerAssumption DEF NoRow, Row, States, NoCost

(* Both transactions write well-formed rows.                                 *)
LEMMA LedgerTypeStep == LedgerTypeOK /\ [LedgerNext]_ledgerVars => LedgerTypeOK'
<1> SUFFICES ASSUME LedgerTypeOK, [LedgerNext]_ledgerVars PROVE LedgerTypeOK'
  OBVIOUS
<1>1. ASSUME NEW i \in Reservations, NEW s \in Saves, NEW c \in Costs \cup {NoCost},
             NEW x \in BOOLEAN,
             Reserve(i, s, c, x)
      PROVE  LedgerTypeOK'
  <2>1. Superseding(rows, s) \in [Reservations -> Row]
    BY SupersedingType
  <2>2. [state |-> "active", save |-> s, costs |-> c, exclusive |-> x] \in Row
    BY DEF Row, States
  <2> QED BY <1>1, <2>1, <2>2 DEF Reserve, Inserted, LedgerTypeOK
<1>2. ASSUME NEW i \in Reservations, Release(i)
      PROVE  LedgerTypeOK'
  BY <1>2 DEF Release, Releasing, LedgerTypeOK, Row, States
<1>3. CASE UNCHANGED ledgerVars
  BY <1>3 DEF LedgerTypeOK
<1> QED BY <1>1, <1>2, <1>3 DEF LedgerNext

(* Reserving and releasing write well-formed rows only (reserve, release).   *)
THEOREM LedgerTypeCorrect == LedgerSpec => []LedgerTypeOK
<1>1. LedgerInit => LedgerTypeOK
  BY NoRowType DEF LedgerInit, LedgerTypeOK
<1> QED BY <1>1, LedgerTypeStep, PTL DEF LedgerSpec

(* The two facts about active rows that make the sums of _summary            *)
(* meaningful; together they are inductive.                                  *)
LedgerInv == LedgerTypeOK /\ OneActiveSave /\ ExclusiveIsAlone

(* Both transactions keep the active rows on one save and alone if exclusive. *)
LEMMA LedgerInvInductive == LedgerInv /\ [LedgerNext]_ledgerVars => LedgerInv'
<1> SUFFICES ASSUME LedgerInv, [LedgerNext]_ledgerVars PROVE LedgerInv'
  OBVIOUS
<1>1. LedgerTypeOK' /\ LedgerTypeOK
  BY LedgerTypeStep DEF LedgerInv
<1>2. ASSUME NEW i \in Reservations, NEW s \in Saves, NEW c \in Costs \cup {NoCost},
             NEW x \in BOOLEAN,
             Reserve(i, s, c, x)
      PROVE  OneActiveSave' /\ ExclusiveIsAlone'
  <2> DEFINE tab == Superseding(rows, s)
  <2>1. /\ tab \in [Reservations -> Row]
        /\ \A j \in Reservations : tab[j].state = "active" => tab[j].save = s
    BY <1>1, SupersedingType
  <2>2. \A j, k \in Reservations :
          tab[j].state = "active" /\ tab[j].exclusive /\ tab[k].state = "active" => j = k
    BY <1>1 DEF LedgerInv, ExclusiveIsAlone, Superseding, LedgerTypeOK, Row
  <2> HIDE DEF tab
  <2>3. CASE rows' = tab
    BY <2>1, <2>2, <2>3 DEF OneActiveSave, ExclusiveIsAlone
  <2>4. CASE MayInsert(tab, i, s, c, x) /\ rows' = Inserted(tab, i, s, c, x)
    <3>1. \A j \in Reservations \ {i} : rows'[j] = tab[j]
      BY <2>4, <2>1 DEF Inserted
    <3>2. rows'[i].save = s /\ rows'[i].exclusive = x
      BY <2>4, <2>1 DEF Inserted
    <3>3. OneActiveSave'
      BY <3>1, <3>2, <2>1 DEF OneActiveSave
    <3>4. \A j \in Reservations : tab[j].state = "active" => ~tab[j].exclusive /\ ~x
      BY <2>4, <2>1 DEF MayInsert, ExclusiveActive, ActiveIn
    <3>5. ExclusiveIsAlone'
      BY <3>1, <3>2, <3>4 DEF ExclusiveIsAlone
    <3> QED BY <3>3, <3>5
  <2> QED BY <1>2, <2>3, <2>4 DEF Reserve, tab
<1>3. ASSUME NEW i \in Reservations, Release(i)
      PROVE  OneActiveSave' /\ ExclusiveIsAlone'
  BY <1>1, <1>3 DEF Release, Releasing, LedgerInv, OneActiveSave, ExclusiveIsAlone,
                    LedgerTypeOK, Row, States
<1>4. CASE UNCHANGED ledgerVars
  BY <1>4 DEF LedgerInv, LedgerTypeOK, OneActiveSave, ExclusiveIsAlone
<1> QED BY <1>1, <1>2, <1>3, <1>4 DEF LedgerInv, LedgerNext

(* The invariant of the ledger holds throughout.                             *)
LEMMA LedgerInvariant == LedgerSpec => []LedgerInv
<1>1. LedgerInit => LedgerInv
  BY NoRowType DEF LedgerInit, LedgerInv, LedgerTypeOK, OneActiveSave, ExclusiveIsAlone
<1> QED BY <1>1, LedgerInvInductive, PTL DEF LedgerSpec

(* Active reservations always belong to one save (_supersede_stale runs in    *)
(* the transaction that inserts).                                             *)
THEOREM LedgerOneActiveSave == LedgerSpec => []OneActiveSave
BY LedgerInvariant, PTL DEF LedgerInv

(* While a spender of unknown price is active nobody else is (reserve).       *)
THEOREM LedgerExclusiveIsAlone == LedgerSpec => []ExclusiveIsAlone
BY LedgerInvariant, PTL DEF LedgerInv

(* Closed reservations stay closed and written terms are never rewritten.     *)
THEOREM LedgerClosedRowsStay == LedgerSpec => ClosedRowsStay
<1> DEFINE Stays == \A i \in Reservations :
       /\ rows[i].state \in {"released", "superseded"} => rows'[i] = rows[i]
       /\ rows[i].state = "active" =>
            /\ rows'[i].state # "absent"
            /\ rows'[i] = [rows[i] EXCEPT !.state = rows'[i].state]
<1>1. ASSUME LedgerTypeOK, [LedgerNext]_ledgerVars
      PROVE  [Stays]_ledgerVars
  <2>1. ASSUME NEW i \in Reservations, NEW s \in Saves, NEW c \in Costs \cup {NoCost},
               NEW x \in BOOLEAN,
               Reserve(i, s, c, x)
        PROVE  Stays
    BY <1>1, <2>1 DEF Reserve, Superseding, Inserted, MayInsert, IdUnused, LedgerTypeOK,
                      Row, States
  <2>2. ASSUME NEW i \in Reservations, Release(i)
        PROVE  Stays
    BY <1>1, <2>2 DEF Release, Releasing, LedgerTypeOK, Row, States
  <2> QED BY <1>1, <2>1, <2>2 DEF LedgerNext
<1> QED BY <1>1, LedgerTypeCorrect, PTL DEF LedgerSpec, ClosedRowsStay

-----------------------------------------------------------------------------
(* Sums over the ledger: what MapThenSumSet makes of a finite set of rows.   *)

\* The total price of a set of reservations in one resource.
Total(tab, S, r) == MapThenSumSet(LAMBDA i : tab[i].costs[r], S)

(* Among subsets of a finite set one contains no other: how a fact about     *)
(* every finite set is proved from a smallest counterexample.                *)
LEMMA SmallestSet ==
  ASSUME NEW T, IsFiniteSet(T), NEW B \in SUBSET (SUBSET T), B # {}
  PROVE  \E S \in B : \A U \in B : U \subseteq S => U = S
<1>1. IsWellFoundedOn(StrictSubsetOrdering(T), FiniteSubsetsOf(T))
  BY FS_StrictSubsetOrderingWellFounded
<1>2. B \subseteq FiniteSubsetsOf(T)
  BY FS_Subset DEF FiniteSubsetsOf
<1>3. PICK S \in B : \A U \in B : <<U, S>> \notin StrictSubsetOrdering(T)
  BY <1>1, <1>2, WFMin
<1> QED BY <1>3 DEF StrictSubsetOrdering

(* What MapThenSumSet computes: f gives the total of every subset of T.      *)
Some(S) == CHOOSE x \in S : TRUE
Totals(tab, r, T, f) ==
  f = [S \in SUBSET T |->
         IF S = {} THEN 0 ELSE tab[Some(S)].costs[r] + f[S \ {Some(S)}]]

(* The member a sum takes first.                                             *)
LEMMA SomeMember == ASSUME NEW S, S # {} PROVE Some(S) \in S
BY DEF Some

(* The recursion of a sum, unfolded once.                                    *)
LEMMA TotalsAt ==
  ASSUME NEW tab, NEW r, NEW T, NEW f, Totals(tab, r, T, f), NEW S \in SUBSET T
  PROVE  f[S] = IF S = {} THEN 0 ELSE tab[Some(S)].costs[r] + f[S \ {Some(S)}]
<1>1. f = [U \in SUBSET T |->
             IF U = {} THEN 0 ELSE tab[Some(U)].costs[r] + f[U \ {Some(U)}]]
  BY DEF Totals
<1>2. f[S] = [U \in SUBSET T |->
             IF U = {} THEN 0 ELSE tab[Some(U)].costs[r] + f[U \ {Some(U)}]][S]
  BY <1>1
<1> QED BY <1>2

(* The totals of two sets agree on what they share.                          *)
LEMMA TotalsAgree ==
  ASSUME NEW tab, NEW r, NEW T, NEW U, NEW f, NEW g,
         Totals(tab, r, T, f), Totals(tab, r, U, g),
         NEW S, IsFiniteSet(S), S \subseteq T, S \subseteq U
  PROVE  f[S] = g[S]
<1> DEFINE B == {V \in SUBSET S : f[V] # g[V]}
<1>1. ASSUME B # {}
      PROVE  FALSE
  <2>1. PICK V \in B : \A W \in B : W \subseteq V => W = V
    <3>1. B \in SUBSET (SUBSET S)
      OBVIOUS
    <3> HIDE DEF B
    <3> QED BY <1>1, <3>1, SmallestSet
  <2>2. V \in SUBSET S /\ f[V] # g[V]
    BY <2>1
  <2>3. V # {}
    <3>1. V \in SUBSET T /\ V \in SUBSET U
      BY <2>2
    <3>2. f[{}] = 0 /\ g[{}] = 0
      BY TotalsAt
    <3> QED BY <2>2, <3>2
  <2>4. Some(V) \in V
    BY <2>3, SomeMember
  <2>5. V \ {Some(V)} \notin B
    BY <2>1, <2>4
  <2>6. f[V \ {Some(V)}] = g[V \ {Some(V)}]
    BY <2>2, <2>5
  <2>7. f[V] = tab[Some(V)].costs[r] + f[V \ {Some(V)}]
    <3>1. V \in SUBSET T
      BY <2>2
    <3> HIDE DEF B
    <3>2. f[V] = IF V = {} THEN 0 ELSE tab[Some(V)].costs[r] + f[V \ {Some(V)}]
      BY ONLY Totals(tab, r, T, f), <3>1, TotalsAt
    <3> QED BY <2>3, <3>2
  <2>8. g[V] = tab[Some(V)].costs[r] + g[V \ {Some(V)}]
    <3>1. V \in SUBSET U
      BY <2>2
    <3> HIDE DEF B
    <3>2. g[V] = IF V = {} THEN 0 ELSE tab[Some(V)].costs[r] + g[V \ {Some(V)}]
      BY ONLY Totals(tab, r, U, g), <3>1, TotalsAt
    <3> QED BY <2>3, <3>2
  <2> QED BY <2>2, <2>6, <2>7, <2>8
<1> QED BY <1>1

(* A finite set has totals: MapThenSumSet is defined by them.                *)
LEMMA TotalsExist ==
  ASSUME NEW tab, NEW r, NEW T0, IsFiniteSet(T0)
  PROVE  \E f : Totals(tab, r, T0, f)
<1> DEFINE B == {T \in SUBSET T0 : ~\E f : Totals(tab, r, T, f)}
<1>1. ASSUME B # {}
      PROVE  FALSE
  <2>1. PICK T \in B : \A W \in B : W \subseteq T => W = T
    <3>1. B \in SUBSET (SUBSET T0)
      OBVIOUS
    <3> HIDE DEF B
    <3> QED BY <1>1, <3>1, SmallestSet
  <2>2. T \in SUBSET T0 /\ ~\E f : Totals(tab, r, T, f)
    BY <2>1
  <2> DEFINE h(U) == CHOOSE f : Totals(tab, r, U, f)
             Body(S, rest) == IF S = {} THEN 0 ELSE tab[Some(S)].costs[r] + rest
             f == [S \in SUBSET T |-> Body(S, h(S \ {Some(S)})[S \ {Some(S)}])]
  <2>3. \A U \in SUBSET T : U # T => Totals(tab, r, U, h(U))
    <3> SUFFICES ASSUME NEW U \in SUBSET T, U # T PROVE Totals(tab, r, U, h(U))
      OBVIOUS
    <3>1. U \notin B
      BY <2>1
    <3>2. \E k : Totals(tab, r, U, k)
      BY <2>2, <3>1
    <3> QED BY <3>2
  <2>4. \A S \in SUBSET T : f[S] = Body(S, f[S \ {Some(S)}])
    <3> SUFFICES ASSUME NEW S \in SUBSET T, S # {}
                 PROVE  f[S] = Body(S, f[S \ {Some(S)}])
      OBVIOUS
    <3> DEFINE U == S \ {Some(S)}
               V == U \ {Some(U)}
    <3>1. U \in SUBSET T /\ U # T /\ U # S
      BY SomeMember
    <3>2. f[U] = Body(U, h(V)[V])
      BY <3>1
    <3>3. Totals(tab, r, U, h(U))
      BY <2>3, <3>1
    <3>4. h(U)[U] = Body(U, h(U)[V])
      <4>1. U \in SUBSET U
        OBVIOUS
      <4> HIDE DEF h, U
      <4>2. h(U)[U] = IF U = {} THEN 0
                      ELSE tab[Some(U)].costs[r] + h(U)[U \ {Some(U)}]
        BY <3>3, <4>1, TotalsAt
      <4> QED BY <4>2
    <3>5. h(U)[V] = h(V)[V]
      <4>1. V \in SUBSET T /\ V # T
        BY <3>1
      <4>2. Totals(tab, r, V, h(V))
        BY <2>3, <4>1
      <4>3. IsFiniteSet(V)
        BY <2>2, <4>1, FS_Subset
      <4> HIDE DEF h, V
      <4>4. V \subseteq U /\ V \subseteq V
        BY DEF V
      <4> QED BY <3>3, <4>2, <4>3, <4>4, TotalsAgree
    <3>6. f[U] = h(U)[U]
      BY <3>2, <3>4, <3>5
    <3>7. f[S] = Body(S, h(U)[U])
      OBVIOUS
    <3> QED BY <3>6, <3>7
  <2>5. f = [S \in SUBSET T |-> Body(S, f[S \ {Some(S)}])]
    <3> DEFINE k == [S \in SUBSET T |-> Body(S, f[S \ {Some(S)}])]
    <3>1. \A S \in SUBSET T : f[S] = k[S]
      <4> SUFFICES ASSUME NEW S \in SUBSET T PROVE f[S] = k[S]
        OBVIOUS
      <4>1. f[S] = Body(S, f[S \ {Some(S)}])
        BY <2>4
      <4> HIDE DEF f, Body
      <4>2. k[S] = Body(S, f[S \ {Some(S)}])
        BY Zenon
      <4> QED BY <4>1, <4>2
    <3>2. f = [S \in SUBSET T |-> f[S]] /\ k = [S \in SUBSET T |-> k[S]]
      OBVIOUS
    <3> HIDE DEF f, k
    <3>3. f = k
      BY <3>1, <3>2
    <3> QED BY <3>3 DEF k
  <2>6. Totals(tab, r, T, f)
    <3> HIDE DEF f, h
    <3> QED BY <2>5 DEF Totals
  <2> HIDE DEF f
  <2> QED BY <2>2, <2>6
<1> QED BY <1>1

(* The total of nothing is zero, and any set can be counted from the member  *)
(* that is taken first.                                                      *)
LEMMA TotalStep ==
  ASSUME NEW tab, NEW r, NEW T, IsFiniteSet(T)
  PROVE  Total(tab, T, r) = IF T = {} THEN 0
                            ELSE tab[Some(T)].costs[r] + Total(tab, T \ {Some(T)}, r)
<1> DEFINE h(U) == CHOOSE f : Totals(tab, r, U, f)
<1>1. \A U : Total(tab, U, r) = h(U)[U]
  BY Zenon DEF Total, MapThenSumSet, MapThenFoldSet, Totals, Some
<1>2. Totals(tab, r, T, h(T))
  BY TotalsExist
<1> DEFINE U == T \ {Some(T)}
<1>3. IsFiniteSet(U) /\ U \subseteq T
  BY FS_RemoveElement
<1>4. Totals(tab, r, U, h(U))
  BY <1>3, TotalsExist
<1> HIDE DEF h
<1>5. T \in SUBSET T
  OBVIOUS
<1>6. h(T)[T] = IF T = {} THEN 0 ELSE tab[Some(T)].costs[r] + h(T)[U]
  BY <1>2, <1>5, TotalsAt
<1> HIDE DEF U
<1>7. h(T)[U] = h(U)[U]
  BY <1>2, <1>3, <1>4, TotalsAgree
<1>8. Total(tab, T, r) = IF T = {} THEN 0
                         ELSE tab[Some(T)].costs[r] + Total(tab, U, r)
  BY <1>1, <1>6, <1>7
<1> QED BY <1>8 DEF U

(* A price of a row is a natural number.                                     *)
LEMMA CostIsNat ==
  ASSUME NEW tab \in [Reservations -> Row], NEW i \in Reservations, NEW r \in Resources
  PROVE  tab[i].costs[r] \in Nat
<1>1. Costs \cup {NoCost} \subseteq [Resources -> Nat]
  BY LedgerAssumption DEF NoCost
<1> QED BY <1>1 DEF Row

(* A sum of prices is a number.                                              *)
LEMMA TotalIsNat ==
  ASSUME NEW tab \in [Reservations -> Row], NEW r \in Resources,
         NEW T \in SUBSET Reservations, IsFiniteSet(T)
  PROVE  Total(tab, T, r) \in Nat
<1> DEFINE B == {U \in SUBSET T : Total(tab, U, r) \notin Nat}
<1>1. ASSUME B # {}
      PROVE  FALSE
  <2>1. PICK U \in B : \A W \in B : W \subseteq U => W = U
    <3>1. B \in SUBSET (SUBSET T)
      OBVIOUS
    <3> HIDE DEF B
    <3> QED BY <1>1, <3>1, SmallestSet
  <2>2. U \in SUBSET T /\ Total(tab, U, r) \notin Nat /\ IsFiniteSet(U)
    BY <2>1, FS_Subset
  <2>3. Total(tab, U, r) = IF U = {} THEN 0
                           ELSE tab[Some(U)].costs[r] + Total(tab, U \ {Some(U)}, r)
    BY <2>2, TotalStep
  <2>4. U # {} /\ Some(U) \in U
    BY <2>2, <2>3, SomeMember
  <2>5. U \ {Some(U)} \notin B
    BY <2>1, <2>4
  <2>6. Total(tab, U \ {Some(U)}, r) \in Nat
    BY <2>2, <2>5
  <2>7. tab[Some(U)].costs[r] \in Nat
    BY <2>2, <2>4, CostIsNat
  <2> QED BY <2>2, <2>3, <2>4, <2>6, <2>7
<1> QED BY <1>1

(* One more reservation adds its price, whichever is counted first.          *)
LEMMA TotalAdd ==
  ASSUME NEW tab \in [Reservations -> Row], NEW r \in Resources,
         NEW T \in SUBSET Reservations, IsFiniteSet(T), NEW i \in Reservations \ T
  PROVE  Total(tab, T \cup {i}, r) = tab[i].costs[r] + Total(tab, T, r)
<1> DEFINE Adds(U, j) == Total(tab, U \cup {j}, r) = tab[j].costs[r] + Total(tab, U, r)
           B == {U \in SUBSET T : \E j \in Reservations \ U : ~Adds(U, j)}
<1>1. ASSUME B # {}
      PROVE  FALSE
  <2>1. PICK U \in B : \A W \in B : W \subseteq U => W = U
    <3>1. B \in SUBSET (SUBSET T)
      OBVIOUS
    <3> HIDE DEF B
    <3> QED BY <1>1, <3>1, SmallestSet
  <2>2. U \in SUBSET T /\ IsFiniteSet(U) /\ U \in SUBSET Reservations
    BY <2>1, FS_Subset
  <2>3. PICK j \in Reservations \ U : ~Adds(U, j)
    BY <2>1
  <2> DEFINE W == U \cup {j}
             c == Some(W)
             V == U \ {c}
  <2>4. IsFiniteSet(W) /\ c \in W
    <3>1. W # {} /\ IsFiniteSet(W)
      BY <2>2, FS_AddElement
    <3> HIDE DEF W
    <3> QED BY <3>1, SomeMember
  <2>5. Total(tab, W, r) = tab[c].costs[r] + Total(tab, W \ {c}, r)
    BY <2>4, TotalStep
  <2>6. CASE c = j
    <3>1. W \ {c} = U
      BY <2>3, <2>6
    <3> QED BY <2>3, <2>5, <2>6, <3>1
  <2>7. CASE c \in U
    <3>1. V \notin B
      BY <2>1, <2>7
    <3>2. V \in SUBSET T /\ V \in SUBSET Reservations /\ IsFiniteSet(V)
      BY <2>2, FS_Subset
    <3>3. Adds(V, j) /\ Adds(V, c)
      BY <2>2, <2>3, <2>7, <3>1, <3>2
    <3>4. W \ {c} = V \cup {j} /\ U = V \cup {c}
      BY <2>3, <2>7
    <3>5. /\ tab[c].costs[r] \in Nat /\ tab[j].costs[r] \in Nat
          /\ Total(tab, V, r) \in Nat
      BY <2>2, <2>3, <2>7, <3>2, CostIsNat, TotalIsNat
    <3> HIDE DEF c, V
    <3>6. /\ Total(tab, V \cup {j}, r) = tab[j].costs[r] + Total(tab, V, r)
          /\ Total(tab, V \cup {c}, r) = tab[c].costs[r] + Total(tab, V, r)
      BY <3>3
    <3>7. Total(tab, W, r) = tab[c].costs[r] + (tab[j].costs[r] + Total(tab, V, r))
      BY <2>5, <3>4, <3>6
    <3>8. Total(tab, U, r) = tab[c].costs[r] + Total(tab, V, r)
      BY <3>4, <3>6
    <3>9. Total(tab, W, r) = tab[j].costs[r] + Total(tab, U, r)
      BY <3>5, <3>7, <3>8
    <3> QED BY <2>3, <3>9
  <2> QED BY <2>4, <2>6, <2>7
<1>2. T \notin B
  BY <1>1
<1>3. Adds(T, i)
  BY <1>2
<1> QED BY <1>3

(* Fewer reservations never cost more.                                       *)
LEMMA TotalMonotone ==
  ASSUME NEW tab \in [Reservations -> Row], NEW r \in Resources,
         NEW T \in SUBSET Reservations, IsFiniteSet(T), NEW S \in SUBSET T
  PROVE  Total(tab, S, r) <= Total(tab, T, r)
<1> DEFINE B == {U \in SUBSET T : S \subseteq U /\ ~(Total(tab, S, r) <= Total(tab, U, r))}
<1>1. ASSUME B # {}
      PROVE  FALSE
  <2>1. PICK U \in B : \A W \in B : W \subseteq U => W = U
    <3>1. B \in SUBSET (SUBSET T)
      OBVIOUS
    <3> HIDE DEF B
    <3> QED BY <1>1, <3>1, SmallestSet
  <2>2. /\ U \in SUBSET Reservations /\ IsFiniteSet(U) /\ IsFiniteSet(S)
        /\ U \subseteq T /\ S \subseteq U /\ ~(Total(tab, S, r) <= Total(tab, U, r))
    BY <2>1, FS_Subset
  <2>3. Total(tab, U, r) \in Nat /\ Total(tab, S, r) \in Nat
    BY <2>2, TotalIsNat
  <2>4. U # S
    BY <2>2, <2>3
  <2>5. PICK i \in U : i \notin S
    BY <2>2, <2>4
  <2> DEFINE V == U \ {i}
  <2>6. V \in SUBSET Reservations /\ IsFiniteSet(V) /\ V \cup {i} = U /\ V \notin B
    BY <2>1, <2>2, <2>5, FS_Subset
  <2>7. Total(tab, S, r) <= Total(tab, V, r)
    BY <2>2, <2>5, <2>6
  <2> HIDE DEF V
  <2>8. Total(tab, U, r) = tab[i].costs[r] + Total(tab, V, r)
    <3>1. i \in Reservations \ V
      BY <2>2, <2>5 DEF V
    <3> QED BY <2>6, <3>1, TotalAdd
  <2>9. tab[i].costs[r] \in Nat /\ Total(tab, V, r) \in Nat
    BY <2>2, <2>5, <2>6, CostIsNat, TotalIsNat
  <2> QED BY <2>2, <2>3, <2>7, <2>8, <2>9
<1>2. T \notin B
  BY <1>1
<1> QED BY <1>2

(* The total depends on the prices alone.                                    *)
LEMMA TotalSame ==
  ASSUME NEW tab, NEW new, NEW r, NEW T, IsFiniteSet(T),
         \A i \in T : new[i].costs = tab[i].costs
  PROVE  Total(new, T, r) = Total(tab, T, r)
<1> DEFINE B == {U \in SUBSET T : Total(new, U, r) # Total(tab, U, r)}
<1>1. ASSUME B # {}
      PROVE  FALSE
  <2>1. PICK U \in B : \A W \in B : W \subseteq U => W = U
    <3>1. B \in SUBSET (SUBSET T)
      OBVIOUS
    <3> HIDE DEF B
    <3> QED BY <1>1, <3>1, SmallestSet
  <2>2. U \in SUBSET T /\ IsFiniteSet(U) /\ Total(new, U, r) # Total(tab, U, r)
    BY <2>1, FS_Subset
  <2>3. /\ Total(tab, U, r) = IF U = {} THEN 0
                              ELSE tab[Some(U)].costs[r] + Total(tab, U \ {Some(U)}, r)
        /\ Total(new, U, r) = IF U = {} THEN 0
                              ELSE new[Some(U)].costs[r] + Total(new, U \ {Some(U)}, r)
    BY <2>2, TotalStep
  <2>4. U # {} /\ Some(U) \in U
    BY <2>2, <2>3, SomeMember
  <2>5. U \ {Some(U)} \notin B
    BY <2>1, <2>4
  <2>6. Total(new, U \ {Some(U)}, r) = Total(tab, U \ {Some(U)}, r)
    BY <2>2, <2>5
  <2>7. new[Some(U)].costs = tab[Some(U)].costs
    BY <2>2, <2>4
  <2> QED BY <2>2, <2>3, <2>4, <2>6, <2>7
<1> QED BY <1>1

-----------------------------------------------------------------------------
(* What the two transactions do to the totals.                               *)

IsHeld(i, s) == rows[i].state = "active" /\ rows[i].save = s

\* The reservations that have counted for save s and were not given back.
Counted(tab, s) ==
  {i \in Reservations : tab[i].state \in {"active", "superseded"} /\ tab[i].save = s}

(* No save is ever overspent, by the reservations that no longer count too.  *)
WithinStock ==
  /\ IsFiniteSet({i \in Reservations : rows[i].state # "absent"})
  /\ \A s \in Saves, r \in Resources : Total(rows, Counted(rows, s), r) <= Stock[s][r]

(* A reservation that succeeds holds its row; the others of its save stay,   *)
(* those of other saves are superseded, and no terms change.                 *)
LEMMA ReserveEffect ==
  ASSUME LedgerTypeOK, NEW i \in Reservations, NEW s \in Saves,
         NEW c \in Costs \cup {NoCost}, NEW x \in BOOLEAN, Reserve(i, s, c, x)
  PROVE  /\ rows' \in [Reservations -> Row]
         /\ IsHeld(i, s)'
         /\ rows[i].state = "absent" \/ IsHeld(i, s)
         /\ \A j \in Reservations \ {i} :
              /\ rows'[j].save = rows[j].save /\ rows'[j].costs = rows[j].costs
              /\ rows'[j].state = IF rows[j].state = "active" /\ rows[j].save # s
                                  THEN "superseded" ELSE rows[j].state
<1> DEFINE tab == Superseding(rows, s)
<1>1. tab \in [Reservations -> Row]
  BY SupersedingType
<1>2. \A j \in Reservations :
        /\ tab[j].save = rows[j].save /\ tab[j].costs = rows[j].costs
        /\ tab[j].state = IF rows[j].state = "active" /\ rows[j].save # s
                          THEN "superseded" ELSE rows[j].state
  BY DEF LedgerTypeOK, Superseding, Row, States
<1> HIDE DEF tab
<1>3. CASE AlreadyHeld(rows, i, s) /\ rows' = tab
  BY <1>1, <1>2, <1>3 DEF AlreadyHeld, IsHeld
<1>4. CASE MayInsert(tab, i, s, c, x) /\ rows' = Inserted(tab, i, s, c, x)
  <2>1. [state |-> "active", save |-> s, costs |-> c, exclusive |-> x] \in Row
    BY DEF Row, States
  <2>2. rows' \in [Reservations -> Row]
    BY <1>1, <1>4, <2>1 DEF Inserted
  <2>3. IsHeld(i, s)' /\ \A j \in Reservations \ {i} : rows'[j] = tab[j]
    BY <1>1, <1>4 DEF Inserted, IsHeld
  <2>4. tab[i].state = "absent"
    BY <1>4 DEF MayInsert, IdUnused
  <2> QED BY <1>2, <2>2, <2>3, <2>4
<1> QED BY <1>3, <1>4 DEF Reserve, tab

(* Releasing changes the state of one active row.                            *)
LEMMA ReleaseEffect ==
  ASSUME LedgerTypeOK, NEW i \in Reservations, Release(i)
  PROVE  /\ rows' \in [Reservations -> Row]
         /\ \A j \in Reservations : /\ rows'[j].save = rows[j].save
                                    /\ rows'[j].costs = rows[j].costs
                                    /\ j # i => rows'[j].state = rows[j].state
         /\ rows'[i].state = IF rows[i].state = "active" THEN "released"
                             ELSE rows[i].state
BY DEF LedgerTypeOK, Release, Releasing, Row, States

(* What a caller of reserve asks for is taken from what no earlier           *)
(* reservation of that save has taken, provided none was superseded.         *)
LEMMA ReserveWithin ==
  ASSUME LedgerTypeOK, WithinStock, NEW i \in Reservations, NEW s \in Saves,
         NEW c \in Costs \cup {NoCost}, NEW x \in BOOLEAN, Reserve(i, s, c, x),
         \A j \in Reservations : rows[j].state = "superseded" => rows[j].save # s
  PROVE  WithinStock'
<1> DEFINE tab == Superseding(rows, s)
           Written(w) == {j \in Reservations : w[j].state # "absent"}
<1>1. /\ tab \in [Reservations -> Row] /\ rows \in [Reservations -> Row]
      /\ rows' \in [Reservations -> Row]
  BY SupersedingType, ReserveEffect DEF LedgerTypeOK
<1>2. \A j \in Reservations :
        /\ tab[j].save = rows[j].save /\ tab[j].costs = rows[j].costs
        /\ tab[j].state = IF rows[j].state = "active" /\ rows[j].save # s
                          THEN "superseded" ELSE rows[j].state
  BY DEF LedgerTypeOK, Superseding, Row, States
<1>3. Written(tab) = Written(rows) /\ IsFiniteSet(Written(rows))
  BY <1>2 DEF WithinStock
<1>4. \A q \in Saves : /\ Counted(tab, q) = Counted(rows, q)
                       /\ Counted(tab, q) \subseteq Written(tab)
  BY <1>2 DEF Counted
<1>5. \A q \in Saves : IsFiniteSet(Counted(tab, q))
  BY <1>3, <1>4, FS_Subset
<1>6. \A q \in Saves, r \in Resources : Total(tab, Counted(tab, q), r) <= Stock[q][r]
  <2> SUFFICES ASSUME NEW q \in Saves, NEW r \in Resources
               PROVE  Total(tab, Counted(tab, q), r) <= Stock[q][r]
    OBVIOUS
  <2>1. \A j \in Counted(tab, q) : tab[j].costs = rows[j].costs
    BY <1>2 DEF Counted
  <2>2. Total(tab, Counted(tab, q), r) = Total(rows, Counted(tab, q), r)
    BY <1>5, <2>1, TotalSame
  <2> QED BY <1>4, <2>2 DEF WithinStock
<1>7. CASE rows' = tab
  BY <1>3, <1>6, <1>7 DEF WithinStock
<1>8. CASE MayInsert(tab, i, s, c, x) /\ rows' = Inserted(tab, i, s, c, x)
  <2>1. /\ \A j \in Reservations \ {i} : rows'[j] = tab[j]
        /\ rows'[i].state = "active" /\ rows'[i].save = s /\ rows'[i].costs = c
    BY <1>1, <1>8 DEF Inserted
  <2>2. tab[i].state = "absent"
    BY <1>8 DEF MayInsert, IdUnused
  <2> HIDE DEF tab
  <2>3. IsFiniteSet(Written(rows'))
    <3>1. Written(rows') \subseteq Written(rows) \cup {i}
      BY <1>3, <2>1
    <3>2. IsFiniteSet(Written(rows) \cup {i})
      BY <1>3, FS_AddElement
    <3> QED BY <3>1, <3>2, FS_Subset
  <2>4. ASSUME NEW q \in Saves, NEW r \in Resources
        PROVE  Total(rows', Counted(rows', q), r) <= Stock[q][r]
    <3> DEFINE C == Counted(tab, q)
    <3>1. C \in SUBSET Reservations /\ IsFiniteSet(C) /\ i \notin C
      BY <1>5, <2>2 DEF Counted
    <3>2. \A j \in C : rows'[j].costs = tab[j].costs
      BY <2>1, <3>1
    <3>3. Total(rows', C, r) = Total(tab, C, r)
      <4> HIDE DEF C
      <4> QED BY <3>1, <3>2, TotalSame
    <3>4. CASE q # s
      <4>1. Counted(rows', q) = C
        BY <2>1, <2>2, <3>4 DEF Counted
      <4> QED BY <1>6, <3>3, <4>1
    <3>5. CASE q = s
      <4>1. Counted(rows', q) = C \cup {i}
        BY <2>1, <3>5 DEF Counted
      <4>2. C = ActiveIn(tab, s)
        BY <1>2, <3>5 DEF Counted, ActiveIn
      <4>3. Total(tab, C, r) = Reserved(tab, s, r)
        BY <4>2 DEF Total, Reserved
      <4>4. Total(tab, C, r) \in Nat /\ c[r] \in Nat /\ Stock[s][r] \in Nat
        <5>1. Total(tab, C, r) \in Nat
          BY <1>1, <3>1, TotalIsNat
        <5>2. c[r] \in Nat
          BY <1>1, <2>1, CostIsNat
        <5> QED BY <5>1, <5>2, LedgerAssumption
      <4>5. Total(rows', C \cup {i}, r) = c[r] + Total(tab, C, r)
        <5> HIDE DEF C
        <5>1. Total(rows', C \cup {i}, r) = rows'[i].costs[r] + Total(rows', C, r)
          BY <1>1, <3>1, TotalAdd
        <5> QED BY <2>1, <3>3, <5>1
      <4>6. c[r] > 0 => c[r] <= Available(tab, s, r)
        BY <1>8 DEF MayInsert, tab
      <4>7. c[r] + Total(tab, C, r) <= Stock[s][r]
        <5>1. Total(tab, C, r) <= Stock[s][r]
          BY <1>6, <3>5
        <5>2. CASE c[r] > 0
          BY <4>3, <4>4, <4>6, <5>2 DEF Available
        <5> QED BY <4>4, <5>1, <5>2
      <4> QED BY <3>5, <4>1, <4>5, <4>7
    <3> QED BY <3>4, <3>5
  <2> QED BY <2>3, <2>4 DEF WithinStock
<1> QED BY <1>7, <1>8 DEF Reserve

(* A release only takes away.                                                *)
LEMMA ReleaseWithin ==
  ASSUME LedgerTypeOK, WithinStock, NEW i \in Reservations, Release(i)
  PROVE  WithinStock'
<1> DEFINE Written(w) == {j \in Reservations : w[j].state # "absent"}
<1>1. /\ rows' \in [Reservations -> Row] /\ rows \in [Reservations -> Row]
      /\ \A j \in Reservations : /\ rows'[j].save = rows[j].save
                                 /\ rows'[j].costs = rows[j].costs
      /\ \A j \in Reservations : /\ rows[j].state = "absent" => rows'[j].state = "absent"
                                 /\ rows'[j].state \in {"active", "superseded"}
                                    => rows[j].state \in {"active", "superseded"}
  BY ReleaseEffect DEF LedgerTypeOK
<1>2. Written(rows') \subseteq Written(rows) /\ IsFiniteSet(Written(rows))
  BY <1>1 DEF WithinStock
<1>3. ASSUME NEW q \in Saves, NEW r \in Resources
      PROVE  Total(rows', Counted(rows', q), r) <= Stock[q][r]
  <2> DEFINE C == Counted(rows, q)
             D == Counted(rows', q)
  <2>1. /\ D \in SUBSET C /\ C \in SUBSET Reservations /\ D \in SUBSET Reservations
        /\ C \in SUBSET Written(rows)
    BY <1>1 DEF Counted
  <2>2. IsFiniteSet(C) /\ IsFiniteSet(D)
    BY <1>2, <2>1, FS_Subset
  <2>3. Total(rows, C, r) <= Stock[q][r]
    BY DEF WithinStock
  <2> HIDE DEF C, D
  <2>4. Total(rows', D, r) = Total(rows, D, r)
    <3>1. \A j \in D : rows'[j].costs = rows[j].costs
      BY <1>1, <2>1
    <3> QED BY <2>2, <3>1, TotalSame
  <2>5. Total(rows, D, r) <= Total(rows, C, r)
    BY <1>1, <2>1, <2>2, TotalMonotone
  <2>6. Total(rows, D, r) \in Nat /\ Total(rows, C, r) \in Nat /\ Stock[q][r] \in Nat
    BY <1>1, <2>1, <2>2, TotalIsNat, LedgerAssumption
  <2>7. Total(rows', D, r) <= Stock[q][r]
    BY <2>3, <2>4, <2>5, <2>6
  <2> QED BY <2>7 DEF D
<1>4. IsFiniteSet(Written(rows'))
  BY <1>2, FS_Subset
<1> QED BY <1>3, <1>4 DEF WithinStock

-----------------------------------------------------------------------------
(* The agents: the inductive invariant.                                      *)
USE DEF world, history, vars

EcoStates == {"off", "load", "carry", "idle", "waiting", "reserved", "again", "sent"}
FleetStates == {"off", "idle", "waiting", "checked", "sent"}
PendingSet ==
  [run: Runs, target: Targets, save: Saves, seen: Saves, saves: Saves, base: Nat]

EcoSet ==
  [pc: EcoStates, pin: Saves, policy: Policies, todo: SUBSET PendingSet,
   want: Targets \cup {"execute", "noop", "none"}, run: 0..RunLimit,
   target: Targets \cup {"none"}, retry: BOOLEAN, blocked: BOOLEAN, submitted: Nat,
   virt: [Targets -> Nat], noop: BOOLEAN]

FleetSet ==
  [pc: FleetStates, pin: Saves, want: FleetOrders \cup {"execute", "none"},
   run: 0..RunLimit, action: FleetOrders \cup {"none"}, steps: Nat]

(* Every field holds what the code stores in it.                             *)
SpendingTypeOK ==
  /\ LedgerTypeOK
  /\ written \in Saves /\ 1..written \subseteq Saves /\ head \in Saves
  /\ game \in [Targets -> Nat] /\ shown \in [Saves -> [Targets -> Nat]]
  /\ runs \in 0..RunLimit /\ lock \in {"none", "economy", "fleet"}
  /\ eco \in EcoSet /\ fleet \in FleetSet
  /\ pending \in SUBSET PendingSet /\ IsFiniteSet(pending)
  /\ kept \in SUBSET Reservations

(* The execution lock is held exactly while a turn reserves and sends.       *)
Locked ==
  /\ lock = "economy" <=> eco.pc \in {"reserved", "again", "sent"}
  /\ lock = "fleet" <=> fleet.pc \in {"checked", "sent"}

(* A prepared run names a target; a toolbox that is loading has none, and    *)
(* one that may still be prepared anew leaves an identifier for it.          *)
Prepared ==
  /\ eco.pc \in {"off", "load", "carry"} => eco.run = 0
  /\ eco.pc \in {"reserved", "again", "sent"} => eco.run # 0
  /\ eco.run # 0 => eco.target \in Targets
  /\ eco.pc \in {"idle", "waiting"} /\ eco.run # 0 /\ ~eco.blocked => runs < RunLimit
  /\ eco.pc = "reserved" /\ ~eco.retry => runs < RunLimit
  /\ fleet.pc = "off" => fleet.run = 0
  /\ fleet.pc \in {"checked", "sent"} => fleet.run # 0

(* Run identifiers are handed out once: what is reserved under the current   *)
(* one was not reported before.                                              *)
RunsAreNew ==
  /\ eco.run <= runs /\ fleet.run <= runs
  /\ \A p \in pending \cup eco.todo : p.run <= runs
  /\ \A r \in Runs :
       /\ FleetId(r) \in kept => r <= runs /\ r # fleet.run
       /\ \A s \in Saves : EcoId(r, s) \in kept => r <= runs /\ r # eco.run

\* No reservation is for a save after b, and none for b itself was superseded.
Before(b) ==
  \A i \in Reservations : /\ rows[i].state # "absent" => rows[i].save <= b
                          /\ rows[i].state = "superseded" => rows[i].save < b

(* Both turns of a round plan from one save, the newest when it started.     *)
Pinned ==
  /\ head <= written /\ Before(head)
  /\ eco.pc # "off" => eco.pin <= head /\ Before(eco.pin)
  /\ fleet.pc # "off" => fleet.pin <= head /\ Before(fleet.pin)
  /\ eco.pc # "off" /\ fleet.pc # "off" => fleet.pin = eco.pin

(* What is about to be sent, or was, is reserved.                            *)
Sending ==
  /\ eco.pc \in {"reserved", "sent"} /\ HasPrice => IsHeld(EcoReservation, eco.pin)
  /\ fleet.pc = "sent" /\ Spends(fleet.action) => IsHeld(FleetId(fleet.run), fleet.pin)

(* What was reported done counts for its save for ever.                      *)
KeptCounts == \A i \in kept : rows[i].state \in {"active", "superseded"}

(* A save shows what the game had when it was written, and a construction    *)
(* that was carried out is in every save later than its command.             *)
Shown ==
  /\ \A s \in Saves, t \in Targets : s <= written => shown[s][t] <= game[t]
  /\ \A r, s \in Saves, t \in Targets : r <= s /\ s <= written => shown[r][t] <= shown[s][t]
  /\ eco.run # 0 =>
       /\ eco.virt[eco.target] = 0
       /\ eco.run \in landed => shown[eco.pin][eco.target] < game[eco.target]
  /\ \A p \in pending :
       /\ p.run # eco.run
       /\ p.run \in landed =>
            /\ p.base < game[p.target]
            /\ \A s \in Saves : p.saves < s /\ s <= written => p.base < shown[s][p.target]

(* What a save has settled is settled: no later command has its identifier.  *)
Settled ==
  /\ \A r \in landed : r \in Runs /\ r <= runs
  /\ \A v \in verdicts : /\ v[1] \in Runs /\ v[1] <= runs /\ v[1] # eco.run
                         /\ v[3] = "rejected_by_save" /\ ~v[4] => v[1] \notin landed

SpendingInv ==
  /\ SpendingTypeOK /\ Locked /\ Prepared /\ RunsAreNew /\ Pinned /\ Sending
  /\ KeptCounts /\ WithinStock /\ Shown /\ Settled

-----------------------------------------------------------------------------
(* How a step uses the ledger.                                               *)

(* A pending construction of least run identifier exists.                    *)
LEMMA LowestIsMember ==
  ASSUME NEW S \in SUBSET PendingSet, S # {}
  PROVE  Lowest(S) \in S
<1> DEFINE R == {p.run : p \in S}
<1>1. R \subseteq Nat /\ R # {}
  BY SpendingAssumption DEF PendingSet, Runs
<1>2. PICK n \in R : \A m \in R : <<m, n>> \notin OpToRel(<, Nat)
  <2> HIDE DEF R
  <2> QED BY <1>1, NatLessThanWellFounded, WFMin
<1>3. PICK p \in S : p.run = n
  BY <1>2
<1>4. \A q \in S : p.run <= q.run
  <2> SUFFICES ASSUME NEW q \in S PROVE n <= q.run
    BY <1>3
  <2>1. q.run \in R /\ q.run \in Nat /\ n \in Nat
    BY <1>1
  <2>2. ~(q.run < n)
    BY <1>2, <2>1 DEF OpToRel
  <2> QED BY <2>1, <2>2
<1>5. \E k \in S : \A q \in S : k.run <= q.run
  BY <1>4
<1> QED BY <1>5 DEF Lowest

(* The identifiers both agents make are identifiers of the table.            *)
LEMMA Identifiers ==
  /\ \A r \in Runs : FleetId(r) \in Reservations
  /\ \A r \in Runs, s \in Saves : EcoId(r, s) \in Reservations
  /\ \A r \in Runs, q \in Runs, s \in Saves : EcoId(r, s) # FleetId(q)
  /\ \A r \in Runs, q \in Runs : FleetId(r) = FleetId(q) => r = q
  /\ \A r \in Runs, q \in Runs, s \in Saves, t \in Saves :
       EcoId(r, s) = EcoId(q, t) => r = q /\ s = t
  /\ \A r \in 1..RunLimit : r \in Runs
BY SpendingAssumption DEF EcoId, FleetId, Runs

\* What a step may do to the table: a reservation for the save its turn has
\* pinned, or the release of one nobody was told of.
TableStep ==
  \/ UNCHANGED rows
  \/ \E i \in Reservations, s \in Saves, c \in Costs \cup {NoCost}, x \in BOOLEAN :
       /\ Reserve(i, s, c, x)
       /\ (eco.pc # "off" /\ s = eco.pin) \/ (fleet.pc # "off" /\ s = fleet.pin)
  \/ \E i \in Reservations \ kept : Release(i)

(* Every step of the agents is a step of the ledger, or none.                *)
LEMMA AgentsUseLedger ==
  ASSUME SpendingInv, [SpendingNext]_vars
  PROVE  TableStep
<1>a. /\ SpendingTypeOK /\ Prepared /\ RunsAreNew /\ Locked
  BY DEF SpendingInv
<1>b. eco.run \in 0..RunLimit /\ eco.pin \in Saves /\ fleet.run \in 0..RunLimit
      /\ fleet.pin \in Saves /\ eco.target \in Targets \cup {"none"}
  BY <1>a DEF SpendingTypeOK, EcoSet, FleetSet
<1>c. ASSUME eco.run # 0
      PROVE  EcoReservation \in Reservations \ kept
  <2>1. eco.run \in Runs
    BY <1>b, <1>c, SpendingAssumption DEF Runs
  <2>2. EcoId(eco.run, eco.pin) \notin kept
    BY <1>a, <1>b, <2>1 DEF RunsAreNew
  <2> QED BY <1>b, <2>1, <2>2, Identifiers DEF EcoReservation
<1>d. ASSUME fleet.run # 0
      PROVE  FleetId(fleet.run) \in Reservations \ kept
  <2>1. fleet.run \in Runs
    BY <1>b, <1>d, SpendingAssumption DEF Runs
  <2>2. FleetId(fleet.run) \notin kept
    BY <1>a, <2>1 DEF RunsAreNew
  <2> QED BY <2>1, <2>2, Identifiers
<1>1. CASE GameSaves
  BY <1>1, <1>a DEF GameSaves, TableStep
<1>27. CASE SaveArrives
  BY <1>27, <1>a DEF SaveArrives, TableStep
<1>2. CASE PlayerSetsPermissions
  BY <1>2, <1>a DEF PlayerSetsPermissions, TableStep
<1>3. ASSUME NEW apps \in {{"economy"}, {"fleet"}, {"economy", "fleet"}},
             NEW policy \in Policies, StartRound(apps, policy)
      PROVE  TableStep
  BY <1>3, <1>a DEF StartRound, TableStep
<1>4. CASE EcoReconcile
  BY <1>4, <1>a DEF EcoReconcile, TableStep
<1>5. CASE EcoCarry
  <2> DEFINE p == Lowest(eco.todo)
  <2>1. p \in PendingSet
    BY <1>a, <1>5, LowestIsMember DEF EcoCarry, SpendingTypeOK, EcoSet
  <2>2. EcoId(p.run, eco.pin) \in Reservations /\ Price[p.target] \in Costs \cup {NoCost}
    <3> HIDE DEF p
    <3>1. p.run \in Runs /\ p.target \in Targets
      BY <2>1 DEF PendingSet
    <3>2. EcoId(p.run, eco.pin) \in Reservations
      BY <1>b, <3>1, Identifiers
    <3>3. Price[p.target] \in Costs \cup {NoCost}
      BY <3>1, SpendingAssumption
    <3> QED BY <3>2, <3>3
  <2>3. CASE Reserve(EcoId(p.run, eco.pin), eco.pin, Price[p.target], FALSE)
    BY <1>b, <1>5, <2>2, <2>3 DEF TableStep, EcoCarry
  <2> QED BY <1>5, <2>3 DEF TableStep, EcoCarry
<1>6. CASE EcoLoaded
  BY <1>6, <1>a DEF EcoLoaded, TableStep
<1>7. CASE EcoCall
  BY <1>7, <1>a DEF EcoCall, TableStep
<1>8. ASSUME NEW t \in Targets, EcoPrepare(t)
      PROVE  TableStep
  BY <1>8, <1>a DEF EcoPrepare, TableStep
<1>9. CASE EcoNoop
  BY <1>9, <1>a DEF EcoNoop, TableStep
<1>10. CASE EcoRefuse
  BY <1>10, <1>a DEF EcoRefuse, TableStep
<1>11. CASE EcoReserve
  <2>1. eco.run # 0 /\ eco.pc # "off"
    BY <1>a, <1>11 DEF EcoReserve, Prepared, EcoMayExecute
  <2>2. EcoReservation \in Reservations /\ Price[eco.target] \in Costs \cup {NoCost}
    BY <1>a, <1>c, <2>1, SpendingAssumption DEF Prepared
  <2>3. CASE Reserve(EcoReservation, eco.pin, Price[eco.target], FALSE)
    BY <1>b, <2>1, <2>2, <2>3 DEF TableStep
  <2> QED BY <1>11, <2>3 DEF TableStep, EcoReserve
<1>12. CASE EcoSend
  BY <1>12, <1>a DEF EcoSend, TableStep
<1>13. CASE EcoRefresh
  <2>1. eco.run # 0
    BY <1>a, <1>13 DEF EcoRefresh, Prepared
  <2>2. rows' = rows \/ rows' = Releasing(rows, EcoReservation)
    BY <1>13 DEF EcoRefresh, EcoReleasing
  <2> QED BY <1>c, <2>1, <2>2 DEF TableStep, Release
<1>14. CASE EcoGivesUp
  <2>1. eco.run # 0
    BY <1>a, <1>14 DEF EcoGivesUp, Prepared
  <2>2. rows' = rows \/ rows' = Releasing(rows, EcoReservation)
    BY <1>14 DEF EcoGivesUp, EcoReleasing
  <2> QED BY <1>c, <2>1, <2>2 DEF TableStep, Release
<1>15. CASE EcoLand
  BY <1>15, <1>a DEF EcoLand, TableStep
<1>16. ASSUME NEW result \in {"confirmed_by_packet", "pending_save_confirmation", "failed"},
              EcoAnswer(result)
       PROVE  TableStep
  <2>1. eco.run # 0
    BY <1>a, <1>16 DEF EcoAnswer, Prepared
  <2>2. rows' = rows \/ rows' = Releasing(rows, EcoReservation)
    BY <1>16 DEF EcoAnswer, EcoReleasing
  <2> QED BY <1>c, <2>1, <2>2 DEF TableStep, Release
<1>17. CASE EcoEnd
  BY <1>17, <1>a DEF EcoEnd, TableStep
<1>18. CASE FleetCall
  BY <1>18, <1>a DEF FleetCall, TableStep
<1>19. ASSUME NEW a \in FleetOrders, FleetPrepare(a)
       PROVE  TableStep
  BY <1>19, <1>a DEF FleetPrepare, TableStep
<1>20. CASE FleetRefuse
  BY <1>20, <1>a DEF FleetRefuse, TableStep
<1>28. CASE FleetCheck
  BY <1>28, <1>a DEF FleetCheck, TableStep
<1>21. CASE FleetSend
  <2>1. fleet.run # 0 /\ fleet.pc # "off"
    BY <1>a, <1>21 DEF FleetSend, Prepared
  <2>2. /\ FleetId(fleet.run) \in Reservations
        /\ CostOf(fleet.action) \in Costs \cup {NoCost} /\ Exclusive(fleet.action) \in BOOLEAN
    BY <1>d, <2>1, SpendingAssumption DEF CostOf, Exclusive
  <2>3. CASE FleetReserves
    BY <1>b, <2>1, <2>2, <2>3 DEF TableStep, FleetReserves
  <2> QED BY <1>21, <2>3 DEF TableStep, FleetSend
<1>22. CASE FleetStep
  BY <1>22, <1>a DEF FleetStep, TableStep
<1>23. CASE FleetAnswer
  <2>1. fleet.run # 0
    BY <1>a, <1>23 DEF FleetAnswer, Prepared
  <2>2. rows' = rows \/ rows' = Releasing(rows, FleetId(fleet.run))
    BY <1>23 DEF FleetAnswer, FleetReleasing
  <2> QED BY <1>d, <2>1, <2>2 DEF TableStep, Release
<1>24. CASE FleetFails
  <2>1. fleet.run # 0
    BY <1>a, <1>24 DEF FleetFails, Prepared
  <2>2. rows' = rows \/ rows' = Releasing(rows, FleetId(fleet.run))
    BY <1>24 DEF FleetFails, FleetReleasing
  <2> QED BY <1>d, <2>1, <2>2 DEF TableStep, Release
<1>25. CASE FleetEnd
  BY <1>25, <1>a DEF FleetEnd, TableStep
<1>26. CASE UNCHANGED vars
  BY <1>26, <1>a DEF TableStep
<1> QED
  BY <1>1, <1>2, <1>3, <1>4, <1>5, <1>6, <1>7, <1>8, <1>9, <1>10, <1>11, <1>12, <1>13,
     <1>14, <1>15, <1>16, <1>17, <1>18, <1>19, <1>20, <1>21, <1>22, <1>23, <1>24,
     <1>25, <1>26, <1>27, <1>28
    DEF SpendingNext, EcoNext, FleetNext

(* The agents only ever make steps the ledger allows.                        *)
LEMMA AgentsLedgerStep ==
  ASSUME SpendingInv, [SpendingNext]_vars
  PROVE  [LedgerNext]_ledgerVars
BY AgentsUseLedger DEF TableStep, LedgerNext

-----------------------------------------------------------------------------
(* The invariant, conjunct by conjunct.                                      *)

(* What is waiting for a save stays finite, and counts as a number.          *)
LEMMA Occupied ==
  ASSUME NEW S, IsFiniteSet(S), NEW t
  PROVE  Cardinality({p \in S : p.target = t}) \in Nat
<1>1. IsFiniteSet({p \in S : p.target = t})
  BY FS_Subset
<1> QED BY <1>1, FS_CardinalityType

(* Every action stores values of the right kind.                             *)
LEMMA TypeStep ==
  ASSUME SpendingInv, [SpendingNext]_vars
  PROVE  SpendingTypeOK'
<1>a. /\ SpendingTypeOK /\ Prepared /\ RunsAreNew /\ LedgerTypeOK
      /\ RunLimit \in Nat /\ 1 \in Saves /\ Saves \subseteq Nat
  BY SpendingAssumption DEF SpendingInv, SpendingTypeOK
<1>b. LedgerTypeOK'
  BY <1>a, AgentsLedgerStep, LedgerTypeStep
<1>1. CASE GameSaves
  BY <1>1, <1>a, <1>b DEF GameSaves, SpendingTypeOK
<1>27. CASE SaveArrives
  BY <1>27, <1>a, <1>b DEF SaveArrives, SpendingTypeOK
<1>2. CASE PlayerSetsPermissions
  BY <1>2, <1>a, <1>b DEF PlayerSetsPermissions, SpendingTypeOK
<1>3. ASSUME NEW apps \in {{"economy"}, {"fleet"}, {"economy", "fleet"}},
             NEW policy \in Policies, StartRound(apps, policy)
      PROVE  SpendingTypeOK'
  <2>1. EcoOff \in EcoSet /\ FleetOff \in FleetSet
    BY <1>a, SpendingAssumption
       DEF EcoOff, NoVirtual, EcoSet, EcoStates, FleetOff, FleetSet, FleetStates
  <2>2. eco' = EcoOff \/ eco' = [EcoOff EXCEPT !.pc = "load", !.pin = head, !.policy = policy]
    BY <1>3 DEF StartRound
  <2>3. fleet' = FleetOff \/ fleet' = [FleetOff EXCEPT !.pc = "idle", !.pin = head]
    BY <1>3 DEF StartRound
  <2>4. head \in Saves /\ policy \in Policies
    BY <1>3, <1>a DEF SpendingTypeOK
  <2> HIDE DEF EcoOff, FleetOff
  <2>5. eco' \in EcoSet
    <3>1. CASE eco' = EcoOff
      BY <2>1, <3>1
    <3>2. CASE eco' = [EcoOff EXCEPT !.pc = "load", !.pin = head, !.policy = policy]
      <4>1. EcoOff \in EcoSet /\ "load" \in EcoStates
        BY <2>1 DEF EcoStates
      <4> QED BY <2>4, <3>2, <4>1 DEF EcoSet
    <3> QED BY <2>2, <3>1, <3>2
  <2>6. fleet' \in FleetSet
    BY <2>1, <2>3, <2>4 DEF FleetSet, FleetStates
  <2> QED BY <1>3, <1>a, <1>b, <2>5, <2>6 DEF StartRound, SpendingTypeOK
<1>4. CASE EcoReconcile
  <2> DEFINE open == {p \in pending : Verdict(p) = "awaiting_fresh_save"}
  <2>1. open \in SUBSET PendingSet /\ IsFiniteSet(open)
    BY <1>a, FS_Subset DEF SpendingTypeOK
  <2>2. [t \in Targets |-> Cardinality({p \in open : p.target = t})] \in [Targets -> Nat]
    <3> HIDE DEF open
    <3> QED BY <2>1, Occupied
  <2>3. eco' = [eco EXCEPT
             !.pc = "carry",
             !.todo = {p \in open : Price[p.target] # NoCost},
             !.blocked = open # {} /\ eco.policy = "block_until_save",
             !.virt = [t \in Targets |-> Cardinality({p \in open : p.target = t})]]
        /\ pending' = open /\ UNCHANGED <<written, head, game, shown, runs, lock, fleet, kept>>
    BY <1>4 DEF EcoReconcile
  <2> HIDE DEF open
  <2>4. eco' \in EcoSet
    BY <1>a, <2>1, <2>2, <2>3 DEF SpendingTypeOK, EcoSet, EcoStates
  <2> QED BY <1>a, <1>b, <2>1, <2>3, <2>4 DEF SpendingTypeOK
<1>5. CASE EcoCarry
  <2> DEFINE p == Lowest(eco.todo)
  <2>1. p \in PendingSet
    BY <1>a, <1>5, LowestIsMember DEF EcoCarry, SpendingTypeOK, EcoSet
  <2>2. EcoId(p.run, eco.pin) \in Reservations
    BY <1>a, <2>1, Identifiers DEF PendingSet, SpendingTypeOK, EcoSet
  <2>3. eco' \in EcoSet
    <3>1. eco \in EcoSet /\ "idle" \in EcoStates
      BY <1>a DEF SpendingTypeOK, EcoStates
    <3>2. CASE eco' = [eco EXCEPT !.todo = @ \ {p}]
      <4> HIDE DEF p
      <4>1. eco.todo \ {p} \in SUBSET PendingSet
        BY <3>1 DEF EcoSet
      <4> QED BY <3>1, <3>2, <4>1 DEF EcoSet
    <3>3. CASE eco' = [eco EXCEPT !.todo = {}, !.blocked = TRUE, !.pc = "idle"]
      BY <3>1, <3>3 DEF EcoSet
    <3> QED BY <1>5, <3>2, <3>3 DEF EcoCarry
  <2>4. kept' \in SUBSET Reservations
    BY <1>a, <1>5, <2>2 DEF EcoCarry, SpendingTypeOK
  <2> QED BY <1>5, <1>a, <1>b, <2>3, <2>4 DEF EcoCarry, SpendingTypeOK
<1>6. CASE EcoLoaded
  BY <1>6, <1>a, <1>b DEF EcoLoaded, SpendingTypeOK, EcoSet, EcoStates
<1>7. CASE EcoCall
  BY <1>7, <1>a, <1>b DEF EcoCall, SpendingTypeOK, EcoSet, EcoStates
<1>8. ASSUME NEW t \in Targets, EcoPrepare(t)
      PROVE  SpendingTypeOK'
  <2>1. runs + 1 \in 0..RunLimit /\ runs \in Int
    BY <1>8, <1>a DEF EcoPrepare, SpendingTypeOK, Prepared
  <2>2. eco' \in EcoSet
    BY <1>8, <1>a, <2>1 DEF EcoPrepare, SpendingTypeOK, EcoSet, EcoStates
  <2> QED BY <1>8, <1>a, <1>b, <2>2, <2>1 DEF EcoPrepare, SpendingTypeOK
<1>9. CASE EcoNoop
  BY <1>9, <1>a, <1>b DEF EcoNoop, SpendingTypeOK, EcoSet, EcoStates
<1>10. CASE EcoRefuse
  <2>1. eco' = [eco EXCEPT !.pc = "idle"]
        /\ UNCHANGED <<written, head, game, shown, runs, lock, fleet, pending, kept>>
    BY <1>10 DEF EcoRefuse
  <2>2. eco' \in EcoSet
    BY <1>a, <2>1 DEF SpendingTypeOK, EcoSet, EcoStates
  <2> QED BY <1>a, <1>b, <2>1, <2>2 DEF SpendingTypeOK
<1>11. CASE EcoReserve
  <2>1. /\ \/ eco' = [eco EXCEPT !.pc = "reserved", !.retry = eco.pc = "again"]
           \/ eco' = [eco EXCEPT !.pc = "idle", !.blocked = TRUE]
        /\ lock' \in {"none", "economy"}
        /\ UNCHANGED <<written, head, game, shown, runs, fleet, pending, kept>>
    BY <1>11 DEF EcoReserve
  <2>2. eco' \in EcoSet
    <3>1. eco \in EcoSet /\ "reserved" \in EcoStates /\ "idle" \in EcoStates
          /\ (eco.pc = "again") \in BOOLEAN
      BY <1>a DEF SpendingTypeOK, EcoStates
    <3>2. CASE eco' = [eco EXCEPT !.pc = "reserved", !.retry = eco.pc = "again"]
      BY <3>1, <3>2 DEF EcoSet
    <3>3. CASE eco' = [eco EXCEPT !.pc = "idle", !.blocked = TRUE]
      BY <3>1, <3>3 DEF EcoSet
    <3> QED BY <2>1, <3>2, <3>3
  <2> QED BY <1>a, <1>b, <2>1, <2>2 DEF SpendingTypeOK
<1>12. CASE EcoSend
  BY <1>12, <1>a, <1>b DEF EcoSend, SpendingTypeOK, EcoSet, EcoStates
<1>13. CASE EcoRefresh
  <2>1. runs + 1 \in 0..RunLimit /\ runs \in Int
    BY <1>13, <1>a DEF EcoRefresh, SpendingTypeOK, Prepared
  <2>2. eco' \in EcoSet
    BY <1>13, <1>a, <2>1 DEF EcoRefresh, SpendingTypeOK, EcoSet, EcoStates
  <2> QED BY <1>13, <1>a, <1>b, <2>2, <2>1 DEF EcoRefresh, SpendingTypeOK
<1>14. CASE EcoGivesUp
  BY <1>14, <1>a, <1>b DEF EcoGivesUp, SpendingTypeOK, EcoSet, EcoStates
<1>15. CASE EcoLand
  <2>1. game' \in [Targets -> Nat]
    <3>1. game \in [Targets -> Nat] /\ eco.target \in Targets
      BY <1>15, <1>a DEF EcoLand, SpendingTypeOK, Prepared, EcoSet
    <3>2. game' = [game EXCEPT ![eco.target] = game[eco.target] + 1]
      BY <1>15 DEF EcoLand
    <3>3. game[eco.target] + 1 \in Nat
      BY <3>1
    <3> QED BY <3>1, <3>2, <3>3
  <2> QED BY <1>15, <1>a, <1>b, <2>1 DEF EcoLand, SpendingTypeOK
<1>16. ASSUME NEW result \in {"confirmed_by_packet", "pending_save_confirmation", "failed"},
              EcoAnswer(result)
       PROVE  SpendingTypeOK'
  <2>1. eco.target \in Targets /\ eco.run \in Runs /\ eco.pin \in Saves
    BY <1>16, <1>a DEF EcoAnswer, Prepared, SpendingTypeOK, EcoSet, Runs
  <2>2. EcoReservation \in Reservations
    BY <2>1, Identifiers DEF EcoReservation
  <2>3. eco' \in EcoSet
    <3>1. eco \in EcoSet /\ 0 \in 0..RunLimit /\ eco.submitted + 1 \in Nat
      BY <1>a DEF SpendingTypeOK, EcoSet
    <3>2. CASE eco' = [eco EXCEPT !.pc = "idle", !.blocked = TRUE]
      BY <3>1, <3>2 DEF EcoSet, EcoStates
    <3>3. CASE eco' = [eco EXCEPT
               !.pc = "idle", !.run = 0, !.submitted = @ + 1,
               !.virt[eco.target] = @ + 1,
               !.blocked = result # "confirmed_by_packet" /\ eco.policy = "block_until_save"]
      <4>1. [eco.virt EXCEPT ![eco.target] = @ + 1] \in [Targets -> Nat]
        <5>1. eco.virt \in [Targets -> Nat] /\ eco.virt[eco.target] + 1 \in Nat
          BY <2>1, <3>1 DEF EcoSet
        <5> QED BY <2>1, <5>1
      <4> QED BY <3>1, <3>3, <4>1 DEF EcoSet, EcoStates
    <3> QED BY <1>16, <3>2, <3>3 DEF EcoAnswer
  <2>4. kept' \in SUBSET Reservations
    BY <1>16, <1>a, <2>2 DEF EcoAnswer, SpendingTypeOK
  <2>5. pending' \in SUBSET PendingSet /\ IsFiniteSet(pending')
    <3> DEFINE q == [run |-> eco.run, target |-> eco.target, save |-> eco.pin,
                     seen |-> head, saves |-> written,
                     base |-> Evidence(eco.target)]
    <3>1. Evidence(eco.target) \in Nat
      <4>1. shown[eco.pin] \in [Targets -> Nat] /\ eco.virt \in [Targets -> Nat]
        BY <1>a, <2>1 DEF SpendingTypeOK, EcoSet
      <4>2. shown[eco.pin][eco.target] \in Nat /\ eco.virt[eco.target] \in Nat
        BY <2>1, <4>1
      <4> QED BY <4>2 DEF Evidence
    <3>2. q \in PendingSet
      BY <1>a, <2>1, <3>1 DEF PendingSet, SpendingTypeOK
    <3>3. pending' = pending \/ pending' = pending \cup {q}
      BY <1>16 DEF EcoAnswer
    <3> HIDE DEF q
    <3> QED BY <1>a, <3>2, <3>3, FS_AddElement DEF SpendingTypeOK
  <2> QED BY <1>16, <1>a, <1>b, <2>3, <2>4, <2>5 DEF EcoAnswer, SpendingTypeOK
<1>17. CASE EcoEnd
  <2>1. EcoOff \in EcoSet
    BY <1>a, SpendingAssumption DEF EcoOff, NoVirtual, EcoSet, EcoStates
  <2> QED BY <1>17, <1>a, <1>b, <2>1 DEF EcoEnd, SpendingTypeOK
<1>18. CASE FleetCall
  <2>1. fleet' \in FleetSet
    BY <1>18, <1>a DEF FleetCall, SpendingTypeOK, FleetSet, FleetStates
  <2> QED BY <1>18, <1>a, <1>b, <2>1 DEF FleetCall, SpendingTypeOK
<1>19. ASSUME NEW a \in FleetOrders, FleetPrepare(a)
       PROVE  SpendingTypeOK'
  <2>1. runs + 1 \in 0..RunLimit /\ runs \in Int
    BY <1>19, <1>a DEF FleetPrepare, SpendingTypeOK, Prepared
  <2>2. fleet' \in FleetSet
    BY <1>19, <1>a, <2>1 DEF FleetPrepare, SpendingTypeOK, FleetSet, FleetStates
  <2> QED BY <1>19, <1>a, <1>b, <2>2, <2>1 DEF FleetPrepare, SpendingTypeOK
<1>20. CASE FleetRefuse
  BY <1>20, <1>a, <1>b DEF FleetRefuse, SpendingTypeOK, FleetSet, FleetStates
<1>28. CASE FleetCheck
  BY <1>28, <1>a, <1>b DEF FleetCheck, SpendingTypeOK, FleetSet, FleetStates
<1>21. CASE FleetSend
  <2>1. fleet' \in FleetSet
    <3>1. fleet \in FleetSet
      BY <1>a DEF SpendingTypeOK
    <3>2. \/ fleet' = [fleet EXCEPT !.pc = "sent", !.steps = 0]
          \/ fleet' = [fleet EXCEPT !.pc = "idle"]
      BY <1>21 DEF FleetSend
    <3>3. CASE fleet' = [fleet EXCEPT !.pc = "sent", !.steps = 0]
      BY <3>1, <3>3 DEF FleetSet, FleetStates
    <3>4. CASE fleet' = [fleet EXCEPT !.pc = "idle"]
      BY <3>1, <3>4 DEF FleetSet, FleetStates
    <3> QED BY <3>2, <3>3, <3>4
  <2>2. lock' \in {"none", "economy", "fleet"}
    BY <1>21, <1>a DEF FleetSend, SpendingTypeOK
  <2> QED BY <1>21, <1>a, <1>b, <2>1, <2>2 DEF FleetSend, SpendingTypeOK
<1>22. CASE FleetStep
  BY <1>22, <1>a, <1>b DEF FleetStep, SpendingTypeOK, FleetSet
<1>23. CASE FleetAnswer
  <2>1. FleetId(fleet.run) \in Reservations
    BY <1>23, <1>a, Identifiers DEF FleetAnswer, Prepared, SpendingTypeOK, FleetSet, Runs
  <2>2. fleet' \in FleetSet
    <3>1. fleet \in FleetSet /\ 0 \in 0..RunLimit
      BY <1>a DEF SpendingTypeOK
    <3>2. \/ fleet' = [fleet EXCEPT !.pc = "idle"]
          \/ fleet' = [fleet EXCEPT !.pc = "idle", !.run = 0, !.action = "none"]
      BY <1>23 DEF FleetAnswer
    <3> QED BY <3>1, <3>2 DEF FleetSet, FleetStates
  <2>3. kept' \in SUBSET Reservations
    BY <1>23, <1>a, <2>1 DEF FleetAnswer, SpendingTypeOK
  <2> QED BY <1>23, <1>a, <1>b, <2>2, <2>3 DEF FleetAnswer, SpendingTypeOK
<1>24. CASE FleetFails
  BY <1>24, <1>a, <1>b DEF FleetFails, SpendingTypeOK, FleetSet, FleetStates
<1>25. CASE FleetEnd
  <2>1. FleetOff \in FleetSet
    BY <1>a, SpendingAssumption DEF FleetOff, FleetSet, FleetStates
  <2> QED BY <1>25, <1>a, <1>b, <2>1 DEF FleetEnd, SpendingTypeOK
<1>26. CASE UNCHANGED vars
  BY <1>26, <1>a, <1>b DEF SpendingTypeOK
<1> QED
  BY <1>1, <1>2, <1>3, <1>4, <1>5, <1>6, <1>7, <1>8, <1>9, <1>10, <1>11, <1>12, <1>13,
     <1>14, <1>15, <1>16, <1>17, <1>18, <1>19, <1>20, <1>21, <1>22, <1>23, <1>24,
     <1>25, <1>26, <1>27, <1>28
    DEF SpendingNext, EcoNext, FleetNext

(* The execution lock is taken before a command and given back after it.     *)
LEMMA LockedStep ==
  ASSUME SpendingInv, [SpendingNext]_vars
  PROVE  Locked'
<1>a. SpendingTypeOK /\ Locked
  BY DEF SpendingInv
<1>1. CASE GameSaves
  BY <1>1, <1>a DEF GameSaves, Locked
<1>27. CASE SaveArrives
  BY <1>27, <1>a DEF SaveArrives, Locked
<1>2. CASE PlayerSetsPermissions
  BY <1>2, <1>a DEF PlayerSetsPermissions, Locked
<1>3. ASSUME NEW apps \in {{"economy"}, {"fleet"}, {"economy", "fleet"}},
             NEW policy \in Policies, StartRound(apps, policy)
      PROVE  Locked'
  BY <1>3, <1>a DEF StartRound, EcoOff, FleetOff, Locked
<1>4. CASE EcoReconcile
  BY <1>4, <1>a DEF EcoReconcile, Locked
<1>5. CASE EcoCarry
  BY <1>5, <1>a DEF EcoCarry, SpendingTypeOK, EcoSet, Locked
<1>6. CASE EcoLoaded
  BY <1>6, <1>a DEF EcoLoaded, Locked
<1>7. CASE EcoCall
  BY <1>7, <1>a DEF EcoCall, Locked
<1>8. ASSUME NEW t \in Targets, EcoPrepare(t)
      PROVE  Locked'
  BY <1>8, <1>a DEF EcoPrepare, Locked
<1>9. CASE EcoNoop
  BY <1>9, <1>a DEF EcoNoop, Locked
<1>10. CASE EcoRefuse
  BY <1>10, <1>a DEF EcoRefuse, Locked
<1>11. CASE EcoReserve
  BY <1>11, <1>a DEF EcoReserve, LockFree, SpendingTypeOK, EcoSet, Locked
<1>12. CASE EcoSend
  BY <1>12, <1>a DEF EcoSend, Locked
<1>13. CASE EcoRefresh
  BY <1>13, <1>a DEF EcoRefresh, Locked
<1>14. CASE EcoGivesUp
  BY <1>14, <1>a DEF EcoGivesUp, Locked
<1>15. CASE EcoLand
  BY <1>15, <1>a DEF EcoLand, Locked
<1>16. ASSUME NEW result \in {"confirmed_by_packet", "pending_save_confirmation", "failed"},
              EcoAnswer(result)
       PROVE  Locked'
  BY <1>16, <1>a DEF EcoAnswer, SpendingTypeOK, EcoSet, Locked
<1>17. CASE EcoEnd
  BY <1>17, <1>a DEF EcoEnd, EcoOff, Locked
<1>18. CASE FleetCall
  BY <1>18, <1>a DEF FleetCall, Locked
<1>19. ASSUME NEW a \in FleetOrders, FleetPrepare(a)
       PROVE  Locked'
  BY <1>19, <1>a DEF FleetPrepare, Locked
<1>20. CASE FleetRefuse
  BY <1>20, <1>a DEF FleetRefuse, Locked
<1>28. CASE FleetCheck
  BY <1>28, <1>a DEF FleetCheck, LockFree, SpendingTypeOK, FleetSet, Locked
<1>21. CASE FleetSend
  BY <1>21, <1>a DEF FleetSend, LockFree, SpendingTypeOK, FleetSet, Locked
<1>22. CASE FleetStep
  BY <1>22, <1>a DEF FleetStep, Locked
<1>23. CASE FleetAnswer
  BY <1>23, <1>a DEF FleetAnswer, Locked
<1>24. CASE FleetFails
  BY <1>24, <1>a DEF FleetFails, Locked
<1>25. CASE FleetEnd
  BY <1>25, <1>a DEF FleetEnd, FleetOff, Locked
<1>26. CASE UNCHANGED vars
  BY <1>26, <1>a DEF Locked
<1> QED
  BY <1>1, <1>2, <1>3, <1>4, <1>5, <1>6, <1>7, <1>8, <1>9, <1>10, <1>11, <1>12, <1>13,
     <1>14, <1>15, <1>16, <1>17, <1>18, <1>19, <1>20, <1>21, <1>22, <1>23, <1>24,
     <1>25, <1>26, <1>27, <1>28
    DEF SpendingNext, EcoNext, FleetNext

(* What is prepared stays named, and its identifier can be replaced once.    *)
LEMMA PreparedStep ==
  ASSUME SpendingInv, [SpendingNext]_vars
  PROVE  Prepared'
<1>a. SpendingTypeOK /\ Locked /\ Prepared /\ RunLimit \in Nat
  BY SpendingAssumption DEF SpendingInv
<1>1. CASE GameSaves
  BY <1>1, <1>a DEF GameSaves, Prepared
<1>27. CASE SaveArrives
  BY <1>27, <1>a DEF SaveArrives, Prepared
<1>2. CASE PlayerSetsPermissions
  BY <1>2, <1>a DEF PlayerSetsPermissions, Prepared
<1>3. ASSUME NEW apps \in {{"economy"}, {"fleet"}, {"economy", "fleet"}},
             NEW policy \in Policies, StartRound(apps, policy)
      PROVE  Prepared'
  BY <1>3, <1>a DEF StartRound, EcoOff, FleetOff, Prepared
<1>4. CASE EcoReconcile
  BY <1>4, <1>a DEF EcoReconcile, Prepared
<1>5. CASE EcoCarry
  BY <1>5, <1>a DEF EcoCarry, SpendingTypeOK, EcoSet, Prepared
<1>6. CASE EcoLoaded
  BY <1>6, <1>a DEF EcoLoaded, Prepared
<1>7. CASE EcoCall
  BY <1>7, <1>a DEF EcoCall, Prepared
<1>8. ASSUME NEW t \in Targets, EcoPrepare(t)
      PROVE  Prepared'
  BY <1>8, <1>a DEF EcoPrepare, Prepared
<1>9. CASE EcoNoop
  BY <1>9, <1>a DEF EcoNoop, Prepared
<1>10. CASE EcoRefuse
  <2>1. eco' = [eco EXCEPT !.pc = "idle"] /\ UNCHANGED <<runs, fleet>>
    BY <1>10 DEF EcoRefuse
  <2>2. eco.pc = "waiting" /\ eco \in EcoSet
    BY <1>10, <1>a DEF EcoRefuse, SpendingTypeOK
  <2>3. eco'.pc = "idle" /\ eco'.run = eco.run /\ eco'.target = eco.target
        /\ eco'.blocked = eco.blocked
    BY <2>1, <2>2 DEF EcoSet
  <2> QED BY <1>a, <2>1, <2>2, <2>3 DEF Prepared
<1>11. CASE EcoReserve
  <2>1. UNCHANGED <<runs, fleet>> /\ eco \in EcoSet
    BY <1>11, <1>a DEF EcoReserve, SpendingTypeOK
  <2>2. eco.pc = "again" \/ (eco.pc = "waiting" /\ ~eco.blocked /\ eco.run # 0)
    BY <1>11 DEF EcoReserve, EcoMayExecute
  <2>3. CASE eco' = [eco EXCEPT !.pc = "reserved", !.retry = eco.pc = "again"]
    <3>1. eco'.pc = "reserved" /\ eco'.run = eco.run /\ eco'.target = eco.target
          /\ eco'.retry = (eco.pc = "again")
      BY <2>1, <2>3 DEF EcoSet
    <3> QED BY <1>a, <2>1, <2>2, <3>1 DEF Prepared
  <2>4. CASE eco' = [eco EXCEPT !.pc = "idle", !.blocked = TRUE]
    <3>1. eco'.pc = "idle" /\ eco'.run = eco.run /\ eco'.target = eco.target
          /\ eco'.blocked
      BY <2>1, <2>4 DEF EcoSet
    <3> QED BY <1>a, <2>1, <3>1 DEF Prepared
  <2> QED BY <1>11, <2>3, <2>4 DEF EcoReserve
<1>12. CASE EcoSend
  BY <1>12, <1>a DEF EcoSend, Prepared
<1>13. CASE EcoRefresh
  BY <1>13, <1>a DEF EcoRefresh, SpendingTypeOK, Prepared
<1>14. CASE EcoGivesUp
  BY <1>14, <1>a DEF EcoGivesUp, Prepared
<1>15. CASE EcoLand
  BY <1>15, <1>a DEF EcoLand, Prepared
<1>16. ASSUME NEW result \in {"confirmed_by_packet", "pending_save_confirmation", "failed"},
              EcoAnswer(result)
       PROVE  Prepared'
  <2>1. UNCHANGED <<runs, fleet>> /\ eco.pc = "sent" /\ eco \in EcoSet
    BY <1>16, <1>a DEF EcoAnswer, SpendingTypeOK
  <2>2. CASE eco' = [eco EXCEPT !.pc = "idle", !.blocked = TRUE]
    <3>1. eco'.pc = "idle" /\ eco'.run = eco.run /\ eco'.target = eco.target
          /\ eco'.blocked
      BY <2>1, <2>2 DEF EcoSet
    <3> QED BY <1>a, <2>1, <3>1 DEF Prepared
  <2>3. CASE eco'.pc = "idle" /\ eco'.run = 0
    BY <1>a, <2>1, <2>3 DEF Prepared
  <2>4. result # "failed" => eco'.pc = "idle" /\ eco'.run = 0
    BY <1>16, <2>1 DEF EcoAnswer, EcoSet
  <2> QED BY <1>16, <2>2, <2>3, <2>4 DEF EcoAnswer
<1>17. CASE EcoEnd
  BY <1>17, <1>a DEF EcoEnd, EcoOff, Prepared
<1>18. CASE FleetCall
  BY <1>18, <1>a DEF FleetCall, Prepared
<1>19. ASSUME NEW a \in FleetOrders, FleetPrepare(a)
       PROVE  Prepared'
  BY <1>19, <1>a DEF FleetPrepare, Prepared
<1>20. CASE FleetRefuse
  BY <1>20, <1>a DEF FleetRefuse, Prepared
<1>28. CASE FleetCheck
  BY <1>28, <1>a DEF FleetCheck, FleetMayExecute, SpendingTypeOK, FleetSet, Prepared
<1>21. CASE FleetSend
  BY <1>21, <1>a DEF FleetSend, SpendingTypeOK, FleetSet, Prepared
<1>22. CASE FleetStep
  BY <1>22, <1>a DEF FleetStep, Prepared
<1>23. CASE FleetAnswer
  BY <1>23, <1>a DEF FleetAnswer, Prepared
<1>24. CASE FleetFails
  BY <1>24, <1>a DEF FleetFails, Prepared
<1>25. CASE FleetEnd
  BY <1>25, <1>a DEF FleetEnd, FleetOff, Prepared
<1>26. CASE UNCHANGED vars
  BY <1>26, <1>a DEF Prepared
<1> QED
  BY <1>1, <1>2, <1>3, <1>4, <1>5, <1>6, <1>7, <1>8, <1>9, <1>10, <1>11, <1>12, <1>13,
     <1>14, <1>15, <1>16, <1>17, <1>18, <1>19, <1>20, <1>21, <1>22, <1>23, <1>24,
     <1>25, <1>26, <1>27, <1>28
    DEF SpendingNext, EcoNext, FleetNext

(* A new run identifier is new for the table too.                            *)
LEMMA RunsStep ==
  ASSUME SpendingInv, [SpendingNext]_vars
  PROVE  RunsAreNew'
<1>a. SpendingTypeOK /\ Prepared /\ RunsAreNew /\ RunLimit \in Nat
  BY SpendingAssumption DEF SpendingInv
<1>b. /\ runs \in Nat /\ eco.run \in Nat /\ fleet.run \in Nat
      /\ \A q \in pending \cup eco.todo : q.run \in Nat
  BY <1>a DEF SpendingTypeOK, EcoSet, FleetSet, PendingSet, Runs
<1>1. CASE GameSaves
  BY <1>1, <1>a DEF GameSaves, RunsAreNew, Runs
<1>27. CASE SaveArrives
  BY <1>27, <1>a DEF SaveArrives, RunsAreNew, Runs
<1>2. CASE PlayerSetsPermissions
  BY <1>2, <1>a DEF PlayerSetsPermissions, RunsAreNew, Runs
<1>3. ASSUME NEW apps \in {{"economy"}, {"fleet"}, {"economy", "fleet"}},
             NEW policy \in Policies, StartRound(apps, policy)
      PROVE  RunsAreNew'
  BY <1>3, <1>a DEF StartRound, EcoOff, FleetOff, Prepared, RunsAreNew, Runs
<1>4. CASE EcoReconcile
  BY <1>4, <1>a DEF EcoReconcile, RunsAreNew, Runs
<1>5. CASE EcoCarry
  <2> DEFINE p == Lowest(eco.todo)
  <2>1. p \in PendingSet /\ p \in eco.todo
    BY <1>a, <1>5, LowestIsMember DEF EcoCarry, SpendingTypeOK, EcoSet
  <2>2. kept' = kept \/ kept' = kept \cup {EcoId(p.run, eco.pin)}
    BY <1>5 DEF EcoCarry
  <2>3. /\ UNCHANGED <<runs, fleet, pending>> /\ eco'.run = 0 /\ eco'.todo \subseteq eco.todo
        /\ eco.pin \in Saves
    <3>1. eco \in EcoSet /\ eco.run = 0 /\ UNCHANGED <<runs, fleet, pending>>
      BY <1>5, <1>a DEF EcoCarry, Prepared, SpendingTypeOK
    <3>2. \/ eco' = [eco EXCEPT !.todo = @ \ {p}]
          \/ eco' = [eco EXCEPT !.todo = {}, !.blocked = TRUE, !.pc = "idle"]
      BY <1>5 DEF EcoCarry
    <3> HIDE DEF p
    <3>3. CASE eco' = [eco EXCEPT !.todo = @ \ {p}]
      BY <3>1, <3>3 DEF EcoSet
    <3>4. CASE eco' = [eco EXCEPT !.todo = {}, !.blocked = TRUE, !.pc = "idle"]
      BY <3>1, <3>4 DEF EcoSet
    <3> QED BY <3>2, <3>3, <3>4
  <2> HIDE DEF p
  <2>4. p.run \in Runs /\ p.run <= runs /\ p.run # 0
    BY <1>a, <2>1 DEF RunsAreNew, PendingSet, Runs
  <2>5. ASSUME NEW r \in Runs
        PROVE  /\ FleetId(r) \in kept' => FleetId(r) \in kept
               /\ \A s \in Saves : EcoId(r, s) \in kept' => EcoId(r, s) \in kept \/ r = p.run
    BY <2>2, <2>3, <2>4, Identifiers
  <2> QED BY <1>a, <1>b, <2>3, <2>4, <2>5 DEF RunsAreNew, Runs
<1>6. CASE EcoLoaded
  BY <1>6, <1>a DEF EcoLoaded, RunsAreNew, Runs
<1>7. CASE EcoCall
  BY <1>7, <1>a DEF EcoCall, RunsAreNew, Runs
<1>8. ASSUME NEW t \in Targets, EcoPrepare(t)
      PROVE  RunsAreNew'
  <2>1. /\ UNCHANGED <<kept, pending, fleet>> /\ runs' = runs + 1 /\ eco'.run = runs + 1
        /\ eco'.todo = eco.todo
    BY <1>8, <1>a DEF EcoPrepare, SpendingTypeOK, EcoSet
  <2> QED BY <1>a, <1>b, <2>1 DEF RunsAreNew, Runs
<1>9. CASE EcoNoop
  BY <1>9, <1>a DEF EcoNoop, RunsAreNew, Runs
<1>10. CASE EcoRefuse
  BY <1>10, <1>a DEF EcoRefuse, RunsAreNew, Runs
<1>11. CASE EcoReserve
  BY <1>11, <1>a DEF EcoReserve, SpendingTypeOK, EcoSet, RunsAreNew, Runs
<1>12. CASE EcoSend
  BY <1>12, <1>a DEF EcoSend, RunsAreNew, Runs
<1>13. CASE EcoRefresh
  <2>1. /\ UNCHANGED <<kept, pending, fleet>> /\ runs' = runs + 1 /\ eco'.run = runs + 1
        /\ eco'.todo = eco.todo
    BY <1>13, <1>a DEF EcoRefresh, SpendingTypeOK, EcoSet
  <2> QED BY <1>a, <1>b, <2>1 DEF RunsAreNew, Runs
<1>14. CASE EcoGivesUp
  BY <1>14, <1>a DEF EcoGivesUp, RunsAreNew, Runs
<1>15. CASE EcoLand
  BY <1>15, <1>a DEF EcoLand, RunsAreNew, Runs
<1>16. ASSUME NEW result \in {"confirmed_by_packet", "pending_save_confirmation", "failed"},
              EcoAnswer(result)
       PROVE  RunsAreNew'
  <2>1. eco.run \in Runs /\ eco.run <= runs /\ eco.pin \in Saves
    BY <1>16, <1>a DEF EcoAnswer, Prepared, RunsAreNew, SpendingTypeOK, EcoSet, Runs
  <2>2. UNCHANGED <<runs, fleet>> /\ eco'.todo = eco.todo
    BY <1>16, <1>a DEF EcoAnswer, SpendingTypeOK, EcoSet
  <2>3. \/ kept' = kept /\ eco'.run = eco.run
        \/ (kept' = kept \/ kept' = kept \cup {EcoId(eco.run, eco.pin)}) /\ eco'.run = 0
    BY <1>16, <1>a DEF EcoAnswer, EcoReservation, SpendingTypeOK, EcoSet
  <2>4. \A q \in pending' : q \in pending \/ q.run = eco.run
    BY <1>16 DEF EcoAnswer
  <2>5. \A q \in pending' \cup eco'.todo : q.run <= runs'
    BY <1>a, <2>1, <2>2, <2>4 DEF RunsAreNew
  <2>6. CASE kept' = kept /\ eco'.run = eco.run
    BY <1>a, <2>2, <2>5, <2>6 DEF RunsAreNew
  <2>7. CASE (kept' = kept \/ kept' = kept \cup {EcoId(eco.run, eco.pin)}) /\ eco'.run = 0
    <3>1. ASSUME NEW r \in Runs
          PROVE  /\ FleetId(r) \in kept' => FleetId(r) \in kept
                 /\ \A s \in Saves : EcoId(r, s) \in kept' => EcoId(r, s) \in kept \/ r = eco.run
      BY <2>1, <2>7, Identifiers
    <3> QED BY <1>a, <1>b, <2>1, <2>2, <2>5, <2>7, <3>1 DEF RunsAreNew, Runs
  <2> QED BY <2>3, <2>6, <2>7
<1>17. CASE EcoEnd
  BY <1>17, <1>a DEF EcoEnd, EcoOff, SpendingTypeOK, RunsAreNew, Runs
<1>18. CASE FleetCall
  BY <1>18, <1>a DEF FleetCall, RunsAreNew, Runs
<1>19. ASSUME NEW a \in FleetOrders, FleetPrepare(a)
       PROVE  RunsAreNew'
  <2>1. /\ UNCHANGED <<kept, pending, eco>> /\ runs' = runs + 1 /\ fleet'.run = runs + 1
    BY <1>19, <1>a DEF FleetPrepare, SpendingTypeOK, FleetSet
  <2> QED BY <1>a, <1>b, <2>1 DEF RunsAreNew, Runs
<1>20. CASE FleetRefuse
  BY <1>20, <1>a DEF FleetRefuse, RunsAreNew, Runs
<1>28. CASE FleetCheck
  BY <1>28, <1>a DEF FleetCheck, RunsAreNew, Runs
<1>21. CASE FleetSend
  BY <1>21, <1>a DEF FleetSend, SpendingTypeOK, FleetSet, RunsAreNew, Runs
<1>22. CASE FleetStep
  BY <1>22, <1>a DEF FleetStep, RunsAreNew, Runs
<1>23. CASE FleetAnswer
  <2>1. fleet.run \in Runs /\ fleet.run <= runs
    BY <1>23, <1>a DEF FleetAnswer, Prepared, RunsAreNew, SpendingTypeOK, FleetSet, Runs
  <2>2. UNCHANGED <<runs, eco, pending>>
    BY <1>23 DEF FleetAnswer
  <2>3. \/ kept' = kept /\ fleet'.run = fleet.run
        \/ (kept' = kept \/ kept' = kept \cup {FleetId(fleet.run)}) /\ fleet'.run = 0
    BY <1>23, <1>a DEF FleetAnswer, SpendingTypeOK, FleetSet
  <2>4. CASE kept' = kept /\ fleet'.run = fleet.run
    BY <1>a, <2>2, <2>4 DEF RunsAreNew
  <2>5. CASE (kept' = kept \/ kept' = kept \cup {FleetId(fleet.run)}) /\ fleet'.run = 0
    <3>1. ASSUME NEW r \in Runs
          PROVE  /\ FleetId(r) \in kept' => FleetId(r) \in kept \/ r = fleet.run
                 /\ \A s \in Saves : EcoId(r, s) \in kept' => EcoId(r, s) \in kept
      BY <2>1, <2>5, Identifiers
    <3> QED BY <1>a, <1>b, <2>1, <2>2, <2>5, <3>1 DEF RunsAreNew, Runs
  <2> QED BY <2>3, <2>4, <2>5
<1>24. CASE FleetFails
  BY <1>24, <1>a DEF FleetFails, RunsAreNew, Runs
<1>25. CASE FleetEnd
  BY <1>25, <1>a DEF FleetEnd, FleetOff, SpendingTypeOK, RunsAreNew, Runs
<1>26. CASE UNCHANGED vars
  BY <1>26, <1>a DEF RunsAreNew, Runs
<1> QED
  BY <1>1, <1>2, <1>3, <1>4, <1>5, <1>6, <1>7, <1>8, <1>9, <1>10, <1>11, <1>12, <1>13,
     <1>14, <1>15, <1>16, <1>17, <1>18, <1>19, <1>20, <1>21, <1>22, <1>23, <1>24,
     <1>25, <1>26, <1>27, <1>28
    DEF SpendingNext, EcoNext, FleetNext

\* A turn keeps the save it started with.
SavesKept ==
  /\ head' = head /\ written' \in {written, written + 1}
  /\ eco'.pc = "off" \/ (eco.pc # "off" /\ eco'.pin = eco.pin)
  /\ fleet'.pc = "off" \/ (fleet.pc # "off" /\ fleet'.pin = fleet.pin)

(* Only a new save and a new round change what turns are pinned to.          *)
LEMMA SavesStep ==
  ASSUME SpendingInv, [SpendingNext]_vars
  PROVE  \/ SavesKept
         \/ SaveArrives
         \/ \E apps \in {{"economy"}, {"fleet"}, {"economy", "fleet"}}, policy \in Policies :
              StartRound(apps, policy)
<1> DEFINE Goal == \/ SavesKept
                   \/ SaveArrives
                   \/ \E apps \in {{"economy"}, {"fleet"}, {"economy", "fleet"}},
                         policy \in Policies : StartRound(apps, policy)
<1>a. SpendingTypeOK
  BY DEF SpendingInv
<1>1. CASE GameSaves
  BY <1>1, <1>a DEF GameSaves, SavesKept
<1>27. CASE SaveArrives
  BY <1>27
<1>2. CASE PlayerSetsPermissions
  BY <1>2, <1>a DEF PlayerSetsPermissions, SavesKept
<1>3. ASSUME NEW apps \in {{"economy"}, {"fleet"}, {"economy", "fleet"}},
             NEW policy \in Policies, StartRound(apps, policy)
      PROVE  Goal
  BY <1>3
<1>4. CASE EcoReconcile
  BY <1>4, <1>a DEF EcoReconcile, SavesKept
<1>5. CASE EcoCarry
  BY <1>5, <1>a DEF EcoCarry, SpendingTypeOK, EcoSet, SavesKept
<1>6. CASE EcoLoaded
  BY <1>6, <1>a DEF EcoLoaded, SavesKept
<1>7. CASE EcoCall
  BY <1>7, <1>a DEF EcoCall, SavesKept
<1>8. ASSUME NEW t \in Targets, EcoPrepare(t)
      PROVE  Goal
  BY <1>8, <1>a DEF EcoPrepare, SavesKept
<1>9. CASE EcoNoop
  BY <1>9, <1>a DEF EcoNoop, SavesKept
<1>10. CASE EcoRefuse
  BY <1>10, <1>a DEF EcoRefuse, SavesKept
<1>11. CASE EcoReserve
  BY <1>11, <1>a DEF EcoReserve, SpendingTypeOK, EcoSet, SavesKept
<1>12. CASE EcoSend
  BY <1>12, <1>a DEF EcoSend, SavesKept
<1>13. CASE EcoRefresh
  BY <1>13, <1>a DEF EcoRefresh, SavesKept
<1>14. CASE EcoGivesUp
  BY <1>14, <1>a DEF EcoGivesUp, SavesKept
<1>15. CASE EcoLand
  BY <1>15, <1>a DEF EcoLand, SavesKept
<1>16. ASSUME NEW result \in {"confirmed_by_packet", "pending_save_confirmation", "failed"},
              EcoAnswer(result)
       PROVE  Goal
  BY <1>16, <1>a DEF EcoAnswer, SpendingTypeOK, EcoSet, SavesKept
<1>17. CASE EcoEnd
  BY <1>17, <1>a DEF EcoEnd, EcoOff, SavesKept
<1>18. CASE FleetCall
  BY <1>18, <1>a DEF FleetCall, SavesKept
<1>19. ASSUME NEW a \in FleetOrders, FleetPrepare(a)
       PROVE  Goal
  BY <1>19, <1>a DEF FleetPrepare, SavesKept
<1>20. CASE FleetRefuse
  BY <1>20, <1>a DEF FleetRefuse, SavesKept
<1>28. CASE FleetCheck
  BY <1>28, <1>a DEF FleetCheck, SavesKept
<1>21. CASE FleetSend
  BY <1>21, <1>a DEF FleetSend, SpendingTypeOK, FleetSet, SavesKept
<1>22. CASE FleetStep
  BY <1>22, <1>a DEF FleetStep, SavesKept
<1>23. CASE FleetAnswer
  BY <1>23, <1>a DEF FleetAnswer, SavesKept
<1>24. CASE FleetFails
  BY <1>24, <1>a DEF FleetFails, SavesKept
<1>25. CASE FleetEnd
  BY <1>25, <1>a DEF FleetEnd, FleetOff, SavesKept
<1>26. CASE UNCHANGED vars
  BY <1>26, <1>a DEF SavesKept
<1> QED
  BY <1>1, <1>2, <1>3, <1>4, <1>5, <1>6, <1>7, <1>8, <1>9, <1>10, <1>11, <1>12, <1>13,
     <1>14, <1>15, <1>16, <1>17, <1>18, <1>19, <1>20, <1>21, <1>22, <1>23, <1>24,
     <1>25, <1>26, <1>27, <1>28
    DEF SpendingNext, EcoNext, FleetNext

(* No reservation is made for a save later than the pinned one, and one that *)
(* is superseded is of an earlier save.                                      *)
LEMMA BeforeStep ==
  ASSUME SpendingInv, [SpendingNext]_vars, NEW b \in Saves, Before(b),
         eco.pc # "off" => eco.pin <= b, fleet.pc # "off" => fleet.pin <= b
  PROVE  Before(b)'
<1>1. /\ SpendingTypeOK /\ Pinned /\ LedgerTypeOK /\ Saves \subseteq Nat
      /\ rows \in [Reservations -> Row]
  BY SpendingAssumption DEF SpendingInv, SpendingTypeOK, LedgerTypeOK
<1>2. CASE UNCHANGED rows
  BY <1>2 DEF Before
<1>3. ASSUME NEW i \in Reservations, NEW s \in Saves, NEW c \in Costs \cup {NoCost},
             NEW x \in BOOLEAN, Reserve(i, s, c, x),
             (eco.pc # "off" /\ s = eco.pin) \/ (fleet.pc # "off" /\ s = fleet.pin)
      PROVE  Before(b)'
  <2>1. s <= b /\ Before(s)
    BY <1>1, <1>3 DEF Pinned
  <2>2. \A j \in Reservations : rows[j].save \in Nat
    BY <1>1 DEF Row
  <2>a. rows'[i].state = "active" /\ rows'[i].save = s
    BY <1>1, <1>3, ReserveEffect DEF IsHeld
  <2>b. \A j \in Reservations \ {i} :
          /\ rows'[j].save = rows[j].save
          /\ rows'[j].state = IF rows[j].state = "active" /\ rows[j].save # s
                              THEN "superseded" ELSE rows[j].state
    <3>1. Reserve(i, s, c, x)
      BY <1>3
    <3> QED BY <1>1, <3>1, ReserveEffect
  <2>4. ASSUME NEW j \in Reservations
        PROVE  /\ rows'[j].state # "absent" => rows'[j].save <= b
               /\ rows'[j].state = "superseded" => rows'[j].save < b
    <3>1. CASE j = i
      BY <2>1, <2>a, <2>b, <3>1
    <3>2. CASE j # i /\ rows[j].state = "active" /\ rows[j].save # s
      <4>1. rows[j].save <= s /\ rows[j].save < s
        BY <1>1, <2>1, <2>2, <3>2 DEF Before
      <4> QED BY <1>1, <2>1, <2>2, <2>a, <2>b, <3>2, <4>1
    <3>3. CASE j # i /\ ~(rows[j].state = "active" /\ rows[j].save # s)
      BY <2>a, <2>b, <3>3 DEF Before
    <3> QED BY <3>1, <3>2, <3>3
  <2> QED BY <2>4 DEF Before
<1>4. ASSUME NEW i \in Reservations, Release(i)
      PROVE  Before(b)'
  <2>1. \A j \in Reservations : /\ rows'[j].save = rows[j].save
                                /\ rows'[j].state # "absent" => rows[j].state # "absent"
                                /\ rows'[j].state = "superseded" => rows[j].state = "superseded"
    BY <1>1, <1>4, ReleaseEffect
  <2> QED BY <2>1 DEF Before
<1> QED BY <1>2, <1>3, <1>4, AgentsUseLedger DEF TableStep

(* Turns stay pinned to the newest save reservations are made for.           *)
LEMMA PinnedStep ==
  ASSUME SpendingInv, [SpendingNext]_vars
  PROVE  Pinned'
<1>1. /\ Pinned /\ Saves \subseteq Nat /\ head \in Saves /\ written \in Saves
      /\ eco.pin \in Saves
      /\ fleet.pin \in Saves /\ rows \in [Reservations -> Row]
  BY SpendingAssumption
     DEF SpendingInv, SpendingTypeOK, LedgerTypeOK, EcoSet, FleetSet
<1>n. head \in Nat /\ written \in Nat /\ eco.pin \in Nat /\ fleet.pin \in Nat
  BY <1>1
<1>2. \A b \in Saves : /\ Before(b)
                       /\ eco.pc # "off" => eco.pin <= b
                       /\ fleet.pc # "off" => fleet.pin <= b
                       => (\A i \in Reservations :
                             /\ rows'[i].state # "absent" => rows'[i].save <= b
                             /\ rows'[i].state = "superseded" => rows'[i].save < b)
  <2> SUFFICES ASSUME NEW b \in Saves, Before(b), eco.pc # "off" => eco.pin <= b,
                      fleet.pc # "off" => fleet.pin <= b
               PROVE  \A i \in Reservations :
                        /\ rows'[i].state # "absent" => rows'[i].save <= b
                        /\ rows'[i].state = "superseded" => rows'[i].save < b
    OBVIOUS
  <2>1. Before(b)'
    BY BeforeStep
  <2> QED BY <2>1 DEF Before
<1>3. CASE SavesKept
  <2>0. head' <= written'
    BY <1>1, <1>n, <1>3 DEF SavesKept, Pinned
  <2> DEFINE Now(b) == \A i \in Reservations :
                          /\ rows'[i].state # "absent" => rows'[i].save <= b
                          /\ rows'[i].state = "superseded" => rows'[i].save < b
  <2>1. Now(head)
    BY <1>1, <1>2 DEF Pinned
  <2>2. eco.pc # "off" => Now(eco.pin)
    <3>1. eco.pc # "off" => Before(eco.pin) /\ eco.pin <= eco.pin
                            /\ (fleet.pc # "off" => fleet.pin <= eco.pin)
      BY <1>1, <1>n DEF Pinned
    <3> QED BY <1>1, <1>2, <3>1
  <2>3. fleet.pc # "off" => Now(fleet.pin)
    <3>1. fleet.pc # "off" => Before(fleet.pin) /\ fleet.pin <= fleet.pin
                              /\ (eco.pc # "off" => eco.pin <= fleet.pin)
      BY <1>1, <1>n DEF Pinned
    <3> QED BY <1>1, <1>2, <3>1
  <2> QED BY <1>1, <1>3, <2>0, <2>1, <2>2, <2>3 DEF Pinned, Before, SavesKept
<1>4. CASE SaveArrives
  <2>1. \A i \in Reservations : rows[i].save \in Nat
    BY <1>1 DEF Row
  <2>2. head' = head + 1 /\ head < written /\ UNCHANGED <<written, rows, eco, fleet>>
    BY <1>4 DEF SaveArrives
  <2>3. Before(head)' /\ head' <= written'
    BY <1>1, <1>n, <2>1, <2>2 DEF Pinned, Before
  <2>4. eco.pc # "off" => eco.pin <= head' /\ Before(eco.pin)'
    BY <1>1, <1>n, <2>2 DEF Pinned, Before
  <2>5. fleet.pc # "off" => fleet.pin <= head' /\ Before(fleet.pin)'
    BY <1>1, <1>n, <2>2 DEF Pinned, Before
  <2> QED BY <1>1, <2>2, <2>3, <2>4, <2>5 DEF Pinned
<1>5. ASSUME NEW apps \in {{"economy"}, {"fleet"}, {"economy", "fleet"}},
             NEW policy \in Policies, StartRound(apps, policy)
      PROVE  Pinned'
  <2>1. /\ UNCHANGED <<rows, head, written>> /\ head <= head
        /\ eco'.pc # "off" => eco'.pin = head
        /\ fleet'.pc # "off" => fleet'.pin = head
    BY <1>1, <1>n, <1>5 DEF StartRound, EcoOff, FleetOff
  <2> QED BY <1>1, <2>1 DEF Pinned, Before
<1> QED BY <1>3, <1>4, <1>5, SavesStep

(* A command is only in flight while its reservation counts.                 *)
LEMMA SendingStep ==
  ASSUME SpendingInv, [SpendingNext]_vars
  PROVE  Sending'
<1>a. SpendingTypeOK /\ Locked /\ Prepared /\ Sending /\ Pinned /\ LedgerTypeOK
  BY DEF SpendingInv, SpendingTypeOK
<1>1. CASE GameSaves
  BY <1>1, <1>a DEF GameSaves, Sending, IsHeld, HasPrice, EcoReservation
<1>27. CASE SaveArrives
  BY <1>27, <1>a DEF SaveArrives, Sending, IsHeld, HasPrice, EcoReservation
<1>2. CASE PlayerSetsPermissions
  BY <1>2, <1>a DEF PlayerSetsPermissions, Sending, IsHeld, HasPrice, EcoReservation
<1>3. ASSUME NEW apps \in {{"economy"}, {"fleet"}, {"economy", "fleet"}},
             NEW policy \in Policies, StartRound(apps, policy)
      PROVE  Sending'
  BY <1>3, <1>a DEF StartRound, EcoOff, FleetOff, Sending
<1>4. CASE EcoReconcile
  BY <1>4, <1>a DEF EcoReconcile, Sending, IsHeld
<1>5. CASE EcoCarry
  <2> DEFINE p == Lowest(eco.todo)
             id == EcoId(p.run, eco.pin)
  <2>1. UNCHANGED fleet /\ eco'.pc \notin {"reserved", "sent"}
    BY <1>a, <1>5 DEF EcoCarry, SpendingTypeOK, EcoSet
  <2>2. CASE fleet.pc = "sent" /\ Spends(fleet.action) /\ UNCHANGED rows
    BY <1>a, <2>1, <2>2 DEF Sending, IsHeld
  <2>3. CASE fleet.pc = "sent" /\ Spends(fleet.action)
             /\ Reserve(id, eco.pin, Price[p.target], FALSE)
    <3>1. p \in PendingSet
      BY <1>a, <1>5, LowestIsMember DEF EcoCarry, SpendingTypeOK, EcoSet
    <3>2. fleet.pin = eco.pin /\ eco.pin \in Saves /\ fleet.run \in Runs
      BY <1>a, <1>5, <2>3
         DEF EcoCarry, Pinned, Prepared, SpendingTypeOK, EcoSet, FleetSet, Runs
    <3> HIDE DEF p
    <3>3. id \in Reservations /\ FleetId(fleet.run) \in Reservations \ {id}
      BY <3>1, <3>2, Identifiers DEF PendingSet
    <3>4. Price[p.target] \in Costs \cup {NoCost} /\ FALSE \in BOOLEAN
      BY <3>1, SpendingAssumption DEF PendingSet
    <3> HIDE DEF id
    <3>5. IsHeld(FleetId(fleet.run), fleet.pin)
      BY <1>a, <2>3 DEF Sending
    <3>6. LedgerTypeOK
      BY <1>a DEF SpendingTypeOK
    <3>7. ASSUME NEW i \in Reservations, NEW j \in Reservations \ {i}, NEW s \in Saves,
                 NEW c \in Costs \cup {NoCost}, Reserve(i, s, c, FALSE), IsHeld(j, s)
          PROVE  rows'[j].state = "active" /\ rows'[j].save = s
      <4>1. /\ rows'[j].save = rows[j].save
            /\ rows'[j].state = IF rows[j].state = "active" /\ rows[j].save # s
                                THEN "superseded" ELSE rows[j].state
        BY <3>4, <3>6, <3>7, ReserveEffect
      <4> QED BY <3>7, <4>1 DEF IsHeld
    <3>8. IsHeld(FleetId(fleet.run), eco.pin)
      BY <3>2, <3>5
    <3>9. Reserve(id, eco.pin, Price[p.target], FALSE)
      BY <2>3
    <3>10. /\ rows'[FleetId(fleet.run)].state = "active"
           /\ rows'[FleetId(fleet.run)].save = eco.pin
      BY <3>2, <3>3, <3>4, <3>7, <3>8, <3>9
    <3>11. /\ rows'[FleetId(fleet.run)].state = "active"
           /\ rows'[FleetId(fleet.run)].save = fleet.pin
      BY <3>2, <3>10
    <3> QED BY <2>1, <3>11 DEF Sending, IsHeld
  <2>4. CASE ~(fleet.pc = "sent" /\ Spends(fleet.action))
    BY <2>1, <2>4 DEF Sending
  <2> QED BY <1>5, <2>2, <2>3, <2>4 DEF EcoCarry
<1>6. CASE EcoLoaded
  BY <1>6, <1>a DEF EcoLoaded, Sending, IsHeld
<1>7. CASE EcoCall
  BY <1>7, <1>a DEF EcoCall, Sending, IsHeld
<1>8. ASSUME NEW t \in Targets, EcoPrepare(t)
      PROVE  Sending'
  BY <1>8, <1>a DEF EcoPrepare, Sending, IsHeld
<1>9. CASE EcoNoop
  BY <1>9, <1>a DEF EcoNoop, Sending, IsHeld
<1>10. CASE EcoRefuse
  BY <1>10, <1>a DEF EcoRefuse, Sending, IsHeld
<1>11. CASE EcoReserve
  <2>1. fleet.pc # "sent" /\ UNCHANGED fleet
    BY <1>a, <1>11 DEF EcoReserve, Locked, LockFree
  <2>2. eco.run \in Runs /\ eco.pin \in Saves /\ eco.target \in Targets
        /\ eco'.run = eco.run /\ eco'.pin = eco.pin /\ eco'.target = eco.target
    <3>1. eco.run # 0
      BY <1>a, <1>11 DEF EcoReserve, EcoMayExecute, Prepared
    <3>2. eco.run \in Runs /\ eco.pin \in Saves /\ eco.target \in Targets /\ eco \in EcoSet
      BY <1>a, <3>1 DEF Prepared, SpendingTypeOK, EcoSet, Runs
    <3>3. \/ eco' = [eco EXCEPT !.pc = "reserved", !.retry = (eco.pc = "again")]
          \/ eco' = [eco EXCEPT !.pc = "idle", !.blocked = TRUE]
      BY <1>11 DEF EcoReserve
    <3> QED BY <3>2, <3>3 DEF EcoSet
  <2>3. CASE Reserve(EcoReservation, eco.pin, Price[eco.target], FALSE)
    <3>1. EcoReservation \in Reservations
      BY <2>2, Identifiers DEF EcoReservation
    <3>2. Price[eco.target] \in Costs \cup {NoCost} /\ FALSE \in BOOLEAN
      BY <2>2, SpendingAssumption
    <3>3. rows'[EcoReservation].state = "active" /\ rows'[EcoReservation].save = eco.pin
      BY <1>a, <2>2, <2>3, <3>1, <3>2, ReserveEffect DEF IsHeld
    <3> QED BY <2>1, <2>2, <3>3 DEF Sending, IsHeld, EcoReservation
  <2>4. CASE ~HasPrice
    BY <2>1, <2>2, <2>4 DEF Sending, HasPrice
  <2>5. CASE eco' = [eco EXCEPT !.pc = "idle", !.blocked = TRUE]
    BY <1>a, <2>1, <2>5 DEF Sending, SpendingTypeOK, EcoSet
  <2> QED BY <1>11, <2>3, <2>4, <2>5 DEF EcoReserve
<1>12. CASE EcoSend
  BY <1>12, <1>a DEF EcoSend, Sending, IsHeld, HasPrice, EcoReservation
<1>13. CASE EcoRefresh
  BY <1>13, <1>a DEF EcoRefresh, Locked, Sending
<1>14. CASE EcoGivesUp
  BY <1>14, <1>a DEF EcoGivesUp, Locked, Sending
<1>15. CASE EcoLand
  BY <1>15, <1>a DEF EcoLand, Sending, IsHeld, HasPrice, EcoReservation
<1>16. ASSUME NEW result \in {"confirmed_by_packet", "pending_save_confirmation", "failed"},
              EcoAnswer(result)
       PROVE  Sending'
  BY <1>16, <1>a DEF EcoAnswer, SpendingTypeOK, EcoSet, Locked, Sending
<1>17. CASE EcoEnd
  BY <1>17, <1>a DEF EcoEnd, EcoOff, Sending, IsHeld
<1>18. CASE FleetCall
  BY <1>18, <1>a DEF FleetCall, Sending, IsHeld, HasPrice, EcoReservation
<1>19. ASSUME NEW a \in FleetOrders, FleetPrepare(a)
       PROVE  Sending'
  BY <1>19, <1>a DEF FleetPrepare, Sending, IsHeld, HasPrice, EcoReservation
<1>20. CASE FleetRefuse
  BY <1>20, <1>a DEF FleetRefuse, Sending, IsHeld, HasPrice, EcoReservation
<1>28. CASE FleetCheck
  BY <1>28, <1>a DEF FleetCheck, SpendingTypeOK, FleetSet, Sending, IsHeld, HasPrice,
                     EcoReservation
<1>21. CASE FleetSend
  <2>1. eco.pc \notin {"reserved", "sent"} /\ UNCHANGED eco
    BY <1>a, <1>21 DEF FleetSend, Locked
  <2>2. fleet.run \in Runs /\ fleet.pin \in Saves /\ fleet'.run = fleet.run
        /\ fleet'.pin = fleet.pin /\ fleet'.action = fleet.action
    <3>1. fleet.run # 0 /\ fleet \in FleetSet
      BY <1>a, <1>21 DEF FleetSend, Prepared, SpendingTypeOK
    <3>2. \/ fleet' = [fleet EXCEPT !.pc = "sent", !.steps = 0]
          \/ fleet' = [fleet EXCEPT !.pc = "idle"]
      BY <1>21 DEF FleetSend
    <3>3. fleet.run \in Runs /\ fleet.pin \in Saves
      BY <3>1 DEF FleetSet, Runs
    <3>4. CASE fleet' = [fleet EXCEPT !.pc = "sent", !.steps = 0]
      BY <3>1, <3>3, <3>4 DEF FleetSet
    <3>5. CASE fleet' = [fleet EXCEPT !.pc = "idle"]
      BY <3>1, <3>3, <3>5 DEF FleetSet
    <3> QED BY <3>2, <3>4, <3>5
  <2>3. CASE Spends(fleet.action) /\ FleetReserves
    <3>1. FleetId(fleet.run) \in Reservations
      BY <2>2, Identifiers
    <3>2. /\ CostOf(fleet.action) \in Costs \cup {NoCost}
          /\ Exclusive(fleet.action) \in BOOLEAN
      BY SpendingAssumption DEF CostOf, Exclusive
    <3>3. /\ rows'[FleetId(fleet.run)].state = "active"
          /\ rows'[FleetId(fleet.run)].save = fleet.pin
      BY <1>a, <2>2, <2>3, <3>1, <3>2, ReserveEffect DEF IsHeld, FleetReserves
    <3> QED BY <2>1, <2>2, <3>3 DEF Sending, IsHeld
  <2>4. CASE ~Spends(fleet.action)
    BY <2>1, <2>2, <2>4 DEF Sending
  <2>5. CASE fleet' = [fleet EXCEPT !.pc = "idle"]
    BY <1>a, <2>1, <2>5 DEF Sending, SpendingTypeOK, FleetSet
  <2> QED BY <1>21, <2>3, <2>4, <2>5 DEF FleetSend
<1>22. CASE FleetStep
  BY <1>22, <1>a DEF FleetStep, Sending, IsHeld, HasPrice, EcoReservation
<1>23. CASE FleetAnswer
  BY <1>23, <1>a DEF FleetAnswer, Locked, Sending
<1>24. CASE FleetFails
  BY <1>24, <1>a DEF FleetFails, Locked, Sending
<1>25. CASE FleetEnd
  BY <1>25, <1>a DEF FleetEnd, FleetOff, Sending, IsHeld, HasPrice, EcoReservation
<1>26. CASE UNCHANGED vars
  BY <1>26, <1>a DEF Sending, IsHeld, HasPrice, EcoReservation
<1> QED
  BY <1>1, <1>2, <1>3, <1>4, <1>5, <1>6, <1>7, <1>8, <1>9, <1>10, <1>11, <1>12, <1>13,
     <1>14, <1>15, <1>16, <1>17, <1>18, <1>19, <1>20, <1>21, <1>22, <1>23, <1>24,
     <1>25, <1>26, <1>27, <1>28
    DEF SpendingNext, EcoNext, FleetNext

(* What was reported done is not given back.                                 *)
LEMMA KeptStep ==
  ASSUME SpendingInv, [SpendingNext]_vars
  PROVE  KeptCounts'
<1>a. /\ SpendingTypeOK /\ KeptCounts /\ Sending /\ Prepared /\ LedgerTypeOK
      /\ kept \subseteq Reservations
  BY DEF SpendingInv, SpendingTypeOK
<1>b. \A j \in kept : rows'[j].state \in {"active", "superseded"}
  <2>1. ASSUME NEW i \in Reservations, NEW s \in Saves, NEW c \in Costs \cup {NoCost},
               NEW x \in BOOLEAN, Reserve(i, s, c, x)
        PROVE  \A j \in kept : rows'[j].state \in {"active", "superseded"}
    BY <1>a, <2>1, ReserveEffect DEF KeptCounts, IsHeld
  <2>2. ASSUME NEW i \in Reservations \ kept, Release(i)
        PROVE  \A j \in kept : rows'[j].state \in {"active", "superseded"}
    BY <1>a, <2>2, ReleaseEffect DEF KeptCounts
  <2>3. CASE UNCHANGED rows
    BY <1>a, <2>3 DEF KeptCounts
  <2> QED BY <2>1, <2>2, <2>3, AgentsUseLedger DEF TableStep
<1>1. CASE GameSaves
  BY <1>1, <1>b DEF GameSaves, KeptCounts
<1>27. CASE SaveArrives
  BY <1>27, <1>b DEF SaveArrives, KeptCounts
<1>2. CASE PlayerSetsPermissions
  BY <1>2, <1>b DEF PlayerSetsPermissions, KeptCounts
<1>3. ASSUME NEW apps \in {{"economy"}, {"fleet"}, {"economy", "fleet"}},
             NEW policy \in Policies, StartRound(apps, policy)
      PROVE  KeptCounts'
  BY <1>3, <1>b DEF StartRound, KeptCounts
<1>4. CASE EcoReconcile
  BY <1>4, <1>b DEF EcoReconcile, KeptCounts
<1>5. CASE EcoCarry
  <2> DEFINE p == Lowest(eco.todo)
             id == EcoId(p.run, eco.pin)
  <2>1. CASE UNCHANGED kept
    BY <1>b, <2>1 DEF KeptCounts
  <2>2. CASE Reserve(id, eco.pin, Price[p.target], FALSE) /\ kept' = kept \cup {id}
    <3>1. p \in PendingSet /\ eco.pin \in Saves
      BY <1>a, <1>5, LowestIsMember DEF EcoCarry, SpendingTypeOK, EcoSet
    <3> HIDE DEF p
    <3>2. id \in Reservations
      BY <3>1, Identifiers DEF PendingSet
    <3>3. Price[p.target] \in Costs \cup {NoCost} /\ FALSE \in BOOLEAN
      BY <3>1, SpendingAssumption DEF PendingSet
    <3> HIDE DEF id
    <3>4. rows'[id].state = "active"
      BY <1>a, <2>2, <3>1, <3>2, <3>3, ReserveEffect DEF IsHeld
    <3> QED BY <1>b, <2>2, <3>4 DEF KeptCounts
  <2> QED BY <1>5, <2>1, <2>2 DEF EcoCarry
<1>6. CASE EcoLoaded
  BY <1>6, <1>b DEF EcoLoaded, KeptCounts
<1>7. CASE EcoCall
  BY <1>7, <1>b DEF EcoCall, KeptCounts
<1>8. ASSUME NEW t \in Targets, EcoPrepare(t)
      PROVE  KeptCounts'
  BY <1>8, <1>b DEF EcoPrepare, KeptCounts
<1>9. CASE EcoNoop
  BY <1>9, <1>b DEF EcoNoop, KeptCounts
<1>10. CASE EcoRefuse
  BY <1>10, <1>b DEF EcoRefuse, KeptCounts
<1>11. CASE EcoReserve
  BY <1>11, <1>b DEF EcoReserve, KeptCounts
<1>12. CASE EcoSend
  BY <1>12, <1>b DEF EcoSend, KeptCounts
<1>13. CASE EcoRefresh
  BY <1>13, <1>b DEF EcoRefresh, KeptCounts
<1>14. CASE EcoGivesUp
  BY <1>14, <1>b DEF EcoGivesUp, KeptCounts
<1>15. CASE EcoLand
  BY <1>15, <1>b DEF EcoLand, KeptCounts
<1>16. ASSUME NEW result \in {"confirmed_by_packet", "pending_save_confirmation", "failed"},
              EcoAnswer(result)
       PROVE  KeptCounts'
  <2>1. CASE UNCHANGED kept
    BY <1>b, <2>1 DEF KeptCounts
  <2>2. CASE kept' = kept \cup {EcoReservation} /\ HasPrice /\ KeepsReservation(result)
    <3>1. UNCHANGED rows /\ eco.pc = "sent"
      BY <1>16, <2>2 DEF EcoAnswer
    <3>2. rows[EcoReservation].state = "active"
      BY <1>a, <2>2, <3>1 DEF Sending, IsHeld
    <3> QED BY <1>b, <2>2, <3>1, <3>2 DEF KeptCounts
  <2>3. result # "failed" => KeepsReservation(result)
    BY <1>16 DEF KeepsReservation
  <2> QED BY <1>16, <2>1, <2>2, <2>3 DEF EcoAnswer
<1>17. CASE EcoEnd
  BY <1>17, <1>b DEF EcoEnd, KeptCounts
<1>18. CASE FleetCall
  BY <1>18, <1>b DEF FleetCall, KeptCounts
<1>19. ASSUME NEW a \in FleetOrders, FleetPrepare(a)
       PROVE  KeptCounts'
  BY <1>19, <1>b DEF FleetPrepare, KeptCounts
<1>20. CASE FleetRefuse
  BY <1>20, <1>b DEF FleetRefuse, KeptCounts
<1>28. CASE FleetCheck
  BY <1>28, <1>b DEF FleetCheck, KeptCounts
<1>21. CASE FleetSend
  BY <1>21, <1>b DEF FleetSend, KeptCounts
<1>22. CASE FleetStep
  BY <1>22, <1>b DEF FleetStep, KeptCounts
<1>23. CASE FleetAnswer
  <2>1. CASE UNCHANGED kept
    BY <1>b, <2>1 DEF KeptCounts
  <2>2. CASE kept' = kept \cup {FleetId(fleet.run)} /\ Spends(fleet.action) /\ fleet.steps > 0
    <3>1. UNCHANGED rows /\ fleet.pc = "sent"
      BY <1>23, <2>2 DEF FleetAnswer, ReleasedUnlessAny
    <3>2. rows[FleetId(fleet.run)].state = "active"
      BY <1>a, <2>2, <3>1 DEF Sending, IsHeld
    <3> QED BY <1>b, <2>2, <3>1, <3>2 DEF KeptCounts
  <2> QED BY <1>23, <2>1, <2>2 DEF FleetAnswer
<1>24. CASE FleetFails
  BY <1>24, <1>b DEF FleetFails, KeptCounts
<1>25. CASE FleetEnd
  BY <1>25, <1>b DEF FleetEnd, KeptCounts
<1>26. CASE UNCHANGED vars
  BY <1>26, <1>b DEF KeptCounts
<1> QED
  BY <1>1, <1>2, <1>3, <1>4, <1>5, <1>6, <1>7, <1>8, <1>9, <1>10, <1>11, <1>12, <1>13,
     <1>14, <1>15, <1>16, <1>17, <1>18, <1>19, <1>20, <1>21, <1>22, <1>23, <1>24,
     <1>25, <1>26, <1>27, <1>28
    DEF SpendingNext, EcoNext, FleetNext

(* What is reserved for a save stays within what the save holds.             *)
LEMMA StockStep ==
  ASSUME SpendingInv, [SpendingNext]_vars
  PROVE  WithinStock'
<1>1. /\ SpendingTypeOK /\ Pinned /\ LedgerTypeOK /\ WithinStock
      /\ rows \in [Reservations -> Row] /\ Saves \subseteq Nat
  BY SpendingAssumption DEF SpendingInv, SpendingTypeOK, LedgerTypeOK
<1>2. CASE UNCHANGED rows
  BY <1>1, <1>2 DEF WithinStock
<1>3. ASSUME NEW i \in Reservations, NEW s \in Saves, NEW c \in Costs \cup {NoCost},
             NEW x \in BOOLEAN, Reserve(i, s, c, x),
             (eco.pc # "off" /\ s = eco.pin) \/ (fleet.pc # "off" /\ s = fleet.pin)
      PROVE  WithinStock'
  <2>1. Before(s)
    BY <1>1, <1>3 DEF Pinned
  <2>2. \A j \in Reservations : rows[j].state = "superseded" => rows[j].save # s
    <3>1. \A j \in Reservations : rows[j].save \in Nat
      BY <1>1 DEF Row
    <3> QED BY <1>1, <2>1, <3>1 DEF Before
  <2> QED BY <1>1, <1>3, <2>2, ReserveWithin
<1>4. ASSUME NEW i \in Reservations, Release(i)
      PROVE  WithinStock'
  BY <1>1, <1>4, ReleaseWithin
<1> QED BY <1>2, <1>3, <1>4, AgentsUseLedger DEF TableStep

\* A step that neither makes, sends nor settles a construction.
SameRun ==
  /\ UNCHANGED <<written, game, shown, landed, verdicts, pending>>
  /\ runs' \in Nat /\ runs <= runs'
  /\ \/ eco'.run = 0
     \/ /\ eco'.run = eco.run /\ eco'.target = eco.target /\ eco'.pin = eco.pin
        /\ eco'.virt = eco.virt

(* The steps that make, send or settle a construction, and all others.       *)
LEMMA RunStep ==
  ASSUME SpendingInv, [SpendingNext]_vars
  PROVE  \/ SameRun \/ GameSaves \/ EcoReconcile \/ EcoRefresh \/ EcoLand
         \/ \E t \in Targets : EcoPrepare(t)
         \/ \E result \in {"confirmed_by_packet", "pending_save_confirmation", "failed"} :
              EcoAnswer(result)
<1> DEFINE Goal ==
      \/ SameRun \/ GameSaves \/ EcoReconcile \/ EcoRefresh \/ EcoLand
      \/ \E t \in Targets : EcoPrepare(t)
      \/ \E result \in {"confirmed_by_packet", "pending_save_confirmation", "failed"} :
           EcoAnswer(result)
<1>a. SpendingTypeOK /\ Prepared /\ runs \in Nat /\ runs <= runs
  BY DEF SpendingInv, SpendingTypeOK
<1>1. CASE GameSaves
  BY <1>1
<1>27. CASE SaveArrives
  BY <1>27, <1>a DEF SaveArrives, SameRun
<1>2. CASE PlayerSetsPermissions
  BY <1>2, <1>a DEF PlayerSetsPermissions, SameRun
<1>3. ASSUME NEW apps \in {{"economy"}, {"fleet"}, {"economy", "fleet"}},
             NEW policy \in Policies, StartRound(apps, policy)
      PROVE  Goal
  BY <1>3, <1>a DEF StartRound, EcoOff, SameRun
<1>4. CASE EcoReconcile
  BY <1>4
<1>5. CASE EcoCarry
  BY <1>5, <1>a DEF EcoCarry, SpendingTypeOK, EcoSet, SameRun
<1>6. CASE EcoLoaded
  BY <1>6, <1>a DEF EcoLoaded, SameRun
<1>7. CASE EcoCall
  BY <1>7, <1>a DEF EcoCall, SameRun
<1>8. ASSUME NEW t \in Targets, EcoPrepare(t)
      PROVE  Goal
  BY <1>8
<1>9. CASE EcoNoop
  BY <1>9, <1>a DEF EcoNoop, SameRun
<1>10. CASE EcoRefuse
  BY <1>10, <1>a DEF EcoRefuse, SameRun
<1>11. CASE EcoReserve
  BY <1>11, <1>a DEF EcoReserve, SpendingTypeOK, EcoSet, SameRun
<1>12. CASE EcoSend
  BY <1>12, <1>a DEF EcoSend, SameRun
<1>13. CASE EcoRefresh
  BY <1>13
<1>14. CASE EcoGivesUp
  BY <1>14, <1>a DEF EcoGivesUp, SameRun
<1>15. CASE EcoLand
  BY <1>15
<1>16. ASSUME NEW result \in {"confirmed_by_packet", "pending_save_confirmation", "failed"},
              EcoAnswer(result)
       PROVE  Goal
  BY <1>16
<1>17. CASE EcoEnd
  BY <1>17, <1>a DEF EcoEnd, EcoOff, SameRun
<1>18. CASE FleetCall
  BY <1>18, <1>a DEF FleetCall, SameRun
<1>19. ASSUME NEW a \in FleetOrders, FleetPrepare(a)
       PROVE  Goal
  BY <1>19, <1>a DEF FleetPrepare, SameRun
<1>20. CASE FleetRefuse
  BY <1>20, <1>a DEF FleetRefuse, SameRun
<1>28. CASE FleetCheck
  BY <1>28, <1>a DEF FleetCheck, SameRun
<1>21. CASE FleetSend
  BY <1>21, <1>a DEF FleetSend, SameRun
<1>22. CASE FleetStep
  BY <1>22, <1>a DEF FleetStep, SameRun
<1>23. CASE FleetAnswer
  BY <1>23, <1>a DEF FleetAnswer, SameRun
<1>24. CASE FleetFails
  BY <1>24, <1>a DEF FleetFails, SameRun
<1>25. CASE FleetEnd
  BY <1>25, <1>a DEF FleetEnd, SameRun
<1>26. CASE UNCHANGED vars
  BY <1>26, <1>a DEF SameRun
<1> QED
  BY <1>1, <1>2, <1>3, <1>4, <1>5, <1>6, <1>7, <1>8, <1>9, <1>10, <1>11, <1>12, <1>13,
     <1>14, <1>15, <1>16, <1>17, <1>18, <1>19, <1>20, <1>21, <1>22, <1>23, <1>24,
     <1>25, <1>26, <1>27, <1>28
    DEF SpendingNext, EcoNext, FleetNext

(* What saves show of the constructions, and what they settle.               *)
LEMMA ShownStep ==
  ASSUME SpendingInv, [SpendingNext]_vars
  PROVE  Shown' /\ Settled'
<1>1. /\ SpendingTypeOK /\ Shown /\ Settled /\ Prepared /\ RunsAreNew /\ Pinned
      /\ Saves \subseteq Nat
  BY SpendingAssumption DEF SpendingInv
<1>2. /\ eco \in EcoSet /\ eco.run \in Nat /\ eco.pin \in Saves /\ runs \in Nat
      /\ head \in Saves /\ head \in Nat /\ written \in Saves /\ written \in Nat
      /\ eco.pin \in Nat
      /\ game \in [Targets -> Nat] /\ shown \in [Saves -> [Targets -> Nat]]
      /\ eco.virt \in [Targets -> Nat] /\ pending \in SUBSET PendingSet
  <2>1. /\ eco \in EcoSet /\ runs \in 0..RunLimit /\ head \in Saves /\ written \in Saves
        /\ game \in [Targets -> Nat] /\ shown \in [Saves -> [Targets -> Nat]]
        /\ pending \in SUBSET PendingSet
    BY <1>1 DEF SpendingTypeOK
  <2>2. eco.run \in 0..RunLimit /\ eco.pin \in Saves /\ eco.virt \in [Targets -> Nat]
    BY <2>1 DEF EcoSet
  <2>3. RunLimit \in Nat /\ \A n \in 0..RunLimit : n \in Nat
    BY SpendingAssumption
  <2>4. head \in Nat /\ written \in Nat /\ eco.pin \in Nat
    BY <1>1, <2>1, <2>2
  <2> QED BY <1>1, <2>1, <2>2, <2>3, <2>4
<1>3. \A p \in pending : /\ p.run \in Runs /\ p.run \in Nat /\ p.run # 0 /\ p.run <= runs
                         /\ p.target \in Targets /\ p.base \in Nat
                         /\ p.save \in Saves /\ p.seen \in Nat /\ p.saves \in Nat
  <2> SUFFICES ASSUME NEW p \in pending
               PROVE  /\ p.run \in Runs /\ p.run \in Nat /\ p.run # 0 /\ p.run <= runs
                      /\ p.target \in Targets /\ p.base \in Nat
                      /\ p.save \in Saves /\ p.seen \in Nat /\ p.saves \in Nat
    OBVIOUS
  <2>1. p \in PendingSet
    BY <1>2
  <2>2. /\ p.run \in Runs /\ p.target \in Targets /\ p.base \in Nat
        /\ p.save \in Saves /\ p.seen \in Saves /\ p.saves \in Saves
    BY <2>1 DEF PendingSet
  <2>3. p.run <= runs
    BY <1>1 DEF RunsAreNew
  <2>4. p.run \in Nat /\ p.run # 0
    BY <2>2 DEF Runs
  <2>5. p.seen \in Nat /\ p.saves \in Nat
    BY <1>1, <2>2
  <2> QED BY <2>2, <2>3, <2>4, <2>5
<1>4. \A r \in Runs : r \in Nat /\ r # 0
  BY DEF Runs
<1>5. CASE SameRun
  <2>1. Shown'
    BY <1>1, <1>2, <1>3, <1>5 DEF SameRun, Shown
  <2>2. Settled'
    BY <1>1, <1>2, <1>4, <1>5 DEF SameRun, Settled
  <2> QED BY <2>1, <2>2
<1>6. CASE GameSaves
  <2>1. /\ written' = written + 1 /\ written + 1 \in Saves
        /\ shown' = [shown EXCEPT ![written + 1] = game]
        /\ UNCHANGED <<game, runs, eco, pending, landed, verdicts>>
    BY <1>6 DEF GameSaves
  <2>2. /\ shown'[written + 1] = game
        /\ \A s \in Saves : s <= written => shown'[s] = shown[s]
        /\ \A s \in Saves : s <= written + 1 => s <= written \/ s = written + 1
    BY <1>1, <1>2, <2>1
  <2>3. \A s \in Saves, t \in Targets : s <= written' => shown'[s][t] <= game'[t]
    BY <1>1, <1>2, <2>1, <2>2 DEF Shown
  <2>4. \A r, s \in Saves, t \in Targets :
          r <= s /\ s <= written' => shown'[r][t] <= shown'[s][t]
    <3> SUFFICES ASSUME NEW r \in Saves, NEW s \in Saves, NEW t \in Targets,
                        r <= s, s <= written + 1
                 PROVE  shown'[r][t] <= shown'[s][t]
      BY <2>1
    <3>1. CASE s <= written
      BY <1>1, <1>2, <2>2, <3>1 DEF Shown
    <3>2. CASE s = written + 1
      BY <1>1, <1>2, <2>1, <2>2, <2>3, <3>2
    <3> QED BY <2>2, <3>1, <3>2
  <2>5. ASSUME eco.run # 0
        PROVE  /\ eco.virt[eco.target] = 0
               /\ eco.run \in landed => shown'[eco.pin][eco.target] < game[eco.target]
    <3>1. eco.pin <= written
      BY <1>1, <1>2, <2>5 DEF Prepared, Pinned
    <3> QED BY <1>1, <1>2, <2>2, <2>5, <3>1 DEF Shown
  <2>6. ASSUME NEW p \in pending, p.run \in landed
        PROVE  /\ p.base < game[p.target]
               /\ \A s \in Saves : p.saves < s /\ s <= written' => p.base < shown'[s][p.target]
    BY <1>1, <1>2, <1>3, <2>1, <2>2, <2>6 DEF Shown
  <2>7. Shown'
    BY <1>1, <2>1, <2>3, <2>4, <2>5, <2>6 DEF Shown
  <2> QED BY <1>1, <2>1, <2>7 DEF Settled
<1>7. CASE EcoReconcile
  <2> DEFINE open == {p \in pending : Verdict(p) = "awaiting_fresh_save"}
  <2>1. /\ pending' = open /\ UNCHANGED <<written, head, game, shown, runs, landed>>
        /\ verdicts' = verdicts \cup
             {<<p.run, p.target, Verdict(p), ArrivedLate(p)>> : p \in pending \ open}
        /\ eco.run = 0 /\ eco'.run = 0 /\ eco.pc # "off"
    BY <1>1, <1>2, <1>7 DEF EcoReconcile, Prepared, EcoSet
  <2>2. ASSUME NEW p \in pending, Verdict(p) = "rejected_by_save", ~ArrivedLate(p)
        PROVE  p.run \notin landed
    <3>1. p.save # eco.pin /\ p.saves < eco.pin /\ ~(p.base < shown[eco.pin][p.target])
      BY <1>2, <1>3, <2>2 DEF Verdict, ProvesRejection, NewEnough, ArrivedLate
    <3>2. eco.pin <= written
      BY <1>1, <1>2, <2>1 DEF Pinned
    <3> QED BY <1>1, <1>2, <3>1, <3>2 DEF Shown
  <2>3. Shown'
    BY <1>1, <1>2, <1>3, <2>1 DEF Shown
  <2>4. ASSUME NEW v \in verdicts'
        PROVE  /\ v[1] \in Runs /\ v[1] <= runs' /\ v[1] # eco'.run
               /\ v[3] = "rejected_by_save" /\ ~v[4] => v[1] \notin landed'
    <3>1. CASE v \in verdicts
      BY <1>1, <2>1, <3>1 DEF Settled
    <3>2. CASE v \notin verdicts
      <4>1. PICK p \in pending : v = <<p.run, p.target, Verdict(p), ArrivedLate(p)>>
        BY <2>1, <3>2
      <4>2. v[1] = p.run /\ v[3] = Verdict(p) /\ v[4] = ArrivedLate(p)
        BY <4>1
      <4> QED BY <1>3, <2>1, <2>2, <4>2
    <3> QED BY <3>1, <3>2
  <2>5. Settled'
    BY <1>1, <2>1, <2>4 DEF Settled
  <2> QED BY <2>3, <2>5
<1>8. CASE EcoRefresh
  <2>1. /\ UNCHANGED <<written, head, game, shown, landed, verdicts, pending>> /\ runs' = runs + 1
        /\ eco'.run = runs + 1 /\ eco'.target = eco.target /\ eco'.pin = eco.pin
        /\ eco'.virt = eco.virt /\ eco.run # 0
    BY <1>1, <1>2, <1>8 DEF EcoRefresh, Prepared, EcoSet
  <2>2. runs + 1 \notin landed
    BY <1>1, <1>2 DEF Settled
  <2>3. Shown'
    BY <1>1, <1>2, <1>3, <2>1, <2>2 DEF Shown
  <2>4. Settled'
    BY <1>1, <1>2, <1>4, <2>1 DEF Settled
  <2> QED BY <2>3, <2>4
<1>9. CASE EcoLand
  <2>1. /\ UNCHANGED <<written, shown, verdicts, pending, runs, eco>>
        /\ landed' = landed \cup {eco.run}
        /\ game' = [game EXCEPT ![eco.target] = game[eco.target] + 1]
        /\ eco.run \in Runs /\ eco.target \in Targets /\ eco.pin <= written
    BY <1>1, <1>2, <1>9 DEF EcoLand, Prepared, Pinned, EcoSet, Runs
  <2>2. \A t \in Targets : game'[t] \in Nat /\ game[t] <= game'[t]
    <3>1. \A t \in Targets :
            game'[t] = IF t = eco.target THEN game[t] + 1 ELSE game[t]
      BY <1>2, <2>1
    <3>2. \A t \in Targets : game[t] \in Nat
      BY <1>2
    <3> QED BY <3>1, <3>2
  <2>3. \A s \in Saves, t \in Targets : s <= written' => shown'[s][t] <= game'[t]
    <3> SUFFICES ASSUME NEW s \in Saves, NEW t \in Targets, s <= written
                 PROVE  shown[s][t] <= game'[t]
      BY <2>1
    <3>1. shown[s][t] <= game[t]
      BY <1>1 DEF Shown
    <3>2. shown[s][t] \in Nat /\ game[t] \in Nat
      BY <1>2
    <3> QED BY <2>2, <3>1, <3>2
  <2>4. shown[eco.pin][eco.target] < game'[eco.target]
    <3>1. shown[eco.pin][eco.target] <= game[eco.target]
      BY <1>1, <1>2, <2>1 DEF Shown
    <3> QED BY <1>2, <2>1, <3>1
  <2>5. ASSUME NEW p \in pending
        PROVE  /\ p.run # eco.run
               /\ p.run \in landed' =>
                    /\ p.base < game'[p.target]
                    /\ \A s \in Saves : p.saves < s /\ s <= written => p.base < shown[s][p.target]
    BY <1>1, <1>2, <1>3, <2>1, <2>2 DEF Shown
  <2>6. Shown'
    BY <1>1, <2>1, <2>3, <2>4, <2>5 DEF Shown
  <2>7. Settled'
    BY <1>1, <2>1 DEF Settled, RunsAreNew
  <2> QED BY <2>6, <2>7
<1>10. ASSUME NEW t \in Targets, EcoPrepare(t)
       PROVE  Shown' /\ Settled'
  <2>1. /\ UNCHANGED <<written, head, game, shown, landed, verdicts, pending>> /\ runs' = runs + 1
        /\ eco'.run = runs + 1 /\ eco'.target = t /\ eco'.pin = eco.pin
        /\ eco'.virt = eco.virt /\ eco.virt[t] = 0
    BY <1>1, <1>2, <1>10 DEF EcoPrepare, EcoMayPrepare, Offered, EcoSet
  <2>2. runs + 1 \notin landed
    BY <1>1, <1>2 DEF Settled
  <2>3. Shown'
    BY <1>1, <1>2, <1>3, <2>1, <2>2 DEF Shown
  <2>4. Settled'
    BY <1>1, <1>2, <1>4, <2>1 DEF Settled
  <2> QED BY <2>3, <2>4
<1>11. ASSUME NEW result \in {"confirmed_by_packet", "pending_save_confirmation", "failed"},
              EcoAnswer(result)
       PROVE  Shown' /\ Settled'
  <2>1. /\ UNCHANGED <<written, head, game, shown, landed, verdicts, runs>> /\ eco.run # 0
        /\ eco.target \in Targets
    BY <1>1, <1>11 DEF EcoAnswer, Prepared
  <2> DEFINE q == [run |-> eco.run, target |-> eco.target, save |-> eco.pin,
                   seen |-> head, saves |-> written,
                     base |-> Evidence(eco.target)]
  <2>2. CASE /\ pending' = pending /\ eco'.run = eco.run /\ eco'.target = eco.target
             /\ eco'.pin = eco.pin /\ eco'.virt = eco.virt
    <3>1. Shown'
      BY <1>1, <2>1, <2>2 DEF Shown
    <3> QED BY <1>1, <2>1, <2>2, <3>1 DEF Settled
  <2>3. CASE (pending' = pending \/ pending' = pending \cup {q}) /\ eco'.run = 0
    <3>1. /\ q.run = eco.run /\ q.target = eco.target /\ q.saves = written
          /\ q.base = Evidence(eco.target)
      OBVIOUS
    <3>2. Evidence(eco.target) = shown[eco.pin][eco.target]
      <4>1. eco.virt[eco.target] = 0 /\ shown[eco.pin][eco.target] \in Nat
        BY <1>1, <1>2, <2>1 DEF Shown
      <4> QED BY <4>1 DEF Evidence
    <3> HIDE DEF q
    <3>3. ASSUME NEW p \in pending'
          PROVE  /\ p.run # eco'.run
                 /\ p.run \in landed =>
                      /\ p.base < game[p.target]
                      /\ \A s \in Saves : p.saves < s /\ s <= written => p.base < shown[s][p.target]
      <4>1. CASE p \in pending
        <5>1. p.run # 0 /\ eco'.run = 0
          BY <1>3, <2>3, <4>1
        <5>2. p.run \in landed =>
                /\ p.base < game[p.target]
                /\ \A s \in Saves : p.saves < s /\ s <= written => p.base < shown[s][p.target]
          BY <1>1, <4>1 DEF Shown
        <5> QED BY <5>1, <5>2
      <4>2. CASE p = q
        <5>1. \A s \in Saves : ~(written < s /\ s <= written)
          BY <1>1, <1>2
        <5>2. eco.run \in landed => shown[eco.pin][eco.target] < game[eco.target]
          BY <1>1, <2>1 DEF Shown
        <5>3. p.run = eco.run /\ p.target = eco.target /\ p.saves = written
              /\ p.base = shown[eco.pin][eco.target]
          BY <3>1, <3>2, <4>2
        <5>4. p.run # eco'.run
          BY <2>1, <2>3, <5>3
        <5>5. p.run \in landed => p.base < game[p.target]
          BY <5>2, <5>3
        <5> QED BY <5>1, <5>3, <5>4, <5>5
      <4> QED BY <2>3, <4>1, <4>2
    <3>4. Shown'
      BY <1>1, <2>1, <2>3, <3>3 DEF Shown
    <3>5. Settled'
      BY <1>1, <1>4, <2>1, <2>3 DEF Settled
    <3> QED BY <3>4, <3>5
  <2>4. CASE result = "failed"
    <3>1. eco' = [eco EXCEPT !.pc = "idle", !.blocked = TRUE] /\ pending' = pending
      BY <1>11, <2>4 DEF EcoAnswer
    <3>2. /\ eco'.run = eco.run /\ eco'.target = eco.target
          /\ eco'.pin = eco.pin /\ eco'.virt = eco.virt
      BY <1>2, <3>1 DEF EcoSet
    <3> QED BY <2>2, <3>1, <3>2
  <2>5. CASE result # "failed"
    <3>1. eco'.run = 0
      BY <1>2, <1>11, <2>5 DEF EcoAnswer, EcoSet
    <3>2. pending' = pending \/ pending' = pending \cup {q}
      BY <1>11, <2>5 DEF EcoAnswer
    <3> QED BY <2>3, <3>1, <3>2
  <2> QED BY <2>4, <2>5
<1> QED BY <1>5, <1>6, <1>7, <1>8, <1>9, <1>10, <1>11, RunStep

(* The invariant is inductive.                                               *)
LEMMA SpendingInvStep == SpendingInv /\ [SpendingNext]_vars => SpendingInv'
BY TypeStep, LockedStep, PreparedStep, RunsStep, PinnedStep, SendingStep, KeptStep,
   StockStep, ShownStep
   DEF SpendingInv

(* Before the first round nothing is reserved.                               *)
LEMMA SpendingInvInit == SpendingInit => SpendingInv
<1> SUFFICES ASSUME SpendingInit PROVE SpendingInv
  OBVIOUS
<1>1. /\ \A i \in Reservations : rows[i] = NoRow /\ rows[i].state = "absent"
      /\ rows \in [Reservations -> Row] /\ LedgerInit
  BY NoRowType DEF SpendingInit, LedgerInit
<1>2. EcoOff \in EcoSet /\ FleetOff \in FleetSet /\ EcoOff.pc = "off" /\ FleetOff.pc = "off"
      /\ EcoOff.run = 0 /\ FleetOff.run = 0 /\ EcoOff.todo = {}
  BY SpendingAssumption
     DEF EcoOff, NoVirtual, EcoSet, EcoStates, FleetOff, FleetSet, FleetStates
<1> HIDE DEF EcoOff, FleetOff
<1>3. SpendingTypeOK
  <2>1. /\ game = NoVirtual /\ shown = [s \in Saves |-> NoVirtual] /\ runs = 0
        /\ written = 1 /\ head = 1
        /\ lock = "none" /\ eco = EcoOff /\ fleet = FleetOff /\ pending = {} /\ kept = {}
    BY DEF SpendingInit
  <2>2. NoVirtual \in [Targets -> Nat]
    BY DEF NoVirtual
  <2>3. 0 \in 0..RunLimit /\ 1 \in Saves
    BY SpendingAssumption
  <2> QED BY <1>1, <1>2, <2>1, <2>2, <2>3, FS_EmptySet DEF SpendingTypeOK, LedgerTypeOK
<1>a. Shown /\ Settled
  <2>1. /\ game = NoVirtual /\ shown = [s \in Saves |-> NoVirtual] /\ eco = EcoOff
        /\ pending = {} /\ verdicts = {} /\ landed = {}
    BY DEF SpendingInit
  <2>2. \A t \in Targets : game[t] = 0 /\ \A s \in Saves : shown[s][t] = 0
    BY <2>1 DEF NoVirtual
  <2> QED BY <1>2, <2>1, <2>2 DEF Shown, Settled
<1>4. Locked /\ Prepared /\ RunsAreNew /\ Pinned /\ Sending /\ KeptCounts
  BY <1>1, <1>2
     DEF SpendingInit, Locked, Prepared, RunsAreNew, Pinned, Before, Sending, KeptCounts
<1>5. WithinStock
  <2>1. {i \in Reservations : rows[i].state # "absent"} = {}
    BY <1>1
  <2>2. ASSUME NEW s \in Saves, NEW r \in Resources
        PROVE  Total(rows, Counted(rows, s), r) <= Stock[s][r]
    <3>1. Counted(rows, s) = {}
      BY <1>1 DEF Counted
    <3>2. Total(rows, {}, r) = 0
      BY TotalStep, FS_EmptySet
    <3>3. Stock[s][r] \in Nat
      BY LedgerAssumption
    <3> QED BY <3>1, <3>2, <3>3
  <2> QED BY <2>1, <2>2, FS_EmptySet DEF WithinStock
<1> QED BY <1>3, <1>a, <1>4, <1>5 DEF SpendingInv

(* The invariant holds throughout.                                           *)
LEMMA SpendingInvariant == SpendingSpec => []SpendingInv
BY SpendingInvInit, SpendingInvStep, PTL DEF SpendingSpec

-----------------------------------------------------------------------------
(* The theorems.                                                             *)

(* Both toolboxes, the table and the pending constructions hold what the     *)
(* code stores in them, and no run identifier beyond the bound is used       *)
(* (the tools of both Applications).                                         *)
THEOREM SpendingTypeCorrect == SpendingSpec => []SpendingTypeOK
BY SpendingInvariant, PTL DEF SpendingInv

(* The two agents use the ledger as its own specification allows: whatever   *)
(* is proved of LedgerSpec holds while they spend (reserve and release are   *)
(* their only access to the table).                                          *)
THEOREM SpendingImplementsLedger == SpendingSpec => LedgerSpec
<1>1. SpendingInit => LedgerInit
  BY DEF SpendingInit
<1>2. SpendingInv /\ [SpendingNext]_vars => [LedgerNext]_ledgerVars
  BY AgentsLedgerStep
<1> QED BY <1>1, <1>2, SpendingInvariant, PTL DEF SpendingSpec, LedgerSpec

(* So reservations of a round stay of one save, the exclusive one alone, and *)
(* closed ones closed, whatever both turns do (reserve, release).            *)
THEOREM SpendingLedgerHolds ==
  SpendingSpec => [](OneActiveSave /\ ExclusiveIsAlone) /\ ClosedRowsStay
BY SpendingImplementsLedger, LedgerOneActiveSave, LedgerExclusiveIsAlone,
   LedgerClosedRowsStay, PTL

(* What the agents report as done never costs more than the save it was      *)
(* planned from holds, however rounds, saves, retries and failures           *)
(* interleave (execute_prepared_construction, execute, reserve).             *)
THEOREM SpendingKeptWithinStock == SpendingSpec => []KeptWithinStock
<1>1. SpendingInv => KeptWithinStock
  <2> SUFFICES ASSUME SpendingInv, NEW s \in Saves, NEW r \in Resources
               PROVE  MapThenSumSet(LAMBDA id : rows[id].costs[r],
                                    {id \in kept : rows[id].save = s}) <= Stock[s][r]
    BY DEF KeptWithinStock
  <2> DEFINE K == {id \in kept : rows[id].save = s}
             C == Counted(rows, s)
  <2>1. /\ K \in SUBSET C /\ C \in SUBSET Reservations
        /\ C \subseteq {i \in Reservations : rows[i].state # "absent"}
    BY DEF SpendingInv, KeptCounts, SpendingTypeOK, Counted
  <2>2. IsFiniteSet(C)
    BY <2>1, FS_Subset DEF SpendingInv, WithinStock
  <2>3. IsFiniteSet(K) /\ K \in SUBSET Reservations
    BY <2>1, <2>2, FS_Subset
  <2>4. Total(rows, C, r) <= Stock[s][r]
    BY DEF SpendingInv, WithinStock
  <2>5. rows \in [Reservations -> Row]
    BY DEF SpendingInv, SpendingTypeOK, LedgerTypeOK
  <2> HIDE DEF C, K
  <2>6. Total(rows, K, r) <= Total(rows, C, r)
    BY <2>1, <2>2, <2>5, TotalMonotone
  <2>7. Total(rows, K, r) \in Nat /\ Total(rows, C, r) \in Nat /\ Stock[s][r] \in Nat
    BY <2>1, <2>2, <2>3, <2>5, TotalIsNat, LedgerAssumption
  <2>8. Total(rows, K, r) <= Stock[s][r]
    BY <2>4, <2>6, <2>7
  <2> QED BY <2>8 DEF Total, K
<1> QED BY <1>1, SpendingInvariant, PTL

(* A command in flight is under the execution lock and covered by an active  *)
(* reservation for its turn's save (_reserve_prepared_resources, execute).   *)
THEOREM SpendingSentIsReserved == SpendingSpec => []SentIsReserved
<1>1. SpendingInv => SentIsReserved
  BY DEF SpendingInv, SentIsReserved, Sending, Locked, IsHeld
<1> QED BY <1>1, SpendingInvariant, PTL

(* A construction that a later save wrote off was not carried out and never  *)
(* is: trying it anew does not build it twice (_reconcile_pending_execution).*)
(* A save written before the answer that arrived after it is excepted.       *)
THEOREM SpendingRejectedWasLost == SpendingSpec => []RejectedWasLost
<1>1. SpendingInv => RejectedWasLost
  BY DEF SpendingInv, Settled, RejectedWasLost
<1> QED BY <1>1, SpendingInvariant, PTL

=============================================================================
