----------------------- MODULE IQMBackendServiceProofs -----------------------
(***************************************************************************)
(* The accounting database, for any resources, any number of rows and any  *)
(* amounts and factors; first, about the sum of an array.                  *)
(*                                                                         *)
(* The safety of the backend service for any number of requests, resources *)
(* and allocations.  The inductive invariant says of every request how far *)
(* it has got: it is handled once, its usage is settled before it is       *)
(* billed, and nothing is billed while another job holds the machine.      *)
(***************************************************************************)
EXTENDS IQMBackendService, WellFoundedInduction, TLAPS

-----------------------------------------------------------------------------
(* The accounting database.                                                *)

(***************************************************************************)
(* Every non-empty set of naturals has a least element.                    *)
(***************************************************************************)
LEMMA LeastElement ==
    ASSUME NEW T, T \subseteq Nat, T # {}
    PROVE  \E x \in T : \A y \in T : x <= y
<1>1. PICK x \in T : \A y \in T : ~ (<<y, x>> \in OpToRel(<, Nat))
    BY NatLessThanWellFounded, WFMin
<1>2. \A y \in T : <<y, x>> \in Nat \X Nat
    OBVIOUS
<1>3. \A y \in T : ~ (y < x)
    BY <1>1, <1>2 DEF OpToRel
<1> QED
    BY <1>3

(***************************************************************************)
(* An array has running totals: a function that starts at zero and adds    *)
(* one entry per step.                                                     *)
(***************************************************************************)
IsRunningTotals(f, c, m) ==
    /\ f \in [0..m -> Int]
    /\ f[0] = 0
    /\ \A i \in 1..m : f[i] = f[i - 1] + c[i]

LEMMA RunningTotalsExist ==
    ASSUME NEW n \in Nat, NEW c \in [1..n -> Int]
    PROVE  \A m \in 0..n : \E f : IsRunningTotals(f, c, m)
<1> DEFINE T == {m \in 0..n : ~ \E f : IsRunningTotals(f, c, m)}
<1> SUFFICES ASSUME T # {} PROVE FALSE
    OBVIOUS
<1>1. PICK m \in T : \A k \in T : m <= k
  <2>1. T \subseteq Nat
      OBVIOUS
  <2> HIDE DEF T
  <2> QED
      BY <2>1, LeastElement
<1>2. m # 0
  <2>1. IsRunningTotals([i \in 0..0 |-> 0], c, 0)
      BY DEF IsRunningTotals
  <2> QED
      BY <2>1, <1>1
<1>3. m - 1 \in 0..n /\ m - 1 \notin T
    BY <1>1, <1>2
<1>4. PICK f : IsRunningTotals(f, c, m - 1)
    BY <1>3
<1> DEFINE g == [i \in 0..m |-> IF i = m THEN f[m - 1] + c[m] ELSE f[i]]
<1>5. IsRunningTotals(g, c, m)
  <2>1. m \in 1..n /\ f[m - 1] \in Int /\ c[m] \in Int
      BY <1>1, <1>2, <1>4 DEF IsRunningTotals
  <2>2. g \in [0..m -> Int]
      BY <2>1, <1>4 DEF IsRunningTotals
  <2>3. g[0] = 0
      BY <2>1, <1>4 DEF IsRunningTotals
  <2>4. ASSUME NEW i \in 1..m PROVE g[i] = g[i - 1] + c[i]
      BY <2>1, <1>4, SMTT(20) DEF IsRunningTotals
  <2> QED
      BY <2>2, <2>3, <2>4 DEF IsRunningTotals
<1> QED
    BY <1>1, <1>5

(***************************************************************************)
(* RunningTotals is one of them: its recursive definition is satisfiable.  *)
(***************************************************************************)
LEMMA RunningTotalsDef ==
    ASSUME NEW n \in Nat, NEW c \in [1..n -> Int]
    PROVE  IsRunningTotals(RunningTotals(c, n), c, n)
<1> DEFINE Step(f) == [i \in 0..n |-> IF i = 0 THEN 0 ELSE f[i - 1] + c[i]]
<1>1. PICK f : IsRunningTotals(f, c, n)
    BY RunningTotalsExist
<1>2. f = Step(f)
    BY <1>1 DEF IsRunningTotals
<1>3. RunningTotals(c, n) = CHOOSE g : g = Step(g)
    BY DEF RunningTotals
<1> DEFINE t == RunningTotals(c, n)
<1>4. t = Step(t)
    BY <1>2, <1>3
<1> HIDE DEF t
<1>5. t[0] = 0 /\ \A i \in 1..n : t[i] = t[i - 1] + c[i]
    BY <1>4
<1>6. \A i \in 0..n : t[i] = f[i]
  <2> DEFINE U == {i \in 0..n : t[i] # f[i]}
  <2> SUFFICES ASSUME U # {} PROVE FALSE
      OBVIOUS
  <2>1. PICK i \in U : \A j \in U : i <= j
    <3>1. U \subseteq Nat
        OBVIOUS
    <3> HIDE DEF U
    <3> QED
        BY <3>1, LeastElement
  <2>2. i # 0
      BY <2>1, <1>1, <1>5 DEF IsRunningTotals
  <2>3. t[i - 1] = f[i - 1]
      BY <2>1, <2>2
  <2> QED
      BY <2>1, <2>2, <2>3, <1>1, <1>5, SMTT(20) DEF IsRunningTotals
<1>7. DOMAIN t = 0..n
    BY <1>4
<1>8. t \in [0..n -> Int]
    BY <1>1, <1>4, <1>6, <1>7 DEF IsRunningTotals
<1> QED
    BY <1>5, <1>8 DEF t, IsRunningTotals
(***************************************************************************)
(* Changing one entry by x moves the sum by x.  Two arrays that agree      *)
(* everywhere but at k: their running totals agree below k and differ by x *)
(* from k on.                                                              *)
(***************************************************************************)
LEMMA SumOfPointUpdate ==
    ASSUME NEW n \in Nat, NEW c \in [1..n -> Int], NEW d \in [1..n -> Int],
           NEW k \in 1..n, NEW x \in Int,
           d[k] = c[k] + x,
           \A i \in 1..n : i # k => d[i] = c[i]
    PROVE  SumTo(d, n) = SumTo(c, n) + x
<1> DEFINE s == RunningTotals(c, n)
           t == RunningTotals(d, n)
<1>1. IsRunningTotals(s, c, n) /\ IsRunningTotals(t, d, n)
    BY RunningTotalsDef
<1> HIDE DEF s, t
<1> DEFINE U == {i \in 0..n : t[i] # s[i] + (IF i < k THEN 0 ELSE x)}
<1>2. U = {}
  <2> SUFFICES ASSUME U # {} PROVE FALSE
      OBVIOUS
  <2>1. PICK i \in U : \A j \in U : i <= j
    <3>1. U \subseteq Nat
        OBVIOUS
    <3> HIDE DEF U
    <3> QED
        BY <3>1, LeastElement
  <2>2. i # 0
      BY <2>1, <1>1 DEF IsRunningTotals
  <2>3. i \in 1..n /\ i - 1 \in 0..n /\ i - 1 \notin U
      BY <2>1, <2>2
  <2>4. t[i - 1] = s[i - 1] + (IF i - 1 < k THEN 0 ELSE x)
      BY <2>3
  <2>5. t[i] = t[i - 1] + d[i] /\ s[i] = s[i - 1] + c[i]
      BY <2>3, <1>1 DEF IsRunningTotals
  <2>6. /\ s[i - 1] \in Int /\ t[i - 1] \in Int
        /\ c[i] \in Int /\ d[i] \in Int
      BY <2>3, <1>1 DEF IsRunningTotals
  <2>7. t[i] # s[i] + (IF i < k THEN 0 ELSE x)
      BY <2>1
  <2>8. i \in Int /\ k \in Int
      BY <2>3
  <2> HIDE DEF U
  <2>9. CASE i = k
      BY <2>4, <2>5, <2>6, <2>7, <2>8, <2>9
  <2>10. CASE i < k
      BY <2>3, <2>4, <2>5, <2>6, <2>7, <2>8, <2>10, SMTT(20)
  <2>11. CASE i > k
      BY <2>3, <2>4, <2>5, <2>6, <2>7, <2>8, <2>11
  <2> QED
      BY <2>8, <2>9, <2>10, <2>11
<1>3. t[n] = s[n] + x
    BY <1>2, SMTT(20)
<1> QED
    BY <1>3 DEF s, t, SumTo

(***************************************************************************)
(* An array of zeros sums to zero.                                         *)
(***************************************************************************)
LEMMA SumOfZeros ==
    ASSUME NEW n \in Nat
    PROVE  SumTo([i \in 1..n |-> 0], n) = 0
<1> DEFINE c == [i \in 1..n |-> 0]
           t == RunningTotals(c, n)
<1>1. IsRunningTotals(t, c, n)
    BY RunningTotalsDef
<1> HIDE DEF t
<1> DEFINE U == {i \in 0..n : t[i] # 0}
<1>2. U = {}
  <2> SUFFICES ASSUME U # {} PROVE FALSE
      OBVIOUS
  <2>1. PICK i \in U : \A j \in U : i <= j
    <3>1. U \subseteq Nat
        OBVIOUS
    <3> HIDE DEF U
    <3> QED
        BY <3>1, LeastElement
  <2>2. i # 0
      BY <2>1, <1>1 DEF IsRunningTotals
  <2>3. t[i - 1] = 0
      BY <2>1, <2>2
  <2> QED
      BY <2>1, <2>2, <2>3, <1>1 DEF IsRunningTotals
<1> QED
    BY <1>2 DEF t, SumTo

(***************************************************************************)
(* A sum of integers is an integer, and a sum of naturals a natural.       *)
(***************************************************************************)
LEMMA SumType ==
    ASSUME NEW n \in Nat, NEW c \in [1..n -> Int]
    PROVE  SumTo(c, n) \in Int
BY RunningTotalsDef DEF SumTo, IsRunningTotals

LEMMA SumOfNaturals ==
    ASSUME NEW n \in Nat, NEW c \in [1..n -> Nat]
    PROVE  SumTo(c, n) \in Nat
<1> DEFINE t == RunningTotals(c, n)
<1>1. c \in [1..n -> Int]
    OBVIOUS
<1>2. IsRunningTotals(t, c, n)
    BY <1>1, RunningTotalsDef
<1> HIDE DEF t
<1> DEFINE U == {i \in 0..n : t[i] \notin Nat}
<1>3. U = {}
  <2> SUFFICES ASSUME U # {} PROVE FALSE
      OBVIOUS
  <2>1. PICK i \in U : \A j \in U : i <= j
    <3>1. U \subseteq Nat
        OBVIOUS
    <3> HIDE DEF U
    <3> QED
        BY <3>1, LeastElement
  <2>2. i # 0
      BY <2>1, <1>2 DEF IsRunningTotals
  <2>3. t[i - 1] \in Nat
      BY <2>1, <2>2
  <2> QED
      BY <2>1, <2>2, <2>3, <1>2, SMTT(20) DEF IsRunningTotals
<1> QED
    BY <1>3 DEF t, SumTo

-----------------------------------------------------------------------------

LEMMA ChargeIsNatural ==
    ASSUME NEW row \in ConsumptionEntity
    PROVE  Charge(row) \in Nat
BY DEF Charge, ConsumptionEntity

LEMMA ChargesType ==
    ASSUME NEW table, IsEntityTable(table), NEW r
    PROVE  ChargesTo(r, table) \in [ConsumptionIds -> Nat]
<1> SUFFICES ASSUME NEW id \in ConsumptionIds
             PROVE  ChargesTo(r, table)[id] \in Nat
    BY DEF ChargesTo
<1>1. CASE id \in DOMAIN table
  <2>1. table[id] \in ConsumptionEntity
      BY <1>1 DEF IsEntityTable
  <2> QED
      BY <2>1, ChargeIsNatural DEF ChargesTo
<1>2. CASE id \notin DOMAIN table
    BY <1>2 DEF ChargesTo
<1> QED
    BY <1>1, <1>2

(***************************************************************************)
(* Two tables that differ in one row only: their totals for a resource     *)
(* differ by what that row contributes.                                    *)
(***************************************************************************)
LEMMA BilledTotalMoves ==
    ASSUME LedgerAssumption, NEW old, NEW new,
           IsEntityTable(old), IsEntityTable(new),
           NEW r, NEW id \in ConsumptionIds,
           \A i \in ConsumptionIds \ {id} :
               /\ i \in DOMAIN new <=> i \in DOMAIN old
               /\ i \in DOMAIN old => new[i] = old[i]
    PROVE  SumTo(ChargesTo(r, new), MaxRows)
             = SumTo(ChargesTo(r, old), MaxRows)
                 + (ChargesTo(r, new)[id] - ChargesTo(r, old)[id])
<1> DEFINE c == ChargesTo(r, old)
           d == ChargesTo(r, new)
           x == d[id] - c[id]
<1>1. c \in [ConsumptionIds -> Nat] /\ d \in [ConsumptionIds -> Nat]
    BY ChargesType
<1>2. \A i \in ConsumptionIds : i # id => d[i] = c[i]
    BY DEF ChargesTo
<1> HIDE DEF c, d
<1>3. x \in Int /\ d[id] = c[id] + x
    BY <1>1
<1>4. c \in [1..MaxRows -> Int] /\ d \in [1..MaxRows -> Int]
    BY <1>1 DEF ConsumptionIds
<1> HIDE DEF x
<1>5. SumTo(d, MaxRows) = SumTo(c, MaxRows) + x
    BY <1>2, <1>3, <1>4, SumOfPointUpdate DEF LedgerAssumption, ConsumptionIds
<1> QED
    BY <1>5 DEF x, c, d

(***************************************************************************)
(* No row contributes more than the total: emptying the row leaves a table *)
(* whose total is still a natural.                                         *)
(***************************************************************************)
LEMMA ChargesAtMostTotal ==
    ASSUME LedgerAssumption, NEW table, IsEntityTable(table), NEW r,
           NEW id \in ConsumptionIds
    PROVE  ChargesTo(r, table)[id] <= SumTo(ChargesTo(r, table), MaxRows)
<1> DEFINE c == ChargesTo(r, table)
           d == [c EXCEPT ![id] = 0]
           x == 0 - c[id]
<1>1. c \in [1..MaxRows -> Nat]
    BY ChargesType DEF ConsumptionIds
<1> HIDE DEF c
<1>2. id \in 1..MaxRows /\ MaxRows \in Nat
    BY DEF ConsumptionIds, LedgerAssumption
<1>3. d \in [1..MaxRows -> Nat]
    BY <1>1, <1>2
<1>4. /\ d[id] = c[id] + x
      /\ x \in Int
      /\ \A i \in 1..MaxRows : i # id => d[i] = c[i]
    BY <1>1, <1>2
<1> HIDE DEF d, x
<1>5. SumTo(d, MaxRows) = SumTo(c, MaxRows) + x
  <2>1. c \in [1..MaxRows -> Int] /\ d \in [1..MaxRows -> Int]
      BY <1>1, <1>3
  <2> QED
      BY <1>2, <1>4, <2>1, SumOfPointUpdate
<1>6. SumTo(d, MaxRows) \in Nat /\ SumTo(c, MaxRows) \in Nat
    BY <1>1, <1>2, <1>3, SumOfNaturals
<1>7. c[id] \in Nat
    BY <1>1, <1>2
<1> QED
    BY <1>5, <1>6, <1>7 DEF x, c

LEMMA BilledTotalType ==
    ASSUME LedgerAssumption, IsEntityTable(entities), NEW r
    PROVE  BilledTotal(r) \in Nat
BY ChargesType, SumOfNaturals DEF BilledTotal, ConsumptionIds, LedgerAssumption

-----------------------------------------------------------------------------
(***************************************************************************)
(* Each statement, with its trigger, keeps the tables well typed and the   *)
(* summaries equal to the sums.                                            *)
(***************************************************************************)
LEMMA InsertKeepsSum ==
    ASSUME LedgerAssumption, LedgerTypeOK, SummaryIsSum,
           NEW id, NEW new \in ConsumptionEntity, new.resource \in Resources,
           InsertEntity(id, new)
    PROVE  /\ IsEntityTable(entities)'
           /\ DOMAIN summaries' \subseteq Resources
           /\ summaries' \in [DOMAIN summaries' -> Int]
           /\ SummaryIsSum'
<1>1. id \in ConsumptionIds /\ id \notin DOMAIN entities
    BY DEF InsertEntity
<1>2. IsEntityTable(entities) /\ IsEntityTable(entities')
    BY <1>1 DEF IsEntityTable, LedgerTypeOK, InsertEntity
<1>3. Charge(new) \in Int
    BY ChargeIsNatural
<1>4. /\ DOMAIN summaries' \subseteq Resources
      /\ summaries' \in [DOMAIN summaries' -> Int]
    BY <1>3 DEF LedgerTypeOK, InsertEntity, AddNew, SummaryIn
<1>5. ASSUME NEW r \in Resources
      PROVE  CurrentConsumption(r)' = BilledTotal(r)'
  <2>1. BilledTotal(r)' = BilledTotal(r)
            + (ChargesTo(r, entities')[id] - ChargesTo(r, entities)[id])
    <3>1. \A i \in ConsumptionIds \ {id} :
              /\ i \in DOMAIN entities' <=> i \in DOMAIN entities
              /\ i \in DOMAIN entities => entities'[i] = entities[i]
        BY DEF InsertEntity
    <3> QED
        BY <1>1, <1>2, <3>1, BilledTotalMoves DEF BilledTotal
  <2>2. ChargesTo(r, entities)[id] = 0
      BY <1>1 DEF ChargesTo
  <2>3. ChargesTo(r, entities')[id] =
            IF new.resource = r THEN Charge(new) ELSE 0
      BY <1>1 DEF ChargesTo, InsertEntity
  <2>4. CurrentConsumption(r)' = CurrentConsumption(r)
            + (IF new.resource = r THEN Charge(new) ELSE 0)
      BY <1>3 DEF CurrentConsumption, SummaryIn, InsertEntity, AddNew, LedgerTypeOK
  <2>5. CurrentConsumption(r) = BilledTotal(r) /\ BilledTotal(r) \in Int
      BY <1>2, BilledTotalType DEF SummaryIsSum
  <2> QED
      BY <1>3, <2>1, <2>2, <2>3, <2>4, <2>5
<1> QED
    BY <1>2, <1>4, <1>5 DEF SummaryIsSum

LEMMA UpdateKeepsSum ==
    ASSUME LedgerAssumption, LedgerTypeOK, SummaryIsSum,
           NEW id, NEW new \in ConsumptionEntity, new.resource \in Resources,
           UpdateEntity(id, new)
    PROVE  /\ IsEntityTable(entities)'
           /\ DOMAIN summaries' \subseteq Resources
           /\ summaries' \in [DOMAIN summaries' -> Int]
           /\ SummaryIsSum'
<1> DEFINE old == entities[id]
           mid == SubtractOld(summaries, old)
<1>1. id \in ConsumptionIds /\ id \in DOMAIN entities
    BY DEF UpdateEntity, LedgerTypeOK, IsEntityTable
<1>2. IsEntityTable(entities) /\ IsEntityTable(entities')
    BY <1>1 DEF IsEntityTable, LedgerTypeOK, UpdateEntity
<1>3. old \in ConsumptionEntity
    BY <1>1, <1>2 DEF IsEntityTable
<1>4. Charge(new) \in Int /\ Charge(old) \in Nat
    BY <1>3, ChargeIsNatural
<1>5. mid \in [DOMAIN summaries -> Int]
    BY <1>4 DEF LedgerTypeOK, SubtractOld
<1>6. /\ DOMAIN summaries' \subseteq Resources
      /\ summaries' \in [DOMAIN summaries' -> Int]
  <2> HIDE DEF mid
  <2> QED
      BY <1>4, <1>5 DEF LedgerTypeOK, UpdateEntity, AddNew, SummaryIn, mid
<1>7. ASSUME NEW r \in Resources
      PROVE  CurrentConsumption(r)' = BilledTotal(r)'
  <2> DEFINE before == IF old.resource = r THEN Charge(old) ELSE 0
             after  == IF new.resource = r THEN Charge(new) ELSE 0
  <2>1. BilledTotal(r)' = BilledTotal(r)
            + (ChargesTo(r, entities')[id] - ChargesTo(r, entities)[id])
    <3>1. \A i \in ConsumptionIds \ {id} :
              /\ i \in DOMAIN entities' <=> i \in DOMAIN entities
              /\ i \in DOMAIN entities => entities'[i] = entities[i]
        BY DEF UpdateEntity
    <3> QED
        BY <1>1, <1>2, <3>1, BilledTotalMoves DEF BilledTotal
  <2>2. ChargesTo(r, entities)[id] = before
      BY <1>1 DEF ChargesTo
  <2>3. ChargesTo(r, entities')[id] = after
      BY <1>1 DEF ChargesTo, UpdateEntity
  <2>4. CurrentConsumption(r) = BilledTotal(r) /\ BilledTotal(r) \in Int
      BY <1>2, BilledTotalType DEF SummaryIsSum
  <2>5. SummaryIn(mid, r) = CurrentConsumption(r) - before
    <3>1. CASE r \in DOMAIN summaries
        BY <1>4, <3>1 DEF SummaryIn, SubtractOld, CurrentConsumption, LedgerTypeOK
    <3>2. CASE r \notin DOMAIN summaries
      <4>1. before <= BilledTotal(r)
          BY <1>2, <2>2, ChargesAtMostTotal, <1>1 DEF BilledTotal
      <4>2. CurrentConsumption(r) = 0 /\ SummaryIn(mid, r) = 0
          BY <3>2 DEF CurrentConsumption, SummaryIn, SubtractOld
      <4> QED
          BY <1>4, <2>4, <4>1, <4>2
    <3> QED
        BY <3>1, <3>2
  <2>6. CurrentConsumption(r)' = SummaryIn(mid, r) + after
    <3>1. summaries' = AddNew(mid, new)
        BY DEF UpdateEntity
    <3> HIDE DEF mid
    <3> QED
        BY <1>4, <1>5, <3>1 DEF CurrentConsumption, SummaryIn, AddNew
  <2>7. before \in Int /\ after \in Int
      BY <1>4
  <2> HIDE DEF before, after, mid, old
  <2> QED
      BY <2>1, <2>2, <2>3, <2>4, <2>5, <2>6, <2>7
<1> QED
    BY <1>2, <1>6, <1>7 DEF SummaryIsSum

LEMMA DeleteKeepsSum ==
    ASSUME LedgerAssumption, LedgerTypeOK, SummaryIsSum,
           NEW id, DeleteEntity(id)
    PROVE  /\ IsEntityTable(entities)'
           /\ DOMAIN summaries' \subseteq Resources
           /\ summaries' \in [DOMAIN summaries' -> Int]
           /\ SummaryIsSum'
<1> DEFINE old == entities[id]
<1>1. id \in ConsumptionIds /\ id \in DOMAIN entities
    BY DEF DeleteEntity, LedgerTypeOK, IsEntityTable
<1>2. IsEntityTable(entities) /\ IsEntityTable(entities')
    BY <1>1 DEF IsEntityTable, LedgerTypeOK, DeleteEntity
<1>3. Charge(old) \in Nat
    BY <1>1, <1>2, ChargeIsNatural DEF IsEntityTable
<1>4. /\ DOMAIN summaries' \subseteq Resources
      /\ summaries' \in [DOMAIN summaries' -> Int]
    BY <1>3 DEF LedgerTypeOK, DeleteEntity, SubtractOld
<1>5. ASSUME NEW r \in Resources
      PROVE  CurrentConsumption(r)' = BilledTotal(r)'
  <2> DEFINE before == IF old.resource = r THEN Charge(old) ELSE 0
  <2>1. BilledTotal(r)' = BilledTotal(r)
            + (ChargesTo(r, entities')[id] - ChargesTo(r, entities)[id])
    <3>1. \A i \in ConsumptionIds \ {id} :
              /\ i \in DOMAIN entities' <=> i \in DOMAIN entities
              /\ i \in DOMAIN entities => entities'[i] = entities[i]
        BY DEF DeleteEntity
    <3> QED
        BY <1>1, <1>2, <3>1, BilledTotalMoves DEF BilledTotal
  <2>2. ChargesTo(r, entities)[id] = before
      BY <1>1 DEF ChargesTo
  <2>3. ChargesTo(r, entities')[id] = 0
      BY <1>1 DEF ChargesTo, DeleteEntity
  <2>4. CurrentConsumption(r) = BilledTotal(r) /\ BilledTotal(r) \in Nat
      BY <1>2, BilledTotalType DEF SummaryIsSum
  <2>5. CurrentConsumption(r)' = CurrentConsumption(r) - before
    <3>1. CASE r \in DOMAIN summaries
        BY <1>3, <3>1 DEF SummaryIn, SubtractOld, CurrentConsumption,
                          LedgerTypeOK, DeleteEntity
    <3>2. CASE r \notin DOMAIN summaries
      <4>1. before <= BilledTotal(r)
          BY <1>1, <1>2, <2>2, ChargesAtMostTotal DEF BilledTotal
      <4>2. CurrentConsumption(r) = 0 /\ CurrentConsumption(r)' = 0
          BY <3>2 DEF CurrentConsumption, SummaryIn, SubtractOld, DeleteEntity
      <4> QED
          BY <1>3, <2>4, <4>1, <4>2
    <3> QED
        BY <3>1, <3>2
  <2>6. before \in Int
      BY <1>3
  <2> HIDE DEF before, old
  <2> QED
      BY <2>1, <2>2, <2>3, <2>4, <2>5, <2>6
<1> QED
    BY <1>2, <1>4, <1>5 DEF SummaryIsSum

-----------------------------------------------------------------------------
(***************************************************************************)
(* The inductive invariant of the database.                                *)
(***************************************************************************)
LedgerInv == LedgerTypeOK /\ SummaryIsSum /\ TasksAndChargesOneToOne

LEMMA LedgerInitInv ==
    ASSUME LedgerAssumption, LedgerInit
    PROVE  LedgerInv
<1>1. LedgerTypeOK
    BY DEF LedgerInit, LedgerTypeOK, IsEntityTable
<1>2. SummaryIsSum
  <2> SUFFICES ASSUME NEW r \in Resources
               PROVE  CurrentConsumption(r) = BilledTotal(r)
      BY DEF SummaryIsSum
  <2>1. CurrentConsumption(r) = 0
      BY DEF LedgerInit, CurrentConsumption, SummaryIn
  <2>2. ChargesTo(r, entities) = [i \in 1..MaxRows |-> 0]
      BY DEF LedgerInit, ChargesTo, ConsumptionIds
  <2> QED
      BY <2>1, <2>2, SumOfZeros DEF BilledTotal, LedgerAssumption
<1>3. TasksAndChargesOneToOne
    BY DEF LedgerInit, TasksAndChargesOneToOne
<1> QED
    BY <1>1, <1>2, <1>3 DEF LedgerInv

(***************************************************************************)
(* Recording a job, whether it is new or was recorded before.              *)
(***************************************************************************)
LEMMA RecordKeepsInv ==
    ASSUME LedgerAssumption, LedgerInv,
           NEW h \in HeappeIds, NEW j \in IQMJobIds, NEW r \in Resources,
           NEW a \in Nat, RecordConsumption(h, j, r, a)
    PROVE  LedgerInv'
<1>1. CASE UpdateExistingTask(h, j, a)
  <2>1. PICK t \in TasksOf(h, j) :
            UpdateEntity(t.consumptionId,
                [entities[t.consumptionId] EXCEPT !.consumption = a])
      BY <1>1 DEF UpdateExistingTask
  <2> DEFINE id  == t.consumptionId
             new == [entities[id] EXCEPT !.consumption = a]
  <2>2. id \in DOMAIN entities /\ entities[id] \in ConsumptionEntity
      BY <2>1 DEF UpdateEntity, LedgerInv, LedgerTypeOK, IsEntityTable
  <2>3. new \in ConsumptionEntity /\ new.resource \in Resources
      BY <2>2 DEF ConsumptionEntity
  <2>4. UpdateEntity(id, new)
      BY <2>1
  <2> HIDE DEF new
  <2>5. LedgerTypeOK' /\ SummaryIsSum'
      BY <1>1, <2>3, <2>4, UpdateKeepsSum
         DEF LedgerInv, LedgerTypeOK, UpdateExistingTask
  <2>6. TasksAndChargesOneToOne'
      BY <1>1, <2>4 DEF LedgerInv, TasksAndChargesOneToOne, TasksOf,
                        UpdateExistingTask, UpdateEntity
  <2> QED
      BY <2>5, <2>6 DEF LedgerInv
<1>2. CASE InsertNewTask(h, j, r, a)
  <2> DEFINE new == [resource |-> r, consumption |-> a, factor |-> 1]
  <2>1. PICK id \in ConsumptionIds :
            /\ InsertEntity(id, new)
            /\ tasks' = tasks \cup {[consumptionId |-> id, heappeId |-> h,
                                     iqmJobId |-> j]}
      BY <1>2 DEF InsertNewTask
  <2>2. new \in ConsumptionEntity /\ new.resource \in Resources
      BY DEF ConsumptionEntity
  <2> HIDE DEF new
  <2>3. LedgerTypeOK' /\ SummaryIsSum'
    <3>1. tasks' \subseteq Task
        BY <2>1 DEF LedgerInv, LedgerTypeOK, Task
    <3> QED
        BY <2>1, <2>2, <3>1, InsertKeepsSum DEF LedgerInv, LedgerTypeOK
  <2>4. TasksAndChargesOneToOne'
    <3> DEFINE fresh == [consumptionId |-> id, heappeId |-> h, iqmJobId |-> j]
    <3>1. \A t \in tasks : t.consumptionId # id
        BY <2>1 DEF InsertEntity, LedgerInv, TasksAndChargesOneToOne
    <3>2. \A t \in tasks : ~ (t.heappeId = h /\ t.iqmJobId = j)
        BY <1>2 DEF InsertNewTask, TasksOf
    <3>3. /\ fresh.consumptionId = id /\ fresh.heappeId = h
          /\ fresh.iqmJobId = j
        OBVIOUS
    <3>4. tasks' = tasks \cup {fresh} /\ DOMAIN entities' = DOMAIN entities \cup {id}
        BY <2>1 DEF InsertEntity
    <3> HIDE DEF fresh
    <3>5. /\ \A t \in tasks' : t.consumptionId \in DOMAIN entities'
          /\ \A i \in DOMAIN entities' : \E t \in tasks' : t.consumptionId = i
          /\ \A t, u \in tasks' : t.consumptionId = u.consumptionId => t = u
        BY <3>1, <3>3, <3>4 DEF LedgerInv, TasksAndChargesOneToOne
    <3>6. \A t, u \in tasks' :
              u.heappeId = t.heappeId /\ u.iqmJobId = t.iqmJobId => u = t
      <4>1. \A t, u \in tasks :
                u.heappeId = t.heappeId /\ u.iqmJobId = t.iqmJobId => u = t
          BY DEF LedgerInv, TasksAndChargesOneToOne, TasksOf
      <4> QED
          BY <3>2, <3>3, <3>4, <4>1
    <3> QED
        BY <3>5, <3>6 DEF TasksAndChargesOneToOne, TasksOf
  <2> QED
      BY <2>3, <2>4 DEF LedgerInv
<1> QED
    BY <1>1, <1>2 DEF RecordConsumption

LEMMA LedgerNextInv ==
    ASSUME LedgerAssumption, LedgerInv, [LedgerNext]_ledgerVars
    PROVE  LedgerInv'
<1>1. ASSUME NEW h \in HeappeIds, NEW j \in IQMJobIds, NEW r \in Resources,
             NEW a \in Amounts, RecordConsumption(h, j, r, a)
      PROVE  LedgerInv'
    BY <1>1, RecordKeepsInv DEF LedgerAssumption
<1>2. ASSUME NEW id \in ConsumptionIds, NEW r \in Resources, NEW a \in Amounts,
             NEW f \in Factors, CorrectEntity(id, r, a, f)
      PROVE  LedgerInv'
  <2> DEFINE new == [resource |-> r, consumption |-> a, factor |-> f]
  <2>1. new \in ConsumptionEntity /\ new.resource \in Resources
      BY DEF ConsumptionEntity, LedgerAssumption
  <2>2. UpdateEntity(id, new) /\ tasks' = tasks
      BY <1>2 DEF CorrectEntity
  <2> HIDE DEF new
  <2>3. LedgerTypeOK' /\ SummaryIsSum'
      BY <2>1, <2>2, UpdateKeepsSum DEF LedgerInv, LedgerTypeOK
  <2>4. TasksAndChargesOneToOne'
      BY <2>2 DEF LedgerInv, TasksAndChargesOneToOne, TasksOf, UpdateEntity
  <2> QED
      BY <2>3, <2>4 DEF LedgerInv
<1>3. ASSUME NEW id \in ConsumptionIds, DeleteEntity(id)
      PROVE  LedgerInv'
  <2>1. LedgerTypeOK' /\ SummaryIsSum'
      BY <1>3, DeleteKeepsSum DEF LedgerInv, LedgerTypeOK, DeleteEntity
  <2>2. TasksAndChargesOneToOne'
      BY <1>3 DEF LedgerInv, TasksAndChargesOneToOne, TasksOf, DeleteEntity
  <2> QED
      BY <2>1, <2>2 DEF LedgerInv
<1>4. CASE UNCHANGED ledgerVars
    BY <1>4 DEF ledgerVars, LedgerInv, LedgerTypeOK, SummaryIsSum, IsEntityTable,
                CurrentConsumption, BilledTotal, TasksAndChargesOneToOne, TasksOf
<1> QED
    BY <1>1, <1>2, <1>3, <1>4 DEF LedgerNext

(***************************************************************************)
(* The database keeps its tables well typed, its tasks and charges one to  *)
(* one, and its summaries equal to the sum of the charges.                 *)
(***************************************************************************)
THEOREM LedgerSafe == LedgerSpec => []LedgerInv
<1>1. LedgerInit => LedgerInv
    BY LedgerInitInv, LedgerAssumption
<1>2. LedgerInv /\ [LedgerNext]_ledgerVars => LedgerInv'
    BY LedgerNextInv, LedgerAssumption
<1> QED
    BY <1>1, <1>2, PTL DEF LedgerSpec

(***************************************************************************)
(* The tables keep their types under any statements (the triggers of       *)
(* internal_accounting_table_pgsql_init.sql).                              *)
(***************************************************************************)
THEOREM LedgerIsTyped == LedgerSpec => []LedgerTypeOK
<1>1. LedgerInv => LedgerTypeOK
    BY DEF LedgerInv
<1> QED
    BY <1>1, LedgerSafe, PTL

(***************************************************************************)
(* The trigger keeps the summary of every resource equal to the sum of its *)
(* charges (maintain_resource_consumption_summary), for any tables.        *)
(***************************************************************************)
THEOREM SummaryIsAlwaysSum == LedgerSpec => []SummaryIsSum
<1>1. LedgerInv => SummaryIsSum
    BY DEF LedgerInv
<1> QED
    BY <1>1, LedgerSafe, PTL

(***************************************************************************)
(* A job is billed by at most one row, and every row bills one job.        *)
(***************************************************************************)
THEOREM TasksAndChargesAreOneToOne == LedgerSpec => []TasksAndChargesOneToOne
<1>1. LedgerInv => TasksAndChargesOneToOne
    BY DEF LedgerInv
<1> QED
    BY <1>1, LedgerSafe, PTL

-----------------------------------------------------------------------------
(* The backend service.                                                    *)

(***************************************************************************)
(* What the sequence operators of the backlog do, element by element.      *)
(***************************************************************************)
InBacklog(q) == \E i \in 1..Len(backlog) : backlog[i] = q

BacklogDistinct ==
    \A i, j \in 1..Len(backlog) : backlog[i] = backlog[j] => i = j

LEMMA JoinsBacklog ==
    ASSUME backlog \in Seq(Requests), BacklogDistinct, NEW q \in Requests,
           ~ InBacklog(q), backlog' = Append(backlog, q)
    PROVE  /\ backlog' \in Seq(Requests)
           /\ BacklogDistinct'
           /\ \A p : InBacklog(p)' => p = q \/ InBacklog(p)
<1>1. /\ backlog' \in Seq(Requests) /\ Len(backlog') = Len(backlog) + 1
      /\ \A i \in 1..Len(backlog) : backlog'[i] = backlog[i]
      /\ backlog'[Len(backlog) + 1] = q
    OBVIOUS
<1>2. Len(backlog) \in Nat
    OBVIOUS
<1>3. \A i \in 1..Len(backlog') : i \in 1..Len(backlog) \/ i = Len(backlog) + 1
    BY <1>1, <1>2
<1>4. \A i \in 1..Len(backlog) : backlog[i] # q
    BY DEF InBacklog
<1>5. BacklogDistinct'
    BY <1>1, <1>2, <1>3, <1>4 DEF BacklogDistinct
<1>6. \A p : InBacklog(p)' => p = q \/ InBacklog(p)
    BY <1>1, <1>3 DEF InBacklog
<1> QED
    BY <1>1, <1>5, <1>6

LEMMA LeavesBacklog ==
    ASSUME backlog \in Seq(Requests), BacklogDistinct, backlog # <<>>,
           NEW q, q = Head(backlog), backlog' = Tail(backlog)
    PROVE  /\ q \in Requests /\ InBacklog(q)
           /\ backlog' \in Seq(Requests)
           /\ BacklogDistinct'
           /\ ~ InBacklog(q)'
           /\ \A p : InBacklog(p)' => InBacklog(p)
<1>1. /\ backlog' \in Seq(Requests) /\ Len(backlog') = Len(backlog) - 1
      /\ Len(backlog) \in Nat /\ Len(backlog) # 0
      /\ \A i \in 1..Len(backlog) - 1 : backlog'[i] = backlog[i + 1]
      /\ q = backlog[1] /\ q \in Requests
    OBVIOUS
<1>2. 1 \in 1..Len(backlog)
    BY <1>1
<1>3. \A i \in 1..Len(backlog') :
          /\ i + 1 \in 1..Len(backlog) /\ i + 1 # 1
          /\ backlog'[i] = backlog[i + 1]
    BY <1>1
<1>4. InBacklog(q)
    BY <1>1, <1>2 DEF InBacklog
<1>5. BacklogDistinct'
  <2> SUFFICES ASSUME NEW i \in 1..Len(backlog'), NEW j \in 1..Len(backlog'),
                      backlog'[i] = backlog'[j]
               PROVE  i = j
      BY DEF BacklogDistinct
  <2>1. i + 1 = j + 1
      BY <1>3 DEF BacklogDistinct
  <2> QED
      BY <2>1, <1>1
<1>6. ~ InBacklog(q)'
  <2> SUFFICES ASSUME NEW i \in 1..Len(backlog'), backlog'[i] = q
               PROVE  FALSE
      BY <1>1 DEF InBacklog
  <2> QED
      BY <1>1, <1>2, <1>3 DEF BacklogDistinct
<1>7. \A p : InBacklog(p)' => InBacklog(p)
    BY <1>3 DEF InBacklog
<1> QED
    BY <1>1, <1>4, <1>5, <1>6, <1>7

-----------------------------------------------------------------------------
(***************************************************************************)
(* The ledger under the service: only Bill touches it.                     *)
(***************************************************************************)
LEMMA OnlyBillWrites ==
    ASSUME Next
    PROVE  UNCHANGED ledgerVars \/ \E q \in Requests : Bill(q)
BY DEF Next, Handle, Connect, FindNoSocket, HangUp, Accept, Refuse,
       ServeUnaccounted, GetAccountingInfo, PassCheck, FailCheck, SubmitJob,
       FailToSubmit, ExecuteJob, GiveUpWaiting, CollectResult, FailAfterRun,
       AnswerDone, FailToBill, Close, Crash, Restart, ledgerVars

LEMMA ServiceKeepsLedger ==
    ASSUME ServiceTypeOK, LedgerInv, [Next]_vars
    PROVE  LedgerInv'
<1>1. CASE UNCHANGED ledgerVars
    BY <1>1, LedgerNextInv, LedgerAssumption
<1>2. ASSUME NEW q \in Requests, Bill(q)
      PROVE  LedgerInv'
  <2>1. /\ q \in HeappeIds /\ q \in IQMJobIds /\ resource[q] \in Resources
        /\ newConsumption[q] \in Nat
      BY ServiceAssumption DEF ServiceTypeOK
  <2> QED
      BY <1>2, <2>1, RecordKeepsInv, LedgerAssumption DEF Bill
<1> QED
    BY <1>1, <1>2, OnlyBillWrites DEF vars, ledgerVars

LEMMA CurrentIsNatural ==
    ASSUME LedgerInv, NEW r \in Resources
    PROVE  CurrentConsumption(r) \in Nat
BY BilledTotalType, LedgerAssumption DEF LedgerInv, LedgerTypeOK, SummaryIsSum

LEMMA CachedType ==
    ASSUME ServiceTypeOK, NEW q \in Requests, CacheUsage(q)
    PROVE  /\ newConsumption' \in [Requests -> 0..MaxUsage]
           /\ reported' \in [Requests -> Nat]
<1>1. usage[q] \in 0..MaxUsage /\ usage[q] + seen[q] \in Nat
    BY ServiceAssumption DEF ServiceTypeOK
<1> QED
    BY <1>1 DEF ServiceTypeOK, CacheUsage

(***************************************************************************)
(* Types are kept by every step.                                           *)
(***************************************************************************)
LEMMA TypeNext ==
    ASSUME ServiceTypeOK, LedgerInv, [Next]_vars
    PROVE  ServiceTypeOK'
<1> USE DEF ServiceTypeOK, Stages, GrantedStages
<1>1. LedgerTypeOK'
    BY ServiceKeepsLedger DEF LedgerInv
<1>2. ASSUME NEW q \in Requests, Connect(q)
      PROVE  ServiceTypeOK'
    BY <1>1, <1>2, ServiceAssumption DEF Connect, clientVars, handlerVars,
       jobVars
<1>3. ASSUME NEW q \in Requests, FindNoSocket(q)
      PROVE  ServiceTypeOK'
    BY <1>1, <1>3, ServiceAssumption DEF FindNoSocket, clientVars,
       handlerVars, jobVars
<1>4. ASSUME NEW q \in Requests, HangUp(q)
      PROVE  ServiceTypeOK'
    BY <1>1, <1>4, ServiceAssumption DEF HangUp, clientVars, handlerVars,
       jobVars
<1>5. ASSUME NEW q \in Requests, Refuse(q)
      PROVE  ServiceTypeOK'
    BY <1>1, <1>5, ServiceAssumption DEF Refuse, clientVars, handlerVars,
       jobVars, Fail, Send
<1>6. ASSUME NEW q \in Requests, ServeUnaccounted(q)
      PROVE  ServiceTypeOK'
    BY <1>1, <1>6, ServiceAssumption DEF ServeUnaccounted, clientVars,
       handlerVars, jobVars, Send
<1>7. ASSUME NEW q \in Requests, GetAccountingInfo(q)
      PROVE  ServiceTypeOK'
    BY <1>1, <1>7, ServiceAssumption DEF GetAccountingInfo, clientVars,
       handlerVars, jobVars
<1>8. ASSUME NEW q \in Requests, PassCheck(q)
      PROVE  ServiceTypeOK'
  <2>1. CurrentConsumption(resource[q]) \in Nat
      BY CurrentIsNatural
  <2> QED
      BY <1>1, <1>8, <2>1 DEF PassCheck, clientVars, jobVars
<1>9. ASSUME NEW q \in Requests, FailCheck(q)
      PROVE  ServiceTypeOK'
    BY <1>1, <1>9, ServiceAssumption DEF FailCheck, clientVars, handlerVars,
       jobVars, Fail, Send
<1>10. ASSUME NEW q \in Requests, SubmitJob(q)
      PROVE  ServiceTypeOK'
    BY <1>1, <1>10, ServiceAssumption DEF SubmitJob, clientVars, handlerVars,
       jobVars
<1>11. ASSUME NEW q \in Requests, FailToSubmit(q)
      PROVE  ServiceTypeOK'
    BY <1>1, <1>11, ServiceAssumption DEF FailToSubmit, clientVars,
       handlerVars, jobVars, Fail, Send
<1>12. ASSUME NEW q \in Requests, ExecuteJob(q)
      PROVE  ServiceTypeOK'
  <2>1. PICK outcome \in {"done", "failed"} :
            job' = [job EXCEPT ![q] = outcome]
      BY <1>12 DEF ExecuteJob
  <2>2. PICK u \in 0..MaxUsage : usage' = [usage EXCEPT ![q] = u]
      BY <1>12 DEF ExecuteJob
  <2> QED
      BY <1>1, <1>12, <2>1, <2>2 DEF ExecuteJob, clientVars, handlerVars
<1>13. ASSUME NEW q \in Requests, GiveUpWaiting(q)
      PROVE  ServiceTypeOK'
    BY <1>1, <1>13, ServiceAssumption DEF GiveUpWaiting, clientVars,
       handlerVars, jobVars, Fail, Send
<1>14. ASSUME NEW q \in Requests, CollectResult(q)
      PROVE  ServiceTypeOK'
  <2>1. /\ newConsumption' \in [Requests -> 0..MaxUsage]
        /\ reported' \in [Requests -> Nat]
      BY <1>14, CachedType, ServiceAssumption DEF CollectResult
  <2> QED
      BY <1>1, <1>14, <2>1 DEF CollectResult, clientVars, jobVars
<1>15. ASSUME NEW q \in Requests, FailAfterRun(q)
      PROVE  ServiceTypeOK'
  <2>1. /\ newConsumption' \in [Requests -> 0..MaxUsage]
        /\ reported' \in [Requests -> Nat]
      BY <1>15, CachedType, ServiceAssumption DEF FailAfterRun
  <2> QED
      BY <1>1, <1>15, <2>1 DEF FailAfterRun, clientVars, jobVars, Fail, Send
<1>16. ASSUME NEW q \in Requests, AnswerDone(q)
      PROVE  ServiceTypeOK'
    BY <1>1, <1>16, ServiceAssumption DEF AnswerDone, clientVars, handlerVars,
       jobVars, Send
<1>17. ASSUME NEW q \in Requests, Bill(q)
      PROVE  ServiceTypeOK'
    BY <1>1, <1>17, ServiceAssumption DEF Bill, clientVars, handlerVars,
       jobVars
<1>18. ASSUME NEW q \in Requests, FailToBill(q)
      PROVE  ServiceTypeOK'
    BY <1>1, <1>18, ServiceAssumption DEF FailToBill, clientVars, handlerVars,
       jobVars
<1>19. ASSUME NEW q \in Requests, Close(q)
      PROVE  ServiceTypeOK'
    BY <1>1, <1>19, ServiceAssumption DEF Close, clientVars, handlerVars,
       jobVars, EndOfStream
<1>20. CASE Accept
  <2>1. /\ Head(backlog) \in Requests /\ Tail(backlog) \in Seq(Requests)
        /\ Head(backlog) # NoRequest
      BY <1>20, ServiceAssumption DEF Accept
  <2> QED
      BY <1>1, <1>20, <2>1 DEF Accept, clientVars, handlerVars, jobVars
<1>21. CASE Crash
    BY <1>1, <1>21, ServiceAssumption DEF Crash, clientVars, handlerVars,
       jobVars, EndOfStream
<1>22. CASE Restart
    BY <1>1, <1>22, ServiceAssumption DEF Restart, clientVars, handlerVars,
       jobVars
<1>23. CASE UNCHANGED vars
    BY <1>1, <1>23 DEF vars, clientVars, handlerVars, jobVars
<1> QED
    BY <1>2, <1>3, <1>4, <1>5, <1>6, <1>7, <1>8, <1>9, <1>10, <1>11, <1>12,
       <1>13, <1>14, <1>15, <1>16, <1>17, <1>18, <1>19, <1>20, <1>21, <1>22,
       <1>23 DEF Next, Handle

-----------------------------------------------------------------------------
(***************************************************************************)
(* The invariant.  A request that has not reached the machine has no job,  *)
(* no usage and no bill; it is unbilled until its Bill step, which is its  *)
(* last but one.  A usage is only taken from a job that has ended.         *)
(***************************************************************************)
NotStarted(q) == ~ Billed(q) /\ job[q] = "none" /\ newConsumption[q] = 0

HandledOnce ==
    /\ BacklogDistinct
    /\ \A q \in Requests :
           client[q] = "new" => ~ InBacklog(q) /\ active # q /\ NotStarted(q)
    /\ \A q \in Requests : InBacklog(q) => active # q /\ NotStarted(q)
    /\ stage \in {"receive", "check", "load"} => NotStarted(active)
    /\ stage \in {"wait", "answer", "record"} => ~ Billed(active)

UsageSettled ==
    /\ \A q \in Requests :
           newConsumption[q] # 0 \/ Billed(q) => job[q] \in {"done", "failed"}
    /\ \A q \in Requests : newConsumption[q] # 0 => newConsumption[q] = usage[q]
    /\ stage = "wait" => newConsumption[active] = 0
    /\ stage \in {"answer", "record"} => job[active] = "done" /\ active \in saved
    /\ stage = "record" => reply[active] = "DONE"

TotalNoted ==
    stage \in {"answer", "record"} /\ command[active] = "backend_run"
            /\ newConsumption[active] # 0
        => reported[active] = newConsumption[active] + seen[active]

ServiceInv ==
    /\ ServiceTypeOK /\ LedgerInv
    /\ HandledOnce /\ UsageSettled /\ TotalNoted
    /\ CheckIsCurrent /\ OverdraftBounded /\ BilledIsDelivered

-----------------------------------------------------------------------------
(***************************************************************************)
(* What a step that leaves the tables alone leaves alone, and what the     *)
(* first recording of a job changes.                                       *)
(***************************************************************************)
LEMMA TablesUnchanged ==
    ASSUME UNCHANGED ledgerVars
    PROVE  /\ \A q : (Billed(q)' <=> Billed(q)) /\ ChargesOf(q)' = ChargesOf(q)
           /\ \A r : CurrentConsumption(r)' = CurrentConsumption(r)
BY DEF ledgerVars, Billed, ChargesOf, TasksOf, CurrentConsumption

LEMMA FirstRecording ==
    ASSUME LedgerInv, NEW q, NEW r \in Resources, NEW a \in Nat, TasksOf(q, q) = {},
           RecordConsumption(q, q, r, a)
    PROVE  /\ Billed(q)' /\ ChargesOf(q)' = {a}
           /\ \A p : p # q => /\ Billed(p)' <=> Billed(p)
                             /\ ChargesOf(p)' = ChargesOf(p)
           /\ CurrentConsumption(r)' = CurrentConsumption(r) + a
           /\ \A s : s # r => CurrentConsumption(s)' = CurrentConsumption(s)
<1> DEFINE row == [resource |-> r, consumption |-> a, factor |-> 1]
           Billing(id) == [consumptionId |-> id, heappeId |-> q, iqmJobId |-> q]
<1>1. InsertNewTask(q, q, r, a)
    BY DEF RecordConsumption, UpdateExistingTask
<1>2. PICK id \in ConsumptionIds :
          /\ InsertEntity(id, row)
          /\ tasks' = tasks \cup {Billing(id)}
    BY <1>1 DEF InsertNewTask
<1>3. TasksOf(q, q)' = {Billing(id)}
    BY <1>2 DEF TasksOf
<1>4. entities'[id] = row
    BY <1>2 DEF InsertEntity
<1>5. ASSUME NEW p, p # q
      PROVE  /\ TasksOf(p, p)' = TasksOf(p, p)
             /\ \A t \in TasksOf(p, p) :
                    entities'[t.consumptionId] = entities[t.consumptionId]
  <2>1. TasksOf(p, p)' = TasksOf(p, p)
      BY <1>2, <1>5 DEF TasksOf
  <2>2. \A t \in tasks : t.consumptionId \in DOMAIN entities
      BY DEF LedgerInv, TasksAndChargesOneToOne
  <2>3. \A i \in DOMAIN entities : i # id /\ entities'[i] = entities[i]
      BY <1>2 DEF InsertEntity
  <2> QED
      BY <2>1, <2>2, <2>3 DEF TasksOf
<1>6. Charge(row) = a * 1
    BY DEF Charge
<1>7. /\ CurrentConsumption(r)' = CurrentConsumption(r) + Charge(row)
      /\ \A s : s # r => CurrentConsumption(s)' = CurrentConsumption(s)
    BY <1>2 DEF InsertEntity, AddNew, SummaryIn, CurrentConsumption
<1>8. Billed(q)' /\ ChargesOf(q)' = {a}
  <2>1. Billing(id).consumptionId = id /\ row.consumption = a
      OBVIOUS
  <2>2. ChargesOf(q)' = {entities'[t.consumptionId].consumption :
                            t \in {Billing(id)}}
      BY <1>3 DEF ChargesOf
  <2> HIDE DEF row, Billing
  <2>3. ChargesOf(q)' = {a}
      BY <2>1, <2>2, <1>4
  <2> QED
      BY <2>3, <1>3 DEF Billed
<1>9. \A p : p # q => (Billed(p)' <=> Billed(p)) /\ ChargesOf(p)' = ChargesOf(p)
    BY <1>5 DEF Billed, ChargesOf
<1> QED
    BY <1>6, <1>7, <1>8, <1>9

-----------------------------------------------------------------------------
LEMMA BillIsFirst ==
    ASSUME ServiceInv, NEW q \in Requests, Bill(q)
    PROVE  /\ resource[q] \in Resources /\ newConsumption[q] \in 0..MaxUsage
           /\ Billed(q)' /\ ChargesOf(q)' = {newConsumption[q]}
           /\ \A p : p # q => /\ Billed(p)' <=> Billed(p)
                             /\ ChargesOf(p)' = ChargesOf(p)
           /\ CurrentConsumption(resource[q])'
                  = CurrentConsumption(resource[q]) + newConsumption[q]
           /\ \A s : s # resource[q] =>
                     CurrentConsumption(s)' = CurrentConsumption(s)
<1> DEFINE r == resource[q]
           a == newConsumption[q]
<1>1. /\ r \in Resources /\ a \in 0..MaxUsage /\ a \in Nat
      /\ r' = r
    BY ServiceAssumption DEF ServiceInv, ServiceTypeOK, Bill, clientVars
<1>2. TasksOf(q, q) = {} /\ RecordConsumption(q, q, r, a)
    BY DEF Bill, ServiceInv, HandledOnce, Billed
<1>3. ASSUME NEW c, c = r, NEW b, b = a
      PROVE  /\ Billed(q)' /\ ChargesOf(q)' = {b}
             /\ \A p : p # q => /\ Billed(p)' <=> Billed(p)
                               /\ ChargesOf(p)' = ChargesOf(p)
             /\ CurrentConsumption(c)' = CurrentConsumption(c) + b
             /\ \A s : s # c => CurrentConsumption(s)' = CurrentConsumption(s)
    BY <1>1, <1>2, <1>3, FirstRecording DEF ServiceInv
<1> QED
    BY <1>1, <1>3

(***************************************************************************)
(* A request is connected, accepted, run and billed at most once: run.sh   *)
(* never sends it again, and its Bill step is the end of its handling.     *)
(***************************************************************************)
LEMMA HandledOnceNext ==
    ASSUME ServiceInv, [Next]_vars
    PROVE  HandledOnce'
<1> USE DEF ServiceInv, HandledOnce, NotStarted
<1>1. UNCHANGED ledgerVars => \A p : Billed(p)' <=> Billed(p)
    BY TablesUnchanged
<1>2. backlog' = backlog =>
          /\ BacklogDistinct' <=> BacklogDistinct
          /\ \A p : InBacklog(p)' <=> InBacklog(p)
    BY DEF BacklogDistinct, InBacklog
<1>3. /\ NoRequest \notin Requests /\ active \in Requests \cup {NoRequest}
      /\ active = NoRequest <=> stage \in {"down", "idle"}
      /\ client \in [Requests -> {"new", "waiting", "gone", "ended"}]
      /\ job \in [Requests -> {"none", "submitted", "done", "failed"}]
      /\ newConsumption \in [Requests -> 0..MaxUsage]
    BY ServiceAssumption DEF ServiceTypeOK
<1>4. ASSUME NEW q \in Requests, Connect(q)
      PROVE  HandledOnce'
  <2>1. /\ ~ InBacklog(q) /\ active # q /\ NotStarted(q)
        /\ UNCHANGED <<active, stage, job, newConsumption, ledgerVars>>
        /\ client' = [client EXCEPT ![q] = "waiting"]
      BY <1>4 DEF Connect, handlerVars, jobVars
  <2>2. BacklogDistinct' /\ \A p : InBacklog(p)' => p = q \/ InBacklog(p)
      BY <1>4, JoinsBacklog DEF Connect, ServiceTypeOK
  <2> QED
      BY <1>1, <1>3, <2>1, <2>2
<1>5. ASSUME NEW q \in Requests, FindNoSocket(q)
      PROVE  HandledOnce'
    BY <1>1, <1>2, <1>3, <1>5 DEF FindNoSocket, clientVars, handlerVars,
       jobVars
<1>6. ASSUME NEW q \in Requests, HangUp(q)
      PROVE  HandledOnce'
    BY <1>1, <1>2, <1>3, <1>6 DEF HangUp, clientVars, handlerVars, jobVars
<1>7. ASSUME NEW q \in Requests, Refuse(q)
      PROVE  HandledOnce'
    BY <1>1, <1>2, <1>3, <1>7 DEF Refuse, clientVars, handlerVars, jobVars,
       Fail, Send
<1>8. ASSUME NEW q \in Requests, ServeUnaccounted(q)
      PROVE  HandledOnce'
    BY <1>1, <1>2, <1>3, <1>8 DEF ServeUnaccounted, clientVars, handlerVars,
       jobVars, Send
<1>9. ASSUME NEW q \in Requests, GetAccountingInfo(q)
      PROVE  HandledOnce'
    BY <1>1, <1>2, <1>3, <1>9 DEF GetAccountingInfo, clientVars, handlerVars,
       jobVars
<1>10. ASSUME NEW q \in Requests, PassCheck(q)
      PROVE  HandledOnce'
    BY <1>1, <1>2, <1>3, <1>10 DEF PassCheck, clientVars, handlerVars, jobVars
<1>11. ASSUME NEW q \in Requests, FailCheck(q)
      PROVE  HandledOnce'
    BY <1>1, <1>2, <1>3, <1>11 DEF FailCheck, clientVars, handlerVars,
       jobVars, Fail, Send
<1>12. ASSUME NEW q \in Requests, SubmitJob(q)
      PROVE  HandledOnce'
    BY <1>1, <1>2, <1>3, <1>12 DEF SubmitJob, clientVars, handlerVars, jobVars
<1>13. ASSUME NEW q \in Requests, FailToSubmit(q)
      PROVE  HandledOnce'
    BY <1>1, <1>2, <1>3, <1>13 DEF FailToSubmit, clientVars, handlerVars,
       jobVars, Fail, Send
<1>14. ASSUME NEW q \in Requests, ExecuteJob(q)
      PROVE  HandledOnce'
  <2>1. /\ job[q] = "submitted"
        /\ \A p \in Requests : p # q => job'[p] = job[p]
        /\ UNCHANGED <<client, backlog, active, stage, newConsumption, ledgerVars>>
      BY <1>14, <1>3 DEF ExecuteJob, clientVars, handlerVars
  <2> QED
      BY <1>1, <1>2, <1>3, <2>1
<1>15. ASSUME NEW q \in Requests, GiveUpWaiting(q)
      PROVE  HandledOnce'
    BY <1>1, <1>2, <1>3, <1>15 DEF GiveUpWaiting, clientVars, handlerVars,
       jobVars, Fail, Send
<1>16. ASSUME NEW q \in Requests, CollectResult(q)
      PROVE  HandledOnce'
    BY <1>1, <1>2, <1>3, <1>16 DEF CollectResult, clientVars, handlerVars,
       jobVars, CacheUsage
<1>17. ASSUME NEW q \in Requests, FailAfterRun(q)
      PROVE  HandledOnce'
    BY <1>1, <1>2, <1>3, <1>17 DEF FailAfterRun, clientVars, handlerVars,
       jobVars, CacheUsage, Fail, Send
<1>18. ASSUME NEW q \in Requests, AnswerDone(q)
      PROVE  HandledOnce'
    BY <1>1, <1>2, <1>3, <1>18 DEF AnswerDone, clientVars, handlerVars,
       jobVars, Send
<1>19. ASSUME NEW q \in Requests, Bill(q)
      PROVE  HandledOnce'
  <2>1. /\ active = q /\ ~ Billed(q) /\ stage = "record" /\ stage' = "close"
        /\ UNCHANGED <<client, backlog, active, job, newConsumption>>
      BY <1>19 DEF Bill, clientVars, handlerVars, jobVars
  <2>2. \A p : p # q => (Billed(p)' <=> Billed(p))
      BY <1>19, BillIsFirst
  <2> QED
      BY <1>2, <1>3, <2>1, <2>2
<1>20. ASSUME NEW q \in Requests, FailToBill(q)
      PROVE  HandledOnce'
    BY <1>1, <1>2, <1>3, <1>20 DEF FailToBill, clientVars, handlerVars,
       jobVars
<1>21. ASSUME NEW q \in Requests, Close(q)
      PROVE  HandledOnce'
    BY <1>1, <1>2, <1>3, <1>21 DEF Close, clientVars, handlerVars, jobVars,
       EndOfStream
<1>22. CASE Accept
  <2> DEFINE q == Head(backlog)
  <2>1. /\ q \in Requests /\ InBacklog(q) /\ active' = q
        /\ BacklogDistinct'
        /\ \A p : InBacklog(p)' => InBacklog(p) /\ p # q
        /\ stage = "idle" /\ stage' = "receive"
        /\ UNCHANGED <<client, job, newConsumption, ledgerVars>>
    <3>1. backlog' = Tail(backlog) /\ backlog # <<>> /\ backlog \in Seq(Requests)
        BY <1>22 DEF Accept, ServiceTypeOK
    <3>2. \A p : p = q => /\ p \in Requests /\ InBacklog(p)
                         /\ BacklogDistinct' /\ ~ InBacklog(p)'
                         /\ \A o : InBacklog(o)' => InBacklog(o)
        BY <3>1, LeavesBacklog
    <3> QED
        BY <1>22, <3>2 DEF Accept, clientVars, handlerVars, jobVars
  <2> HIDE DEF q
  <2> QED
      BY <1>1, <1>3, <2>1
<1>23. CASE Crash
  <2>1. /\ BacklogDistinct' /\ \A p : ~ InBacklog(p)'
      BY <1>23 DEF Crash, BacklogDistinct, InBacklog
  <2>2. \A p \in Requests : client'[p] = "new" => client[p] = "new"
      BY <1>23, <1>3 DEF Crash, EndOfStream
  <2> QED
      BY <1>1, <1>3, <1>23, <2>1, <2>2 DEF Crash, jobVars
<1>24. CASE Restart
    BY <1>1, <1>2, <1>3, <1>24 DEF Restart, clientVars, handlerVars, jobVars
<1>25. CASE UNCHANGED vars
    BY <1>1, <1>2, <1>3, <1>25 DEF vars, clientVars, handlerVars, jobVars
<1> QED
    BY <1>4, <1>5, <1>6, <1>7, <1>8, <1>9, <1>10, <1>11, <1>12, <1>13, <1>14,
       <1>15, <1>16, <1>17, <1>18, <1>19, <1>20, <1>21, <1>22, <1>23, <1>24,
       <1>25 DEF Next, Handle

(***************************************************************************)
(* A usage in the cache is that of a job that has ended, and a job that is *)
(* answered or billed has been delivered.                                  *)
(***************************************************************************)
LEMMA UsageSettledNext ==
    ASSUME ServiceInv, [Next]_vars
    PROVE  UsageSettled'
<1> USE DEF ServiceInv, UsageSettled
<1>1. UNCHANGED ledgerVars => \A p : Billed(p)' <=> Billed(p)
    BY TablesUnchanged
<1>2. /\ MaxUsage \in Nat
      /\ active \in Requests \cup {NoRequest} /\ NoRequest \notin Requests
      /\ active = NoRequest <=> stage \in {"down", "idle"}
      /\ client \in [Requests -> {"new", "waiting", "gone", "ended"}]
      /\ reply \in [Requests -> {"none", "DONE", "ERROR"}]
      /\ job \in [Requests -> {"none", "submitted", "done", "failed"}]
      /\ newConsumption \in [Requests -> 0..MaxUsage]
      /\ usage \in [Requests -> 0..MaxUsage] /\ seen \in [Requests -> Nat]
      /\ reported \in [Requests -> Nat] /\ saved \subseteq Requests
    BY ServiceAssumption DEF ServiceTypeOK
<1>3. ASSUME NEW q \in Requests, Connect(q)
      PROVE  UsageSettled'
    BY <1>1, <1>2, <1>3 DEF Connect, clientVars, handlerVars, jobVars
<1>4. ASSUME NEW q \in Requests, FindNoSocket(q)
      PROVE  UsageSettled'
    BY <1>1, <1>2, <1>4 DEF FindNoSocket, clientVars, handlerVars, jobVars
<1>5. ASSUME NEW q \in Requests, HangUp(q)
      PROVE  UsageSettled'
    BY <1>1, <1>2, <1>5 DEF HangUp, clientVars, handlerVars, jobVars
<1>6. ASSUME NEW q \in Requests, Refuse(q)
      PROVE  UsageSettled'
    BY <1>1, <1>2, <1>6 DEF Refuse, clientVars, handlerVars, jobVars, Fail,
       Send
<1>7. ASSUME NEW q \in Requests, ServeUnaccounted(q)
      PROVE  UsageSettled'
    BY <1>1, <1>2, <1>7 DEF ServeUnaccounted, clientVars, handlerVars,
       jobVars, Send
<1>8. ASSUME NEW q \in Requests, GetAccountingInfo(q)
      PROVE  UsageSettled'
    BY <1>1, <1>2, <1>8 DEF GetAccountingInfo, clientVars, handlerVars,
       jobVars
<1>9. ASSUME NEW q \in Requests, PassCheck(q)
      PROVE  UsageSettled'
    BY <1>1, <1>2, <1>9 DEF PassCheck, clientVars, handlerVars, jobVars
<1>10. ASSUME NEW q \in Requests, FailCheck(q)
      PROVE  UsageSettled'
    BY <1>1, <1>2, <1>10 DEF FailCheck, clientVars, handlerVars, jobVars,
       Fail, Send
<1>11. ASSUME NEW q \in Requests, SubmitJob(q)
      PROVE  UsageSettled'
  <2>1. newConsumption[q] = 0 /\ ~ Billed(q)
      BY <1>11 DEF SubmitJob, HandledOnce, NotStarted
  <2> QED
      BY <1>1, <1>2, <1>11, <2>1 DEF SubmitJob, clientVars, handlerVars,
         jobVars
<1>12. ASSUME NEW q \in Requests, FailToSubmit(q)
      PROVE  UsageSettled'
    BY <1>1, <1>2, <1>12 DEF FailToSubmit, clientVars, handlerVars, jobVars,
       Fail, Send
<1>13. ASSUME NEW q \in Requests, ExecuteJob(q)
      PROVE  UsageSettled'
  <2>1. PICK outcome \in {"done", "failed"} :
            job' = [job EXCEPT ![q] = outcome]
      BY <1>13 DEF ExecuteJob
  <2>2. \A p \in Requests : p # q => usage'[p] = usage[p]
      BY <1>2, <1>13 DEF ExecuteJob
  <2> QED
      BY <1>1, <1>2, <1>13, <2>1, <2>2 DEF ExecuteJob, clientVars, handlerVars
<1>14. ASSUME NEW q \in Requests, GiveUpWaiting(q)
      PROVE  UsageSettled'
    BY <1>1, <1>2, <1>14 DEF GiveUpWaiting, clientVars, handlerVars, jobVars,
       Fail, Send
<1>15. ASSUME NEW q \in Requests, CollectResult(q)
      PROVE  UsageSettled'
    BY <1>1, <1>2, <1>15 DEF CollectResult, clientVars, handlerVars, jobVars,
       CacheUsage
<1>16. ASSUME NEW q \in Requests, FailAfterRun(q)
      PROVE  UsageSettled'
    BY <1>1, <1>2, <1>16 DEF FailAfterRun, clientVars, handlerVars, jobVars,
       CacheUsage, Fail, Send
<1>17. ASSUME NEW q \in Requests, AnswerDone(q)
      PROVE  UsageSettled'
    BY <1>1, <1>2, <1>17 DEF AnswerDone, clientVars, handlerVars, jobVars,
       Send
<1>18. ASSUME NEW q \in Requests, Bill(q)
      PROVE  UsageSettled'
  <2>1. \A p : p # q => (Billed(p)' <=> Billed(p))
      BY <1>18, BillIsFirst
  <2> QED
      BY <1>2, <1>18, <2>1 DEF Bill, clientVars, handlerVars, jobVars
<1>19. ASSUME NEW q \in Requests, FailToBill(q)
      PROVE  UsageSettled'
    BY <1>1, <1>2, <1>19 DEF FailToBill, clientVars, handlerVars, jobVars
<1>20. ASSUME NEW q \in Requests, Close(q)
      PROVE  UsageSettled'
    BY <1>1, <1>2, <1>20 DEF Close, clientVars, handlerVars, jobVars,
       EndOfStream
<1>21. CASE Accept
    BY <1>1, <1>2, <1>21 DEF Accept, clientVars, handlerVars, jobVars
<1>22. CASE Crash
    BY <1>1, <1>2, <1>22 DEF Crash, clientVars, handlerVars, jobVars,
       EndOfStream
<1>23. CASE Restart
    BY <1>1, <1>2, <1>23 DEF Restart, clientVars, handlerVars, jobVars
<1>24. CASE UNCHANGED vars
    BY <1>1, <1>2, <1>24 DEF vars, clientVars, handlerVars, jobVars
<1> QED
    BY <1>3, <1>4, <1>5, <1>6, <1>7, <1>8, <1>9, <1>10, <1>11, <1>12, <1>13,
       <1>14, <1>15, <1>16, <1>17, <1>18, <1>19, <1>20, <1>21, <1>22, <1>23,
       <1>24 DEF Next, Handle

(***************************************************************************)
(* The total in the job is its usage on top of what was seen at the check. *)
(***************************************************************************)
LEMMA TotalNotedNext ==
    ASSUME ServiceInv, [Next]_vars
    PROVE  TotalNoted'
<1> USE DEF ServiceInv, TotalNoted
<1>1. /\ MaxUsage \in Nat
      /\ active \in Requests \cup {NoRequest} /\ NoRequest \notin Requests
      /\ active = NoRequest <=> stage \in {"down", "idle"}
      /\ client \in [Requests -> {"new", "waiting", "gone", "ended"}]
      /\ reply \in [Requests -> {"none", "DONE", "ERROR"}]
      /\ job \in [Requests -> {"none", "submitted", "done", "failed"}]
      /\ newConsumption \in [Requests -> 0..MaxUsage]
      /\ usage \in [Requests -> 0..MaxUsage] /\ seen \in [Requests -> Nat]
      /\ reported \in [Requests -> Nat] /\ saved \subseteq Requests
    BY ServiceAssumption DEF ServiceTypeOK
<1>2. ASSUME NEW q \in Requests, Connect(q)
      PROVE  TotalNoted'
    BY <1>1, <1>2 DEF Connect, clientVars, handlerVars, jobVars
<1>3. ASSUME NEW q \in Requests, FindNoSocket(q)
      PROVE  TotalNoted'
    BY <1>1, <1>3 DEF FindNoSocket, clientVars, handlerVars, jobVars
<1>4. ASSUME NEW q \in Requests, HangUp(q)
      PROVE  TotalNoted'
    BY <1>1, <1>4 DEF HangUp, clientVars, handlerVars, jobVars
<1>5. ASSUME NEW q \in Requests, Refuse(q)
      PROVE  TotalNoted'
    BY <1>1, <1>5 DEF Refuse, clientVars, handlerVars, jobVars, Fail, Send
<1>6. ASSUME NEW q \in Requests, ServeUnaccounted(q)
      PROVE  TotalNoted'
    BY <1>1, <1>6 DEF ServeUnaccounted, clientVars, handlerVars, jobVars, Send
<1>7. ASSUME NEW q \in Requests, GetAccountingInfo(q)
      PROVE  TotalNoted'
    BY <1>1, <1>7 DEF GetAccountingInfo, clientVars, handlerVars, jobVars
<1>8. ASSUME NEW q \in Requests, PassCheck(q)
      PROVE  TotalNoted'
    BY <1>1, <1>8 DEF PassCheck, clientVars, handlerVars, jobVars
<1>9. ASSUME NEW q \in Requests, FailCheck(q)
      PROVE  TotalNoted'
    BY <1>1, <1>9 DEF FailCheck, clientVars, handlerVars, jobVars, Fail, Send
<1>10. ASSUME NEW q \in Requests, SubmitJob(q)
      PROVE  TotalNoted'
    BY <1>1, <1>10 DEF SubmitJob, clientVars, handlerVars, jobVars
<1>11. ASSUME NEW q \in Requests, FailToSubmit(q)
      PROVE  TotalNoted'
    BY <1>1, <1>11 DEF FailToSubmit, clientVars, handlerVars, jobVars, Fail,
       Send
<1>12. ASSUME NEW q \in Requests, ExecuteJob(q)
      PROVE  TotalNoted'
    BY <1>12 DEF ExecuteJob, clientVars, handlerVars
<1>13. ASSUME NEW q \in Requests, GiveUpWaiting(q)
      PROVE  TotalNoted'
    BY <1>1, <1>13 DEF GiveUpWaiting, clientVars, handlerVars, jobVars, Fail,
       Send
<1>14. ASSUME NEW q \in Requests, CollectResult(q)
      PROVE  TotalNoted'
  <2>1. stage = "wait" /\ active = q /\ newConsumption[q] = 0
      BY <1>14 DEF CollectResult, UsageSettled
  <2> QED
      BY <1>1, <1>14, <2>1 DEF CollectResult, CacheUsage, clientVars, jobVars
<1>15. ASSUME NEW q \in Requests, FailAfterRun(q)
      PROVE  TotalNoted'
    BY <1>1, <1>15 DEF FailAfterRun, clientVars, handlerVars, jobVars,
       CacheUsage, Fail, Send
<1>16. ASSUME NEW q \in Requests, AnswerDone(q)
      PROVE  TotalNoted'
    BY <1>1, <1>16 DEF AnswerDone, clientVars, handlerVars, jobVars, Send
<1>17. ASSUME NEW q \in Requests, Bill(q)
      PROVE  TotalNoted'
    BY <1>1, <1>17 DEF Bill, clientVars, handlerVars, jobVars
<1>18. ASSUME NEW q \in Requests, FailToBill(q)
      PROVE  TotalNoted'
    BY <1>1, <1>18 DEF FailToBill, clientVars, handlerVars, jobVars
<1>19. ASSUME NEW q \in Requests, Close(q)
      PROVE  TotalNoted'
    BY <1>1, <1>19 DEF Close, clientVars, handlerVars, jobVars, EndOfStream
<1>20. CASE Accept
    BY <1>1, <1>20 DEF Accept, clientVars, handlerVars, jobVars
<1>21. CASE Crash
    BY <1>1, <1>21 DEF Crash, clientVars, handlerVars, jobVars, EndOfStream
<1>22. CASE Restart
    BY <1>1, <1>22 DEF Restart, clientVars, handlerVars, jobVars
<1>23. CASE UNCHANGED vars
    BY <1>1, <1>23 DEF vars, clientVars, handlerVars, jobVars
<1> QED
    BY <1>2, <1>3, <1>4, <1>5, <1>6, <1>7, <1>8, <1>9, <1>10, <1>11, <1>12,
       <1>13, <1>14, <1>15, <1>16, <1>17, <1>18, <1>19, <1>20, <1>21, <1>22,
       <1>23 DEF Next, Handle

(***************************************************************************)
(* Only the job that holds the grant is billed, and that ends its grant.   *)
(***************************************************************************)
LEMMA CheckIsCurrentNext ==
    ASSUME ServiceInv, [Next]_vars
    PROVE  CheckIsCurrent'
<1> USE DEF ServiceInv, CheckIsCurrent, WithinAllocation, GrantedStages
<1>1. UNCHANGED ledgerVars =>
          \A r : CurrentConsumption(r)' = CurrentConsumption(r)
    BY TablesUnchanged
<1>2. /\ active \in Requests \cup {NoRequest} /\ NoRequest \notin Requests
      /\ active = NoRequest <=> stage \in {"down", "idle"}
      /\ seen \in [Requests -> Nat]
    BY ServiceAssumption DEF ServiceTypeOK
<1>3. ASSUME NEW q \in Requests, Connect(q)
      PROVE  CheckIsCurrent'
    BY <1>1, <1>2, <1>3 DEF Connect, clientVars, handlerVars, jobVars
<1>4. ASSUME NEW q \in Requests, FindNoSocket(q)
      PROVE  CheckIsCurrent'
    BY <1>1, <1>2, <1>4 DEF FindNoSocket, clientVars, handlerVars, jobVars
<1>5. ASSUME NEW q \in Requests, HangUp(q)
      PROVE  CheckIsCurrent'
    BY <1>1, <1>2, <1>5 DEF HangUp, clientVars, handlerVars, jobVars
<1>6. ASSUME NEW q \in Requests, Refuse(q)
      PROVE  CheckIsCurrent'
    BY <1>1, <1>2, <1>6 DEF Refuse, clientVars, handlerVars, jobVars, Fail,
       Send
<1>7. ASSUME NEW q \in Requests, ServeUnaccounted(q)
      PROVE  CheckIsCurrent'
    BY <1>1, <1>2, <1>7 DEF ServeUnaccounted, clientVars, handlerVars,
       jobVars, Send
<1>8. ASSUME NEW q \in Requests, GetAccountingInfo(q)
      PROVE  CheckIsCurrent'
    BY <1>1, <1>2, <1>8 DEF GetAccountingInfo, clientVars, handlerVars,
       jobVars
<1>9. ASSUME NEW q \in Requests, PassCheck(q)
      PROVE  CheckIsCurrent'
    BY <1>1, <1>2, <1>9 DEF PassCheck, clientVars, handlerVars, jobVars
<1>10. ASSUME NEW q \in Requests, FailCheck(q)
      PROVE  CheckIsCurrent'
    BY <1>1, <1>2, <1>10 DEF FailCheck, clientVars, handlerVars, jobVars,
       Fail, Send
<1>11. ASSUME NEW q \in Requests, SubmitJob(q)
      PROVE  CheckIsCurrent'
    BY <1>1, <1>2, <1>11 DEF SubmitJob, clientVars, handlerVars, jobVars
<1>12. ASSUME NEW q \in Requests, FailToSubmit(q)
      PROVE  CheckIsCurrent'
    BY <1>1, <1>2, <1>12 DEF FailToSubmit, clientVars, handlerVars, jobVars,
       Fail, Send
<1>13. ASSUME NEW q \in Requests, ExecuteJob(q)
      PROVE  CheckIsCurrent'
    BY <1>1, <1>2, <1>13 DEF ExecuteJob, clientVars, handlerVars, jobVars
<1>14. ASSUME NEW q \in Requests, GiveUpWaiting(q)
      PROVE  CheckIsCurrent'
    BY <1>1, <1>2, <1>14 DEF GiveUpWaiting, clientVars, handlerVars, jobVars,
       Fail, Send
<1>15. ASSUME NEW q \in Requests, CollectResult(q)
      PROVE  CheckIsCurrent'
    BY <1>1, <1>2, <1>15 DEF CollectResult, clientVars, handlerVars, jobVars,
       CacheUsage
<1>16. ASSUME NEW q \in Requests, FailAfterRun(q)
      PROVE  CheckIsCurrent'
    BY <1>1, <1>2, <1>16 DEF FailAfterRun, clientVars, handlerVars, jobVars,
       CacheUsage, Fail, Send
<1>17. ASSUME NEW q \in Requests, AnswerDone(q)
      PROVE  CheckIsCurrent'
    BY <1>1, <1>2, <1>17 DEF AnswerDone, clientVars, handlerVars, jobVars,
       Send
<1>18. ASSUME NEW q \in Requests, Bill(q)
      PROVE  CheckIsCurrent'
    BY <1>1, <1>2, <1>18 DEF Bill, clientVars, handlerVars, jobVars
<1>19. ASSUME NEW q \in Requests, FailToBill(q)
      PROVE  CheckIsCurrent'
    BY <1>1, <1>2, <1>19 DEF FailToBill, clientVars, handlerVars, jobVars
<1>20. ASSUME NEW q \in Requests, Close(q)
      PROVE  CheckIsCurrent'
    BY <1>1, <1>2, <1>20 DEF Close, clientVars, handlerVars, jobVars,
       EndOfStream
<1>21. CASE Accept
    BY <1>1, <1>2, <1>21 DEF Accept, clientVars, handlerVars, jobVars
<1>22. CASE Crash
    BY <1>1, <1>2, <1>22 DEF Crash, clientVars, handlerVars, jobVars,
       EndOfStream
<1>23. CASE Restart
    BY <1>1, <1>2, <1>23 DEF Restart, clientVars, handlerVars, jobVars
<1>24. CASE UNCHANGED vars
    BY <1>1, <1>2, <1>24 DEF vars, clientVars, handlerVars, jobVars
<1> QED
    BY <1>3, <1>4, <1>5, <1>6, <1>7, <1>8, <1>9, <1>10, <1>11, <1>12, <1>13,
       <1>14, <1>15, <1>16, <1>17, <1>18, <1>19, <1>20, <1>21, <1>22, <1>23,
       <1>24 DEF Next, Handle

(***************************************************************************)
(* A bill is added to a total within the allocation: the one of the check. *)
(***************************************************************************)
LEMMA OverdraftBoundedNext ==
    ASSUME ServiceInv, [Next]_vars
    PROVE  OverdraftBounded'
<1>1. CASE UNCHANGED ledgerVars
    BY <1>1, TablesUnchanged DEF ServiceInv, OverdraftBounded
<1>2. ASSUME NEW q \in Requests, Bill(q)
      PROVE  OverdraftBounded'
  <2>1. PICK r \in Resources :
            /\ r = resource[q] /\ newConsumption[q] \in 0..MaxUsage
            /\ CurrentConsumption(r)' = CurrentConsumption(r) + newConsumption[q]
            /\ \A s : s # r => CurrentConsumption(s)' = CurrentConsumption(s)
      BY <1>2, BillIsFirst DEF Bill, clientVars
  <2>2. CurrentConsumption(r) <= Allocation[r]
      BY <1>2, <2>1
         DEF Bill, ServiceInv, CheckIsCurrent, WithinAllocation, GrantedStages
  <2>3. /\ MaxUsage \in Nat /\ \A s \in Resources : Allocation[s] \in Nat
        /\ \A s \in Resources : CurrentConsumption(s) \in Nat
      BY CurrentIsNatural, ServiceAssumption DEF ServiceInv
  <2>4. CurrentConsumption(r)' <= Allocation[r] + MaxUsage
      BY <2>1, <2>2, <2>3
  <2>5. \A s \in Resources :
            s # r => CurrentConsumption(s)' <= Allocation[s] + MaxUsage
      BY <2>1 DEF ServiceInv, OverdraftBounded
  <2> QED
      BY <2>4, <2>5 DEF OverdraftBounded
<1> QED
    BY <1>1, <1>2, OnlyBillWrites DEF vars, ledgerVars

(***************************************************************************)
(* Whoever is billed was answered before, and is not answered again.       *)
(***************************************************************************)
LEMMA BilledIsDeliveredNext ==
    ASSUME ServiceInv, [Next]_vars
    PROVE  BilledIsDelivered'
<1> USE DEF ServiceInv, BilledIsDelivered
<1>1. UNCHANGED ledgerVars =>
          \A p : (Billed(p)' <=> Billed(p)) /\ ChargesOf(p)' = ChargesOf(p)
    BY TablesUnchanged
<1>2. /\ MaxUsage \in Nat
      /\ active \in Requests \cup {NoRequest} /\ NoRequest \notin Requests
      /\ active = NoRequest <=> stage \in {"down", "idle"}
      /\ client \in [Requests -> {"new", "waiting", "gone", "ended"}]
      /\ reply \in [Requests -> {"none", "DONE", "ERROR"}]
      /\ job \in [Requests -> {"none", "submitted", "done", "failed"}]
      /\ newConsumption \in [Requests -> 0..MaxUsage]
      /\ usage \in [Requests -> 0..MaxUsage] /\ seen \in [Requests -> Nat]
      /\ reported \in [Requests -> Nat] /\ saved \subseteq Requests
    BY ServiceAssumption DEF ServiceTypeOK
<1>3. /\ stage \in {"receive", "check", "load", "wait", "answer", "record"} =>
             ~ Billed(active)
      /\ \A q \in Requests : job[q] = "submitted" => ~ Billed(q)
    BY DEF HandledOnce, NotStarted, UsageSettled
<1>4. ASSUME NEW q \in Requests, Connect(q)
      PROVE  BilledIsDelivered'
    BY <1>1, <1>2, <1>3, <1>4 DEF Connect, clientVars, handlerVars, jobVars
<1>5. ASSUME NEW q \in Requests, FindNoSocket(q)
      PROVE  BilledIsDelivered'
    BY <1>1, <1>2, <1>3, <1>5 DEF FindNoSocket, clientVars, handlerVars,
       jobVars
<1>6. ASSUME NEW q \in Requests, HangUp(q)
      PROVE  BilledIsDelivered'
    BY <1>1, <1>2, <1>3, <1>6 DEF HangUp, clientVars, handlerVars, jobVars
<1>7. ASSUME NEW q \in Requests, Refuse(q)
      PROVE  BilledIsDelivered'
    BY <1>1, <1>2, <1>3, <1>7 DEF Refuse, clientVars, handlerVars, jobVars,
       Fail, Send
<1>8. ASSUME NEW q \in Requests, ServeUnaccounted(q)
      PROVE  BilledIsDelivered'
    BY <1>1, <1>2, <1>3, <1>8 DEF ServeUnaccounted, clientVars, handlerVars,
       jobVars, Send
<1>9. ASSUME NEW q \in Requests, GetAccountingInfo(q)
      PROVE  BilledIsDelivered'
    BY <1>1, <1>2, <1>3, <1>9 DEF GetAccountingInfo, clientVars, handlerVars,
       jobVars
<1>10. ASSUME NEW q \in Requests, PassCheck(q)
      PROVE  BilledIsDelivered'
    BY <1>1, <1>2, <1>3, <1>10 DEF PassCheck, clientVars, handlerVars, jobVars
<1>11. ASSUME NEW q \in Requests, FailCheck(q)
      PROVE  BilledIsDelivered'
    BY <1>1, <1>2, <1>3, <1>11 DEF FailCheck, clientVars, handlerVars,
       jobVars, Fail, Send
<1>12. ASSUME NEW q \in Requests, SubmitJob(q)
      PROVE  BilledIsDelivered'
    BY <1>1, <1>2, <1>3, <1>12 DEF SubmitJob, clientVars, handlerVars, jobVars
<1>13. ASSUME NEW q \in Requests, FailToSubmit(q)
      PROVE  BilledIsDelivered'
    BY <1>1, <1>2, <1>3, <1>13 DEF FailToSubmit, clientVars, handlerVars,
       jobVars, Fail, Send
<1>14. ASSUME NEW q \in Requests, ExecuteJob(q)
      PROVE  BilledIsDelivered'
  <2>1. \A p \in Requests : p # q => usage'[p] = usage[p]
      BY <1>2, <1>14 DEF ExecuteJob
  <2> QED
      BY <1>1, <1>3, <1>14, <2>1 DEF ExecuteJob, clientVars, handlerVars
<1>15. ASSUME NEW q \in Requests, GiveUpWaiting(q)
      PROVE  BilledIsDelivered'
    BY <1>1, <1>2, <1>3, <1>15 DEF GiveUpWaiting, clientVars, handlerVars,
       jobVars, Fail, Send
<1>16. ASSUME NEW q \in Requests, CollectResult(q)
      PROVE  BilledIsDelivered'
    BY <1>1, <1>2, <1>3, <1>16 DEF CollectResult, clientVars, handlerVars,
       jobVars, CacheUsage
<1>17. ASSUME NEW q \in Requests, FailAfterRun(q)
      PROVE  BilledIsDelivered'
    BY <1>1, <1>2, <1>3, <1>17 DEF FailAfterRun, clientVars, handlerVars,
       jobVars, CacheUsage, Fail, Send
<1>18. ASSUME NEW q \in Requests, AnswerDone(q)
      PROVE  BilledIsDelivered'
    BY <1>1, <1>2, <1>3, <1>18 DEF AnswerDone, clientVars, handlerVars,
       jobVars, Send
<1>19. ASSUME NEW q \in Requests, Bill(q)
      PROVE  BilledIsDelivered'
  <2>1. /\ Billed(q)' /\ ChargesOf(q)' = {newConsumption[q]}
        /\ \A p : p # q => /\ Billed(p)' <=> Billed(p)
                          /\ ChargesOf(p)' = ChargesOf(p)
      BY <1>19, BillIsFirst
  <2>2. /\ q \in saved /\ reply[q] = "DONE" /\ newConsumption[q] <= usage[q]
        /\ UNCHANGED <<saved, reply, usage>>
      BY <1>2, <1>19 DEF Bill, UsageSettled, handlerVars, jobVars
  <2> QED
      BY <2>1, <2>2
<1>20. ASSUME NEW q \in Requests, FailToBill(q)
      PROVE  BilledIsDelivered'
    BY <1>1, <1>2, <1>3, <1>20 DEF FailToBill, clientVars, handlerVars,
       jobVars
<1>21. ASSUME NEW q \in Requests, Close(q)
      PROVE  BilledIsDelivered'
    BY <1>1, <1>2, <1>3, <1>21 DEF Close, clientVars, handlerVars, jobVars,
       EndOfStream
<1>22. CASE Accept
    BY <1>1, <1>2, <1>3, <1>22 DEF Accept, clientVars, handlerVars, jobVars
<1>23. CASE Crash
    BY <1>1, <1>2, <1>3, <1>23 DEF Crash, clientVars, handlerVars, jobVars,
       EndOfStream
<1>24. CASE Restart
    BY <1>1, <1>2, <1>3, <1>24 DEF Restart, clientVars, handlerVars, jobVars
<1>25. CASE UNCHANGED vars
    BY <1>1, <1>2, <1>3, <1>25 DEF vars, clientVars, handlerVars, jobVars
<1> QED
    BY <1>4, <1>5, <1>6, <1>7, <1>8, <1>9, <1>10, <1>11, <1>12, <1>13, <1>14,
       <1>15, <1>16, <1>17, <1>18, <1>19, <1>20, <1>21, <1>22, <1>23, <1>24,
       <1>25 DEF Next, Handle

-----------------------------------------------------------------------------
LEMMA ServiceInitInv == Init => ServiceInv
<1> SUFFICES ASSUME Init PROVE ServiceInv
    OBVIOUS
<1>1. LedgerInv
    BY LedgerInitInv, LedgerAssumption DEF Init
<1>2. tasks = {} /\ summaries = [r \in {} |-> 0]
    BY DEF Init, LedgerInit
<1>3. \A q : ~ Billed(q)
    BY <1>2 DEF Billed, TasksOf
<1>4. \A r : CurrentConsumption(r) = 0
    BY <1>2 DEF CurrentConsumption, SummaryIn
<1>5. ServiceTypeOK
    BY <1>1, ServiceAssumption
       DEF Init, LedgerInv, ServiceTypeOK, Stages, GrantedStages
<1>6. HandledOnce
  <2>1. Len(backlog) = 0
      BY DEF Init
  <2>2. BacklogDistinct /\ \A q : ~ InBacklog(q)
      BY <2>1 DEF BacklogDistinct, InBacklog
  <2> QED
      BY <1>3, <2>2, ServiceAssumption DEF Init, HandledOnce, NotStarted
<1>7. UsageSettled /\ TotalNoted /\ BilledIsDelivered
    BY <1>3 DEF Init, UsageSettled, TotalNoted, BilledIsDelivered
<1>8. CheckIsCurrent
    BY DEF Init, CheckIsCurrent, GrantedStages
<1>9. OverdraftBounded
    BY <1>4, ServiceAssumption DEF OverdraftBounded
<1> QED
    BY <1>1, <1>5, <1>6, <1>7, <1>8, <1>9 DEF ServiceInv

(***************************************************************************)
(* The invariant holds in every state of the service, whatever hangs up,   *)
(* fails, times out or crashes (handle_connection, start).                 *)
(***************************************************************************)
THEOREM ServiceSafe == Spec => []ServiceInv
<1>1. ServiceInv /\ [Next]_vars => ServiceInv'
    BY TypeNext, ServiceKeepsLedger, HandledOnceNext, UsageSettledNext,
       TotalNotedNext, CheckIsCurrentNext, OverdraftBoundedNext,
       BilledIsDeliveredNext DEF ServiceInv
<1> QED
    BY <1>1, ServiceInitInv, PTL DEF Spec

(***************************************************************************)
(* The service and its database keep their types (handle_connection).      *)
(***************************************************************************)
THEOREM ServiceIsTyped == Spec => []ServiceTypeOK
<1>1. ServiceInv => ServiceTypeOK
    BY DEF ServiceInv
<1> QED
    BY <1>1, ServiceSafe, PTL

(***************************************************************************)
(* Nothing is billed to a resource between the check of a job for it and   *)
(* the bill of that job (handle_connection, consumption check).            *)
(***************************************************************************)
THEOREM CheckIsAlwaysCurrent == Spec => []CheckIsCurrent
<1>1. ServiceInv => CheckIsCurrent
    BY DEF ServiceInv
<1> QED
    BY <1>1, ServiceSafe, PTL

(***************************************************************************)
(* No resource is ever billed for more than its allocation and one job     *)
(* (handle_connection, consumption check), for any number of requests.     *)
(***************************************************************************)
THEOREM OverdraftIsBounded == Spec => []OverdraftBounded
<1>1. ServiceInv => OverdraftBounded
    BY DEF ServiceInv
<1> QED
    BY <1>1, ServiceSafe, PTL

(***************************************************************************)
(* Only a job that was answered and saved is billed, for at most what it   *)
(* used (record_consumption_to_internal_db), whatever fails on the way.    *)
(***************************************************************************)
THEOREM OnlyDeliveredIsBilled == Spec => []BilledIsDelivered
<1>1. ServiceInv => BilledIsDelivered
    BY DEF ServiceInv
<1> QED
    BY <1>1, ServiceSafe, PTL

(***************************************************************************)
(* What was answered with DONE is billed or is about to be, as long as     *)
(* the process has not died and the database takes every transaction.      *)
(***************************************************************************)
DoneInv ==
    crashes = 0 /\ "database" \notin Mishaps =>
        \A q \in Requests :
            reply[q] = "DONE" /\ Accounted(q) =>
                Billed(q) \/ (active = q /\ stage = "record")

LEMMA DoneNext ==
    ASSUME ServiceInv, DoneInv, [Next]_vars
    PROVE  DoneInv'
<1> SUFFICES ASSUME crashes' = 0, "database" \notin Mishaps,
                    NEW p \in Requests, reply'[p] = "DONE", Accounted(p)'
             PROVE  Billed(p)' \/ (active' = p /\ stage' = "record")
    BY DEF DoneInv
<1>1. /\ command' = command /\ (Accounted(p)' <=> Accounted(p))
      /\ crashes = 0
  <2>1. command' = command
      BY DEF Next, Handle, Connect, FindNoSocket, HangUp, Accept, Refuse,
         ServeUnaccounted, GetAccountingInfo, PassCheck, FailCheck, SubmitJob,
         FailToSubmit, ExecuteJob, GiveUpWaiting, CollectResult, FailAfterRun,
         AnswerDone, Bill, FailToBill, Close, Crash, Restart, Fail,
         clientVars, vars
  <2>2. crashes' = crashes \/ crashes' = crashes + 1
      BY DEF Next, Handle, Connect, FindNoSocket, HangUp, Accept, Refuse,
         ServeUnaccounted, GetAccountingInfo, PassCheck, FailCheck, SubmitJob,
         FailToSubmit, ExecuteJob, GiveUpWaiting, CollectResult, FailAfterRun,
         AnswerDone, Bill, FailToBill, Close, Crash, Restart, Fail, vars
  <2>3. crashes \in Nat
      BY ServiceAssumption DEF ServiceInv, ServiceTypeOK
  <2> QED
      BY <2>1, <2>2, <2>3 DEF Accounted
<1>2. reply[p] = "DONE" => Billed(p) \/ (active = p /\ stage = "record")
    BY <1>1 DEF DoneInv
<1>3. UNCHANGED ledgerVars => (Billed(p)' <=> Billed(p))
    BY TablesUnchanged
<1>4. reply \in [Requests -> {"none", "DONE", "ERROR"}]
    BY DEF ServiceInv, ServiceTypeOK
<1>5. ASSUME NEW q \in Requests,
             Connect(q) \/ FindNoSocket(q) \/ HangUp(q) \/ ExecuteJob(q)
      PROVE  Billed(p)' \/ (active' = p /\ stage' = "record")
    BY <1>2, <1>3, <1>5 DEF Connect, FindNoSocket, HangUp, ExecuteJob
<1>6. ASSUME NEW q \in Requests,
             \/ Refuse(q) \/ FailCheck(q) \/ FailToSubmit(q)
             \/ GiveUpWaiting(q) \/ FailAfterRun(q)
      PROVE  Billed(p)' \/ (active' = p /\ stage' = "record")
  <2>1. stage # "record" /\ UNCHANGED ledgerVars /\ Send(q, "ERROR")
      BY <1>6 DEF Refuse, FailCheck, FailToSubmit, GiveUpWaiting,
         FailAfterRun, Fail
  <2>2. reply[p] = "DONE"
      BY <1>4, <2>1 DEF Send
  <2> QED
      BY <1>2, <1>3, <2>1, <2>2
<1>7. ASSUME NEW q \in Requests,
             \/ GetAccountingInfo(q) \/ PassCheck(q) \/ SubmitJob(q)
             \/ CollectResult(q) \/ Close(q)
      PROVE  Billed(p)' \/ (active' = p /\ stage' = "record")
  <2>1. stage # "record" /\ UNCHANGED ledgerVars /\ reply' = reply
      BY <1>7 DEF GetAccountingInfo, PassCheck, SubmitJob, CollectResult,
         Close
  <2> QED
      BY <1>2, <1>3, <2>1
<1>8. ASSUME NEW q \in Requests, ServeUnaccounted(q)
      PROVE  Billed(p)' \/ (active' = p /\ stage' = "record")
  <2>1. /\ stage = "receive" /\ UNCHANGED ledgerVars /\ Send(q, "DONE")
        /\ ~ Accounted(q)
      BY <1>8 DEF ServeUnaccounted
  <2>2. reply[p] = "DONE"
      BY <1>1, <1>4, <2>1 DEF Send
  <2> QED
      BY <1>2, <1>3, <2>1, <2>2
<1>9. ASSUME NEW q \in Requests, AnswerDone(q)
      PROVE  Billed(p)' \/ (active' = p /\ stage' = "record")
  <2>1. /\ stage = "answer" /\ active = q /\ active' = active
        /\ UNCHANGED ledgerVars /\ Send(q, "DONE")
        /\ stage' = IF client[q] = "waiting" THEN "record" ELSE "close"
      BY <1>9 DEF AnswerDone
  <2>2. CASE p = q /\ client[q] = "waiting"
      BY <2>1, <2>2
  <2>3. CASE ~ (p = q /\ client[q] = "waiting")
    <3>1. reply[p] = "DONE"
        BY <1>4, <2>1, <2>3 DEF Send
    <3> QED
        BY <1>2, <1>3, <2>1, <3>1
  <2> QED
      BY <2>2, <2>3
<1>10. ASSUME NEW q \in Requests, Bill(q)
       PROVE  Billed(p)' \/ (active' = p /\ stage' = "record")
  <2>1. active = q /\ reply' = reply
      BY <1>10 DEF Bill
  <2>2. Billed(q)' /\ (p # q => (Billed(p)' <=> Billed(p)))
      BY <1>10, BillIsFirst
  <2> QED
      BY <1>2, <2>1, <2>2
<1>11. ASSUME NEW q \in Requests, FailToBill(q)
       PROVE  FALSE
    BY <1>11 DEF FailToBill
<1>12. CASE Accept \/ Restart
  <2>1. stage # "record" /\ UNCHANGED ledgerVars /\ reply' = reply
      BY <1>12 DEF Accept, Restart
  <2> QED
      BY <1>2, <1>3, <2>1
<1>13. CASE Crash
  <2>1. crashes' = crashes + 1
      BY <1>13 DEF Crash
  <2> QED
      BY <1>1, <2>1
<1>14. CASE UNCHANGED vars
  <2>1. UNCHANGED <<reply, active, stage, ledgerVars>>
      BY <1>14 DEF vars
  <2> QED
      BY <1>2, <1>3, <2>1
<1> QED
    BY <1>5, <1>6, <1>7, <1>8, <1>9, <1>10, <1>11, <1>12, <1>13, <1>14
       DEF Next, Handle

(***************************************************************************)
(* What an accounted command has ended with DONE is billed once the        *)
(* service has moved on (handle_connection), unless the process died or    *)
(* the database refused a transaction.                                     *)
(***************************************************************************)
THEOREM DoneIsAlwaysBilled == Spec => []DoneIsBilled
<1>1. Init => DoneInv
    BY DEF Init, DoneInv
<1>2. DoneInv => DoneIsBilled
    BY DEF DoneInv, DoneIsBilled
<1> QED
    BY <1>1, <1>2, ServiceSafe, DoneNext, PTL DEF Spec

(***************************************************************************)
(* The total a job carries is the total of the database once the job is    *)
(* billed (consumpted_resources).                                          *)
(***************************************************************************)
THEOREM ReportedTotalIsBilled == Spec => ReportedIsBilledTotal
<1> DEFINE Step(q) ==
        Bill(q) /\ command[q] = "backend_run" /\ newConsumption[q] > 0
            => CurrentConsumption(resource[q])' = reported[q]
<1>1. ServiceInv /\ [Next]_vars => [\A q \in Requests : Step(q)]_vars
  <2> SUFFICES ASSUME ServiceInv, NEW q \in Requests, Bill(q),
                      command[q] = "backend_run", newConsumption[q] > 0
               PROVE  CurrentConsumption(resource[q])' = reported[q]
      OBVIOUS
  <2>1. /\ CurrentConsumption(resource[q])'
              = CurrentConsumption(resource[q]) + newConsumption[q]
        /\ newConsumption[q] \in 0..MaxUsage /\ resource[q] \in Resources
      BY BillIsFirst
  <2>2. CurrentConsumption(resource[q]) = seen[q]
      BY DEF ServiceInv, CheckIsCurrent, Bill, GrantedStages
  <2>3. reported[q] = newConsumption[q] + seen[q]
      BY DEF ServiceInv, TotalNoted, Bill
  <2>4. seen[q] \in Nat /\ newConsumption[q] \in Nat
      BY <2>1, ServiceAssumption DEF ServiceInv, ServiceTypeOK
  <2> QED
      BY <2>1, <2>2, <2>3, <2>4
<1> QED
    BY <1>1, ServiceSafe, PTL DEF Spec, ReportedIsBilledTotal

-----------------------------------------------------------------------------
(***************************************************************************)
(* The refinement.  A grant is given by PassCheck and ended by Bill, or by *)
(* what keeps a job from being billed.                                     *)
(***************************************************************************)
BilledTo == [r \in Resources |-> CurrentConsumption(r)]

PromiseStep == [Promise!MeteringNext]_<<BilledTo, GrantHolder>>

LEMMA GrantKept ==
    ASSUME UNCHANGED <<BilledTo, resource>>,
           stage \in GrantedStages <=> stage' \in GrantedStages,
           stage \in GrantedStages => active' = active
    PROVE  PromiseStep
BY DEF PromiseStep, GrantHolder

LEMMA GrantEnded ==
    ASSUME UNCHANGED BilledTo, GrantHolder # NoRequest, stage' \notin GrantedStages
    PROVE  PromiseStep
BY DEF PromiseStep, GrantHolder, BilledTo, Promise!MeteringNext,
   Promise!Release

LEMMA StepKeepsPromise ==
    ASSUME ServiceInv, [Next]_vars
    PROVE  PromiseStep
<1> USE DEF GrantedStages
<1>1. UNCHANGED ledgerVars => UNCHANGED BilledTo
    BY TablesUnchanged DEF BilledTo
<1>2. /\ active \in Requests \cup {NoRequest}
      /\ active = NoRequest <=> stage \in {"down", "idle"}
      /\ NoRequest \notin Requests /\ NoRequest \notin Resources
      /\ \A q \in Requests : resource[q] \in Resources
    BY ServiceAssumption DEF ServiceInv, ServiceTypeOK
<1>3. ASSUME NEW q \in Requests, Connect(q)
      PROVE  PromiseStep
    BY <1>1, <1>2, <1>3, GrantKept DEF Connect, clientVars, handlerVars,
       jobVars
<1>4. ASSUME NEW q \in Requests, FindNoSocket(q)
      PROVE  PromiseStep
    BY <1>1, <1>2, <1>4, GrantKept DEF FindNoSocket, clientVars, handlerVars,
       jobVars
<1>5. ASSUME NEW q \in Requests, HangUp(q)
      PROVE  PromiseStep
    BY <1>1, <1>2, <1>5, GrantKept DEF HangUp, clientVars, handlerVars,
       jobVars
<1>6. ASSUME NEW q \in Requests, Refuse(q)
      PROVE  PromiseStep
    BY <1>1, <1>2, <1>6, GrantKept DEF Refuse, clientVars, handlerVars,
       jobVars, Fail
<1>7. ASSUME NEW q \in Requests, ServeUnaccounted(q)
      PROVE  PromiseStep
    BY <1>1, <1>2, <1>7, GrantKept DEF ServeUnaccounted, clientVars,
       handlerVars, jobVars
<1>8. ASSUME NEW q \in Requests, GetAccountingInfo(q)
      PROVE  PromiseStep
    BY <1>1, <1>2, <1>8, GrantKept DEF GetAccountingInfo, clientVars,
       handlerVars, jobVars
<1>9. ASSUME NEW q \in Requests, PassCheck(q)
      PROVE  PromiseStep
  <2>1. /\ UNCHANGED BilledTo
        /\ GrantHolder = NoRequest /\ GrantHolder' = resource[q]
        /\ resource[q] \in Resources
        /\ BilledTo[resource[q]] <= Allocation[resource[q]]
      BY <1>1, <1>2, <1>9
         DEF PassCheck, WithinAllocation, GrantHolder, BilledTo, clientVars, jobVars
  <2> QED
      BY <2>1 DEF PromiseStep, BilledTo, Promise!MeteringNext, Promise!Grant
<1>10. ASSUME NEW q \in Requests, FailCheck(q)
      PROVE  PromiseStep
    BY <1>1, <1>2, <1>10, GrantKept DEF FailCheck, clientVars, handlerVars,
       jobVars, Fail
<1>11. ASSUME NEW q \in Requests, SubmitJob(q)
      PROVE  PromiseStep
    BY <1>1, <1>2, <1>11, GrantKept DEF SubmitJob, clientVars, handlerVars,
       jobVars
<1>12. ASSUME NEW q \in Requests, FailToSubmit(q)
      PROVE  PromiseStep
    BY <1>1, <1>2, <1>12, GrantEnded DEF GrantHolder, FailToSubmit,
       clientVars, handlerVars, jobVars, Fail
<1>13. ASSUME NEW q \in Requests, ExecuteJob(q)
      PROVE  PromiseStep
    BY <1>1, <1>2, <1>13, GrantKept DEF ExecuteJob, clientVars, handlerVars,
       jobVars
<1>14. ASSUME NEW q \in Requests, GiveUpWaiting(q)
      PROVE  PromiseStep
    BY <1>1, <1>2, <1>14, GrantEnded DEF GrantHolder, GiveUpWaiting,
       clientVars, handlerVars, jobVars, Fail
<1>15. ASSUME NEW q \in Requests, CollectResult(q)
      PROVE  PromiseStep
    BY <1>1, <1>2, <1>15, GrantKept DEF CollectResult, clientVars,
       handlerVars, jobVars
<1>16. ASSUME NEW q \in Requests, FailAfterRun(q)
      PROVE  PromiseStep
    BY <1>1, <1>2, <1>16, GrantEnded DEF GrantHolder, FailAfterRun,
       clientVars, handlerVars, jobVars, Fail
<1>17. ASSUME NEW q \in Requests, AnswerDone(q)
      PROVE  PromiseStep
  <2>1. CASE stage' = "record"
      BY <1>1, <1>17, <2>1, GrantKept DEF AnswerDone, clientVars
  <2>2. CASE stage' = "close"
      BY <1>1, <1>2, <1>17, <2>2, GrantEnded DEF AnswerDone, GrantHolder
  <2> QED
      BY <1>17, <2>1, <2>2 DEF AnswerDone
<1>18. ASSUME NEW q \in Requests, Bill(q)
      PROVE  PromiseStep
  <2>1. PICK r \in Resources :
            /\ r = resource[q] /\ newConsumption[q] \in 0..MaxUsage
            /\ CurrentConsumption(r)' = CurrentConsumption(r) + newConsumption[q]
            /\ \A s : s # r => CurrentConsumption(s)' = CurrentConsumption(s)
      BY <1>18, BillIsFirst DEF Bill, clientVars
  <2>2. BilledTo' = [BilledTo EXCEPT ![r] = @ + newConsumption[q]]
      BY <2>1 DEF BilledTo
  <2>3. GrantHolder = r /\ GrantHolder' = NoRequest
      BY <1>18, <2>1 DEF Bill, GrantHolder
  <2> QED
      BY <2>1, <2>2, <2>3
         DEF PromiseStep, BilledTo, Promise!MeteringNext, Promise!Bill
<1>19. ASSUME NEW q \in Requests, FailToBill(q)
      PROVE  PromiseStep
    BY <1>1, <1>2, <1>19, GrantEnded DEF GrantHolder, FailToBill, clientVars,
       handlerVars, jobVars
<1>20. ASSUME NEW q \in Requests, Close(q)
      PROVE  PromiseStep
    BY <1>1, <1>2, <1>20, GrantKept DEF Close, clientVars, handlerVars,
       jobVars
<1>21. CASE Accept
    BY <1>1, <1>2, <1>21, GrantKept DEF Accept, clientVars, handlerVars,
       jobVars
<1>22. CASE Crash
  <2>1. CASE stage \in GrantedStages
      BY <1>1, <1>2, <1>22, <2>1, GrantEnded DEF Crash, GrantHolder
  <2>2. CASE stage \notin GrantedStages
      BY <1>1, <1>22, <2>2, GrantKept DEF Crash
  <2> QED
      BY <2>1, <2>2
<1>23. CASE Restart
    BY <1>1, <1>2, <1>23, GrantKept DEF Restart, clientVars, handlerVars,
       jobVars
<1>24. CASE UNCHANGED vars
    BY <1>1, <1>2, <1>24, GrantKept DEF vars, clientVars, handlerVars, jobVars
<1> QED
    BY <1>3, <1>4, <1>5, <1>6, <1>7, <1>8, <1>9, <1>10, <1>11, <1>12, <1>13,
       <1>14, <1>15, <1>16, <1>17, <1>18, <1>19, <1>20, <1>21, <1>22, <1>23,
       <1>24 DEF Next, Handle

(***************************************************************************)
(* The service implements Metering: it grants the machine to one job at a  *)
(* time, only within the allocation, and ends each grant with one bill or  *)
(* none (handle_connection), for any number of requests and resources.     *)
(***************************************************************************)
THEOREM ServiceImplementsMetering == Spec => ImplementsMetering
<1>1. Init => Promise!MeteringInit
  <2> SUFFICES ASSUME Init PROVE Promise!MeteringInit
      OBVIOUS
  <2>1. \A r : CurrentConsumption(r) = 0
      BY DEF Init, LedgerInit, CurrentConsumption, SummaryIn
  <2>2. GrantHolder = NoRequest
      BY DEF Init, GrantHolder, GrantedStages
  <2> QED
      BY <2>1, <2>2 DEF Promise!MeteringInit
<1>2. ServiceInv /\ [Next]_vars => [Promise!MeteringNext]_(Promise!meteringVars)
    BY StepKeepsPromise DEF PromiseStep, BilledTo, Promise!meteringVars
<1> QED
    BY <1>1, <1>2, ServiceSafe, PTL
       DEF Spec, ImplementsMetering, Promise!MeteringSpec

=============================================================================
