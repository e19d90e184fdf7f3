------------------------- MODULE MetadataCacheProofs -------------------------
(***************************************************************************)
(* However many requests refresh however many tables at once, the cache and *)
(* the refreshes keep their types, counts stay within what a column has.    *)
(***************************************************************************)
EXTENDS MetadataCacheProps, TLAPS

\* A refresh is of a table, with the old count or with the new one.
LEMMA RefreshesOfATable ==
    ASSUME CacheTypeOK, NEW r \in Request, refresh[r].at # "idle"
    PROVE  /\ refresh[r].table \in Table
           /\ refresh[r].at \in {"marking", "counting"} =>
                /\ refresh[r] \in [at : {"marking", "counting"}, table : Table, old : 0..MaxCount]
                /\ refresh[r].old \in 0..MaxCount
           /\ refresh[r].at = "putting" =>
                /\ refresh[r] \in [at : {"putting"}, table : Table, new : 0..MaxCount]
                /\ refresh[r].new \in 0..MaxCount
<1>1. refresh[r] \in RefreshType
    BY DEF CacheTypeOK
<1>2. CASE refresh[r] = NoRefresh
    BY <1>2 DEF NoRefresh
<1>3. CASE refresh[r] \in [at : {"marking", "counting"}, table : Table, old : 0..MaxCount]
    BY <1>3
<1>4. CASE refresh[r] \in [at : {"putting"}, table : Table, new : 0..MaxCount]
    BY <1>4
<1> QED
    BY <1>1, <1>2, <1>3, <1>4 DEF RefreshType

\* A fresh entry is one.
LEMMA FreshIsEntry ==
    ASSUME NEW n \in 0..MaxCount
    PROVE  Fresh(n) \in Entry
BY DEF Fresh, Entry

LEMMA CacheTypeInit == Init => CacheTypeOK
<1> SUFFICES ASSUME Init PROVE CacheTypeOK
    OBVIOUS
<1>1. MaxCount \in Nat /\ 1 <= MaxCount /\ MaxFailures \in Nat
    BY CacheAssumption
<1>2. db \in [Table -> 0..MaxCount]
    <2>1. db \in [Table -> 0..1] /\ 0..1 \subseteq 0..MaxCount
        BY <1>1 DEF Init
    <2> QED
        BY <2>1
<1>3. cache \in [Table -> Entry \union {Absent}]
    <2>1. \A e \in BOOLEAN : [count |-> 0, expired |-> e] \in Entry
        BY <1>1 DEF Entry
    <2>2. CASE cache \in [Table -> {[count |-> 0, expired |-> e] : e \in BOOLEAN}]
        BY <2>1, <2>2
    <2>3. CASE cache = [t \in Table |-> Absent]
        BY <2>3
    <2> QED
        BY <2>2, <2>3 DEF Init
<1>4. refresh \in [Request -> RefreshType]
    BY DEF Init, RefreshType
<1> QED
    BY <1>1, <1>2, <1>3, <1>4 DEF Init, CacheTypeOK

LEMMA CacheTypeNext == CacheTypeOK /\ [Next]_vars => CacheTypeOK'
<1> SUFFICES ASSUME CacheTypeOK, [Next]_vars PROVE CacheTypeOK'
    OBVIOUS
<1>1. MaxCount \in Nat /\ MaxFailures \in Nat /\ HighCount \in Nat
      /\ Absent \notin [count : Nat, expired : BOOLEAN]
    BY CacheAssumption
<1>2. ASSUME NEW t \in Table, Grow(t) PROVE CacheTypeOK'
    <2>1. db[t] \in 0..MaxCount /\ db[t] + 1 \in 0..MaxCount
        BY <1>1, <1>2 DEF Grow, CacheTypeOK
    <2> QED
        BY <1>2, <2>1 DEF Grow, CacheTypeOK
<1>3. ASSUME NEW t \in Table, Expire(t) PROVE CacheTypeOK'
    <2>1. cache[t] \in Entry
        BY <1>3 DEF Expire, CacheTypeOK
    <2>2. [cache[t] EXCEPT !.expired = TRUE] \in Entry
        BY <2>1 DEF Entry
    <2> QED
        BY <1>3, <2>2 DEF Expire, CacheTypeOK
<1>4. CASE StartCounting \/ FinishCounting
    BY <1>4 DEF StartCounting, FinishCounting, CacheTypeOK
<1>5. ASSUME NEW r \in Request, NEW t \in Table, FindExpired(r, t) PROVE CacheTypeOK'
    <2>1. cache[t].count \in 0..MaxCount
        BY <1>5 DEF FindExpired, CacheTypeOK, Entry
    <2>2. [at |-> "marking", table |-> t, old |-> cache[t].count] \in RefreshType
        BY <2>1 DEF RefreshType
    <2> QED
        BY <1>5, <2>2 DEF FindExpired, CacheTypeOK
<1>6. ASSUME NEW r \in Request, MarkFresh(r) PROVE CacheTypeOK'
    <2>1. /\ refresh[r] \in [at : {"marking", "counting"}, table : Table, old : 0..MaxCount]
          /\ Fresh(refresh[r].old) \in Entry
        BY <1>6, RefreshesOfATable, FreshIsEntry DEF MarkFresh
    <2>2. [refresh[r] EXCEPT !.at = "counting"] \in RefreshType
        BY <2>1 DEF RefreshType
    <2> QED
        BY <1>6, <2>1, <2>2 DEF MarkFresh, CacheTypeOK
<1>7. ASSUME NEW r \in Request, Count(r) PROVE CacheTypeOK'
    <2> DEFINE t == refresh[r].table
               new == IF refresh[r].old < HighCount THEN db[t] ELSE refresh[r].old
    <2>1. t \in Table /\ new \in 0..MaxCount
        BY <1>7, RefreshesOfATable DEF Count, CacheTypeOK
    <2>2. [at |-> "putting", table |-> t, new |-> new] \in RefreshType
        BY <2>1 DEF RefreshType
    <2> QED
        BY <1>7, <2>2 DEF Count, CacheTypeOK
<1>8. ASSUME NEW r \in Request, PutCount(r) PROVE CacheTypeOK'
    <2>1. Fresh(refresh[r].new) \in Entry
        BY <1>8, RefreshesOfATable, FreshIsEntry DEF PutCount
    <2>2. NoRefresh \in RefreshType
        BY DEF RefreshType
    <2> QED
        BY <1>8, <2>1, <2>2 DEF PutCount, CacheTypeOK
<1>9. ASSUME NEW r \in Request, MarkLost(r) PROVE CacheTypeOK'
    <2>1. refresh[r] \in [at : {"marking", "counting"}, table : Table, old : 0..MaxCount]
        BY <1>9, RefreshesOfATable DEF MarkLost
    <2>2. [refresh[r] EXCEPT !.at = "counting"] \in RefreshType
        BY <2>1 DEF RefreshType
    <2>3. failures + 1 \in 0..MaxFailures
        BY <1>1, <1>9 DEF MarkLost, CacheTypeOK
    <2> QED
        BY <1>9, <2>2, <2>3 DEF MarkLost, CacheTypeOK
<1>10. ASSUME NEW r \in Request, CountLost(r) PROVE CacheTypeOK'
    <2>1. NoRefresh \in RefreshType
        BY DEF RefreshType
    <2>2. failures + 1 \in 0..MaxFailures
        BY <1>1, <1>10 DEF CountLost, CacheTypeOK
    <2> QED
        BY <1>10, <2>1, <2>2 DEF CountLost, CacheTypeOK
<1>11. CASE UNCHANGED vars
    BY <1>11 DEF vars, CacheTypeOK
<1> QED
    BY <1>2, <1>3, <1>4, <1>5, <1>6, <1>7, <1>8, <1>9, <1>10, <1>11 DEF Next, Refreshing

\* However refreshes overlap, fail or lose their updates, every entry is a count that some
\* column may have, and every refresh that writes one back knows its table and its count.
THEOREM CacheTypeCorrect == Spec => []CacheTypeOK
    BY CacheTypeInit, CacheTypeNext, PTL DEF Spec
=============================================================================
