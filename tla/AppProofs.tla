------------------------------- MODULE AppProofs -----------------------------
(***************************************************************************)
(* For accounts and archives of any size, and any interrupt, failure or    *)
(* change of the dashboard: what a run over all Collections keeps to.      *)
(***************************************************************************)
EXTENDS AppSafety, SequenceTheorems, TLAPS

-----------------------------------------------------------------------------
(* The dashboard and its pages.                                            *)

(* The number of Collections on the pages before the one asked for.        *)
Before == (page - 1) * PageSize

(* What is on the pages that are not read yet.                             *)
Unread(d, n) == {d[i] : i \in {j \in 1..Len(d) : j > n}}

DashboardOK == dash \in Seq(Collection) /\ IsInjective(dash)

ListedOK ==
    /\ listed \in Seq(Collection)
    /\ IsInjective(listed)
    /\ page \in Nat \ {0}

(* What was there at first and is not listed yet is still to be read.      *)
NothingMissed ==
    page > 1 /\ withdrawn = {} => atFirst \subseteq Range(listed) \cup Unread(dash, Before)

LEMMA Inserted ==
    ASSUME DashboardOK, NEW c \in Collection \ Range(dash), NEW i \in 1..(Len(dash) + 1),
           NEW n \in Nat
    PROVE  /\ InsertAt(dash, i, c) \in Seq(Collection)
           /\ IsInjective(InsertAt(dash, i, c))
           /\ Unread(dash, n) \subseteq Unread(InsertAt(dash, i, c), n)
<1> DEFINE front == SubSeq(dash, 1, i - 1)
           back  == SubSeq(dash, i, Len(dash))
           new   == InsertAt(dash, i, c)
<1>1. /\ dash \in Seq(Collection) /\ Len(dash) \in Nat /\ i \in Int
      /\ DOMAIN dash = 1..Len(dash)
      /\ \A j \in 1..Len(dash) : dash[j] \in Collection /\ dash[j] # c
    BY DEF DashboardOK, Range
<1>2. /\ front \in Seq(Collection) /\ Len(front) = i - 1
      /\ \A j \in 1..(i - 1) : front[j] = dash[j]
    BY <1>1, SubSeqProperties
<1>3. /\ back \in Seq(Collection) /\ Len(back) = Len(dash) - i + 1
      /\ \A j \in 1..(Len(dash) - i + 1) : back[j] = dash[i + j - 1]
    BY <1>1, SubSeqProperties
<1>4. /\ new \in Seq(Collection) /\ Len(new) = Len(dash) + 1
      /\ \A j \in 1..(Len(dash) + 1) :
            new[j] = IF j < i THEN dash[j] ELSE IF j = i THEN c ELSE dash[j - 1]
  <2>1. /\ <<c>> \in Seq(Collection) /\ Len(<<c>>) = 1 /\ <<c>>[1] = c
      OBVIOUS
  <2> DEFINE middle == <<c>>
             upto   == front \o middle
  <2>3. new = upto \o back
      BY DEF InsertAt
  <2> HIDE DEF front, back, middle, new
  <2>2. /\ upto \in Seq(Collection) /\ Len(upto) = i
        /\ \A j \in 1..(i - 1) : upto[j] = dash[j]
        /\ upto[i] = c
    <3>1. /\ upto \in Seq(Collection) /\ Len(upto) = (i - 1) + 1
          /\ \A j \in 1..(i - 1) : upto[j] = front[j]
          /\ \A j \in ((i - 1) + 1)..((i - 1) + 1) : upto[j] = middle[j - (i - 1)]
      <4>1. i - 1 \in Nat /\ 1 \in Nat
          BY <1>1
      <4> QED BY <1>2, <2>1, <4>1 DEF middle
    <3>2. i = (i - 1) + 1 /\ i - (i - 1) = 1 /\ i \in ((i - 1) + 1)..((i - 1) + 1)
        BY <1>1
    <3>3. upto[i] = middle[1]
        BY <3>1, <3>2
    <3> QED BY <1>2, <2>1, <3>1, <3>2, <3>3 DEF middle
  <2> HIDE DEF upto
  <2>4. /\ new \in Seq(Collection) /\ Len(new) = i + (Len(dash) - i + 1)
        /\ \A j \in 1..i : new[j] = upto[j]
        /\ \A j \in (i + 1)..(i + (Len(dash) - i + 1)) : new[j] = back[j - i]
    <3>1. i \in Nat /\ Len(dash) - i + 1 \in Nat
        BY <1>1
    <3> QED BY <1>3, <2>2, <2>3, <3>1
  <2>5. ASSUME NEW j \in 1..(Len(dash) + 1)
        PROVE  new[j] = IF j < i THEN dash[j] ELSE IF j = i THEN c ELSE dash[j - 1]
    <3>1. CASE j <= i
        BY <1>1, <2>2, <2>4, <3>1
    <3>2. CASE j > i
      <4>1. new[j] = back[j - i] /\ j - i \in 1..(Len(dash) - i + 1)
          BY <1>1, <2>4, <3>2
      <4>2. back[j - i] = dash[i + (j - i) - 1] /\ i + (j - i) - 1 = j - 1
          BY <1>1, <1>3, <4>1
      <4> QED BY <1>1, <3>2, <4>1, <4>2
    <3> QED BY <1>1, <3>1, <3>2
  <2> QED BY <1>1, <2>4, <2>5
<1> HIDE DEF front, back, new
<1>5. IsInjective(new)
  <2>1. DOMAIN new = 1..(Len(dash) + 1)
      BY <1>1, <1>4, LenProperties
  <2>2. \A j, k \in 1..Len(dash) : dash[j] = dash[k] => j = k
      BY <1>1 DEF DashboardOK, IsInjective
  <2> SUFFICES ASSUME NEW j \in 1..(Len(dash) + 1), NEW k \in 1..(Len(dash) + 1),
                      new[j] = new[k]
               PROVE  j = k
      BY <2>1 DEF IsInjective
  <2>3. CASE j = i \/ k = i
      BY <1>1, <1>4, <2>3
  <2>4. CASE j # i /\ k # i
    <3> DEFINE u == IF j < i THEN j ELSE j - 1
               v == IF k < i THEN k ELSE k - 1
    <3>1. u \in 1..Len(dash) /\ v \in 1..Len(dash)
        BY <1>1, <2>4
    <3>2. new[j] = dash[u] /\ new[k] = dash[v]
        BY <1>1, <1>4, <2>4
    <3>3. u = v
        BY <2>2, <3>1, <3>2
    <3> QED BY <1>1, <2>4, <3>3
  <2> QED BY <2>3, <2>4
<1>6. Unread(dash, n) \subseteq Unread(new, n)
  <2> SUFFICES ASSUME NEW j \in 1..Len(dash), j > n
               PROVE  \E k \in 1..Len(new) : k > n /\ new[k] = dash[j]
      BY DEF Unread
  <2>1. CASE j < i
      BY <1>1, <1>4, <2>1
  <2>2. CASE j >= i
    <3>1. j + 1 \in 1..Len(new) /\ j + 1 > n
        BY <1>1, <1>4
    <3>2. new[j + 1] = dash[j]
        BY <1>1, <1>4, <2>2
    <3> QED BY <3>1, <3>2
  <2> QED BY <1>1, <2>1, <2>2
<1> QED BY <1>4, <1>5, <1>6 DEF new

LEMMA Removed ==
    ASSUME DashboardOK, NEW i \in DOMAIN dash
    PROVE  /\ RemoveAt(dash, i) \in Seq(Collection)
           /\ IsInjective(RemoveAt(dash, i))
<1> DEFINE front == SubSeq(dash, 1, i - 1)
           back  == SubSeq(dash, i + 1, Len(dash))
           new   == RemoveAt(dash, i)
<1>1. /\ dash \in Seq(Collection) /\ Len(dash) \in Nat /\ i \in 1..Len(dash)
      /\ \A j \in 1..Len(dash) : dash[j] \in Collection
      /\ \A j, k \in 1..Len(dash) : dash[j] = dash[k] => j = k
    BY DEF DashboardOK, IsInjective
<1>2. /\ front \in Seq(Collection) /\ Len(front) = i - 1
      /\ \A j \in 1..(i - 1) : front[j] = dash[j]
    BY <1>1, SubSeqProperties
<1>3. /\ back \in Seq(Collection) /\ Len(back) = Len(dash) - i
      /\ \A j \in 1..(Len(dash) - i) : back[j] = dash[i + j]
  <2>1. \A j \in (i + 1)..Len(dash) : dash[j] \in Collection
      BY <1>1
  <2>2. /\ back \in Seq(Collection)
        /\ Len(back) = IF i + 1 <= Len(dash) THEN Len(dash) - (i + 1) + 1 ELSE 0
        /\ \A j \in 1..(Len(dash) - (i + 1) + 1) : back[j] = dash[(i + 1) + j - 1]
      BY <1>1, <2>1, SubSeqProperties
  <2> QED BY <1>1, <2>2
<1>4. new = front \o back
    BY DEF RemoveAt
<1> HIDE DEF front, back, new
<1>5. /\ new \in Seq(Collection) /\ Len(new) = Len(dash) - 1
      /\ \A j \in 1..(Len(dash) - 1) : new[j] = IF j < i THEN dash[j] ELSE dash[j + 1]
  <2>1. /\ new \in Seq(Collection) /\ Len(new) = (i - 1) + (Len(dash) - i)
        /\ \A j \in 1..(i - 1) : new[j] = front[j]
        /\ \A j \in ((i - 1) + 1)..((i - 1) + (Len(dash) - i)) : new[j] = back[j - (i - 1)]
    <3> DEFINE m == i - 1
               n == Len(dash) - i
    <3>1. /\ m \in Nat /\ n \in Nat /\ Len(front) = m /\ Len(back) = n
          /\ front \in Seq(Collection) /\ back \in Seq(Collection)
        BY <1>1, <1>2, <1>3
    <3> HIDE DEF m, n
    <3>2. /\ new \in Seq(Collection) /\ Len(new) = m + n
          /\ \A j \in 1..m : new[j] = front[j]
          /\ \A j \in (m + 1)..(m + n) : new[j] = back[j - m]
      <4>1. /\ front \o back \in Seq(Collection) /\ Len(front \o back) = m + n
            /\ \A j \in 1..m : (front \o back)[j] = front[j]
            /\ \A j \in (m + 1)..(m + n) : (front \o back)[j] = back[j - m]
          BY <3>1
      <4> QED BY <1>4, <4>1
    <3> QED BY <3>2 DEF m, n
  <2>2. ASSUME NEW j \in 1..(Len(dash) - 1)
        PROVE  new[j] = IF j < i THEN dash[j] ELSE dash[j + 1]
    <3>1. CASE j < i
        BY <1>1, <1>2, <2>1, <3>1
    <3>2. CASE j >= i
      <4>1. j - (i - 1) \in 1..(Len(dash) - i) /\ i + (j - (i - 1)) = j + 1
          BY <1>1, <3>2
      <4>2. j \in ((i - 1) + 1)..((i - 1) + (Len(dash) - i))
          BY <1>1, <3>2
      <4>3. \A l \in ((i - 1) + 1)..((i - 1) + (Len(dash) - i)) : new[l] = back[l - (i - 1)]
          BY <2>1
      <4>4. new[j] = back[j - (i - 1)]
          BY <4>2, <4>3, Zenon
      <4> QED BY <1>1, <1>3, <3>2, <4>1, <4>4
    <3> QED BY <1>1, <3>1, <3>2
  <2> QED BY <1>1, <2>1, <2>2
<1>6. IsInjective(new)
  <2>1. DOMAIN new = 1..(Len(dash) - 1)
      BY <1>1, <1>5, LenProperties
  <2> SUFFICES ASSUME NEW j \in 1..(Len(dash) - 1), NEW k \in 1..(Len(dash) - 1),
                      new[j] = new[k]
               PROVE  j = k
      BY <2>1 DEF IsInjective
  <2> DEFINE u == IF j < i THEN j ELSE j + 1
             v == IF k < i THEN k ELSE k + 1
  <2>2. u \in 1..Len(dash) /\ v \in 1..Len(dash)
      BY <1>1
  <2>3. new[j] = dash[u] /\ new[k] = dash[v]
      BY <1>1, <1>5
  <2>4. u = v
      BY <1>1, <2>2, <2>3
  <2> QED BY <1>1, <2>4
<1> QED BY <1>5, <1>6 DEF new

(* A page holds what stands on the dashboard between the pages before it   *)
(* and the pages after it.                                                 *)
LEMMA PageItems ==
    ASSUME DashboardOK, page \in Nat \ {0}
    PROVE  /\ Items \in Seq(Collection)
           /\ IsInjective(Items)
           /\ Unread(dash, Before) \subseteq Range(Items) \cup Unread(dash, page * PageSize)
<1> DEFINE m == Before
           k == page * PageSize
           n == IF k < Len(dash) THEN k ELSE Len(dash)
<1>1. /\ dash \in Seq(Collection) /\ Len(dash) \in Nat
      /\ \A j \in 1..Len(dash) : dash[j] \in Collection
      /\ \A j, l \in 1..Len(dash) : dash[j] = dash[l] => j = l
    BY DEF DashboardOK, IsInjective
<1>2. /\ page \in Nat /\ page - 1 \in Nat /\ PageSize \in Nat
    BY DiscoveryAssumption
<1>3. m \in Nat /\ k \in Nat
    BY <1>2 DEF Before
<1>4. Items = SubSeq(dash, m + 1, n)
    BY DEF Items, Before
<1> HIDE DEF m, k
<1>5. n \in Nat /\ n <= Len(dash)
    BY <1>1, <1>3
<1>6. \A j \in (m + 1)..n : dash[j] \in Collection
    BY <1>1, <1>3, <1>5
<1>n. (n = k \/ n = Len(dash)) /\ (k < Len(dash) => n = k)
    OBVIOUS
<1> HIDE DEF n
<1>7. /\ Items \in Seq(Collection)
      /\ Len(Items) = IF m + 1 <= n THEN n - (m + 1) + 1 ELSE 0
      /\ \A j \in 1..(n - (m + 1) + 1) : Items[j] = dash[(m + 1) + j - 1]
  <2>1. m + 1 \in Int /\ n \in Int
      BY <1>3, <1>5
  <2> QED BY <1>4, <1>6, <2>1, SubSeqProperties
<1>8. /\ DOMAIN Items = 1..Len(Items)
      /\ \A j \in 1..Len(Items) : Items[j] = dash[m + j] /\ m + j \in 1..Len(dash)
  <2>1. DOMAIN Items = 1..Len(Items)
      BY <1>7, LenProperties
  <2>2. ASSUME NEW j \in 1..Len(Items)
        PROVE  Items[j] = dash[m + j] /\ m + j \in 1..Len(dash)
    <3>1. m + 1 <= n /\ j \in 1..(n - (m + 1) + 1)
        BY <1>3, <1>5, <1>7
    <3>2. (m + 1) + j - 1 = m + j /\ m + j \in 1..Len(dash)
        BY <1>1, <1>3, <1>5, <3>1
    <3> QED BY <1>7, <3>1, <3>2
  <2> QED BY <2>1, <2>2
<1>9. IsInjective(Items)
  <2> SUFFICES ASSUME NEW j \in 1..Len(Items), NEW l \in 1..Len(Items), Items[j] = Items[l]
               PROVE  j = l
      BY <1>8 DEF IsInjective
  <2>1. m + j = m + l
      BY <1>1, <1>8
  <2>2. j \in Int /\ l \in Int
      OBVIOUS
  <2> QED BY <1>3, <2>1, <2>2
<1>10. Unread(dash, m) \subseteq Range(Items) \cup Unread(dash, k)
  <2> SUFFICES ASSUME NEW j \in 1..Len(dash), j > m, ~(j > k)
               PROVE  dash[j] \in Range(Items)
      BY DEF Unread
  <2>1. j <= n
      BY <1>1, <1>3, <1>5, <1>n
  <2>2. j - m \in 1..Len(Items) /\ m + (j - m) = j
      BY <1>1, <1>3, <1>5, <1>7, <2>1
  <2>3. Items[j - m] = dash[m + (j - m)] /\ j - m \in DOMAIN Items
      BY <1>8, <2>2
  <2> QED BY <2>2, <2>3 DEF Range
<1> QED BY <1>7, <1>9, <1>10 DEF m, k

(* Nothing is behind the last page.                                        *)
LEMMA LastPageIsLast ==
    ASSUME dash \in Seq(Collection), page = LastPage
    PROVE  Unread(dash, page * PageSize) = {}
<1> DEFINE q == (Len(dash) + PageSize - 1) \div PageSize
<1>1. Len(dash) \in Nat /\ PageSize \in Nat \ {0}
    BY DiscoveryAssumption
<1>2. q \in Int /\ Len(dash) + PageSize - 1 < (q + 1) * PageSize
    BY <1>1
<1>3. page = IF q = 0 THEN 1 ELSE q
    BY DEF LastPage
<1> HIDE DEF q
<1>4. (q + 1) * PageSize = q * PageSize + PageSize
    BY <1>1, <1>2
<1>5. page * PageSize >= Len(dash) /\ page * PageSize \in Int
  <2>1. CASE q = 0
      BY <1>1, <1>2, <1>3, <2>1
  <2>2. CASE q # 0
    <3>1. page = q
        BY <1>3, <2>2
    <3>2. q * PageSize \in Int
        BY <1>1, <1>2
    <3> QED BY <1>1, <1>2, <1>4, <3>1, <3>2
  <2> QED BY <2>1, <2>2
<1> QED BY <1>1, <1>5 DEF Unread

-----------------------------------------------------------------------------
(* The steps of the dashboard and of the listing.                          *)

LEMMA DashboardChangeKeeps ==
    ASSUME DashboardOK, ListedOK, NothingMissed, Publish \/ Withdraw
    PROVE  DashboardOK' /\ ListedOK' /\ NothingMissed'
<1>1. UNCHANGED <<page, listed, atFirst>>
    BY DEF Publish, Withdraw
<1>2. Before \in Nat
    BY DiscoveryAssumption DEF ListedOK, Before
<1>3. CASE Publish
  <2>1. PICK c \in Collection \ Range(dash), i \in 1..(Len(dash) + 1) :
            dash' = InsertAt(dash, i, c)
      BY <1>3 DEF Publish
  <2>2. /\ dash' \in Seq(Collection) /\ IsInjective(dash')
        /\ Unread(dash, Before) \subseteq Unread(dash', Before)
      BY <1>2, <2>1, Inserted
  <2>3. UNCHANGED withdrawn
      BY <1>3 DEF Publish
  <2> QED BY <1>1, <2>2, <2>3 DEF DashboardOK, ListedOK, NothingMissed, Before
<1>4. CASE Withdraw
  <2>1. PICK i \in DOMAIN dash :
            dash' = RemoveAt(dash, i) /\ withdrawn' = withdrawn \cup {dash[i]}
      BY <1>4 DEF Withdraw
  <2>2. DashboardOK'
      BY <2>1, Removed DEF DashboardOK
  <2>3. withdrawn' # {}
      BY <2>1
  <2> QED BY <1>1, <2>2, <2>3 DEF ListedOK, NothingMissed
<1> QED BY <1>3, <1>4

LEMMA PageTakenKeeps ==
    ASSUME DashboardOK, ListedOK, NothingMissed, PageTaken
    PROVE  /\ DashboardOK' /\ ListedOK' /\ NothingMissed'
           /\ page = LastPage /\ withdrawn' = {} => atFirst' \subseteq Range(listed')
<1>1. /\ Items \in Seq(Collection) /\ IsInjective(Items)
      /\ Unread(dash, Before) \subseteq Range(Items) \cup Unread(dash, page * PageSize)
      /\ listed \in Seq(Collection) /\ IsInjective(listed)
      /\ page \in Nat \ {0}
    BY PageItems DEF ListedOK
<1>2. /\ listed' = listed \o Items /\ page' = page + 1 /\ UNCHANGED dash
      /\ Range(Items) \cap Range(listed) = {}
    BY DEF PageTaken, NoDuplicate
<1>3. /\ listed \o Items \in Seq(Collection)
      /\ Len(listed \o Items) = Len(listed) + Len(Items)
      /\ \A j \in 1..Len(listed) : (listed \o Items)[j] = listed[j]
      /\ \A j \in (Len(listed) + 1)..(Len(listed) + Len(Items)) :
            (listed \o Items)[j] = Items[j - Len(listed)]
  <2> DEFINE items == Items
  <2>1. items \in Seq(Collection)
      BY <1>1
  <2> HIDE DEF items
  <2>2. /\ listed \o items \in Seq(Collection)
        /\ Len(listed \o items) = Len(listed) + Len(items)
        /\ \A j \in 1..Len(listed) : (listed \o items)[j] = listed[j]
        /\ \A j \in (Len(listed) + 1)..(Len(listed) + Len(items)) :
              (listed \o items)[j] = items[j - Len(listed)]
      BY <1>1, <2>1
  <2> QED BY <2>2 DEF items
<1>4. /\ DOMAIN listed = 1..Len(listed) /\ DOMAIN Items = 1..Len(Items)
      /\ DOMAIN listed' = 1..(Len(listed) + Len(Items))
      /\ Len(listed) \in Nat /\ Len(Items) \in Nat
    BY <1>1, <1>2, <1>3, LenProperties
<1>5. \A j \in DOMAIN listed' :
          \/ j \in DOMAIN listed /\ listed'[j] = listed[j]
          \/ j > Len(listed) /\ j - Len(listed) \in DOMAIN Items /\ listed'[j] = Items[j - Len(listed)]
    BY <1>2, <1>3, <1>4
<1>6. Range(listed) \cup Range(Items) \subseteq Range(listed')
  <2>1. ASSUME NEW j \in DOMAIN listed
        PROVE  listed[j] \in Range(listed')
      BY <1>2, <1>3, <1>4 DEF Range
  <2>2. ASSUME NEW j \in DOMAIN Items
        PROVE  Items[j] \in Range(listed')
    <3>1. Len(listed) + j \in DOMAIN listed' /\ listed'[Len(listed) + j] = Items[j]
        BY <1>2, <1>3, <1>4
    <3> QED BY <3>1 DEF Range
  <2> QED BY <2>1, <2>2 DEF Range
<1>a. ASSUME NEW j \in DOMAIN listed', NEW k \in DOMAIN listed',
             j \in DOMAIN listed, k \notin DOMAIN listed
      PROVE  listed'[j] # listed'[k]
  <2>1. listed'[j] = listed[j]
      BY <1>4, <1>5, <1>a
  <2>2. listed'[j] \in Range(listed)
      BY <1>a, <2>1 DEF Range
  <2>3. k - Len(listed) \in DOMAIN Items /\ listed'[k] = Items[k - Len(listed)]
      BY <1>5, <1>a
  <2>4. listed'[k] \in Range(Items)
      BY <2>3 DEF Range
  <2> QED BY <1>2, <2>2, <2>4
<1>7. IsInjective(listed')
  <2> SUFFICES ASSUME NEW j \in DOMAIN listed', NEW k \in DOMAIN listed',
                      listed'[j] = listed'[k]
               PROVE  j = k
      BY DEF IsInjective
  <2>1. CASE j \in DOMAIN listed /\ k \in DOMAIN listed
      BY <1>1, <1>2, <1>3, <1>4, <2>1 DEF IsInjective
  <2>2. CASE j \notin DOMAIN listed /\ k \notin DOMAIN listed
    <3>1. j - Len(listed) = k - Len(listed)
        BY <1>1, <1>5, <2>2 DEF IsInjective
    <3> QED BY <1>4, <3>1
  <2>3. CASE j \in DOMAIN listed /\ k \notin DOMAIN listed
      BY <1>a, <2>3
  <2>4. CASE j \notin DOMAIN listed /\ k \in DOMAIN listed
      BY <1>a, <2>4
  <2> QED BY <2>1, <2>2, <2>3, <2>4
<1>8. DashboardOK' /\ ListedOK'
    BY <1>1, <1>2, <1>3, <1>7 DEF DashboardOK, ListedOK
<1>9. withdrawn' = {} => atFirst' \subseteq Range(listed') \cup Unread(dash, page * PageSize)
  <2>1. CASE page = 1
    <3>1. Before = 0
        BY <2>1, DiscoveryAssumption DEF Before
    <3>2. Range(dash) \subseteq Unread(dash, Before)
        BY <3>1 DEF Range, Unread, DashboardOK
    <3> QED BY <1>1, <1>6, <2>1, <3>2 DEF PageTaken, Begun
  <2>2. CASE page # 1
    <3>1. page > 1
        BY <1>1, <2>2
    <3>2. atFirst' = atFirst /\ withdrawn' = withdrawn
        BY <2>2 DEF PageTaken, Begun
    <3>3. withdrawn = {} => atFirst \subseteq Range(listed) \cup Unread(dash, Before)
        BY <3>1 DEF NothingMissed
    <3> QED BY <1>1, <1>6, <3>2, <3>3
  <2> QED BY <2>1, <2>2
<1>10. Before' = page * PageSize
  <2>1. page' - 1 = page
      BY <1>1, <1>2
  <2> QED BY <2>1 DEF Before
<1>11. NothingMissed'
    BY <1>2, <1>9, <1>10 DEF NothingMissed
<1>12. page = LastPage => Unread(dash, page * PageSize) = {}
    BY LastPageIsLast DEF DashboardOK
<1> QED BY <1>8, <1>9, <1>11, <1>12

-----------------------------------------------------------------------------
(* What is so at each step of a run.                                       *)

Early    == {"cookies", "store", "list"}
Planned  == {"prompt", "execute", "write", "absent"}
Closing  == {"end", "release", "ended"}
Writing  == {"list", "plan", "end", "release"} \cup Planned
Unbroken == Early \cup {"plan", "prompt"}

Written == {"complete", "incomplete"}

FieldsOK ==
    /\ step \in Steps
    /\ needs \subseteq Range(plans)
    /\ verdict \in Written \cup {"none"}
    /\ archive \in [Collection -> {"none", "old", "missing"} \cup Written]
    /\ holder \in {"nobody", "me", "other"}
    /\ outcome \in {"failed", "stopped", "unsupported_video", "declined", "incomplete",
                    "completed"}
    /\ result \in {"running", "ok", "error", "canceled"}

HolderOK == step \in Writing => holder = "me"

ListingOK ==
    /\ DashboardOK /\ ListedOK /\ NothingMissed
    /\ Listed /\ withdrawn = {} => atFirst \subseteq Range(listed)

(* The plans are the listed Collections, in their order.                   *)
PlansOK ==
    /\ plans \in Seq(Collection)
    /\ Len(plans) <= Len(listed)
    /\ \A i \in 1..Len(plans) : plans[i] = listed[i]
    /\ step \in Early => Len(plans) = 0
    /\ step \in Planned => Len(plans) = Len(listed)

ExecutionOK ==
    /\ executed \in 0..Len(plans)
    /\ step \in Unbroken => executed = 0
    /\ step \in {"execute", "write"} => executed < Len(plans)
    /\ step = "write" => verdict \in Written
    /\ step = "absent" => executed = Len(plans)
    /\ \A i \in 1..executed : archive[plans[i]] \in Written

AbsentOK ==
    /\ absent \subseteq Collection \ Range(listed)
    /\ step \in Early => absent = {}
    /\ step \in Planned /\ sync =>
          \A c \in Archived \ Range(listed) : c \in absent \/ archive[c] = "missing"

ArchiveOK ==
    /\ step \in Unbroken => Untouched
    /\ \A c \in Collection :
          archive[c] = "missing" => c \notin Range(listed) /\ (c \in atFirst => withdrawn # {})

(* OutcomeIsTrue as it is before the log is closed.                        *)
Truthful ==
    /\ outcome = "completed" =>
          /\ \A c \in Range(listed) : archive[c] = "complete"
          /\ sync => \A c \in Archived \ Range(listed) : archive[c] = "missing"
    /\ outcome = "incomplete" =>
          /\ result = "error"
          /\ \A c \in Range(listed) : archive[c] \in Written
          /\ \E c \in Range(listed) : archive[c] = "incomplete"
    /\ outcome \in {"declined", "unsupported_video"} => Untouched
    /\ result = "ok" <=> outcome \in {"completed", "declined"}
    /\ result = "canceled" => outcome \in {"failed", "stopped"} /\ interrupted /\ Untouched
    /\ outcome = "stopped" => interrupted

EndOK ==
    /\ step \notin Closing => outcome = "failed" /\ result = "running"
    /\ step \in {"end", "release"} => Truthful
    /\ step = "end" => outcome # "stopped"
    /\ step = "release" /\ result = "canceled" => outcome = "stopped"

AppInv ==
    /\ FieldsOK /\ HolderOK /\ ListingOK /\ PlansOK
    /\ ExecutionOK /\ AbsentOK /\ ArchiveOK /\ EndOK

(* At first nothing is listed or planned.                                  *)
LEMMA AppInvInit == AppInit => AppInv
<1> SUFFICES ASSUME AppInit PROVE AppInv
    OBVIOUS
<1> USE DEF AppInit, DiscoveryInit, Early, Planned, Closing, Writing, Unbroken, Written
<1>1. archive \in [Collection -> {"none", "old"}]
    BY AppRunAssumption
<1>2. Range(plans) = {} /\ Range(listed) = {} /\ Len(plans) = 0 /\ Len(listed) = 0
    BY DEF Range
<1>3. plans \in Seq(Collection) /\ listed \in Seq(Collection)
    OBVIOUS
<1>4. FieldsOK
  <2>1. archive \in [Collection -> {"none", "old", "missing"} \cup Written]
      BY <1>1
  <2> QED BY <1>2, <2>1 DEF FieldsOK, Steps
<1>5. HolderOK
    BY DEF HolderOK
<1>6. ListingOK
  <2>1. DashboardOK
      BY DiscoveryAssumption DEF DashboardOK
  <2>2. IsInjective(listed)
      BY DEF IsInjective
  <2> QED BY <1>3, <2>1, <2>2 DEF ListingOK, ListedOK, NothingMissed, Listed
<1>7. PlansOK /\ AbsentOK
    BY <1>2, <1>3 DEF PlansOK, AbsentOK
<1>8. ExecutionOK
    BY <1>2 DEF ExecutionOK
<1>9. ArchiveOK
    BY <1>1 DEF ArchiveOK, Untouched
<1>10. EndOK
    BY DEF EndOK
<1> QED BY <1>4, <1>5, <1>6, <1>7, <1>8, <1>9, <1>10 DEF AppInv

(* The plans are of listed Collections; in the end, of all of them.        *)
LEMMA PlansAreListed ==
    ASSUME AppInv
    PROVE  /\ Range(plans) \subseteq Range(listed)
           /\ Range(plans) \subseteq Collection
           /\ step \in Planned => Range(plans) = Range(listed)
           /\ \A i \in 1..Len(plans) : plans[i] \in Range(plans) /\ plans[i] \in Collection
<1>1. /\ plans \in Seq(Collection) /\ DOMAIN plans = 1..Len(plans) /\ Len(plans) \in Nat
      /\ listed \in Seq(Collection) /\ DOMAIN listed = 1..Len(listed) /\ Len(listed) \in Nat
    BY DEF AppInv, PlansOK, ListingOK, ListedOK
<1>2. /\ Len(plans) <= Len(listed)
      /\ \A i \in 1..Len(plans) : plans[i] = listed[i]
      /\ step \in Planned => Len(plans) = Len(listed)
    BY DEF AppInv, PlansOK
<1>3. \A i \in 1..Len(plans) :
          plans[i] \in Range(plans) /\ plans[i] \in Collection /\ plans[i] \in Range(listed)
  <2> TAKE i \in 1..Len(plans)
  <2>1. plans[i] \in Collection /\ plans[i] \in Range(plans)
      BY <1>1 DEF Range
  <2>2. i \in 1..Len(listed) /\ plans[i] = listed[i]
    <3>1. Len(plans) \in Nat /\ Len(listed) \in Nat /\ Len(plans) <= Len(listed)
        BY <1>1, <1>2
    <3>2. i \in 1..Len(listed)
        BY <3>1
    <3> QED BY <1>2, <3>2
  <2>3. plans[i] \in Range(listed)
      BY <1>1, <2>2 DEF Range
  <2> QED BY <2>1, <2>3
<1>4. Range(plans) \subseteq Range(listed) /\ Range(plans) \subseteq Collection
    BY <1>1, <1>3 DEF Range
<1>5. ASSUME step \in Planned
      PROVE  Range(listed) \subseteq Range(plans)
    BY <1>1, <1>2, <1>5 DEF Range
<1> QED BY <1>3, <1>4, <1>5

-----------------------------------------------------------------------------
(* The rest of the world.                                                  *)

LEMMA InterruptKeeps ==
    ASSUME AppInv, Interrupt
    PROVE  AppInv'
<1> USE DEF AppInv, Interrupt, discoveryVars, planVars, workVars, storeVars, endVars
<1>1. FieldsOK' /\ HolderOK'
    BY DEF FieldsOK, HolderOK
<1>2. ListingOK' /\ PlansOK' /\ ExecutionOK'
    BY DEF ListingOK, DashboardOK, ListedOK, NothingMissed, Before, Listed, PlansOK, ExecutionOK
<1>3. AbsentOK' /\ ArchiveOK'
    BY DEF AbsentOK, Archived, ArchiveOK, Untouched
<1>4. EndOK'
    BY DEF EndOK, Truthful, Untouched, Archived
<1> QED BY <1>1, <1>2, <1>3, <1>4

LEMMA OtherRunKeeps ==
    ASSUME AppInv, OtherRun
    PROVE  AppInv'
<1> USE DEF AppInv, OtherRun, discoveryVars, planVars, workVars, storeVars, endVars
<1>1. FieldsOK' /\ HolderOK'
    BY DEF FieldsOK, HolderOK, Writing, Planned
<1>2. ListingOK' /\ PlansOK' /\ ExecutionOK'
    BY DEF ListingOK, DashboardOK, ListedOK, NothingMissed, Before, Listed, PlansOK, ExecutionOK
<1>3. AbsentOK' /\ ArchiveOK'
    BY DEF AbsentOK, Archived, ArchiveOK, Untouched
<1>4. EndOK'
    BY DEF EndOK, Truthful, Untouched, Archived
<1> QED BY <1>1, <1>2, <1>3, <1>4

(* A step of the listing concerns nothing but the listing, as long as no   *)
(* plan is made.                                                           *)
LEMMA ListingStepKeeps ==
    ASSUME AppInv, ListingOK', step = "list", step' \in {"list", "plan"},
           UNCHANGED <<sync, planVars, workVars, storeVars, holder, interrupted, endVars>>
    PROVE  AppInv'
<1> USE DEF AppInv, planVars, workVars, storeVars, endVars, Early, Planned, Closing, Writing, Unbroken
<1>1. FieldsOK' /\ HolderOK' /\ EndOK'
    BY DEF FieldsOK, HolderOK, EndOK, Steps
<1>2. Len(plans) = 0 /\ Len(listed') \in Nat
    BY LenProperties DEF PlansOK, ListingOK, ListedOK
<1>3. PlansOK' /\ ExecutionOK'
    BY <1>2 DEF PlansOK, ExecutionOK
<1>4. absent' = {}
    BY DEF AbsentOK
<1>5. Untouched'
    BY DEF ArchiveOK, Untouched
<1>6. AbsentOK' /\ ArchiveOK'
    BY <1>4, <1>5 DEF AbsentOK, ArchiveOK, Untouched
<1> QED BY <1>1, <1>3, <1>6

LEMMA DashboardChangesKeeps ==
    ASSUME AppInv, DashboardChanges
    PROVE  AppInv'
<1>1. DashboardOK' /\ ListedOK' /\ NothingMissed'
    BY DashboardChangeKeeps DEF AppInv, ListingOK, DashboardChanges
<1>2. step = "list" /\ UNCHANGED appVars
    BY DEF DashboardChanges
<1>3. ListingOK'
    BY <1>1, <1>2 DEF ListingOK, Listed, appVars
<1> QED BY <1>2, <1>3, ListingStepKeeps DEF appVars, planVars, workVars, storeVars, endVars

LEMMA ListPageKeeps ==
    ASSUME AppInv, ListPage \/ AskAgain
    PROVE  AppInv'
<1> USE DEF planVars, workVars, storeVars, endVars
<1>1. CASE ListPage
  <2>1. /\ DashboardOK' /\ ListedOK' /\ NothingMissed'
        /\ page = LastPage /\ withdrawn' = {} => atFirst' \subseteq Range(listed')
      BY <1>1, PageTakenKeeps DEF AppInv, ListingOK, ListPage
  <2>2. /\ step = "list"
        /\ IF page = LastPage THEN step' = "plan" ELSE step' = "list"
        /\ UNCHANGED <<sync, plans, needs, absent, executed, verdict, archive, diagnostic,
                       holder, interrupted, outcome, result>>
      BY <1>1 DEF ListPage, GoOn, Goto
  <2>3. ListingOK'
      BY <2>1, <2>2 DEF ListingOK, Listed
  <2> QED BY <2>2, <2>3, ListingStepKeeps
<1>2. CASE AskAgain
  <2>1. step = "list" /\ UNCHANGED appVars /\ UNCHANGED <<dash, page, listed, atFirst, withdrawn>>
      BY <1>2 DEF AskAgain, TryAgain
  <2>2. ListingOK'
      BY <2>1 DEF AppInv, ListingOK, DashboardOK, ListedOK, NothingMissed, Before, Listed, appVars
  <2> QED BY <2>1, <2>2, ListingStepKeeps DEF appVars
<1> QED BY <1>1, <1>2

-----------------------------------------------------------------------------
(* The ways a run ends.                                                    *)

(* A run that returns leaves the listing and the plans as they are; what   *)
(* it may have done to the archive last, and what it says of itself, are   *)
(* the hypotheses.                                                         *)
LEMMA ReturnKeeps ==
    ASSUME AppInv, NEW r \in {"ok", "error", "canceled"}, Return(r), step \notin Closing,
           UNCHANGED <<discoveryVars, sync, planVars, workVars, holder, interrupted>>,
           FieldsOK', Truthful', outcome' # "stopped",
           \A i \in 1..executed : archive'[plans[i]] \in Written,
           \A c \in Collection :
               archive'[c] = "missing" => archive[c] = "missing" \/ (step = "absent" /\ c \in absent)
    PROVE  AppInv'
<1> USE DEF AppInv, discoveryVars, planVars, workVars
<1>1. step' = (IF holder = "me" THEN "end" ELSE "ended") /\ result' = r
    BY DEF Return, Goto
<1> USE DEF Early, Planned, Closing, Writing, Unbroken
<1>2. HolderOK'
    BY <1>1 DEF HolderOK
<1>3. ListingOK' /\ PlansOK' /\ ExecutionOK'
    BY <1>1 DEF ListingOK, DashboardOK, ListedOK, NothingMissed, Before, Listed, PlansOK, ExecutionOK
<1>4. AbsentOK'
    BY <1>1 DEF AbsentOK
<1>5. ArchiveOK'
  <2>1. ASSUME step = "absent", NEW c \in absent
        PROVE  c \notin Range(listed) /\ (c \in atFirst => withdrawn # {})
      BY <2>1 DEF AbsentOK, ListingOK, Listed
  <2> QED BY <1>1, <2>1 DEF ArchiveOK
<1>6. EndOK'
    BY <1>1 DEF EndOK
<1> QED BY <1>2, <1>3, <1>4, <1>5, <1>6

(* A failure or an interrupt before anything was done to the archive.      *)
LEMMA EarlyReturnKeeps ==
    ASSUME AppInv, Fails \/ Stops, step \in Unbroken,
           UNCHANGED <<discoveryVars, sync, planVars, workVars, archive, holder, interrupted>>,
           outcome' = "failed"
    PROVE  AppInv'
<1>1. PICK r \in {"error", "canceled"} : Return(r) /\ (r = "canceled" => interrupted)
    BY DEF Fails, Stops
<1>2. result' = r /\ step' \in {"end", "ended"}
    BY <1>1 DEF Return, Goto
<1>3. FieldsOK'
    BY <1>1, <1>2 DEF AppInv, FieldsOK, Steps, planVars, workVars
<1>4. Untouched'
    BY DEF AppInv, ArchiveOK, Untouched
<1>5. Truthful'
    BY <1>1, <1>2, <1>4 DEF Truthful
<1>6. step \notin Closing
    BY DEF Unbroken, Early, Closing
<1> QED BY <1>1, <1>3, <1>5, <1>6, ReturnKeeps DEF AppInv, ExecutionOK

(* A failure once plans are carried out.                                   *)
LEMMA LateReturnKeeps ==
    ASSUME AppInv, Fails, step \in {"execute", "write", "absent"},
           UNCHANGED <<discoveryVars, sync, planVars, workVars, holder, interrupted, outcome>>,
           archive' \in [Collection -> {"none", "old", "missing"} \cup Written],
           \A i \in 1..executed : archive'[plans[i]] \in Written,
           \A c \in Collection :
               archive'[c] = "missing" => archive[c] = "missing" \/ (step = "absent" /\ c \in absent)
    PROVE  AppInv'
<1>1. Return("error")
    BY DEF Fails
<1>2. result' = "error" /\ step' \in {"end", "ended"}
    BY <1>1 DEF Return, Goto
<1>3. outcome' = "failed" /\ step \notin Closing
    BY DEF AppInv, EndOK, Closing
<1>4. FieldsOK'
    BY <1>2 DEF AppInv, FieldsOK, Steps, planVars, workVars
<1>5. Truthful'
    BY <1>2, <1>3 DEF Truthful
<1> QED BY <1>1, <1>3, <1>4, <1>5, ReturnKeeps

LEMMA PreparingKeeps ==
    ASSUME AppInv, LoadSession \/ TakeStore
    PROVE  AppInv'
<1> USE DEF AppInv
<1>0. outcome' = "failed" /\ step \in Early
    BY DEF LoadSession, TakeStore, EndOK, Closing, Early
<1>f. CASE /\ Fails \/ Stops
           /\ UNCHANGED <<discoveryVars, sync, planVars, workVars, archive, holder, interrupted>>
    BY <1>0, <1>f, EarlyReturnKeeps DEF Unbroken
<1>1. CASE TakeStore /\ Return("error") /\ UNCHANGED <<holder, errors>>
  <2>1. result' = "error" /\ step' \in {"end", "ended"} /\ step \notin Closing
      BY <1>1 DEF Return, Goto, TakeStore, Closing
  <2>2. FieldsOK'
      BY <1>0, <1>1, <2>1 DEF FieldsOK, Steps, TakeStore, planVars, workVars, storeVars
  <2>3. Truthful'
      BY <1>0, <2>1 DEF Truthful
  <2>4. UNCHANGED <<discoveryVars, sync, planVars, workVars, archive, holder, interrupted>>
      BY <1>1 DEF TakeStore, storeVars
  <2> QED BY <1>0, <1>1, <2>1, <2>2, <2>3, <2>4, ReturnKeeps DEF ExecutionOK
<1>2. CASE /\ \/ LoadSession /\ step' = "store" /\ UNCHANGED holder
              \/ TakeStore /\ step' = "list" /\ holder' = "me"
           /\ UNCHANGED result
  <2> USE DEF planVars, workVars, storeVars, discoveryVars, Early, Planned, Closing, Writing, Unbroken
  <2>1. /\ step \in {"cookies", "store"} /\ step' \in {"store", "list"}
        /\ UNCHANGED <<discoveryVars, sync, planVars, workVars, storeVars, interrupted, outcome>>
      BY <1>2 DEF LoadSession, TakeStore
  <2>2. FieldsOK' /\ HolderOK' /\ EndOK'
      BY <1>2, <2>1 DEF FieldsOK, Steps, HolderOK, EndOK
  <2>3. ListingOK' /\ PlansOK' /\ ExecutionOK'
      BY <2>1 DEF ListingOK, DashboardOK, ListedOK, NothingMissed, Before, Listed, PlansOK, ExecutionOK
  <2>4. AbsentOK' /\ ArchiveOK'
      BY <2>1 DEF AbsentOK, ArchiveOK, Untouched
  <2> QED BY <2>2, <2>3, <2>4
<1> QED BY <1>f, <1>1, <1>2 DEF LoadSession, TakeStore, GoOn, Goto, storeVars

LEMMA ListFailsKeeps ==
    ASSUME AppInv, ListFails \/ PlanningFails
    PROVE  AppInv'
<1> USE DEF AppInv
<1>0. outcome' = "failed" /\ step \in Unbroken /\ step \notin Closing
    BY DEF ListFails, PlanningFails, EndOK, Closing, Unbroken, Early
<1>1. UNCHANGED <<discoveryVars, sync, planVars, workVars, archive, holder, interrupted>>
    BY DEF ListFails, PlanningFails, storeVars
<1>2. CASE Fails \/ Stops
    BY <1>0, <1>1, <1>2, EarlyReturnKeeps
<1>3. CASE Return("error")
  <2>1. result' = "error" /\ step' \in {"end", "ended"}
      BY <1>3 DEF Return, Goto
  <2>2. FieldsOK'
      BY <1>0, <1>1, <2>1 DEF FieldsOK, Steps, planVars, workVars
  <2>3. Truthful'
      BY <1>0, <2>1 DEF Truthful
  <2> QED BY <1>0, <1>1, <1>3, <2>2, <2>3, ReturnKeeps DEF ExecutionOK
<1> QED BY <1>2, <1>3 DEF ListFails, PlanningFails

LEMMA StopAtVideoKeeps ==
    ASSUME AppInv, StopAtVideo
    PROVE  AppInv'
<1> USE DEF AppInv
<1>1. /\ Return("error") /\ outcome' = "unsupported_video" /\ step = "plan"
      /\ UNCHANGED <<discoveryVars, sync, planVars, workVars, archive, holder, interrupted>>
    BY DEF StopAtVideo, Fails
<1>2. result' = "error" /\ step' \in {"end", "ended"} /\ step \notin Closing
    BY <1>1 DEF Return, Goto, Closing
<1>3. FieldsOK'
    BY <1>1, <1>2 DEF FieldsOK, Steps, planVars, workVars
<1>4. Untouched'
    BY <1>1 DEF ArchiveOK, Untouched, Unbroken
<1>5. Truthful'
    BY <1>1, <1>2, <1>4 DEF Truthful
<1> QED BY <1>1, <1>2, <1>3, <1>5, ReturnKeeps DEF ExecutionOK

LEMMA DeclineKeeps ==
    ASSUME AppInv, Decline
    PROVE  AppInv'
<1> USE DEF AppInv
<1>1. /\ Return("ok") /\ outcome' = "declined" /\ step = "prompt"
      /\ UNCHANGED <<discoveryVars, sync, planVars, workVars, archive, holder, interrupted>>
    BY DEF Decline, storeVars
<1>2. result' = "ok" /\ step' \in {"end", "ended"} /\ step \notin Closing
    BY <1>1 DEF Return, Goto, Closing
<1>3. FieldsOK'
    BY <1>1, <1>2 DEF FieldsOK, Steps, planVars, workVars
<1>4. Untouched'
    BY <1>1 DEF ArchiveOK, Untouched, Unbroken
<1>5. Truthful'
    BY <1>1, <1>2, <1>4 DEF Truthful
<1> QED BY <1>1, <1>2, <1>3, <1>5, ReturnKeeps DEF ExecutionOK

LEMMA JudgeKeeps ==
    ASSUME AppInv, Judge
    PROVE  AppInv'
<1> USE DEF AppInv
<1>1. /\ step = "absent" /\ absent = {}
      /\ outcome' = (IF AnyFailed THEN "incomplete" ELSE "completed")
      /\ Return(IF AnyFailed THEN "error" ELSE "ok")
      /\ UNCHANGED <<discoveryVars, sync, planVars, workVars, archive, holder, interrupted>>
    BY DEF Judge, storeVars
<1>2. /\ result' = (IF AnyFailed THEN "error" ELSE "ok")
      /\ step' \in {"end", "ended"} /\ step \notin Closing
    BY <1>1 DEF Return, Goto, Closing
<1>3. FieldsOK'
    BY <1>1, <1>2 DEF FieldsOK, Steps, planVars, workVars
<1>4. Range(plans) = Range(listed) /\ executed = Len(plans)
    BY <1>1, PlansAreListed DEF Planned, ExecutionOK
<1>5. \A c \in Range(listed) : archive[c] \in Written
  <2>1. \A c \in Range(plans) : \E i \in 1..Len(plans) : plans[i] = c
      BY LenProperties DEF Range, PlansOK
  <2> QED BY <1>4, <2>1 DEF ExecutionOK
<1>6. sync => \A c \in Archived \ Range(listed) : archive[c] = "missing"
    BY <1>1 DEF AbsentOK, Planned
<1>7. UNCHANGED <<archive, listed, sync>> /\ Archived' = Archived
    BY <1>1 DEF discoveryVars, Archived
<1>8. Truthful'
    BY <1>1, <1>2, <1>4, <1>5, <1>6, <1>7 DEF Truthful, AnyFailed, Written
<1>9. outcome' # "stopped" /\ result' \in {"ok", "error"} /\ Return(result')
    BY <1>1, <1>2
<1> QED BY <1>1, <1>2, <1>3, <1>8, <1>9, ReturnKeeps DEF ExecutionOK

-----------------------------------------------------------------------------
(* Planning and the prompt.                                                *)

LEMMA PlanCollectionKeeps ==
    ASSUME AppInv, PlanCollection
    PROVE  AppInv'
<1> USE DEF AppInv, discoveryVars, workVars, storeVars, endVars, Early, Planned, Closing, Writing, Unbroken
<1>1. /\ step = "plan" /\ plans' = Append(plans, listed[Len(plans) + 1])
      /\ Len(plans) < Len(listed)
      /\ needs' \in {needs, needs \cup {listed[Len(plans) + 1]}}
      /\ UNCHANGED <<discoveryVars, step, sync, absent, workVars, storeVars, holder, interrupted, endVars>>
    BY DEF PlanCollection, NextListed
<1> DEFINE c == listed[Len(plans) + 1]
<1>2. /\ plans \in Seq(Collection) /\ Len(plans) \in Nat /\ DOMAIN plans = 1..Len(plans)
      /\ listed \in Seq(Collection) /\ Len(listed) \in Nat
      /\ \A i \in 1..Len(plans) : plans[i] = listed[i]
    BY DEF PlansOK, ListingOK, ListedOK
<1>3. c \in Collection
    BY <1>1, <1>2
<1> HIDE DEF c
<1>4. /\ plans' \in Seq(Collection) /\ Len(plans') = Len(plans) + 1
      /\ \A i \in 1..Len(plans) : plans'[i] = plans[i]
      /\ plans'[Len(plans) + 1] = c
  <2>1. plans' = Append(plans, c)
      BY <1>1 DEF c
  <2> QED BY <1>2, <1>3, <2>1
<1>5. PlansOK'
  <2>1. \A i \in 1..Len(plans') : plans'[i] = listed[i]
      BY <1>2, <1>4 DEF c
  <2> QED BY <1>1, <1>2, <1>4, <2>1 DEF PlansOK
<1>6. Range(plans) \cup {c} \subseteq Range(plans')
  <2>1. DOMAIN plans' = 1..(Len(plans) + 1)
      BY <1>2, <1>4, LenProperties
  <2>2. c \in Range(plans')
      BY <1>2, <1>4, <2>1 DEF Range
  <2>3. ASSUME NEW i \in DOMAIN plans
        PROVE  plans[i] \in Range(plans')
      BY <1>2, <1>4, <2>1 DEF Range
  <2> QED BY <2>2, <2>3 DEF Range
<1>7. FieldsOK' /\ HolderOK' /\ EndOK'
  <2>1. needs' \subseteq Range(plans')
      BY <1>1, <1>6 DEF FieldsOK, c
  <2> QED BY <1>1, <2>1 DEF FieldsOK, HolderOK, EndOK
<1>8. ListingOK'
    BY <1>1 DEF ListingOK, DashboardOK, ListedOK, NothingMissed, Before, Listed
<1>9. ExecutionOK'
  <2>1. executed = 0
      BY <1>1 DEF ExecutionOK
  <2> QED BY <1>1, <1>2, <1>4, <2>1 DEF ExecutionOK
<1>10. AbsentOK' /\ ArchiveOK'
    BY <1>1 DEF AbsentOK, ArchiveOK, Untouched
<1> QED BY <1>5, <1>7, <1>8, <1>9, <1>10

(* From the last plan, the answer or the last manifest the run goes on to  *)
(* the next plan, or to the absent Collections.                            *)
LEMMA GoingOnKeeps ==
    ASSUME AppInv, step \in {"plan", "prompt"}, Len(plans) = Len(listed),
           UNCHANGED <<discoveryVars, sync, plans, needs, workVars, storeVars, holder,
                       interrupted, outcome, result>>,
           step' \in {"prompt", AfterConsent(0)},
           absent' = Gone \/ (step = "prompt" /\ UNCHANGED absent)
    PROVE  AppInv'
<1> USE DEF AppInv, discoveryVars, workVars, storeVars, Early, Planned, Closing, Writing, Unbroken
<1>1. Len(plans) \in Nat /\ executed = 0
    BY LenProperties DEF PlansOK, ExecutionOK
<1>2. /\ step' \in {"prompt", "execute", "absent"}
      /\ step' = "execute" => 0 < Len(plans)
      /\ step' = "absent" => 0 = Len(plans)
    BY <1>1 DEF AfterConsent
<1>3. FieldsOK' /\ HolderOK' /\ EndOK'
    BY <1>2 DEF FieldsOK, Steps, HolderOK, EndOK
<1>4. ListingOK' /\ PlansOK'
    BY <1>2 DEF ListingOK, DashboardOK, ListedOK, NothingMissed, Before, Listed, PlansOK
<1>5. ExecutionOK'
    BY <1>1, <1>2 DEF ExecutionOK
<1>6. AbsentOK'
  <2>1. Archived' = Archived
      BY DEF Archived
  <2>2. Archived \subseteq Collection
      BY DEF Archived
  <2>3. CASE absent' = Gone
      BY <1>2, <2>1, <2>2, <2>3 DEF AbsentOK, Gone
  <2>4. CASE step = "prompt" /\ UNCHANGED absent
      BY <1>2, <2>1, <2>4 DEF AbsentOK
  <2> QED BY <2>3, <2>4
<1>7. ArchiveOK'
    BY DEF ArchiveOK, Untouched
<1> QED BY <1>3, <1>4, <1>5, <1>6, <1>7

LEMMA PlanAbsentKeeps ==
    ASSUME AppInv, PlanAbsent \/ Accept
    PROVE  AppInv'
<1>1. CASE PlanAbsent /\ ~Fails
  <2>1. /\ step = "plan" /\ Len(plans) = Len(listed) /\ absent' = Gone
        /\ step' \in {"prompt", AfterConsent(0)}
        /\ UNCHANGED <<discoveryVars, sync, plans, needs, workVars, storeVars, holder,
                       interrupted, outcome, result>>
      BY <1>1 DEF PlanAbsent, GoOn, Goto
  <2> QED BY <2>1, GoingOnKeeps
<1>2. CASE PlanAbsent /\ Fails /\ UNCHANGED absent
  <2>1. /\ step \in Unbroken /\ outcome' = "failed"
        /\ UNCHANGED <<discoveryVars, sync, planVars, workVars, archive, holder, interrupted>>
      BY <1>2 DEF PlanAbsent, Unbroken, AppInv, EndOK, Closing, planVars, storeVars
  <2> QED BY <1>2, <2>1, EarlyReturnKeeps
<1>3. CASE PlanAbsent /\ Fails /\ ~UNCHANGED absent
  <2>1. /\ step = "plan" /\ Len(plans) = Len(listed) /\ absent' = Gone
        /\ step' \in {"prompt", AfterConsent(0)}
        /\ UNCHANGED <<discoveryVars, sync, plans, needs, workVars, storeVars, holder,
                       interrupted, outcome, result>>
      BY <1>3 DEF PlanAbsent, GoOn, Goto
  <2> QED BY <2>1, GoingOnKeeps
<1>4. CASE Accept
  <2>1. /\ step = "prompt" /\ UNCHANGED absent /\ step' = AfterConsent(0)
        /\ UNCHANGED <<discoveryVars, sync, plans, needs, workVars, storeVars, holder,
                       interrupted, outcome, result>>
      BY <1>4 DEF Accept, GoOn, Goto, planVars
  <2>2. Len(plans) = Len(listed)
      BY <2>1 DEF AppInv, PlansOK, Planned
  <2> QED BY <2>1, <2>2, GoingOnKeeps
<1> QED BY <1>1, <1>2, <1>3, <1>4

-----------------------------------------------------------------------------
(* Execution.                                                              *)

LEMMA DownloadKeeps ==
    ASSUME AppInv, Download
    PROVE  AppInv'
<1> USE DEF AppInv, discoveryVars, planVars, storeVars, endVars, Early, Planned, Closing, Writing, Unbroken
<1>1. /\ step = "execute" /\ step' = "write" /\ verdict' \in Written
      /\ UNCHANGED <<discoveryVars, sync, planVars, executed, storeVars, holder, interrupted, endVars>>
    BY DEF Download, Goto, Written
<1>2. FieldsOK' /\ HolderOK' /\ EndOK'
    BY <1>1 DEF FieldsOK, Steps, HolderOK, EndOK
<1>3. ListingOK' /\ PlansOK' /\ ExecutionOK'
    BY <1>1 DEF ListingOK, DashboardOK, ListedOK, NothingMissed, Before, Listed, PlansOK, ExecutionOK
<1>4. AbsentOK' /\ ArchiveOK'
    BY <1>1 DEF AbsentOK, Archived, ArchiveOK, Untouched
<1> QED BY <1>2, <1>3, <1>4

LEMMA WriteManifestKeeps ==
    ASSUME AppInv, WriteManifest
    PROVE  AppInv'
<1> USE DEF AppInv, discoveryVars, planVars, Early, Planned, Closing, Writing, Unbroken
<1>1. /\ step = "write" /\ archive' = [archive EXCEPT ![Current] = verdict]
      /\ executed' = executed + 1 /\ verdict' = "none"
      /\ step' = AfterConsent(executed + 1)
      /\ UNCHANGED <<discoveryVars, sync, planVars, holder, interrupted, outcome, result>>
    BY DEF WriteManifest, GoOn, Goto
<1>2. /\ executed \in Nat /\ Len(plans) \in Nat /\ executed < Len(plans) /\ verdict \in Written
      /\ \A i \in 1..executed : archive[plans[i]] \in Written
    BY <1>1, LenProperties DEF ExecutionOK, PlansOK
<1>3. /\ step' \in {"execute", "absent"}
      /\ step' = "execute" => executed + 1 < Len(plans)
      /\ step' = "absent" => executed + 1 = Len(plans)
    BY <1>1, <1>2 DEF AfterConsent
<1>4. /\ Current = plans[executed + 1] /\ Current \in Collection /\ Current \in Range(listed)
      /\ \A i \in 1..Len(plans) : plans[i] \in Collection
  <2>1. executed + 1 \in 1..Len(plans)
      BY <1>2
  <2> QED BY <2>1, PlansAreListed DEF Current
<1>5. /\ archive \in [Collection -> {"none", "old", "missing"} \cup Written]
      /\ archive' \in [Collection -> {"none", "old", "missing"} \cup Written]
      /\ archive'[Current] \in Written
      /\ \A c \in Collection \ {Current} : archive'[c] = archive[c]
    BY <1>1, <1>2, <1>4 DEF FieldsOK
<1>6. FieldsOK' /\ HolderOK' /\ EndOK'
    BY <1>1, <1>3, <1>5 DEF FieldsOK, Steps, HolderOK, EndOK
<1>7. ListingOK' /\ PlansOK'
    BY <1>1, <1>3 DEF ListingOK, DashboardOK, ListedOK, NothingMissed, Before, Listed, PlansOK
<1>8. ExecutionOK'
  <2>1. ASSUME NEW i \in 1..(executed + 1)
        PROVE  archive'[plans[i]] \in Written
    <3>1. CASE i = executed + 1
        BY <1>4, <1>5, <3>1
    <3>2. CASE i # executed + 1
      <4>1. i \in 1..executed /\ plans[i] \in Collection
          BY <1>2, <1>4, <3>2
      <4> QED BY <1>2, <1>5, <4>1
    <3> QED BY <3>1, <3>2
  <2> QED BY <1>1, <1>2, <1>3, <2>1 DEF ExecutionOK
<1>9. AbsentOK'
  <2>1. \A c \in Collection \ Range(listed) : archive'[c] = archive[c]
      BY <1>4, <1>5
  <2>2. Archived' \ Range(listed) = Archived \ Range(listed) /\ Archived \subseteq Collection
      BY <2>1 DEF Archived
  <2> QED BY <1>1, <1>3, <2>1, <2>2 DEF AbsentOK
<1>10. ArchiveOK'
    BY <1>1, <1>3, <1>5 DEF ArchiveOK, Written
<1> QED BY <1>6, <1>7, <1>8, <1>9, <1>10

LEMMA MarkAbsentKeeps ==
    ASSUME AppInv, MarkAbsent
    PROVE  AppInv'
<1> USE DEF AppInv, discoveryVars, workVars, endVars, Early, Planned, Closing, Writing, Unbroken
<1>1. PICK c \in absent :
          /\ archive' = [archive EXCEPT ![c] = "missing"]
          /\ absent' = absent \ {c}
    BY DEF MarkAbsent
<1>2. /\ step = "absent"
      /\ UNCHANGED <<discoveryVars, step, sync, plans, needs, workVars, holder, interrupted, endVars>>
    BY DEF MarkAbsent
<1>3. c \in Collection /\ c \notin Range(listed) /\ (c \in atFirst => withdrawn # {})
    BY <1>2 DEF AbsentOK, ListingOK, Listed
<1>4. /\ archive' \in [Collection -> {"none", "old", "missing"} \cup Written]
      /\ archive'[c] = "missing"
      /\ \A d \in Collection \ {c} : archive'[d] = archive[d]
    BY <1>1, <1>3 DEF FieldsOK
<1>5. FieldsOK' /\ HolderOK' /\ EndOK'
    BY <1>2, <1>4 DEF FieldsOK, HolderOK, EndOK
<1>6. ListingOK' /\ PlansOK'
    BY <1>2 DEF ListingOK, DashboardOK, ListedOK, NothingMissed, Before, Listed, PlansOK
<1>7. ExecutionOK'
  <2>1. ASSUME NEW i \in 1..executed
        PROVE  archive'[plans[i]] \in Written
    <3>1. i \in 1..Len(plans)
        BY LenProperties DEF ExecutionOK, PlansOK
    <3>2. plans[i] \in Collection /\ plans[i] # c
        BY <1>3, <3>1, PlansAreListed
    <3> QED BY <1>4, <3>2 DEF ExecutionOK
  <2> QED BY <1>2, <2>1 DEF ExecutionOK
<1>8. AbsentOK'
    BY <1>1, <1>2, <1>3, <1>4 DEF AbsentOK, Archived
<1>9. ArchiveOK'
    BY <1>2, <1>3, <1>4 DEF ArchiveOK
<1> QED BY <1>5, <1>6, <1>7, <1>8, <1>9

LEMMA ExecutionFailsKeeps ==
    ASSUME AppInv, RenameFails \/ WriteFails
    PROVE  AppInv'
<1> USE DEF AppInv
<1>1. /\ Fails /\ step \in {"execute", "write", "absent"}
      /\ UNCHANGED <<discoveryVars, sync, planVars, workVars, holder, interrupted, outcome>>
    BY DEF RenameFails, WriteFails
<1>2. archive \in [Collection -> {"none", "old", "missing"} \cup Written]
    BY DEF FieldsOK
<1>3. \A i \in 1..executed : plans[i] \in Collection /\ plans[i] \in Range(listed) /\ archive[plans[i]] \in Written
  <2>1. \A i \in 1..executed : i \in 1..Len(plans)
      BY LenProperties DEF ExecutionOK, PlansOK
  <2> QED BY <2>1, PlansAreListed DEF ExecutionOK
<1>4. CASE UNCHANGED archive
    BY <1>1, <1>2, <1>3, <1>4, LateReturnKeeps
<1>5. CASE step = "write" /\ archive' = [archive EXCEPT ![Current] = verdict]
  <2>1. verdict \in Written
      BY <1>5 DEF ExecutionOK
  <2>2. archive' \in [Collection -> {"none", "old", "missing"} \cup Written]
      BY <1>2, <1>5, <2>1
  <2>3. \A i \in 1..executed : archive'[plans[i]] \in Written
      BY <1>2, <1>3, <1>5, <2>1
  <2>4. \A c \in Collection : archive'[c] = "missing" => archive[c] = "missing"
      BY <1>2, <1>5, <2>1 DEF Written
  <2> QED BY <1>1, <2>2, <2>3, <2>4, LateReturnKeeps
<1>6. ASSUME step = "absent", NEW c \in absent, archive' = [archive EXCEPT ![c] = "missing"]
      PROVE  AppInv'
  <2>1. c \in Collection /\ c \notin Range(listed)
      BY <1>6 DEF AbsentOK
  <2>2. archive' \in [Collection -> {"none", "old", "missing"} \cup Written]
      BY <1>2, <1>6
  <2>3. \A i \in 1..executed : archive'[plans[i]] \in Written
      BY <1>2, <1>3, <1>6, <2>1
  <2>4. \A d \in Collection : archive'[d] = "missing" => archive[d] = "missing" \/ d = c
      BY <1>2, <1>6
  <2> QED BY <1>1, <1>6, <2>2, <2>3, <2>4, LateReturnKeeps
<1> QED BY <1>4, <1>5, <1>6 DEF RenameFails, WriteFails, storeVars

-----------------------------------------------------------------------------
(* What was deferred.                                                      *)

LEMMA DeferredKeeps ==
    ASSUME AppInv, EndLog \/ Release
    PROVE  AppInv'
<1> USE DEF AppInv, discoveryVars, planVars, workVars, storeVars, endVars, Early, Planned, Closing,
            Writing, Unbroken
<1>1. /\ \/ step = "end" /\ step' = "release" /\ UNCHANGED holder
            /\ outcome' = IF outcome = "failed" /\ interrupted THEN "stopped" ELSE outcome
         \/ step = "release" /\ step' = "ended" /\ holder' = "nobody" /\ UNCHANGED outcome
      /\ UNCHANGED <<dash, page, listed, atFirst, withdrawn, sync, plans, needs, absent, executed,
                     verdict, archive, interrupted, result>>
    BY DEF EndLog, Release, Goto
<1>2. FieldsOK' /\ HolderOK'
    BY <1>1 DEF FieldsOK, Steps, HolderOK
<1>3. ListingOK' /\ PlansOK' /\ ExecutionOK'
    BY <1>1 DEF ListingOK, DashboardOK, ListedOK, NothingMissed, Before, Listed, PlansOK, ExecutionOK
<1>4. AbsentOK' /\ ArchiveOK'
    BY <1>1 DEF AbsentOK, ArchiveOK
<1>5. EndOK'
    BY <1>1 DEF EndOK, Truthful, Untouched, Archived
<1> QED BY <1>2, <1>3, <1>4, <1>5

-----------------------------------------------------------------------------
(* Every step keeps the invariant.                                         *)
LEMMA AppInvNext ==
    ASSUME AppInv, [AppNext]_runVars
    PROVE  AppInv'
<1>1. CASE Interrupt \/ OtherRun \/ DashboardChanges
    BY <1>1, InterruptKeeps, OtherRunKeeps, DashboardChangesKeeps
<1>2. CASE LoadSession \/ TakeStore \/ ListPage \/ AskAgain \/ ListFails
    BY <1>2, PreparingKeeps, ListPageKeeps, ListFailsKeeps
<1>3. CASE PlanCollection \/ PlanningFails \/ StopAtVideo \/ PlanAbsent \/ Accept \/ Decline
    BY <1>3, PlanCollectionKeeps, ListFailsKeeps, StopAtVideoKeeps, PlanAbsentKeeps, DeclineKeeps
<1>4. CASE Download \/ RenameFails \/ WriteManifest \/ MarkAbsent \/ WriteFails
    BY <1>4, DownloadKeeps, ExecutionFailsKeeps, WriteManifestKeeps, MarkAbsentKeeps
<1>5. CASE Judge \/ EndLog \/ Release
    BY <1>5, JudgeKeeps, DeferredKeeps
<1>6. CASE UNCHANGED runVars
  <2> USE DEF AppInv, runVars, appVars, discoveryVars, planVars, workVars, storeVars, endVars
  <2>1. FieldsOK' /\ HolderOK' /\ EndOK'
      BY <1>6 DEF FieldsOK, HolderOK, EndOK, Truthful, Untouched, Archived
  <2>2. ListingOK' /\ PlansOK' /\ ExecutionOK'
      BY <1>6 DEF ListingOK, DashboardOK, ListedOK, NothingMissed, Before, Listed, PlansOK, ExecutionOK
  <2>3. AbsentOK' /\ ArchiveOK'
      BY <1>6 DEF AbsentOK, Archived, ArchiveOK, Untouched
  <2> QED BY <2>1, <2>2, <2>3
<1> QED BY <1>1, <1>2, <1>3, <1>4, <1>5, <1>6 DEF AppNext, Program

(* The invariant holds of every run.                                       *)
THEOREM AppInvariant == AppSpec => []AppInv
BY AppInvInit, AppInvNext, PTL DEF AppSpec

(* The variables of a run keep their types, and the plans and the absent   *)
(* Collections have none in common.                                        *)
THEOREM AppTypesKept == AppSpec => []AppTypeOK
<1>1. AppInv => AppTypeOK
  <2> SUFFICES ASSUME AppInv PROVE AppTypeOK
      OBVIOUS
  <2>1. Range(plans) \subseteq Collection /\ absent \subseteq Collection \ Range(plans)
      BY PlansAreListed DEF AppInv, AbsentOK
  <2> QED BY <2>1 DEF AppInv, AppTypeOK, FieldsOK, ExecutionOK, Written
<1> QED BY <1>1, AppInvariant, PTL

(* However the dashboard changes while it is listed, no Collection is      *)
(* listed twice, and none is missed or falsely marked source-missing       *)
(* unless one was taken off it meanwhile.                                  *)
THEOREM TheListingIsTrue == AppSpec => []ListingIsTrue
<1>1. AppInv => ListingIsTrue
    BY DEF AppInv, ListingIsTrue, ListingOK, ListedOK, ArchiveOK
<1> QED BY <1>1, AppInvariant, PTL

(* What the log says of a run, what Run returns and what is in the store   *)
(* agree, whatever fails and whenever the run is interrupted.              *)
THEOREM TheOutcomeIsTrue == AppSpec => []OutcomeIsTrue
<1>1. AppInv => OutcomeIsTrue
    BY DEF AppInv, OutcomeIsTrue, EndOK, Truthful, Written
<1> QED BY <1>1, AppInvariant, PTL

(* The store is only written by the run that holds it.                     *)
THEOREM OnlyTheHolderWrites == AppSpec => WritesUnderLock
<1>1. AppInv /\ [AppNext]_runVars =>
          [holder = "me" \/ UNCHANGED <<logFile, diagnostic, archive>>]_runVars
  <2> SUFFICES ASSUME AppInv, AppNext
               PROVE  step \in Writing \/ UNCHANGED <<logFile, diagnostic, archive>>
      BY DEF AppInv, HolderOK, runVars, appVars, logVars, storeVars
  <2>1. CASE Interrupt \/ OtherRun \/ DashboardChanges
      BY <2>1 DEF Interrupt, OtherRun, DashboardChanges, logVars, appVars, storeVars
  <2>2. CASE LoadSession \/ TakeStore
      BY <2>2 DEF LoadSession, TakeStore, Log, logVars, storeVars
  <2>3. CASE ListPage \/ AskAgain \/ ListFails \/ PlanCollection \/ PlanningFails \/ StopAtVideo
      BY <2>3 DEF ListPage, AskAgain, ListFails, PlanCollection, PlanningFails, StopAtVideo, Writing
  <2>4. CASE \/ PlanAbsent \/ Accept \/ Decline \/ Download \/ RenameFails \/ WriteManifest
             \/ MarkAbsent \/ WriteFails \/ Judge \/ EndLog \/ Release
      BY <2>4 DEF PlanAbsent, Accept, Decline, Download, RenameFails, WriteManifest, MarkAbsent,
                  WriteFails, Judge, EndLog, Release, Writing, Planned
  <2> QED BY <2>1, <2>2, <2>3, <2>4 DEF AppNext, Program
<1> QED BY <1>1, AppInvariant, PTL DEF AppSpec, WritesUnderLock

-----------------------------------------------------------------------------
(* The log.                                                                *)

(* The log as record sees it.                                              *)
Memory == [lines |-> lines, truncated |-> truncated]

(* By which element the fold goes on.                                      *)
LEMMA MaxOfTwo == Max({1}) = 1 /\ Max({1, 2}) = 2
<1>1. 2 \in {1, 2} /\ \A y \in {1, 2} : 2 >= y
    OBVIOUS
<1> QED BY <1>1 DEF Max

(* The fold of RecordedAll over the one or two events that the program     *)
(* logs at a time.                                                         *)
LEMMA RecordedOne ==
    ASSUME NEW e
    PROVE  RecordedAll(<<e>>) = Recorded(Memory, e)
<1> DEFINE s == <<e>>
           Next(iter) == [t \in SUBSET {1} |->
                              IF t = {} THEN Memory
                              ELSE Recorded(iter[t \ {Max(t)}], s[Max(t)])]
           b == CHOOSE iter : iter = Next(iter)
           w == [t \in SUBSET {1} |-> IF t = {} THEN Memory ELSE Recorded(Memory, s[1])]
<1>1. DOMAIN s = {1} /\ s[1] = e
    OBVIOUS
<1>2. RecordedAll(s) = b[{1}]
    BY <1>1 DEF RecordedAll, FoldLeft, MapThenFoldSet, Memory
<1>3. \A t \in SUBSET {1} : t = {} \/ t = {1}
    OBVIOUS
<1>4. {1} # {} /\ {1} \ {1} = {} /\ {} \in SUBSET {1} /\ {1} \in SUBSET {1}
    OBVIOUS
<1>5. w = Next(w)
  <2>1. w[{}] = Memory
      OBVIOUS
  <2>2. \A t \in SUBSET {1} : w[t] = Next(w)[t]
    <3>1. Next(w)[{}] = Memory /\ w[{1}] = Recorded(Memory, s[1])
        BY <1>4
    <3>2. Next(w)[{1}] = Recorded(w[{1} \ {Max({1})}], s[Max({1})])
        BY <1>4
    <3>3. w[{1}] = Next(w)[{1}]
        BY <1>4, <2>1, <3>1, <3>2, MaxOfTwo
    <3> HIDE DEF w, Next
    <3> QED BY <1>3, <2>1, <3>1, <3>3
  <2>3. w = [t \in SUBSET {1} |-> w[t]] /\ Next(w) = [t \in SUBSET {1} |-> Next(w)[t]]
      OBVIOUS
  <2> DEFINE v == Next(w)
  <2>4. /\ w = [t \in SUBSET {1} |-> w[t]] /\ v = [t \in SUBSET {1} |-> v[t]]
        /\ \A t \in SUBSET {1} : w[t] = v[t]
      BY <2>2, <2>3
  <2>5. w = v
    <3> HIDE DEF w, v
    <3> QED BY <2>4
  <2> QED BY <2>5
<1>6. b = Next(b)
    BY <1>5
<1>7. b[{}] = Memory /\ b[{1}] = Recorded(b[{}], s[1])
    BY <1>4, <1>6, MaxOfTwo
<1> QED BY <1>1, <1>2, <1>7

(* Two events.                                                             *)
LEMMA RecordedTwo ==
    ASSUME NEW d, NEW e
    PROVE  RecordedAll(<<d, e>>) = Recorded(Recorded(Memory, d), e)
<1> DEFINE s == <<d, e>>
           T == SUBSET {1, 2}
           Next(iter) == [t \in T |->
                              IF t = {} THEN Memory
                              ELSE Recorded(iter[t \ {Max(t)}], s[Max(t)])]
           b == CHOOSE iter : iter = Next(iter)
           first(t) == Recorded(Memory, s[Max(t)])
           w == [t \in T |-> IF t = {} THEN Memory
                             ELSE IF t = {1, 2} THEN Recorded(first({1}), s[2])
                             ELSE first(t)]
<1>1. DOMAIN s = {1, 2} /\ s[1] = d /\ s[2] = e
    OBVIOUS
<1>2. RecordedAll(s) = b[{1, 2}]
    BY <1>1 DEF RecordedAll, FoldLeft, MapThenFoldSet, Memory
<1>3. \A t \in T : t = {} \/ t = {1} \/ t = {2} \/ t = {1, 2}
    OBVIOUS
<1>4. /\ {1} # {} /\ {2} # {} /\ {1, 2} # {} /\ {1, 2} # {1} /\ {1, 2} # {2}
      /\ {1} \ {1} = {} /\ {2} \ {2} = {} /\ {1, 2} \ {2} = {1}
      /\ {} \in T /\ {1} \in T /\ {2} \in T /\ {1, 2} \in T
    OBVIOUS
<1>5. Max({2}) = 2
    BY DEF Max
<1>6. w = Next(w)
  <2>1. w[{}] = Memory /\ w[{1}] = first({1})
      BY <1>4
  <2>2. \A t \in T : w[t] = Next(w)[t]
    <3>1. /\ w[{2}] = first({2}) /\ w[{1, 2}] = Recorded(first({1}), s[2])
          /\ Next(w)[{}] = Memory
        BY <1>4
    <3>2. /\ Next(w)[{1}] = Recorded(w[{1} \ {Max({1})}], s[Max({1})])
          /\ Next(w)[{2}] = Recorded(w[{2} \ {Max({2})}], s[Max({2})])
          /\ Next(w)[{1, 2}] = Recorded(w[{1, 2} \ {Max({1, 2})}], s[Max({1, 2})])
        BY <1>4
    <3>3. w[{1}] = Next(w)[{1}]
      <4> HIDE DEF w, Next
      <4> QED BY <1>4, <2>1, <3>1, <3>2, MaxOfTwo
    <3>4. w[{2}] = Next(w)[{2}]
      <4> HIDE DEF w, Next
      <4> QED BY <1>4, <1>5, <2>1, <3>1, <3>2
    <3>5. w[{1, 2}] = Next(w)[{1, 2}]
      <4> HIDE DEF w, Next, first
      <4> QED BY <1>4, <2>1, <3>1, <3>2, MaxOfTwo
    <3>6. w[{}] = Next(w)[{}]
        BY <2>1, <3>1
    <3> HIDE DEF w, Next, first, T, b
    <3> QED BY <1>3, <3>3, <3>4, <3>5, <3>6
  <2>3. w = [t \in T |-> w[t]] /\ Next(w) = [t \in T |-> Next(w)[t]]
      OBVIOUS
  <2> DEFINE v == Next(w)
  <2>4. w = [t \in T |-> w[t]] /\ v = [t \in T |-> v[t]] /\ \A t \in T : w[t] = v[t]
      BY <2>2, <2>3
  <2>5. w = v
    <3> HIDE DEF w, v
    <3> QED BY <2>4
  <2> QED BY <2>5
<1>7. b = Next(b)
    BY <1>6
<1>8. b[{}] = Memory /\ b[{1}] = Recorded(b[{}], s[1]) /\ b[{1, 2}] = Recorded(b[{1}], s[2])
    BY <1>4, <1>7, MaxOfTwo
<1> QED BY <1>1, <1>2, <1>8

(* The events of this model.                                               *)
LogEvent ==
    {Marker, Progress, Event("video_stop"), Event("download_failed")}
        \cup {[ev |-> "run_end", outcome |-> o] :
                o \in {"failed", "stopped", "unsupported_video", "declined", "incomplete",
                       "completed"}}

(* What record may find.                                                   *)
Memories == [lines : Seq(LogEvent), truncated : BOOLEAN]

(* The log m begins with all of the log l.                                 *)
Extends(l, m) == \A i \in DOMAIN l : i \in DOMAIN m /\ m[i] = l[i]

(* The log l has an event of that name.                                    *)
Has(l, name) == \E i \in DOMAIN l : l[i].ev = name

(* One more event: what was recorded stays, and an event that is always    *)
(* kept comes last, also after the limit.                                  *)
LEMMA RecordedKeeps ==
    ASSUME NEW before \in Memories, NEW e \in LogEvent, NEW after, after = Recorded(before, e)
    PROVE  /\ after \in Memories
           /\ Extends(before.lines, after.lines)
           /\ AlwaysKept(e) =>
                 Len(after.lines) \in DOMAIN after.lines /\ after.lines[Len(after.lines)] = e
<1> DEFINE l == before.lines
           t == before.truncated
<1>1. /\ l \in Seq(LogEvent) /\ t \in BOOLEAN /\ before = [lines |-> l, truncated |-> t]
      /\ Marker \in LogEvent
    BY DEF Memories, LogEvent
<1> HIDE DEF l, t
<1>2. CASE t /\ ~AlwaysKept(e)
  <2>1. after = before
      BY <1>1, <1>2 DEF Recorded
  <2> QED BY <1>1, <1>2, <2>1 DEF Extends, Memories
<1>3. ASSUME NEW m \in Seq(LogEvent), NEW u \in BOOLEAN, after = [lines |-> m, truncated |-> u],
             NEW d \in LogEvent, m = Append(l, d), AlwaysKept(e) => d = e
      PROVE  /\ after \in Memories
             /\ Extends(l, after.lines)
             /\ AlwaysKept(e) =>
                   Len(after.lines) \in DOMAIN after.lines /\ after.lines[Len(after.lines)] = e
  <2>1. after \in Memories /\ after.lines = m
      BY <1>3 DEF Memories
  <2>2. /\ DOMAIN l = 1..Len(l) /\ DOMAIN m = 1..Len(m) /\ Len(m) = Len(l) + 1
        /\ Len(l) \in Nat /\ m[Len(m)] = d /\ \A i \in 1..Len(l) : m[i] = l[i]
      BY <1>1, <1>3
  <2> QED BY <1>3, <2>1, <2>2 DEF Extends
<1>4. CASE (~t \/ AlwaysKept(e)) /\ Len(l) < MaxLines
  <2>1. after = [lines |-> Append(l, e), truncated |-> t]
      BY <1>1, <1>4 DEF Recorded
  <2>2. Append(l, e) \in Seq(LogEvent)
      BY <1>1
  <2> QED BY <1>1, <1>3, <2>1, <2>2 DEF l
<1>5. CASE t /\ AlwaysKept(e) /\ ~(Len(l) < MaxLines)
  <2>1. after = [lines |-> l \o << >> \o <<e>>, truncated |-> TRUE]
      BY <1>1, <1>5 DEF Recorded
  <2>2. l \o << >> \o <<e>> = Append(l, e) /\ Append(l, e) \in Seq(LogEvent)
      BY <1>1
  <2> QED BY <1>1, <1>3, <2>1, <2>2 DEF l
<1>6. CASE ~t /\ ~AlwaysKept(e) /\ ~(Len(l) < MaxLines)
  <2>1. after = [lines |-> l \o <<Marker>> \o << >>, truncated |-> TRUE]
      BY <1>1, <1>6 DEF Recorded
  <2>2. l \o <<Marker>> \o << >> = Append(l, Marker) /\ Append(l, Marker) \in Seq(LogEvent)
      BY <1>1
  <2> QED BY <1>1, <1>3, <1>6, <2>1, <2>2 DEF l
<1>7. CASE ~t /\ AlwaysKept(e) /\ ~(Len(l) < MaxLines)
  <2> DEFINE m == Append(l, Marker)
  <2>1. after = [lines |-> l \o <<Marker>> \o <<e>>, truncated |-> TRUE]
      BY <1>1, <1>7 DEF Recorded
  <2>2. /\ l \o <<Marker>> \o <<e>> = Append(m, e) /\ m \in Seq(LogEvent)
        /\ Append(m, e) \in Seq(LogEvent)
      BY <1>1
  <2>3. after \in Memories /\ after.lines = Append(m, e)
      BY <2>1, <2>2 DEF Memories
  <2>4. /\ DOMAIN l = 1..Len(l) /\ Len(l) \in Nat
        /\ Len(m) = Len(l) + 1 /\ \A i \in 1..Len(l) : m[i] = l[i]
      BY <1>1
  <2>5. /\ DOMAIN Append(m, e) = 1..(Len(m) + 1) /\ Len(Append(m, e)) = Len(m) + 1
        /\ Append(m, e)[Len(m) + 1] = e /\ \A i \in 1..Len(m) : Append(m, e)[i] = m[i]
      BY <2>2, <2>4
  <2> HIDE DEF m
  <2>6. Extends(l, Append(m, e))
      BY <2>4, <2>5 DEF Extends
  <2>7. Len(m) + 1 \in 1..(Len(m) + 1)
      BY <2>4
  <2> QED BY <2>3, <2>5, <2>6, <2>7 DEF l
<1> QED BY <1>1, <1>2, <1>4, <1>5, <1>6, <1>7

(* The log holds events of this model.                                     *)
MemoryOK == lines \in Seq(LogEvent) /\ truncated \in BOOLEAN

(* What the lines become when e, or d and e, are recorded.                 *)
LEMMA LinesGrow ==
    ASSUME MemoryOK, NEW d \in LogEvent, NEW e \in LogEvent,
           NEW events, events \in {<<e>>, <<d, e>>},
           lines' = RecordedAll(events).lines, truncated' = RecordedAll(events).truncated
    PROVE  /\ MemoryOK'
           /\ Extends(lines, lines')
           /\ AlwaysKept(e) => Len(lines') \in DOMAIN lines' /\ lines'[Len(lines')] = e
           /\ events = <<d, e>> /\ AlwaysKept(d) => Has(lines', d.ev)
<1>1. Memory \in Memories /\ Memory.lines = lines
    BY DEF MemoryOK, Memory, Memories
<1>2. CASE events = <<e>>
  <2> DEFINE after == Recorded(Memory, e)
  <2>1. RecordedAll(events) = after
      BY <1>2, RecordedOne
  <2>2. /\ after \in Memories /\ Extends(lines, after.lines)
        /\ AlwaysKept(e) =>
              Len(after.lines) \in DOMAIN after.lines /\ after.lines[Len(after.lines)] = e
      BY <1>1, RecordedKeeps
  <2> HIDE DEF after
  <2>3. lines' = after.lines /\ truncated' = after.truncated /\ events # <<d, e>>
      BY <1>2, <2>1
  <2> QED BY <2>2, <2>3 DEF MemoryOK, Memories
<1>3. CASE events = <<d, e>>
  <2> DEFINE first == Recorded(Memory, d)
             after == Recorded(first, e)
  <2>1. RecordedAll(events) = after
      BY <1>3, RecordedTwo
  <2>2. /\ first \in Memories /\ Extends(lines, first.lines)
        /\ AlwaysKept(d) =>
              Len(first.lines) \in DOMAIN first.lines /\ first.lines[Len(first.lines)] = d
      BY <1>1, RecordedKeeps
  <2> HIDE DEF first
  <2>3. /\ after \in Memories /\ Extends(first.lines, after.lines)
        /\ AlwaysKept(e) =>
              Len(after.lines) \in DOMAIN after.lines /\ after.lines[Len(after.lines)] = e
      BY <2>2, RecordedKeeps
  <2> HIDE DEF after
  <2>4. lines' = after.lines /\ truncated' = after.truncated
      BY <2>1
  <2>5. Extends(lines, lines') /\ (AlwaysKept(d) => Has(lines', d.ev))
      BY <2>2, <2>3, <2>4 DEF Extends, Has
  <2> QED BY <2>3, <2>4, <2>5 DEF MemoryOK, Memories
<1> QED BY <1>2, <1>3

(* What explains the outcome is in the log before the outcome is.          *)
Explained ==
    /\ outcome = "unsupported_video" => Has(lines, "video_stop")
    /\ ~interrupted /\ (verdict = "incomplete" \/ \E c \in Collection : archive[c] = "incomplete")
          => Has(lines, "download_failed")

(* The invariant of the log.                                               *)
LogInv == MemoryOK /\ Explained /\ ReasonSurvives

(* At first the log is empty.                                              *)
LEMMA LogInvInit == AppInit => LogInv
<1> SUFFICES ASSUME AppInit PROVE LogInv
    OBVIOUS
<1>1. MemoryOK
  <2>1. lines = << >> /\ truncated = FALSE /\ << >> \in Seq(LogEvent)
      BY DEF AppInit, LogInit
  <2> QED BY <2>1 DEF MemoryOK
<1>2. Explained
    BY AppRunAssumption DEF AppInit, Explained
<1>3. ReasonSurvives
    BY DEF AppInit, ReasonSurvives
<1> QED BY <1>1, <1>2, <1>3 DEF LogInv

(* A step before the last event.                                           *)
LEMMA GoesOn ==
    ASSUME LogInv, MemoryOK', Extends(lines, lines'), step' # "release",
           interrupted => interrupted',
           outcome' = "unsupported_video" =>
               outcome = "unsupported_video" \/ Has(lines', "video_stop"),
           verdict' = "incomplete" =>
               verdict = "incomplete" \/ interrupted' \/ Has(lines', "download_failed"),
           \A c \in Collection :
               archive'[c] = "incomplete" => archive[c] = "incomplete" \/ verdict = "incomplete"
    PROVE  LogInv'
<1>1. ASSUME NEW name, Has(lines, name) PROVE Has(lines', name)
    BY <1>1 DEF Has, Extends
<1>2. Explained'
  <2>1. outcome' = "unsupported_video" => Has(lines', "video_stop")
      BY <1>1 DEF LogInv, Explained
  <2>2. ~interrupted' /\ (\/ verdict' = "incomplete"
                         \/ \E c \in Collection : archive'[c] = "incomplete")
           => Has(lines', "download_failed")
      BY <1>1 DEF LogInv, Explained
  <2> QED BY <2>1, <2>2 DEF Explained
<1>3. ReasonSurvives'
    BY DEF ReasonSurvives
<1> QED BY <1>2, <1>3 DEF LogInv

(* The steps that log nothing.                                             *)
LEMMA QuietKeeps ==
    ASSUME AppInv, LogInv,
           \/ Interrupt \/ OtherRun \/ DashboardChanges \/ TakeStore \/ ListFails \/ Accept
           \/ Decline \/ RenameFails \/ WriteManifest \/ MarkAbsent \/ WriteFails \/ Judge
           \/ Release
    PROVE  LogInv'
<1>1. /\ UNCHANGED lines /\ UNCHANGED truncated
      /\ step' # "release"
      /\ interrupted => interrupted'
      /\ outcome' = "unsupported_video" => outcome = "unsupported_video"
      /\ verdict' = "incomplete" => verdict = "incomplete"
    BY DEF Interrupt, OtherRun, DashboardChanges, TakeStore, ListFails, Accept, Decline,
           RenameFails, WriteManifest, MarkAbsent, WriteFails, Judge, Release, Stops, Fails,
           Return, GoOn, Goto, AfterConsent, logVars, appVars, workVars, endVars
<1>2. \A c \in Collection :
         archive'[c] = "incomplete" => archive[c] = "incomplete" \/ verdict = "incomplete"
  <2>1. CASE WriteManifest \/ MarkAbsent \/ WriteFails
    <3>1. archive \in [Collection -> {"none", "old", "missing"} \cup Written]
        BY DEF AppInv, FieldsOK
    <3> QED BY <2>1, <3>1 DEF WriteManifest, MarkAbsent, WriteFails
  <2>2. CASE ~(WriteManifest \/ MarkAbsent \/ WriteFails)
    <3>1. UNCHANGED archive
        BY <2>2 DEF Interrupt, OtherRun, DashboardChanges, TakeStore, ListFails, Accept, Decline,
               RenameFails, Judge, Release, appVars, storeVars
    <3> QED BY <3>1
  <2> QED BY <2>1, <2>2
<1>3. MemoryOK' /\ Extends(lines, lines')
    BY <1>1 DEF LogInv, MemoryOK, Extends
<1> QED BY <1>1, <1>2, <1>3, GoesOn

(* The steps that log one or two events.                                   *)
LEMMA LoudKeeps ==
    ASSUME AppInv, LogInv,
           \/ LoadSession \/ ListPage \/ AskAgain \/ PlanCollection \/ PlanningFails \/ StopAtVideo
           \/ PlanAbsent \/ Download
    PROVE  LogInv'
<1> DEFINE Logs(d, e) ==
               \E events \in {<<e>>, <<d, e>>} :
                  lines' = RecordedAll(events).lines /\ truncated' = RecordedAll(events).truncated
           stop == Event("video_stop")
           failed == Event("download_failed")
<1>1. /\ Progress \in LogEvent /\ stop \in LogEvent /\ failed \in LogEvent
      /\ AlwaysKept(stop) /\ AlwaysKept(failed)
      /\ stop.ev = "video_stop" /\ failed.ev = "download_failed"
    BY DEF LogEvent, AlwaysKept, Event
<1>2. MemoryOK
    BY DEF LogInv
<1>3. ASSUME UNCHANGED <<lines, truncated>>
      PROVE  MemoryOK' /\ Extends(lines, lines')
    BY <1>2, <1>3 DEF MemoryOK, Extends
<1>4. ASSUME NEW d \in LogEvent, NEW e \in LogEvent, Logs(d, e)
      PROVE  MemoryOK' /\ Extends(lines, lines')
  <2>1. PICK events \in {<<e>>, <<d, e>>} :
           lines' = RecordedAll(events).lines /\ truncated' = RecordedAll(events).truncated
      BY <1>4
  <2> QED BY <1>2, <2>1, LinesGrow
<1>5. CASE LoadSession \/ ListPage \/ AskAgain \/ PlanCollection \/ PlanningFails \/ PlanAbsent
  <2>1. /\ UNCHANGED <<lines, truncated>> \/ Logs(Progress, Progress)
        /\ step' # "release"
        /\ UNCHANGED <<interrupted, outcome, verdict, archive>>
      BY <1>5 DEF LoadSession, ListPage, AskAgain, PlanCollection, PlanningFails, PlanAbsent, Stops,
                  Fails, Return, GoOn, Goto, AfterConsent, Log, logVars, appVars, workVars,
                  storeVars, endVars
  <2>2. MemoryOK' /\ Extends(lines, lines')
      BY <1>1, <1>3, <1>4, <2>1
  <2> QED BY <2>1, <2>2, GoesOn
<1>6. CASE StopAtVideo
  <2>1. /\ lines' = RecordedAll(<<Progress, stop>>).lines
        /\ truncated' = RecordedAll(<<Progress, stop>>).truncated
        /\ step' # "release"
        /\ UNCHANGED <<interrupted, verdict, archive>>
      BY <1>6 DEF StopAtVideo, Fails, Return, Goto, Log, workVars
  <2>2. /\ MemoryOK' /\ Extends(lines, lines')
        /\ Len(lines') \in DOMAIN lines' /\ lines'[Len(lines')] = stop
    <3> DEFINE events == <<Progress, stop>>
    <3>1. events \in {<<stop>>, <<Progress, stop>>}
        OBVIOUS
    <3> HIDE DEF events, stop
    <3>2. lines' = RecordedAll(events).lines /\ truncated' = RecordedAll(events).truncated
        BY <2>1 DEF events
    <3> QED BY <1>1, <1>2, <3>1, <3>2, LinesGrow
  <2>3. Has(lines', "video_stop")
      BY <1>1, <2>2 DEF Has
  <2> QED BY <2>1, <2>2, <2>3, GoesOn
<1>7. CASE Download
  <2>1. step' # "release" /\ UNCHANGED <<interrupted, outcome, archive>>
      BY <1>7 DEF Download, Goto, storeVars, endVars
  <2>2. \/ UNCHANGED <<lines, truncated>> /\ (verdict' = "complete" \/ interrupted)
        \/ /\ lines' = RecordedAll(<<failed, Progress>>).lines
           /\ truncated' = RecordedAll(<<failed, Progress>>).truncated
        \/ Logs(Progress, Progress) /\ verdict' = "complete"
      BY <1>7 DEF Download, Log, logVars
  <2>3. CASE UNCHANGED <<lines, truncated>> /\ (verdict' = "complete" \/ interrupted)
    <3>1. MemoryOK' /\ Extends(lines, lines')
        BY <1>3, <2>3
    <3> QED BY <2>1, <2>3, <3>1, GoesOn
  <2>4. CASE /\ lines' = RecordedAll(<<failed, Progress>>).lines
             /\ truncated' = RecordedAll(<<failed, Progress>>).truncated
    <3> DEFINE events == <<failed, Progress>>
    <3>1. events \in {<<Progress>>, <<failed, Progress>>}
        OBVIOUS
    <3> HIDE DEF events, failed
    <3>2. lines' = RecordedAll(events).lines /\ truncated' = RecordedAll(events).truncated
        BY <2>4 DEF events
    <3>3. MemoryOK' /\ Extends(lines, lines') /\ Has(lines', failed.ev)
        BY <1>1, <1>2, <3>1, <3>2, LinesGrow DEF events
    <3> QED BY <1>1, <2>1, <3>3, GoesOn
  <2>5. CASE Logs(Progress, Progress) /\ verdict' = "complete"
    <3>1. MemoryOK' /\ Extends(lines, lines')
        BY <1>1, <1>4, <2>5
    <3> QED BY <2>1, <2>5, <3>1, GoesOn
  <2> QED BY <2>2, <2>3, <2>4, <2>5
<1> QED BY <1>5, <1>6, <1>7

(* The last event, and the end of the log.                                 *)
LEMMA EndLogKeeps ==
    ASSUME AppInv, AppInv', LogInv, EndLog
    PROVE  LogInv'
<1>1. PICK e : e = [ev |-> "run_end", outcome |-> outcome']
    OBVIOUS
<1> DEFINE events == <<e>>
<1>2. /\ outcome' = "unsupported_video" => outcome = "unsupported_video"
      /\ lines' = RecordedAll(events).lines /\ truncated' = RecordedAll(events).truncated
      /\ UNCHANGED <<interrupted, verdict, archive>>
      /\ ~endFailed' => logFile' = lines'
      /\ step' = "release"
    BY <1>1 DEF EndLog, LogEnd, PutSucceeds, PutFails, Goto, workVars, storeVars
<1>3. e \in LogEvent /\ AlwaysKept(e)
  <2>1. outcome' \in {"failed", "stopped", "unsupported_video", "declined", "incomplete",
                      "completed"}
      BY DEF AppInv, FieldsOK
  <2> QED BY <1>1, <2>1 DEF LogEvent, AlwaysKept
<1>4. /\ MemoryOK' /\ Extends(lines, lines')
      /\ Len(lines') \in DOMAIN lines' /\ lines'[Len(lines')] = e
  <2>1. events \in {<<e>>, <<e, e>>}
      OBVIOUS
  <2> HIDE DEF events
  <2> QED BY <1>2, <1>3, <2>1, LinesGrow DEF LogInv
<1>5. Explained'
  <2>1. ASSUME NEW name, Has(lines, name) PROVE Has(lines', name)
      BY <1>4, <2>1 DEF Has, Extends
  <2> QED BY <1>2, <2>1 DEF LogInv, Explained
<1>6. ReasonSurvives'
  <2>1. outcome' = "incomplete" => \E c \in Collection : archive'[c] = "incomplete"
    <3>1. outcome' = "incomplete" => \E c \in Range(listed') : archive'[c] = "incomplete"
        BY <1>2 DEF AppInv, EndOK, Truthful
    <3>2. listed' \in Seq(Collection)
        BY DEF AppInv, ListingOK, ListedOK
    <3>3. Range(listed') \subseteq Collection
        BY <3>2 DEF Range
    <3> QED BY <3>1, <3>3
  <2>2. ~endFailed' => logFile' = lines' /\ Last(logFile') = e
      BY <1>2, <1>4 DEF Last
  <2>3. /\ outcome' = "unsupported_video" => Has(lines', "video_stop")
        /\ outcome' = "incomplete" /\ ~interrupted' => Has(lines', "download_failed")
      BY <1>5, <2>1 DEF Explained
  <2> QED BY <1>1, <1>2, <2>2, <2>3 DEF ReasonSurvives, Logged, Has
<1> QED BY <1>4, <1>5, <1>6 DEF LogInv

(* Every step keeps the invariant of the log.                              *)
LEMMA LogInvNext ==
    ASSUME AppInv, AppInv', LogInv, [AppNext]_runVars
    PROVE  LogInv'
<1>1. CASE AppNext
    BY <1>1, QuietKeeps, LoudKeeps, EndLogKeeps DEF AppNext, Program
<1>2. CASE UNCHANGED runVars
    BY <1>2 DEF LogInv, MemoryOK, Explained, ReasonSurvives, Logged, runVars, logVars, appVars,
                workVars, storeVars, endVars
<1> QED BY <1>1, <1>2

(* Whatever the limit of the log, the number of Collections, the failures  *)
(* and the Puts that failed before: the log that is saved at the end says  *)
(* how the run ended, and why.                                             *)
THEOREM TheReasonSurvives == AppSpec => []ReasonSurvives
<1>1. LogInv => ReasonSurvives
    BY DEF LogInv
<1>2. AppInv /\ AppInv' /\ LogInv /\ [AppNext]_runVars => LogInv'
    BY LogInvNext
<1> QED BY LogInvInit, AppInvariant, <1>1, <1>2, PTL DEF AppSpec

=============================================================================
