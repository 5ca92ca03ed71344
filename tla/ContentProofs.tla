--------------------------- MODULE ContentProofs ---------------------------
(***************************************************************************)
(* Proofs about ContentAPI, for any number of topics, clients and links:   *)
(* its state is well formed, a content answer shows exactly the links that *)
(* are stored, and a request that was found no content for has none.       *)
(***************************************************************************)
EXTENDS ContentAPI, FiniteSetTheorems, TLAPS

-----------------------------------------------------------------------------
(* Induction, and the greatest of finitely many numbers.                   *)

(* A set of numbers with 0, and with n + 1 for each of its n, has them all *)
LEMMA NatInductionSet ==
  ASSUME NEW T \in SUBSET Nat, 0 \in T, \A n \in T : n + 1 \in T
  PROVE  T = Nat
<1> SUFFICES ASSUME Nat \ T # {} PROVE FALSE
  OBVIOUS
<1>1. PICK n \in Nat \ T : \A m \in Nat \ T : ~ (<<m, n>> \in OpToRel(<, Nat))
  <2> DEFINE R == OpToRel(<, Nat)
             U == Nat \ T
  <2>1. IsWellFoundedOn(R, Nat)
    BY NatLessThanWellFounded
  <2>2. U \subseteq Nat /\ U # {}
    OBVIOUS
  <2> HIDE DEF R, U
  <2>3. \E x \in U : \A y \in U : ~ (<<y, x>> \in R)
    BY <2>1, <2>2, WFMin
  <2> QED
    BY <2>3 DEF R, U
<1>2. \A m \in Nat : m < n => m \in T
  BY <1>1 DEF OpToRel
<1>3. n # 0 /\ n - 1 \in T
  BY <1>2
<1> QED
  BY <1>3

(* Among numbers f[1], ..., f[n + 1] there is a greatest one.              *)
LEMMA GreatestValue ==
  \A n \in Nat : \A f \in [1..(n+1) -> Nat] :
    \E m \in 1..(n+1) : \A i \in 1..(n+1) : f[i] <= f[m]
<1> DEFINE P(n) == \A f \in [1..(n+1) -> Nat] :
                     \E m \in 1..(n+1) : \A i \in 1..(n+1) : f[i] <= f[m]
           T == {n \in Nat : P(n)}
<1>1. P(0)
  <2>1. 1 \in 1..(0+1) /\ \A i \in 1..(0+1) : i = 1
    OBVIOUS
  <2> SUFFICES ASSUME NEW f \in [1..(0+1) -> Nat]
               PROVE  \A i \in 1..(0+1) : f[i] <= f[1]
    BY <2>1
  <2> QED
    BY <2>1
<1>2. ASSUME NEW n \in Nat, P(n) PROVE P(n + 1)
  <2> SUFFICES ASSUME NEW f \in [1..((n+1)+1) -> Nat]
               PROVE  \E m \in 1..((n+1)+1) : \A i \in 1..((n+1)+1) : f[i] <= f[m]
    OBVIOUS
  <2> DEFINE g == [i \in 1..(n+1) |-> f[i]]
  <2>1. g \in [1..(n+1) -> Nat]
    OBVIOUS
  <2>2. PICK m \in 1..(n+1) : \A i \in 1..(n+1) : g[i] <= g[m]
    BY <1>2, <2>1
  <2>3. \A i \in 1..(n+1) : f[i] <= f[m]
    BY <2>2
  <2>4. CASE f[m] <= f[(n+1)+1]
    <3>1. \A i \in 1..((n+1)+1) : f[i] <= f[(n+1)+1]
      BY <2>3, <2>4
    <3> QED
      BY <3>1
  <2>5. CASE f[(n+1)+1] <= f[m]
    <3>1. \A i \in 1..((n+1)+1) : f[i] <= f[m]
      BY <2>3, <2>5
    <3> QED
      BY <3>1
  <2>6. f[m] \in Nat /\ f[(n+1)+1] \in Nat
    OBVIOUS
  <2> QED
    BY <2>4, <2>5, <2>6
<1> HIDE DEF P
<1>3. T \in SUBSET Nat /\ 0 \in T /\ \A n \in T : n + 1 \in T
  BY <1>1, <1>2
<1>4. T = Nat
  BY <1>3, NatInductionSet
<1>5. \A n \in Nat : P(n)
  BY <1>4
<1> QED
  BY <1>5 DEF P

(* A set of indices that is not empty has a greatest one.                  *)
LEMMA GreatestIndex ==
  \A n \in Nat : \A S \in SUBSET (1..n) :
    S # {} => \E m \in S : \A i \in S : i <= m
<1> TAKE n \in Nat
<1> TAKE S \in SUBSET (1..n)
<1> HAVE S # {}
<1> DEFINE f == [i \in 1..(n+1) |-> IF i \in S THEN i ELSE 0]
<1>1. f \in [1..(n+1) -> Nat]
  OBVIOUS
<1>2. PICK m \in 1..(n+1) : \A i \in 1..(n+1) : f[i] <= f[m]
  BY <1>1, GreatestValue
<1>3. \A i \in S : i \in 1..(n+1) /\ f[i] = i /\ i > 0
  OBVIOUS
<1>4. m \in S
  <2>1. PICK i \in S : i \in 1..(n+1) /\ f[i] > 0
    BY <1>3
  <2>2. f[m] \in Nat /\ f[i] \in Nat /\ f[m] > 0
    BY <1>1, <1>2, <2>1
  <2> QED
    BY <2>2
<1>5. \A i \in S : i <= m
  BY <1>2, <1>3, <1>4
<1> QED
  BY <1>4, <1>5

-----------------------------------------------------------------------------
(* sort.Strings: every list of numbers has a rearrangement in order.       *)

LEMMA SortExists ==
  \A n \in Nat : \A f \in [1..n -> Nat] :
    \E p \in Bijection(1..n, 1..n) :
      \A i, j \in 1..n : i < j => f[p[i]] <= f[p[j]]
<1> DEFINE P(n) == \A f \in [1..n -> Nat] : \E p \in Bijection(1..n, 1..n) :
                     \A i, j \in 1..n : i < j => f[p[i]] <= f[p[j]]
           T == {n \in Nat : P(n)}
<1>1. P(0)
  <2> DEFINE e == [i \in 1..0 |-> i]
  <2>1. e \in [1..0 -> 1..0] /\ \A i \in 1..0 : FALSE
    OBVIOUS
  <2>2. e \in Bijection(1..0, 1..0)
    BY <2>1 DEF Bijection, Injection, Surjection, IsInjective
  <2> QED
    BY <2>1, <2>2
<1>2. ASSUME NEW n \in Nat, P(n) PROVE P(n + 1)
  <2> SUFFICES ASSUME NEW f \in [1..(n+1) -> Nat]
               PROVE  \E p \in Bijection(1..(n+1), 1..(n+1)) :
                        \A i, j \in 1..(n+1) : i < j => f[p[i]] <= f[p[j]]
    OBVIOUS
  <2>1. PICK m \in 1..(n+1) : \A i \in 1..(n+1) : f[i] <= f[m]
    BY GreatestValue
  \* the last number takes the place of the greatest, which goes to the end
  <2> DEFINE g == [i \in 1..n |-> IF i = m THEN f[n+1] ELSE f[i]]
  <2>2. g \in [1..n -> Nat]
    OBVIOUS
  <2>3. PICK q \in Bijection(1..n, 1..n) :
          \A i, j \in 1..n : i < j => g[q[i]] <= g[q[j]]
    BY <1>2, <2>2
  <2> DEFINE p == [i \in 1..(n+1) |->
                     IF i = n + 1 THEN m ELSE IF q[i] = m THEN n + 1 ELSE q[i]]
  <2>4. /\ q \in [1..n -> 1..n]
        /\ \A i, j \in 1..n : q[i] = q[j] => i = j
        /\ \A k \in 1..n : \E i \in 1..n : q[i] = k
    BY <2>3 DEF Bijection, Injection, Surjection, IsInjective
  <2>4a. \A i \in 1..n : q[i] \in 1..n
    BY <2>4
  <2>5. p \in [1..(n+1) -> 1..(n+1)]
    <3>1. \A i \in 1..(n+1) : i # n + 1 => i \in 1..n
      OBVIOUS
    <3>2. \A i \in 1..n : q[i] \in 1..(n+1)
      BY <2>4a
    <3>3. \A i \in 1..(n+1) :
            (IF i = n + 1 THEN m ELSE IF q[i] = m THEN n + 1 ELSE q[i]) \in 1..(n+1)
      BY <3>1, <3>2
    <3> QED
      BY <3>3
  <2>5a. /\ p[n+1] = m
         /\ \A i \in 1..n : p[i] = IF q[i] = m THEN n + 1 ELSE q[i]
    OBVIOUS
  <2> HIDE DEF p
  <2>6. ASSUME NEW i \in 1..(n+1), NEW j \in 1..(n+1), p[i] = p[j]
        PROVE  i = j
    <3>1. CASE i \in 1..n /\ j \in 1..n
      <4>1. q[i] = q[j]
        BY <2>4a, <2>5a, <2>6, <3>1
      <4> QED
        BY <2>4, <3>1, <4>1
    <3>2. CASE i = n + 1 /\ j \in 1..n
      <4>1. p[j] = m
        BY <2>5a, <2>6, <3>2
      <4>2. CASE q[j] = m
        BY <2>4a, <2>5a, <3>2, <4>1, <4>2
      <4>3. CASE q[j] # m
        BY <2>4a, <2>5a, <3>2, <4>1, <4>3
      <4> QED
        BY <4>2, <4>3
    <3>3. CASE i \in 1..n /\ j = n + 1
      <4>1. p[i] = m
        BY <2>5a, <2>6, <3>3
      <4>2. CASE q[i] = m
        BY <2>4a, <2>5a, <3>3, <4>1, <4>2
      <4>3. CASE q[i] # m
        BY <2>4a, <2>5a, <3>3, <4>1, <4>3
      <4> QED
        BY <4>2, <4>3
    <3> QED
      BY <3>1, <3>2, <3>3
  <2>7. ASSUME NEW k \in 1..(n+1)
        PROVE  \E i \in 1..(n+1) : p[i] = k
    <3>1. CASE k = m
      BY <2>5a, <3>1
    <3>2. CASE k # m /\ k = n + 1
      <4>1. PICK i \in 1..n : q[i] = m
        BY <2>4, <3>2
      <4> QED
        BY <2>5a, <4>1, <3>2
    <3>3. CASE k # m /\ k \in 1..n
      <4>1. PICK i \in 1..n : q[i] = k
        BY <2>4, <3>3
      <4> QED
        BY <2>5a, <4>1, <3>3
    <3> QED
      BY <3>1, <3>2, <3>3
  <2>8. p \in Bijection(1..(n+1), 1..(n+1))
    BY <2>5, <2>6, <2>7 DEF Bijection, Injection, Surjection, IsInjective
  <2>9. \A i \in 1..n : f[p[i]] = g[q[i]]
    BY <2>4a, <2>5a
  <2>10. \A i, j \in 1..(n+1) : i < j => f[p[i]] <= f[p[j]]
    <3> TAKE i, j \in 1..(n+1)
    <3> HAVE i < j
    <3>1. CASE j \in 1..n
      <4>1. i \in 1..n
        BY <3>1
      <4> QED
        BY <2>3, <2>9, <3>1, <4>1
    <3>2. CASE j = n + 1
      BY <2>1, <2>5, <2>5a, <3>2
    <3> QED
      BY <3>1, <3>2
  <2> QED
    BY <2>8, <2>10
<1> HIDE DEF P
<1>3. T \in SUBSET Nat /\ 0 \in T /\ \A n \in T : n + 1 \in T
  BY <1>1, <1>2
<1>4. T = Nat
  BY <1>3, NatInductionSet
<1>5. \A n \in Nat : P(n)
  BY <1>4
<1> QED
  BY <1>5 DEF P

-----------------------------------------------------------------------------
(* The operators that lists are made with.                                 *)

(* The first k types, in the order in which they are listed.               *)
Upto(k) == {ContentTypes[i] : i \in 1..k}

(* There are seven types, each listed once.                                *)
LEMMA TypesListed ==
  /\ DOMAIN ContentTypes = 1..7
  /\ \A i, j \in 1..7 : ContentTypes[i] = ContentTypes[j] => i = j
  /\ Upto(0) = {} /\ Upto(7) = Types
<1>1. DOMAIN ContentTypes = 1..7
  BY DEF ContentTypes
<1>2. \A i, j \in 1..7 : ContentTypes[i] = ContentTypes[j] => i = j
  BY DEF ContentTypes
<1>3. Upto(0) = {} /\ Upto(7) = Types
  BY <1>1 DEF Upto, Types
<1> QED
  BY <1>1, <1>2, <1>3

(* The sorted hrefs are those of the links, in order.                      *)
LEMMA SortedHRefs ==
  ASSUME HRefs \subseteq Nat, NEW links \in Seq(Link)
  PROVE  /\ sortedHRefs(links) \in [DOMAIN links -> HRefs]
         /\ \A i, j \in DOMAIN links :
              i < j => sortedHRefs(links)[i] <= sortedHRefs(links)[j]
         /\ \E from \in Bijection(DOMAIN links, DOMAIN links) :
              \A i \in DOMAIN links : sortedHRefs(links)[i] = links[from[i]].href
<1> DEFINE n == Len(links)
           f == [i \in 1..n |-> links[i].href]
<1>1. n \in Nat /\ DOMAIN links = 1..n
  OBVIOUS
<1>2. \A i \in 1..n : links[i].href \in HRefs
  <2>1. \A i \in 1..n : links[i] \in Link
    OBVIOUS
  <2> QED
    BY <2>1 DEF Link
<1>3. f \in [1..n -> Nat]
  BY <1>2
<1>4. PICK p \in Bijection(1..n, 1..n) :
        \A i, j \in 1..n : i < j => f[p[i]] <= f[p[j]]
  BY <1>1, <1>3, SortExists
<1> DEFINE sorted == [i \in 1..n |-> links[p[i]].href]
<1>5. \A i \in 1..n : p[i] \in 1..n
  BY <1>4 DEF Bijection, Injection, Surjection
<1>6. sorted \in [DOMAIN links -> HRefs]
  BY <1>1, <1>2, <1>5
<1>7. \A i, j \in DOMAIN links : i < j => sorted[i] <= sorted[j]
  BY <1>1, <1>4, <1>5
<1>8. \A i \in DOMAIN links : sorted[i] = links[p[i]].href
  BY <1>1
<1> HIDE DEF sorted
<1> DEFINE Good(hrefs) ==
             /\ hrefs \in [DOMAIN links -> HRefs]
             /\ \A i, j \in DOMAIN links : i < j => hrefs[i] <= hrefs[j]
             /\ \E from \in Bijection(DOMAIN links, DOMAIN links) :
                  \A i \in DOMAIN links : hrefs[i] = links[from[i]].href
<1>9. Good(sorted)
  BY <1>1, <1>4, <1>6, <1>7, <1>8
<1>10. sortedHRefs(links) = CHOOSE hrefs : Good(hrefs)
  BY DEF sortedHRefs
<1> HIDE DEF Good
<1>11. Good(sortedHRefs(links))
  BY <1>9, <1>10
<1> QED
  BY <1>11 DEF Good

(* The title of an href is one that is stored with it.                     *)
LEMMA TitleIsStored ==
  ASSUME NEW links \in Seq(Link), NEW href, Stored(links, href) # {}
  PROVE  \E k \in Stored(links, href) : TitleOf(links, href) = links[k].title
<1>1. PICK m \in Stored(links, href) : \A i \in Stored(links, href) : i <= m
  <2>1. Len(links) \in Nat /\ Stored(links, href) \in SUBSET (1..Len(links))
    BY DEF Stored
  <2> HIDE DEF Stored
  <2> QED
    BY <2>1, GreatestIndex
<1> DEFINE last == CHOOSE i \in DOMAIN links :
                     /\ links[i].href = href
                     /\ \A j \in DOMAIN links : links[j].href = href => j <= i
<1>2. last \in DOMAIN links /\ links[last].href = href
  BY <1>1 DEF Stored
<1>3. last \in Stored(links, href) /\ TitleOf(links, href) = links[last].title
  BY <1>2 DEF Stored, TitleOf
<1> HIDE DEF last
<1> QED
  BY <1>3

(* The items made of a list of links: as many as there are links, each of  *)
(* the type, with the href at its place and a title stored with that href. *)
LEMMA ItemsMade ==
  ASSUME HRefs \subseteq Nat, NEW links \in Seq(Link),
         NEW type \in Types, NEW id \in Ids \cup {Blank}
  PROVE  LET items == ItemsOf(type, links, sortedHRefs(links), id)
         IN  /\ items \in Seq(Item) /\ Len(items) = Len(links)
             /\ \A i \in 1..Len(links) :
                  /\ items[i].type = type
                  /\ items[i].href = sortedHRefs(links)[i]
                  /\ \E k \in Stored(links, items[i].href) :
                       items[i].title = links[k].title
<1> DEFINE hrefs == sortedHRefs(links)
           n == Len(links)
           items == ItemsOf(type, links, hrefs, id)
<1>1. n \in Nat /\ DOMAIN links = 1..n /\ DOMAIN hrefs = 1..n
  BY SortedHRefs
<1>2. \A i \in 1..n : hrefs[i] \in HRefs /\ Stored(links, hrefs[i]) # {}
  <2>1. PICK from \in Bijection(1..n, 1..n) :
          \A i \in 1..n : hrefs[i] = links[from[i]].href
    BY <1>1, SortedHRefs
  <2>2. \A i \in 1..n : from[i] \in 1..n
    BY DEF Bijection, Injection, Surjection
  <2>3. \A i \in 1..n : from[i] \in Stored(links, hrefs[i])
    BY <1>1, <2>1, <2>2 DEF Stored
  <2>4. \A i \in 1..n : hrefs[i] \in HRefs
    BY <1>1, SortedHRefs
  <2> QED
    BY <2>3, <2>4
<1> HIDE DEF hrefs
<1>3. \A i \in 1..n : \E k \in Stored(links, hrefs[i]) :
        TitleOf(links, hrefs[i]) = links[k].title
  BY <1>2, TitleIsStored
<1>4. \A i \in 1..n : TitleOf(links, hrefs[i]) \in Titles
  <2>1. \A k \in 1..n : links[k].title \in Titles
    <3>1. \A k \in 1..n : links[k] \in Link
      OBVIOUS
    <3> QED
      BY <3>1 DEF Link
  <2> QED
    BY <1>1, <1>3, <2>1 DEF Stored
<1>5. items = [i \in 1..n |-> [type |-> type, href |-> hrefs[i],
                               title |-> TitleOf(links, hrefs[i]), topic |-> id]]
  BY <1>1 DEF ItemsOf
<1>6. \A i \in 1..n : items[i] \in Item
  BY <1>2, <1>4, <1>5 DEF Item
<1>7. items \in Seq(Item) /\ Len(items) = n
  BY <1>1, <1>5, <1>6
<1>8. \A i \in 1..n : /\ items[i].type = type /\ items[i].href = hrefs[i]
                      /\ items[i].title = TitleOf(links, hrefs[i])
  BY <1>5
<1> HIDE DEF items
<1>9. \A i \in 1..n : \E k \in Stored(links, items[i].href) :
        items[i].title = links[k].title
  BY <1>3, <1>8
<1> QED
  BY <1>7, <1>8, <1>9 DEF items, hrefs

-----------------------------------------------------------------------------
(* Lists that show content.                                                *)

(* Two lists of items together are as long as both.                        *)
LEMMA JoinedLength ==
  ASSUME NEW S, NEW first \in Seq(S), NEW second \in Seq(S)
  PROVE  Len(first \o second) = Len(first) + Len(second)
OBVIOUS

(* A type that was not asked for has no item.                              *)
LEMMA ShownTypes ==
  ASSUME NEW list \in ItemList, NEW content, NEW flags, Shows(list, content, flags)
  PROVE  \A i \in DOMAIN list.items : /\ list.items[i].type \in flags \cap Types
                                      /\ list.items[i].href \in HRefs
<1> TAKE i \in DOMAIN list.items
<1> DEFINE type == list.items[i].type
           href == list.items[i].href
<1>1. list.items \in Seq(Item) /\ DOMAIN list.items = 1..Len(list.items)
  BY DEF ItemList
<1>2. list.items[i] \in Item
  BY <1>1
<1>3. type \in Types /\ href \in HRefs
  BY <1>2 DEF Item
<1>4. i \in Shown(list, type, href)
  BY DEF Shown
<1>5. IsFiniteSet(Shown(list, type, href))
  <2>1. Len(list.items) \in Nat /\ Shown(list, type, href) \in SUBSET (1..Len(list.items))
    BY <1>1 DEF Shown
  <2>2. IsFiniteSet(1..Len(list.items))
    BY <2>1, FS_Interval
  <2> QED
    BY <2>1, <2>2, FS_Subset
<1>6. Cardinality(Shown(list, type, href)) # 0
  BY <1>4, <1>5, FS_EmptySet
<1> QED
  BY <1>3, <1>6 DEF Shows

(* An empty list shows that nothing was asked for.                         *)
LEMMA NoItemsShow ==
  ASSUME NEW content
  PROVE  NoItems \in ItemList /\ Shows(NoItems, content, {})
<1>1. NoItems.items = <<>> /\ NoItems.total = 0 /\ NoItems \in ItemList
  BY DEF NoItems, ItemList
<1>2. \A type, href : Shown(NoItems, type, href) = {}
  BY <1>1 DEF Shown
<1>3. \A type, href : Cardinality(Shown(NoItems, type, href)) = 0
  BY <1>2, FS_EmptySet
<1> QED
  BY <1>1, <1>3 DEF Shows

(* What is listed when the k-th type has been reached.                     *)
Added(list, k, content, flags, id) ==
  AppendIfRequired(list, ContentTypes[k], flags, content, id)

(* A list that shows the first k - 1 types comes to show the first k.      *)
LEMMA AddedShows ==
  ASSUME HRefs \subseteq Nat, LinkLists \subseteq Seq(Link),
         NEW content \in Content, NEW flags \in SUBSET Types, NEW id \in Ids \cup {Blank},
         NEW k \in 1..7, NEW list \in ItemList,
         Shows(list, content, flags \cap Upto(k - 1))
  PROVE  /\ Added(list, k, content, flags, id) \in ItemList
         /\ Shows(Added(list, k, content, flags, id), content, flags \cap Upto(k))
<1> DEFINE t == ContentTypes[k]
           before == flags \cap Upto(k - 1)
           upto == flags \cap Upto(k)
<1>1. t \in Types /\ t \notin Upto(k - 1) /\ Upto(k) = Upto(k - 1) \cup {t}
  <2>1. 1..k = 1..(k-1) \cup {k} /\ k \notin 1..(k-1) /\ 1..(k-1) \subseteq 1..7
    OBVIOUS
  <2> QED
    BY <2>1, TypesListed DEF Upto, Types
<1>2. CASE t \notin flags
  <2>1. upto = before
    BY <1>1, <1>2
  <2> QED
    BY <1>2, <2>1 DEF Added, AppendIfRequired
<1>3. CASE t \in flags
  <2> DEFINE links == content[t]
             n == Len(list.items)
             m == Len(links)
             hrefs == sortedHRefs(links)
             items == ItemsOf(t, links, hrefs, id)
             new == AppendLinkInfo(list, t, links, id)
  <2>1. Added(list, k, content, flags, id) = new
    BY <1>3 DEF Added, AppendIfRequired
  <2>2. links \in Seq(Link)
    BY <1>1 DEF Content
  <2>3. /\ items \in Seq(Item) /\ Len(items) = m /\ m \in Nat /\ DOMAIN links = 1..m
        /\ \A i \in 1..m : /\ items[i].type = t
                           /\ items[i].href = hrefs[i]
                           /\ \E j \in Stored(links, items[i].href) :
                                items[i].title = links[j].title
    BY <1>1, <2>2, ItemsMade
  <2>4. /\ list.items \in Seq(Item) /\ n \in Nat /\ DOMAIN list.items = 1..n
        /\ list.total = n
    BY DEF ItemList, Shows
  <2>0. n = Len(list.items) /\ m = Len(links) /\ links = content[t] /\ hrefs = sortedHRefs(links)
    OBVIOUS
  <2> HIDE DEF items, n
  <2>5. new = [items |-> list.items \o items, total |-> list.total + m]
    BY DEF AppendLinkInfo, items
  <2> HIDE DEF new, m, hrefs, links
  <2>6. /\ new.items \in Seq(Item) /\ Len(new.items) = n + m /\ new.total = n + m
        /\ DOMAIN new.items = 1..(n + m)
        /\ \A i \in 1..n : new.items[i] = list.items[i]
        /\ \A i \in 1..m : new.items[n + i] = items[i]
    <3>1. list.items \o items \in Seq(Item)
      BY <2>3, <2>4
    <3>1a. Len(list.items \o items) = n + m
      <4>1. Len(list.items \o items) = Len(list.items) + Len(items)
        BY <2>3, <2>4, JoinedLength
      <4> QED
        BY <2>0, <2>3, <4>1
    <3>2. \A i \in 1..n : (list.items \o items)[i] = list.items[i]
      BY <2>0, <2>3, <2>4
    <3>3. \A i \in 1..m : (list.items \o items)[n + i] = items[i]
      BY <2>0, <2>3, <2>4
    <3>4. new.items = list.items \o items /\ new.total = n + m
      BY <2>4, <2>5
    <3> HIDE DEF new
    <3>5. DOMAIN new.items = 1..(n + m)
      BY <3>1, <3>1a, <3>4
    <3> QED
      BY <3>1, <3>1a, <3>2, <3>3, <3>4, <3>5
  <2>7. new \in ItemList
    BY <2>3, <2>4, <2>5, <2>6 DEF ItemList
  <2>8. \A i \in 1..n : list.items[i].type \in before /\ list.items[i].type \in Types
    BY <2>4, ShownTypes
  <2>9. \A i \in 1..(n + m) : i \in 1..n \/ (i - n \in 1..m /\ new.items[i] = items[i - n])
    <3> TAKE i \in 1..(n + m)
    <3>1. CASE i <= n
      BY <3>1, <2>4
    <3>2. CASE i > n
      <4>1. i - n \in 1..m /\ n + (i - n) = i
        BY <3>2, <2>3, <2>4
      <4> QED
        BY <4>1, <2>6
    <3> QED
      BY <3>1, <3>2, <2>4
  <2>10. ASSUME NEW type \in Types, NEW href \in HRefs
         PROVE  Cardinality(Shown(new, type, href)) =
                  IF type \in upto THEN Cardinality(Stored(content[type], href)) ELSE 0
    <3>1. CASE type # t
      <4>1. Shown(new, type, href) = Shown(list, type, href)
        <5>1. \A i \in 1..n : i \in 1..(n + m) /\ new.items[i] = list.items[i]
          BY <2>3, <2>4, <2>6
        <5>2. \A i \in 1..(n + m) : i \in 1..n \/ new.items[i].type = t
          BY <2>3, <2>9
        <5> QED
          BY <2>4, <2>6, <3>1, <5>1, <5>2 DEF Shown
      <4>2. type \in upto <=> type \in before
        BY <1>1, <3>1
      <4> QED
        BY <4>1, <4>2 DEF Shows
    <3>2. CASE type = t
      <4>1. t \in upto
        BY <1>1, <1>3
      <4>2. Shown(new, t, href) = {i \in 1..(n + m) : i - n \in 1..m /\ hrefs[i - n] = href}
        <5>1. \A i \in 1..n : new.items[i].type # t
          BY <1>1, <2>6, <2>8
        <5>2. \A i \in 1..n : i - n \notin 1..m
          BY <2>3, <2>4
        <5>3. \A i \in 1..(n + m) : i - n \in 1..m =>
                new.items[i].type = t /\ new.items[i].href = hrefs[i - n]
          BY <2>3, <2>9, <5>2
        <5> QED
          BY <2>6, <2>9, <5>1, <5>2, <5>3 DEF Shown
      <4>3. PICK from \in Bijection(1..m, 1..m) : \A i \in 1..m : hrefs[i] = links[from[i]].href
        BY <2>0, <2>2, <2>3, SortedHRefs
      <4> DEFINE S == {i \in 1..(n + m) : i - n \in 1..m /\ hrefs[i - n] = href}
                 T == {i \in 1..m : links[i].href = href}
                 F == [i \in S |-> from[i - n]]
      <4>4. F \in Bijection(S, T)
        <5>1. /\ \A i \in 1..m : from[i] \in 1..m
              /\ \A i, j \in 1..m : from[i] = from[j] => i = j
              /\ \A i \in 1..m : \E j \in 1..m : from[j] = i
          BY <4>3 DEF Bijection, Injection, Surjection, IsInjective
        <5>2. F \in [S -> T]
          BY <4>3, <5>1
        <5>3. \A i, j \in S : F[i] = F[j] => i = j
          BY <2>3, <2>4, <5>1
        <5>4. ASSUME NEW i \in T PROVE \E j \in S : F[j] = i
          <6>1. PICK j \in 1..m : from[j] = i
            BY <5>1
          <6>2. n + j \in 1..(n + m) /\ (n + j) - n = j
            BY <2>3, <2>4
          <6>3. n + j \in S
            BY <4>3, <6>1, <6>2
          <6> QED
            BY <6>1, <6>2, <6>3
        <5> HIDE DEF S, T, F
        <5> QED
          BY <5>2, <5>3, <5>4 DEF Bijection, Injection, Surjection, IsInjective, F
      <4>5. IsFiniteSet(S)
        <5>1. IsFiniteSet(1..(n + m))
          BY <2>3, <2>4, FS_Interval
        <5> QED
          BY <5>1, FS_Subset
      <4>6. Stored(links, href) = T
        BY <2>3 DEF Stored
      <4> HIDE DEF S, T, F
      <4>7. Cardinality(T) = Cardinality(S)
        BY <4>4, <4>5, FS_Bijection DEF ExistsBijection
      <4> QED
        BY <2>0, <3>2, <4>1, <4>2, <4>6, <4>7 DEF S
    <3> QED
      BY <3>1, <3>2
  <2>11. ASSUME NEW i \in 1..(n + m), NEW j \in 1..(n + m), i < j
         PROVE  \/ Before(new.items[i].type, new.items[j].type)
                \/ /\ new.items[i].type = new.items[j].type
                   /\ new.items[i].href <= new.items[j].href
    <3>1. CASE j \in 1..n
      <4>1. i \in 1..n
        BY <2>4, <2>11, <3>1
      <4> QED
        BY <2>4, <2>6, <2>11, <3>1, <4>1 DEF Shows
    <3>2. CASE i \in 1..n /\ j - n \in 1..m /\ new.items[j] = items[j - n]
      <4>1. new.items[i].type \in Upto(k - 1) /\ new.items[j].type = t
        BY <2>3, <2>6, <2>8, <3>2
      <4>2. PICK p \in 1..(k-1) : ContentTypes[p] = new.items[i].type
        BY <4>1 DEF Upto
      <4>3. p \in DOMAIN ContentTypes /\ k \in DOMAIN ContentTypes /\ p < k
        BY TypesListed
      <4> QED
        BY <4>1, <4>2, <4>3 DEF Before
    <3>3. CASE /\ i - n \in 1..m /\ new.items[i] = items[i - n]
               /\ j - n \in 1..m /\ new.items[j] = items[j - n]
      <4>1. i - n < j - n
        BY <2>4, <2>11
      <4>2. hrefs[i - n] <= hrefs[j - n]
        BY <2>0, <2>2, <2>3, <3>3, <4>1, SortedHRefs
      <4> QED
        BY <2>3, <3>3, <4>2
    <3> QED
      BY <2>9, <3>1, <3>2, <3>3
  <2>12. ASSUME NEW i \in 1..(n + m)
         PROVE  \E j \in Stored(content[new.items[i].type], new.items[i].href) :
                  content[new.items[i].type][j].title = new.items[i].title
    <3>1. CASE i \in 1..n
      <4>1. \E j \in Stored(content[list.items[i].type], list.items[i].href) :
              content[list.items[i].type][j].title = list.items[i].title
        BY <2>4, <3>1 DEF Shows
      <4>2. new.items[i] = list.items[i]
        BY <2>6, <3>1
      <4> QED
        BY <4>1, <4>2
    <3>2. CASE i - n \in 1..m /\ new.items[i] = items[i - n]
      <4>1. new.items[i].type = t
        BY <2>3, <3>2
      <4>2. \E j \in Stored(links, new.items[i].href) : new.items[i].title = links[j].title
        BY <2>3, <3>2
      <4> QED
        BY <2>0, <4>1, <4>2
    <3> QED
      BY <2>9, <3>1, <3>2
  <2>13. Shows(new, content, upto)
    BY <2>6, <2>10, <2>11, <2>12 DEF Shows
  <2> QED
    BY <2>0, <2>1, <2>7, <2>13
<1> QED
  BY <1>2, <1>3

(* The list that is made of a document shows what was asked for.           *)
LEMMA RequiredShows ==
  ASSUME HRefs \subseteq Nat, LinkLists \subseteq Seq(Link),
         NEW content \in Content, NEW flags \in SUBSET Types, NEW id \in Ids \cup {Blank}
  PROVE  /\ getRequiredItems(flags, content, id) \in ItemList
         /\ Shows(getRequiredItems(flags, content, id), content, flags)
<1> DEFINE Add(list, k) == Added(list, k, content, flags, id)
           Good(list, k) == list \in ItemList /\ Shows(list, content, flags \cap Upto(k))
<1>1. Good(NoItems, 0)
  <2>1. flags \cap Upto(0) = {}
    BY TypesListed
  <2> QED
    BY <2>1, NoItemsShow
<1>2. \A list : \A k \in 1..7 : Good(list, k - 1) => Good(Add(list, k), k)
  <2> SUFFICES ASSUME NEW list, NEW k \in 1..7, Good(list, k - 1)
               PROVE  Good(Add(list, k), k)
    OBVIOUS
  <2> QED
    BY AddedShows
<1>3. getRequiredItems(flags, content, id) =
        Add(Add(Add(Add(Add(Add(Add(NoItems, 1), 2), 3), 4), 5), 6), 7)
  BY DEF getRequiredItems, Added, ContentTypes
<1>4. flags \cap Upto(7) = flags
  BY TypesListed
<1> DEFINE l1 == Add(NoItems, 1)
           l2 == Add(l1, 2)
           l3 == Add(l2, 3)
           l4 == Add(l3, 4)
           l5 == Add(l4, 5)
           l6 == Add(l5, 6)
           l7 == Add(l6, 7)
<1> HIDE DEF Add, Good
<1>5. Good(l1, 1)
  BY <1>1, <1>2
<1> HIDE DEF l1
<1>6. Good(l2, 2)
  BY <1>2, <1>5
<1> HIDE DEF l2
<1>7. Good(l3, 3)
  BY <1>2, <1>6
<1> HIDE DEF l3
<1>8. Good(l4, 4)
  BY <1>2, <1>7
<1> HIDE DEF l4
<1>9. Good(l5, 5)
  BY <1>2, <1>8
<1> HIDE DEF l5
<1>10. Good(l6, 6)
  BY <1>2, <1>9
<1> HIDE DEF l6
<1>11. Good(l7, 7)
  BY <1>2, <1>10
<1> QED
  BY <1>3, <1>4, <1>11 DEF Good, l1, l2, l3, l4, l5, l6

(* What GetContent selects is content, and the same for the types asked.   *)
LEMMA SelectedContent ==
  ASSUME NEW content \in Content, NEW flags
  PROVE  /\ contentSelect(content, flags) \in Content
         /\ \A type \in flags \cap Types :
              contentSelect(content, flags)[type] = content[type]
<1>1. content # Nil /\ <<>> \in LinkLists
  BY ContentAssumption
<1>2. \A type \in Types : content[type] \in LinkLists
  BY DEF Content
<1> QED
  BY <1>1, <1>2 DEF contentSelect, Content

(* The list that is made of what was selected shows the stored content,    *)
(* and counts no links only if there are none.                             *)
LEMMA SelectionShows ==
  ASSUME NEW content \in Content, NEW flags \in SUBSET Types, NEW id \in Ids \cup {Blank}
  PROVE  LET list == getRequiredItems(flags, contentSelect(content, flags), id)
         IN  /\ list \in ItemList
             /\ Shows(list, content, flags)
             /\ list.total = 0 => ~Holds(content, flags)
<1> DEFINE selected == contentSelect(content, flags)
           list == getRequiredItems(flags, selected, id)
<1>1. HRefs \subseteq Nat /\ LinkLists \subseteq Seq(Link)
  BY ContentAssumption
<1>2. selected \in Content /\ \A type \in flags : selected[type] = content[type]
  BY SelectedContent
<1> HIDE DEF selected
<1>3. list \in ItemList /\ Shows(list, selected, flags)
  BY <1>1, <1>2, RequiredShows
<1> HIDE DEF list
<1>4. \A i \in DOMAIN list.items : list.items[i].type \in flags
  BY <1>3, ShownTypes
<1>5. Shows(list, content, flags)
  BY <1>2, <1>3, <1>4 DEF Shows
<1>6. ASSUME list.total = 0, NEW type \in flags, content[type] # <<>>
      PROVE  FALSE
  <2>1. type \in Types /\ content[type] \in Seq(Link)
    BY <1>1 DEF Content
  <2>2. 1 \in DOMAIN content[type] /\ content[type][1] \in Link
    BY <1>6, <2>1
  <2>3. PICK href \in HRefs : content[type][1].href = href
    BY <2>2 DEF Link
  <2>4. list.items \in Seq(Item) /\ Len(list.items) = 0
    BY <1>3, <1>6 DEF ItemList, Shows
  <2>5. Shown(list, type, href) = {}
    BY <2>4 DEF Shown
  <2>6. Cardinality(Stored(content[type], href)) = 0
    <3>1. Cardinality(Shown(list, type, href)) = 0
      BY <2>5, FS_EmptySet
    <3>2. Cardinality(Shown(list, type, href)) = Cardinality(Stored(content[type], href))
      BY <1>5, <1>6, <2>1 DEF Shows
    <3> QED
      BY <3>1, <3>2
  <2>7. 1 \in Stored(content[type], href)
    BY <2>2, <2>3 DEF Stored
  <2>8. IsFiniteSet(Stored(content[type], href))
    <3>1. PICK n \in Nat : DOMAIN content[type] = 1..n
      BY <2>1
    <3>2. Stored(content[type], href) \in SUBSET (1..n)
      BY <3>1 DEF Stored
    <3>3. IsFiniteSet(1..n)
      BY FS_Interval
    <3> QED
      BY <3>2, <3>3, FS_Subset
  <2> QED
    BY <2>6, <2>7, <2>8, FS_EmptySet
<1>7. list.total = 0 => ~Holds(content, flags)
  BY <1>6 DEF Holds
<1> QED
  BY <1>3, <1>5, <1>7 DEF list, selected

-----------------------------------------------------------------------------
(* The requests.                                                           *)

(* An answer with a status and two lists of items ends its request.        *)
LEMMA AnswerTyped ==
  ASSUME TypeOK, NEW c \in Clients, existed' \in [Clients -> BOOLEAN],
         \E status \in Statuses, current \in ItemList, next \in ItemList :
           Answer(c, status, current, next),
         UNCHANGED <<topicIds, contents>>
  PROVE  TypeOK'
<1>1. PICK status \in Statuses, current \in ItemList, next \in ItemList :
        Answer(c, status, current, next)
  OBVIOUS
<1> DEFINE response == [status |-> status, current |-> current, next |-> next]
<1>2. response \in Response
  BY DEF Response
<1>3. answer' = [x \in Clients |-> IF x # c THEN Nil ELSE response]
  BY <1>1 DEF Answer
<1> HIDE DEF response
<1>4. answer' \in [Clients -> Response \cup {Nil}]
  BY <1>2, <1>3
<1>5. /\ pc' = [pc EXCEPT ![c] = "idle"]
      /\ req' = [req EXCEPT ![c] = Nil]
  BY <1>1 DEF Answer
<1> QED
  BY <1>4, <1>5 DEF TypeOK

(* An error is an answer with its status and no items.                     *)
LEMMA ErrorAnswered ==
  ASSUME NEW c, NEW err \in DOMAIN handleError, AnswerError(c, err)
  PROVE  \E status \in Statuses, current \in ItemList, next \in ItemList :
           Answer(c, status, current, next)
<1>1. handleError[err] \in Statuses
  BY DEF handleError, Statuses
<1>2. NoItems \in ItemList
  BY NoItemsShow
<1> QED
  BY <1>1, <1>2 DEF AnswerError

(* What GetContent answers: an error; that there is no content, when what  *)
(* the caller may see has none; or lists that show the content.            *)
LEMMA GetContentAnswers ==
  ASSUME TypeOK, NEW c \in Clients, GetContent(c)
  PROVE  \E r \in Request, d \in ContentDoc \cup {Nil} :
           /\ r = req[c] /\ d = contents[r.id]
           /\ \/ AnswerError(c, "StoreError")
              \/ AnswerError(c, "ErrInternalServer")
              \/ /\ AnswerError(c, "ErrContentNotFound")
                 /\ d # Nil => /\ d.current # Nil => ~Holds(d.current, r.flags)
                               /\ c \in Editors => ~Holds(d.next, r.flags)
              \/ \E current, next \in ItemList :
                   /\ Answer(c, 200, current, next)
                   /\ Shows(current, d.current, r.flags)
                   /\ IF c \in Editors THEN Shows(next, d.next, r.flags)
                                       ELSE next = NoItems
<1>1. PICK r \in Request : r = req[c]
  BY DEF TypeOK, GetContent
<1>2. r.id \in Ids /\ r.flags \in SUBSET Types
  BY DEF Request
<1>3. PICK d \in ContentDoc \cup {Nil} : d = contents[r.id]
  BY <1>2 DEF TypeOK
<1> DEFINE doc == projection(d, r.flags)
           list(content) == getRequiredItems(r.flags, contentSelect(content, r.flags), Blank)
<1>4. doc.id = Blank /\ doc.current = contentSelect(d.current, r.flags)
                     /\ doc.next = contentSelect(d.next, r.flags)
  BY DEF projection
<1>5. ASSUME NEW content \in Content
      PROVE  /\ list(content) \in ItemList /\ Shows(list(content), content, r.flags)
             /\ list(content).total = 0 => ~Holds(content, r.flags)
             /\ contentSelect(content, r.flags) # Nil
  <2>1. contentSelect(content, r.flags) \in Content
    BY SelectedContent
  <2>2. contentSelect(content, r.flags) # Nil
    BY <2>1, ContentAssumption
  <2> QED
    BY <1>2, <2>2, SelectionShows
<1>6. contentSelect(Nil, r.flags) = Nil
  BY DEF contentSelect
<1>7. d # Nil => d.current \in Content \cup {Nil} /\ d.next \in Content \cup {Nil}
  BY <1>3 DEF ContentDoc
<1>8. NoItems \in ItemList
  BY NoItemsShow
<1> HIDE DEF doc, list
<1>9. CASE d = Nil /\ AnswerError(c, "ErrContentNotFound")
  BY <1>1, <1>3, <1>9
<1>10. CASE d # Nil /\ c \notin Editors /\ getContentPublicHandler(c, doc)
  <2>1. CASE d.current = Nil
    <3>1. AnswerError(c, "ErrContentNotFound")
      BY <1>4, <1>6, <1>10, <2>1 DEF getContentPublicHandler
    <3> QED
      BY <1>1, <1>3, <1>10, <2>1, <3>1
  <2>2. CASE d.current \in Content
    <3>1. AnswerPublic(c, list(d.current))
      BY <1>1, <1>4, <1>5, <1>10, <2>2 DEF getContentPublicHandler, list
    <3>2. PICK current \in ItemList :
            /\ current = list(d.current) /\ Shows(current, d.current, r.flags)
            /\ current.total = 0 => ~Holds(d.current, r.flags)
      BY <1>5, <2>2
    <3>3. CASE current.total = 0
      <4>1. AnswerError(c, "ErrContentNotFound")
        BY <3>1, <3>2, <3>3 DEF AnswerPublic
      <4> QED
        BY <1>1, <1>3, <1>10, <3>2, <3>3, <4>1
    <3>4. CASE current.total # 0
      <4>1. Answer(c, 200, current, NoItems)
        BY <3>1, <3>2, <3>4 DEF AnswerPublic
      <4> QED
        BY <1>1, <1>3, <1>8, <1>10, <3>2, <4>1
    <3> QED
      BY <3>3, <3>4
  <2> QED
    BY <1>7, <1>10, <2>1, <2>2
<1>11. CASE d # Nil /\ c \in Editors /\ getContentPrivateHandler(c, doc)
  <2>1. CASE d.current = Nil \/ d.next = Nil
    <3>1. AnswerError(c, "ErrInternalServer")
      BY <1>4, <1>6, <1>11, <2>1 DEF getContentPrivateHandler
    <3> QED
      BY <1>1, <1>3, <3>1
  <2>2. CASE d.current \in Content /\ d.next \in Content
    <3>1. AnswerPrivate(c, list(d.current), list(d.next))
      BY <1>1, <1>4, <1>5, <1>11, <2>2 DEF getContentPrivateHandler, list
    <3>2. PICK current \in ItemList :
            /\ current = list(d.current) /\ Shows(current, d.current, r.flags)
            /\ current.total = 0 => ~Holds(d.current, r.flags)
      BY <1>5, <2>2
    <3>3. PICK next \in ItemList :
            /\ next = list(d.next) /\ Shows(next, d.next, r.flags)
            /\ next.total = 0 => ~Holds(d.next, r.flags)
      BY <1>5, <2>2
    <3>4. CASE current.total = 0 /\ next.total = 0
      <4>1. AnswerError(c, "ErrContentNotFound")
        BY <3>1, <3>2, <3>3, <3>4 DEF AnswerPrivate
      <4> QED
        BY <1>1, <1>3, <3>2, <3>3, <3>4, <4>1
    <3>5. CASE ~(current.total = 0 /\ next.total = 0)
      <4>1. Answer(c, 200, current, next)
        BY <3>1, <3>2, <3>3, <3>5 DEF AnswerPrivate
      <4> QED
        BY <1>1, <1>3, <1>11, <3>2, <3>3, <4>1
    <3> QED
      BY <3>4, <3>5
  <2> QED
    BY <1>7, <1>11, <2>1, <2>2
<1>12. CASE AnswerError(c, "StoreError")
  BY <1>1, <1>3, <1>12
<1> QED
  BY <1>1, <1>3, <1>9, <1>10, <1>11, <1>12 DEF GetContent, doc

(* The types that a query asks for are some of the seven.                  *)
LEMMA QueryTypes ==
  \A query \in Queries : getContentTypeParameter(query) \in SUBSET Types
<1>1. Types = {"spotlight", "articles", "bulletins", "methodologies",
               "methodologyarticles", "staticdatasets", "timeseries"}
  BY DEF Types, ContentTypes
<1>2. \A query \in DOMAIN querySets : querySets[query] \in SUBSET Types
  BY <1>1 DEF querySets
<1> QED
  BY <1>2 DEF getContentTypeParameter

(* A request is accepted when it asks for some type.                       *)
LEMMA HandlerAnswers ==
  ASSUME NEW c \in Clients, GetContentHandler(c)
  PROVE  \/ AnswerError(c, "ErrContentUnrecognisedParameter")
         \/ \E r \in Request : /\ pc' = [pc EXCEPT ![c] = "CheckTopicExists"]
                               /\ req' = [req EXCEPT ![c] = r]
                               /\ Silent
<1>1. PICK id \in Ids, query \in Queries :
        Accept(c, id, getContentTypeParameter(query))
  BY DEF GetContentHandler
<1> DEFINE flags == getContentTypeParameter(query)
<1>2. flags \in SUBSET Types
  BY QueryTypes
<1> HIDE DEF flags
<1>3. CASE flags = {}
  BY <1>1, <1>3 DEF Accept, flags
<1>4. CASE flags # {}
  <2>1. [id |-> id, flags |-> flags] \in Request
    BY <1>2, <1>4 DEF Request
  <2> QED
    BY <1>1, <1>4, <2>1 DEF Accept, flags
<1> QED
  BY <1>3, <1>4

(* The state is well formed at the start, and stays so.                    *)
LEMMA InitTyped == Init => TypeOK
<1> SUFFICES ASSUME Init PROVE TypeOK
  OBVIOUS
<1>1. Documents \subseteq ContentDoc
  BY ContentAssumption
<1> QED
  BY <1>1 DEF Init, TypeOK

LEMMA StepTyped == TypeOK /\ [Next]_vars => TypeOK'
<1> SUFFICES ASSUME TypeOK, [Next]_vars PROVE TypeOK'
  OBVIOUS
<1>5. ASSUME UNCHANGED vars PROVE TypeOK'
  BY <1>5 DEF TypeOK, vars
<1> SUFFICES ASSUME Next PROVE TypeOK'
  BY <1>5
<1>6. existed' \in [Clients -> BOOLEAN]
  <2>1. \A c \in Clients : existed'[c] \in BOOLEAN
    BY DEF Next, Observe, TypeOK
  <2>2. existed' = [c \in Clients |-> existed'[c]]
    BY DEF Next, Observe
  <2> QED
    BY <2>1, <2>2
<1>1. ASSUME NEW c \in Clients, GetContentHandler(c) PROVE TypeOK'
  <2>1. UNCHANGED <<topicIds, contents>>
    BY <1>1 DEF GetContentHandler
  <2>2. CASE AnswerError(c, "ErrContentUnrecognisedParameter")
    <3>1. "ErrContentUnrecognisedParameter" \in DOMAIN handleError
      BY DEF handleError
    <3> QED
      BY <2>1, <2>2, <3>1, ErrorAnswered, AnswerTyped, <1>6
  <2>3. ASSUME NEW r \in Request, pc' = [pc EXCEPT ![c] = "CheckTopicExists"],
               req' = [req EXCEPT ![c] = r], Silent
        PROVE  TypeOK'
    <3>1. r # Nil
      BY ContentAssumption
    <3> QED
      BY <2>1, <2>3, <3>1, <1>6 DEF TypeOK, Silent
  <2> QED
    BY <1>1, <2>2, <2>3, HandlerAnswers
<1>2. ASSUME NEW c \in Clients, CheckTopicExists(c) PROVE TypeOK'
  <2>1. UNCHANGED <<topicIds, contents>>
    BY <1>2 DEF CheckTopicExists
  <2>2. CASE AnswerError(c, "ErrTopicNotFound") \/ AnswerError(c, "StoreError")
    <3>1. {"ErrTopicNotFound", "StoreError"} \subseteq DOMAIN handleError
      BY DEF handleError
    <3> QED
      BY <2>1, <2>2, <3>1, ErrorAnswered, AnswerTyped, <1>6
  <2>3. CASE pc[c] = "CheckTopicExists" /\ pc' = [pc EXCEPT ![c] = "GetContent"]
             /\ Silent /\ UNCHANGED req
    BY <2>1, <2>3, <1>6 DEF TypeOK, Silent
  <2> QED
    BY <1>2, <2>2, <2>3 DEF CheckTopicExists
<1>3. ASSUME NEW c \in Clients, GetContent(c) PROVE TypeOK'
  <2>1. UNCHANGED <<topicIds, contents>>
    BY <1>3 DEF GetContent
  <2>2. \/ \E err \in DOMAIN handleError : AnswerError(c, err)
        \/ \E current, next \in ItemList : Answer(c, 200, current, next)
    <3>1. {"StoreError", "ErrInternalServer", "ErrContentNotFound"} \subseteq DOMAIN handleError
      BY DEF handleError
    <3> QED
      BY <1>3, <3>1, GetContentAnswers
  <2>3. \E status \in Statuses, current, next \in ItemList : Answer(c, status, current, next)
    BY <2>2, ErrorAnswered DEF Statuses
  <2> QED
    BY <2>1, <2>3, AnswerTyped, <1>6
<1>4. ASSUME Operator PROVE TypeOK'
  <2>1. [current |-> NoLinks, next |-> NoLinks] \in ContentDoc
    BY ContentAssumption DEF NoLinks, ContentDoc, Content
  <2>2. topicIds' \subseteq Ids /\ UNCHANGED <<pc, req>> /\ Silent
    BY <1>4 DEF Operator, TypeOK
  <2>3. contents' \in [Ids -> ContentDoc \cup {Nil}]
    BY <1>4, <2>1 DEF Operator, TypeOK
  <2> QED
    BY <2>2, <2>3, <1>6 DEF TypeOK, Silent
<1> QED
  BY <1>1, <1>2, <1>3, <1>4 DEF Next

(* Type correctness of the content endpoints.                              *)
THEOREM ContentTyped == Spec => []TypeOK
<1>1. Init => TypeOK
  BY InitTyped
<1>2. TypeOK /\ [Next]_vars => TypeOK'
  BY StepTyped
<1> QED
  BY <1>1, <1>2, PTL DEF Spec

-----------------------------------------------------------------------------
(* What is answered.                                                       *)

(* An error is answered with its status, which is never 200, to its client *)
LEMMA ErrorStatus ==
  ASSUME NEW c, NEW err \in DOMAIN handleError, AnswerError(c, err), NEW x \in Clients,
         answer'[x] # Nil
  PROVE  x = c /\ answer'[x].status = handleError[err] /\ answer'[x].status # 200
<1>1. handleError[err] # 200
  BY DEF handleError
<1> QED
  BY <1>1 DEF AnswerError, Answer

(* The steps before GetContent answer errors only.                         *)
LEMMA EarlierAnswers ==
  ASSUME NEW c \in Clients, GetContentHandler(c) \/ CheckTopicExists(c), NEW x \in Clients,
         answer'[x] # Nil
  PROVE  answer'[x].status # 200 /\ x = c
<1>1. \/ Silent
      \/ AnswerError(c, "ErrContentUnrecognisedParameter")
      \/ AnswerError(c, "ErrTopicNotFound")
      \/ AnswerError(c, "StoreError")
  BY HandlerAnswers DEF CheckTopicExists
<1>2. {"ErrContentUnrecognisedParameter", "ErrTopicNotFound", "StoreError"}
        \subseteq DOMAIN handleError
  BY DEF handleError
<1>3. ~ Silent
  BY DEF Silent
<1> QED
  BY <1>1, <1>2, <1>3, ErrorStatus

(* Every content answer shows what is stored.                              *)
THEOREM ContentAnswersComplete == Spec => ContentIsComplete
<1>1. TypeOK /\ [Next]_vars =>
        [ \A c \in Clients : Answered(c, 200) =>
            LET doc == contents[req[c].id]
            IN  /\ Shows(answer'[c].current, doc.current, req[c].flags)
                /\ IF c \in Editors THEN Shows(answer'[c].next, doc.next, req[c].flags)
                                    ELSE answer'[c].next = NoItems ]_vars
  <2> SUFFICES ASSUME TypeOK, Next, NEW x \in Clients, Answered(x, 200)
               PROVE  LET doc == contents[req[x].id]
                      IN  /\ Shows(answer'[x].current, doc.current, req[x].flags)
                          /\ IF x \in Editors
                             THEN Shows(answer'[x].next, doc.next, req[x].flags)
                             ELSE answer'[x].next = NoItems
    OBVIOUS
  <2>1. answer'[x] # Nil /\ answer'[x].status = 200
    BY DEF Answered
  <2>2. PICK c \in Clients : GetContent(c)
    <3>1. ~ Operator
      BY <2>1 DEF Operator, Silent
    <3> QED
      BY <2>1, <3>1, EarlierAnswers DEF Next
  <2>3. PICK r \in Request, d \in ContentDoc \cup {Nil} :
          /\ r = req[c] /\ d = contents[r.id]
          /\ \/ AnswerError(c, "StoreError")
             \/ AnswerError(c, "ErrInternalServer")
             \/ AnswerError(c, "ErrContentNotFound")
             \/ \E current, next \in ItemList :
                  /\ Answer(c, 200, current, next)
                  /\ Shows(current, d.current, r.flags)
                  /\ IF c \in Editors THEN Shows(next, d.next, r.flags)
                                      ELSE next = NoItems
    BY <2>2, GetContentAnswers
  <2>4. {"StoreError", "ErrInternalServer", "ErrContentNotFound"} \subseteq DOMAIN handleError
    BY DEF handleError
  <2>5. PICK current \in ItemList, next \in ItemList :
          /\ Answer(c, 200, current, next)
          /\ Shows(current, d.current, r.flags)
          /\ IF c \in Editors THEN Shows(next, d.next, r.flags) ELSE next = NoItems
    BY <2>1, <2>3, <2>4, ErrorStatus
  <2>6. x = c /\ answer'[x] = [status |-> 200, current |-> current, next |-> next]
    BY <2>1, <2>5 DEF Answer
  <2>7. answer'[x].current = current /\ answer'[x].next = next
    BY <2>6
  <2> QED
    BY <2>3, <2>5, <2>6, <2>7
<1> QED
  BY <1>1, ContentTyped, PTL DEF Spec, ContentIsComplete

(* Not found means that there is nothing to be found.                      *)
THEOREM NotFoundMeansNone == Spec => NotFoundHasNone
<1>1. TypeOK /\ [Next]_vars =>
        [ \A c \in Clients :
            /\ Answered(c, 404) /\ pc[c] = "GetContent"
            /\ contents[req[c].id] # Nil
            => LET doc == contents[req[c].id]
               IN  /\ doc.current # Nil => ~Holds(doc.current, req[c].flags)
                   /\ c \in Editors => ~Holds(doc.next, req[c].flags) ]_vars
  <2> SUFFICES ASSUME TypeOK, Next, NEW x \in Clients, Answered(x, 404),
                      pc[x] = "GetContent", contents[req[x].id] # Nil
               PROVE  LET doc == contents[req[x].id]
                      IN  /\ doc.current # Nil => ~Holds(doc.current, req[x].flags)
                          /\ x \in Editors => ~Holds(doc.next, req[x].flags)
    OBVIOUS
  <2>1. answer'[x] # Nil /\ answer'[x].status = 404
    BY DEF Answered
  <2>2. PICK c \in Clients : GetContent(c)
    <3>1. ~ Operator
      BY <2>1 DEF Operator, Silent
    <3>2. ASSUME NEW c \in Clients, GetContentHandler(c) \/ CheckTopicExists(c)
          PROVE  FALSE
      <4>1. x = c
        BY <2>1, <3>2, EarlierAnswers
      <4> QED
        BY <3>2, <4>1 DEF GetContentHandler, CheckTopicExists
    <3> QED
      BY <3>1, <3>2 DEF Next
  <2>3. PICK r \in Request, d \in ContentDoc \cup {Nil} :
          /\ r = req[c] /\ d = contents[r.id]
          /\ \/ AnswerError(c, "StoreError")
             \/ AnswerError(c, "ErrInternalServer")
             \/ /\ AnswerError(c, "ErrContentNotFound")
                /\ d # Nil => /\ d.current # Nil => ~Holds(d.current, r.flags)
                              /\ c \in Editors => ~Holds(d.next, r.flags)
             \/ \E current, next \in ItemList : Answer(c, 200, current, next)
    BY <2>2, GetContentAnswers
  <2>4. {"StoreError", "ErrInternalServer", "ErrContentNotFound"} \subseteq DOMAIN handleError
    BY DEF handleError
  <2>5. handleError["StoreError"] = 500 /\ handleError["ErrInternalServer"] = 500
    BY DEF handleError
  <2>6. ~ \E current, next \in ItemList : Answer(c, 200, current, next)
    BY <2>1 DEF Answer
  <2>7. AnswerError(c, "ErrContentNotFound")
    BY <2>1, <2>3, <2>4, <2>5, <2>6, ErrorStatus
  <2>8. x = c
    BY <2>1, <2>4, <2>7, ErrorStatus
  <2>9. d # Nil => /\ d.current # Nil => ~Holds(d.current, r.flags)
                   /\ c \in Editors => ~Holds(d.next, r.flags)
    BY <2>1, <2>3, <2>4, <2>5, <2>6, ErrorStatus
  <2> QED
    BY <2>3, <2>8, <2>9
<1> QED
  BY <1>1, ContentTyped, PTL DEF Spec, NotFoundHasNone

-----------------------------------------------------------------------------
(* A topic was there.  The invariant: a request that has passed the check  *)
(* of its topic has seen it, and that is not forgotten.                    *)
CheckedExisted == \A c \in Clients : pc[c] = "GetContent" => existed[c]

(* An answer takes its request's slot back to idle.                        *)
LEMMA CheckStep ==
  ASSUME TypeOK, CheckedExisted, Next, NEW x \in Clients, pc'[x] = "GetContent"
  PROVE  existed'[x]
<1> USE DEF TypeOK, CheckedExisted
<1>1. CASE Operator
  <2>1. pc[x] = "GetContent" /\ req'[x] = req[x] /\ req[x] # Nil
    BY <1>1 DEF Operator
  <2> QED
    BY <2>1 DEF Next, Observe
<1>2. ASSUME NEW c \in Clients,
             \/ \E err : AnswerError(c, err)
             \/ \E status, current, next : Answer(c, status, current, next)
      PROVE  existed'[x]
  <2>1. c # x /\ pc[x] = "GetContent" /\ req'[x] = req[x] /\ req[x] # Nil
    BY <1>2 DEF AnswerError, Answer
  <2> QED
    BY <2>1 DEF Next, Observe
<1>3. ASSUME NEW c \in Clients, GetContentHandler(c)
      PROVE  existed'[x]
  <2>1. ASSUME NEW r \in Request, pc' = [pc EXCEPT ![c] = "CheckTopicExists"],
               req' = [req EXCEPT ![c] = r]
        PROVE  existed'[x]
    <3>1. pc[x] = "GetContent" /\ req'[x] = req[x] /\ req[x] # Nil
      BY <2>1
    <3> QED
      BY <3>1 DEF Next, Observe
  <2> QED
    BY <1>2, <1>3, <2>1, HandlerAnswers
<1>4. ASSUME NEW c \in Clients, CheckTopicExists(c)
      PROVE  existed'[x]
  <2>1. CASE /\ req[c].id \in topicIds
             /\ pc' = [pc EXCEPT ![c] = "GetContent"]
             /\ UNCHANGED req
    <3>1. req'[x] # Nil /\ topicIds' = topicIds
      BY <1>4, <2>1 DEF CheckTopicExists
    <3>2. CASE c = x
      BY <2>1, <3>1, <3>2 DEF Next, Observe
    <3>3. CASE c # x
      <4>1. pc[x] = "GetContent" /\ req'[x] = req[x]
        BY <2>1, <3>3
      <4> QED
        BY <3>1, <4>1 DEF Next, Observe
    <3> QED
      BY <3>2, <3>3
  <2> QED
    BY <1>2, <1>4, <2>1 DEF CheckTopicExists
<1>5. ASSUME NEW c \in Clients, GetContent(c)
      PROVE  existed'[x]
  BY <1>2, <1>5, GetContentAnswers
<1> QED
  BY <1>1, <1>3, <1>4, <1>5 DEF Next

(* Content is answered 200 only by a request whose topic had a document    *)
(* while it was handled, for all of topics, documents, clients and wipes.  *)
THEOREM KnownTopics == Spec => ContentOfKnownTopic
<1>1. Init => CheckedExisted
  BY DEF Init, CheckedExisted
<1>2. TypeOK /\ CheckedExisted /\ [Next]_vars => CheckedExisted'
  BY CheckStep DEF CheckedExisted, vars
<1>3. TypeOK /\ CheckedExisted /\ [Next]_vars =>
        [\A c \in Clients : Answered(c, 200) => existed[c]]_vars
  <2> SUFFICES ASSUME TypeOK, CheckedExisted, Next, NEW x \in Clients, Answered(x, 200)
               PROVE  existed[x]
    OBVIOUS
  <2>1. answer'[x] # Nil /\ answer'[x].status = 200
    BY DEF Answered
  <2>2. PICK c \in Clients : GetContentHandler(c) \/ CheckTopicExists(c) \/ GetContent(c)
    BY <2>1 DEF Next, Operator, Silent
  <2>3. GetContent(c)
    BY <2>1, <2>2, EarlierAnswers
  <2>4. c = x
    BY <2>1, <2>3, GetContentAnswers DEF AnswerError, Answer
  <2> QED
    BY <2>3, <2>4 DEF GetContent, CheckedExisted
<1> QED
  BY <1>1, <1>2, <1>3, ContentTyped, PTL DEF Spec, ContentOfKnownTopic

=============================================================================
