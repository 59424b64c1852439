----------------------- MODULE ProductSnapshotsProofs -----------------------
(***************************************************************************)
(* Proofs about ProductSnapshots: types, the order in which snapshots are  *)
(* applied and the visibility of products, for any platforms, streams,     *)
(* products and pages, and whatever had come before the migration.         *)
(***************************************************************************)
EXTENDS ProductSnapshots, FiniteSetTheorems, WellFoundedInduction, TLAPS

----------------------------------------------------------------------------
(* The largest of some numbers *)

\* A nonempty set of numbers up to N has a largest one.
LEMMA LargestExists ==
    ASSUME NEW N \in Nat, NEW S \in SUBSET (1..N), S # {}
    PROVE  \E n \in S : \A m \in S : m <= n
<1> DEFINE Above(m) == {k \in S : k > m}
           T == {Above(m) : m \in S}
           R == StrictSubsetOrdering(S)
<1>1. IsFiniteSet(S)
  <2>1. 1 \in Int /\ N \in Int
    OBVIOUS
  <2>2. IsFiniteSet(1..N)
    BY <2>1, FS_Interval
  <2>3. S \in SUBSET (1..N)
    OBVIOUS
  <2> QED BY ONLY <2>2, <2>3, FS_Subset
<1>2. IsWellFoundedOn(R, SUBSET S)
  BY <1>1, FS_StrictSubsetOrderingWellFounded, FS_FiniteSubsetsOfFinite
<1>3. T \subseteq SUBSET S /\ T # {}
  OBVIOUS
<1>4. PICK a \in T : \A b \in T : <<b, a>> \notin R
  <2> HIDE DEF R, T
  <2> QED BY <1>2, <1>3, WFMin
<1>5. PICK n \in S : a = Above(n)
  OBVIOUS
<1>6. ASSUME NEW m \in S, ~(m <= n) PROVE FALSE
  <2>1. m \in Nat /\ n \in Nat /\ m > n
    BY <1>6
  <2>2. m \in Above(n) /\ m \notin Above(m)
    BY <2>1
  <2>3. Above(m) \subseteq Above(n)
    <3>1. \A k \in S : k \in Nat
      OBVIOUS
    <3>2. \A k \in S : k > m => k > n
      BY <2>1, <3>1
    <3> QED BY <3>2
  <2>4. <<Above(m), Above(n)>> \in R
    BY <2>2, <2>3 DEF StrictSubsetOrdering
  <2> QED BY <1>4, <1>5, <2>4
<1> QED BY <1>6

\* What Newest picks among the numbers of snapshots.
LEMMA NewestIsLargest ==
    ASSUME NEW N \in Nat, NEW S \in SUBSET (1..N)
    PROVE  /\ S = {} => Newest(S) = 0
           /\ S # {} => Newest(S) \in S
           /\ \A m \in S : m <= Newest(S)
<1>1. CASE S = {}
  BY <1>1 DEF Newest
<1>2. CASE S # {}
  <2>1. \E n \in S : \A m \in S : m <= n
    BY <1>2, LargestExists
  <2>2. Newest(S) = CHOOSE n \in S : \A m \in S : m <= n
    BY <1>2 DEF Newest
  <2> QED BY <1>2, <2>1, <2>2
<1> QED BY <1>1, <1>2

----------------------------------------------------------------------------
(* Pages and what they list *)

\* The numbers of snapshots and pages, and the pages of the log.
LEMMA PagesAreNumbered ==
    ASSUME NEW s \in Streams
    PROVE  /\ MaxSnapshots[s] \in Nat /\ PageCount[s] \in Nat
           /\ Snapshots(s) = 1..MaxSnapshots[s]
           /\ Snapshots(s) \subseteq Nat \ {0}
           /\ Pages(s) \subseteq Nat
           /\ 1 \in Pages(s) /\ PageCount[s] \in Pages(s)
           /\ s \notin Paged => Pages(s) = {1}
           /\ \A n \in Snapshots(s), p \in Pages(s) : <<s, n, p>> \in AllPages
<1>1. /\ MaxSnapshots[s] \in Nat \ {0} /\ PageCount[s] \in Nat \ {0}
      /\ s \notin Paged => PageCount[s] = 1
  BY SnapshotConstants
<1>2. \A n \in Snapshots(s), p \in Pages(s) : <<s, n, p>> \in PagesOf(s)
  BY DEF PagesOf
<1> QED BY <1>1, <1>2 DEF Snapshots, Pages, AllPages

NoRows == [x \in Products |-> "none"]

\* A log of snapshots that are well formed: a product stands on one page of a
\* snapshot, and the last page says so.
LogOK(lg) ==
    /\ lg \in [AllPages -> Content \cup {NotReceived}]
    /\ \A s \in Streams : \A n \in Snapshots(s) :
        /\ \A x \in Products : \A p, q \in Pages(s) :
               Lists(lg, s, n, p, x) /\ Lists(lg, s, n, q, x) => p = q
        /\ s \in Paged => \A p \in Pages(s) :
               lg[<<s, n, p>>].come =>
                   lg[<<s, n, p>>].complete = (p = PageCount[s])

\* The entry of a page.
LEMMA PageEntry ==
    ASSUME NEW lg, lg \in [AllPages -> Content \cup {NotReceived}],
           NEW s \in Streams, NEW n \in Snapshots(s), NEW p \in Pages(s)
    PROVE  /\ lg[<<s, n, p>>] \in Content \cup {NotReceived}
           /\ lg[<<s, n, p>>].come \in BOOLEAN
           /\ lg[<<s, n, p>>].complete \in BOOLEAN
           /\ lg[<<s, n, p>>].items \in Listing
           /\ ~lg[<<s, n, p>>].come => lg[<<s, n, p>>] = NotReceived
           /\ \A x \in Products : Lists(lg, s, n, p, x) => lg[<<s, n, p>>].come
<1>1. lg[<<s, n, p>>] \in Content \cup {NotReceived}
  BY PagesAreNumbered
<1>2. CASE lg[<<s, n, p>>] \in Content
  BY <1>2 DEF Content
<1>3. CASE lg[<<s, n, p>>] = NotReceived
  BY <1>3 DEF NotReceived, Listing, Lists
<1> QED BY <1>1, <1>2, <1>3

\* A merged snapshot says of a product what its page says.
LEMMA MergedFollowsPages ==
    ASSUME NEW lg, LogOK(lg), NEW s \in Streams, NEW n \in Snapshots(s)
    PROVE  /\ Merged(lg, s, n) \in [Products -> {"none", "inactive", "active"}]
           /\ \A x \in Products, p \in Pages(s) :
                  Lists(lg, s, n, p, x) =>
                      Merged(lg, s, n)[x] = lg[<<s, n, p>>].items[x]
           /\ \A x \in Products :
                  (\A p \in Pages(s) : ~Lists(lg, s, n, p, x)) =>
                      Merged(lg, s, n)[x] = "none"
<1>1. ASSUME NEW x \in Products, NEW p \in Pages(s), Lists(lg, s, n, p, x)
      PROVE  /\ Merged(lg, s, n)[x] = lg[<<s, n, p>>].items[x]
             /\ lg[<<s, n, p>>].items[x] \in {"inactive", "active"}
  <2> DEFINE q == CHOOSE q \in Pages(s) : Lists(lg, s, n, q, x)
  <2>1. q \in Pages(s) /\ Lists(lg, s, n, q, x)
    BY <1>1
  <2>2. q = p
    BY <1>1, <2>1 DEF LogOK
  <2>3. Merged(lg, s, n)[x] = lg[<<s, n, q>>].items[x]
    BY <1>1 DEF Merged
  <2>4. lg[<<s, n, p>>].items \in Listing
    BY PageEntry DEF LogOK
  <2> HIDE DEF q
  <2> QED BY <1>1, <2>2, <2>3, <2>4 DEF Listing, Lists
<1>2. ASSUME NEW x \in Products, \A p \in Pages(s) : ~Lists(lg, s, n, p, x)
      PROVE  Merged(lg, s, n)[x] = "none"
  BY <1>2 DEF Merged
<1>3. Merged(lg, s, n) = [x \in Products |-> Merged(lg, s, n)[x]]
  BY DEF Merged
<1>4. \A x \in Products : Merged(lg, s, n)[x] \in {"none", "inactive", "active"}
  BY <1>1, <1>2
<1>5. Merged(lg, s, n) \in [Products -> {"none", "inactive", "active"}]
  <2> DEFINE f == Merged(lg, s, n)
  <2>1. /\ f = [x \in Products |-> f[x]]
        /\ \A x \in Products : f[x] \in {"none", "inactive", "active"}
    BY <1>3, <1>4
  <2> HIDE DEF f
  <2>2. f \in [Products -> {"none", "inactive", "active"}]
    BY <2>1
  <2> QED BY <2>2 DEF f
<1> QED BY <1>1, <1>2, <1>5

\* Nothing is lost of a snapshot that was read back as a whole.
LEMMA NothingLost ==
    ASSUME NEW lg, NEW s, NEW n
    PROVE  Without(Merged(lg, s, n), {}) = Merged(lg, s, n)
<1> DEFINE f == Merged(lg, s, n)
<1>1. f = [x \in Products |-> f[x]]
  BY DEF Merged
<1> HIDE DEF f
<1>2. Without(f, {}) = [x \in Products |-> f[x]]
  BY DEF Without
<1>3. Without(f, {}) = f
  BY <1>1, <1>2
<1> QED BY <1>3 DEF f

\* Logs that agree on a snapshot merge it to the same.
LEMMA MergedDependsOnItsPages ==
    ASSUME NEW lg, LogOK(lg), NEW new, LogOK(new),
           NEW s \in Streams, NEW n \in Snapshots(s),
           \A p \in Pages(s) : new[<<s, n, p>>] = lg[<<s, n, p>>]
    PROVE  Merged(new, s, n) = Merged(lg, s, n)
<1>1. \A x \in Products, p \in Pages(s) :
          Lists(new, s, n, p, x) <=> Lists(lg, s, n, p, x)
  BY DEF Lists
<1>2. ASSUME NEW x \in Products
      PROVE  Merged(new, s, n)[x] = Merged(lg, s, n)[x]
  <2>1. CASE \E p \in Pages(s) : Lists(lg, s, n, p, x)
    <3>1. PICK p \in Pages(s) : Lists(lg, s, n, p, x)
      BY <2>1
    <3>2. Lists(new, s, n, p, x)
      BY <1>1, <3>1
    <3>3. Merged(lg, s, n)[x] = lg[<<s, n, p>>].items[x]
      BY <3>1, MergedFollowsPages
    <3>4. Merged(new, s, n)[x] = new[<<s, n, p>>].items[x]
      BY <3>2, MergedFollowsPages
    <3> QED BY <3>3, <3>4
  <2>2. CASE \A p \in Pages(s) : ~Lists(lg, s, n, p, x)
    BY <2>2, <1>1, MergedFollowsPages
  <2> QED BY <2>1, <2>2
<1> QED BY <1>2, MergedFollowsPages

----------------------------------------------------------------------------
(* The row of one stream *)

\* What is so of a stream's row, whose latest and applied snapshots are l and
\* a, whose recorded pages are S and whose memberships are m, but for those of
\* the products in X, if the log is lg and nothing is asked of the pages in ex.
StreamOK(lg, s, l, a, S, m, X, ex) ==
    /\ l \in Snapshots(s) \cup {0}
    /\ a \in Snapshots(s) \cup {0}
    /\ S \subseteq Pages(s)
    /\ l = 0 => a = 0 /\ S = {}
    /\ a = 0 => m = NoRows /\ X = {}
    /\ a # 0 => Complete(lg, s, a) /\ m = Without(Merged(lg, s, a), X)
    /\ l # 0 => Received(lg, s, l) # {}
    /\ \A n \in Snapshots(s), p \in Pages(s) :
           lg[<<s, n, p>>].come /\ <<s, n, p>> \notin ex =>
               l # 0 /\ (s \in Paged => n <= l)
    /\ s \in Paged =>
           /\ a <= l
           /\ l # 0 =>
               /\ S \subseteq Received(lg, s, l)
               /\ \A p \in Pages(s) :
                      lg[<<s, l, p>>].come /\ <<s, l, p>> \notin ex => p \in S
               /\ (\A p \in Pages(s) :
                      lg[<<s, l, p>>].come /\ <<s, l, p>> \notin ex) => a = l

\* A new page adds to the log and is the only change of it.
Arrives(lg, new, s, n, p, c) ==
    /\ ~lg[<<s, n, p>>].come
    /\ c \in Content
    /\ MayCome(lg, s, n, p, c)
    /\ new = [lg EXCEPT ![<<s, n, p>>] = c]

LEMMA ArrivalIsWellFormed ==
    ASSUME NEW lg, LogOK(lg), NEW new, NEW c,
           NEW s \in Streams, NEW n \in Snapshots(s), NEW p \in Pages(s),
           Arrives(lg, new, s, n, p, c)
    PROVE  LogOK(new)
<1>1. new \in [AllPages -> Content \cup {NotReceived}]
  BY DEF LogOK, Arrives
<1>2. new[<<s, n, p>>] = c /\ c.come /\ c.items \in Listing
  BY PagesAreNumbered DEF LogOK, Arrives, Content
<1>3. \A t \in Streams : \A m \in Snapshots(t), q \in Pages(t) :
          <<t, m, q>> # <<s, n, p>> => new[<<t, m, q>>] = lg[<<t, m, q>>]
  BY PagesAreNumbered DEF LogOK, Arrives
<1>4. ASSUME NEW t \in Streams, NEW m \in Snapshots(t), NEW x \in Products,
             NEW q1 \in Pages(t), NEW q2 \in Pages(t),
             Lists(new, t, m, q1, x), Lists(new, t, m, q2, x)
      PROVE  q1 = q2
  <2>1. CASE <<t, m, q1>> = <<s, n, p>> /\ <<t, m, q2>> # <<s, n, p>>
    <3>1. t = s /\ m = n /\ Lists(lg, s, n, q2, x) /\ c.items[x] # "absent"
      BY <2>1, <1>2, <1>3, <1>4 DEF Lists
    <3> QED BY <3>1 DEF Arrives, MayCome
  <2>2. CASE <<t, m, q2>> = <<s, n, p>> /\ <<t, m, q1>> # <<s, n, p>>
    <3>1. t = s /\ m = n /\ Lists(lg, s, n, q1, x) /\ c.items[x] # "absent"
      BY <2>2, <1>2, <1>3, <1>4 DEF Lists
    <3> QED BY <3>1 DEF Arrives, MayCome
  <2>3. CASE <<t, m, q1>> # <<s, n, p>> /\ <<t, m, q2>> # <<s, n, p>>
    <3>1. Lists(lg, t, m, q1, x) /\ Lists(lg, t, m, q2, x)
      BY <2>3, <1>3, <1>4 DEF Lists
    <3> QED BY <3>1 DEF LogOK
  <2> QED BY <2>1, <2>2, <2>3
<1>5. ASSUME NEW t \in Streams, NEW m \in Snapshots(t), t \in Paged,
             NEW q \in Pages(t), new[<<t, m, q>>].come
      PROVE  new[<<t, m, q>>].complete = (q = PageCount[t])
  <2>1. CASE <<t, m, q>> = <<s, n, p>>
    BY <2>1, <1>2, <1>5 DEF Arrives, MayCome
  <2>2. CASE <<t, m, q>> # <<s, n, p>>
    BY <2>2, <1>3, <1>5 DEF LogOK
  <2> QED BY <2>1, <2>2
<1> QED BY <1>1, <1>2, <1>3, <1>4, <1>5 DEF LogOK

\* A page that arrives disturbs no row as long as nothing is asked of it: the
\* applied snapshot has all its pages already.
LEMMA ArrivalKeepsTheRows ==
    ASSUME NEW lg, LogOK(lg), NEW new, NEW c,
           NEW s \in Streams, NEW n \in Snapshots(s), NEW p \in Pages(s),
           Arrives(lg, new, s, n, p, c),
           NEW t \in Streams, NEW l, NEW a, NEW S, NEW m, NEW X, NEW ex,
           StreamOK(lg, t, l, a, S, m, X, ex)
    PROVE  StreamOK(new, t, l, a, S, m, X, ex \cup {<<s, n, p>>})
<1>1. /\ LogOK(new)
      /\ new[<<s, n, p>>].come
      /\ \A k \in Snapshots(t), q \in Pages(t) :
             <<t, k, q>> # <<s, n, p>> => new[<<t, k, q>>] = lg[<<t, k, q>>]
  <2>1. LogOK(new)
    BY ArrivalIsWellFormed
  <2>3. new[<<s, n, p>>] = c
    BY PagesAreNumbered DEF LogOK, Arrives
  <2>4. c.come
    BY DEF Arrives, Content
  <2>2. \A u \in Streams : \A k \in Snapshots(u), q \in Pages(u) :
            <<u, k, q>> # <<s, n, p>> => new[<<u, k, q>>] = lg[<<u, k, q>>]
    BY PagesAreNumbered DEF LogOK, Arrives
  <2> QED BY <2>1, <2>2, <2>3, <2>4
<1>2. \A k \in Snapshots(t), q \in Pages(t) :
          /\ lg[<<t, k, q>>].come => new[<<t, k, q>>] = lg[<<t, k, q>>]
          /\ new[<<t, k, q>>].come /\ <<t, k, q>> \notin ex \cup {<<s, n, p>>} =>
                 lg[<<t, k, q>>].come /\ <<t, k, q>> \notin ex
  BY <1>1 DEF Arrives
<1>3. \A k \in Snapshots(t) : Received(lg, t, k) \subseteq Received(new, t, k)
  BY <1>2 DEF Received
<1>4. ASSUME a # 0
      PROVE  Complete(new, t, a) /\ m = Without(Merged(new, t, a), X)
  <2>1. /\ a \in Snapshots(t) /\ Complete(lg, t, a)
        /\ m = Without(Merged(lg, t, a), X)
    BY <1>4 DEF StreamOK
  <2>2. \A q \in Pages(t) : lg[<<t, a, q>>].come
    BY <2>1 DEF Complete, Received
  <2>3. \A q \in Pages(t) : new[<<t, a, q>>] = lg[<<t, a, q>>]
    BY <1>2, <2>1, <2>2
  <2>4. Merged(new, t, a) = Merged(lg, t, a)
    BY <1>1, <2>1, <2>3, MergedDependsOnItsPages
  <2>5. Complete(new, t, a)
    BY <2>1, <2>2, <2>3 DEF Complete, Received
  <2> QED BY <2>1, <2>4, <2>5
<1>5. l # 0 => Received(new, t, l) # {}
  BY <1>3 DEF StreamOK
<1>6. \A k \in Snapshots(t), q \in Pages(t) :
          new[<<t, k, q>>].come /\ <<t, k, q>> \notin ex \cup {<<s, n, p>>} =>
              l # 0 /\ (t \in Paged => k <= l)
  BY <1>2 DEF StreamOK
<1>7. ASSUME t \in Paged, l # 0
      PROVE  /\ S \subseteq Received(new, t, l)
             /\ \A q \in Pages(t) :
                    new[<<t, l, q>>].come /\ <<t, l, q>> \notin ex \cup {<<s, n, p>>}
                        => q \in S
             /\ (\A q \in Pages(t) :
                    new[<<t, l, q>>].come /\ <<t, l, q>> \notin ex \cup {<<s, n, p>>})
                        => a = l
  <2>1. l \in Snapshots(t)
    BY <1>7 DEF StreamOK
  <2>2. \A q \in Pages(t) :
            new[<<t, l, q>>].come /\ <<t, l, q>> \notin ex \cup {<<s, n, p>>} =>
                lg[<<t, l, q>>].come /\ <<t, l, q>> \notin ex
    BY <1>2, <2>1
  <2> QED BY <1>3, <1>7, <2>1, <2>2 DEF StreamOK
<1> QED BY <1>4, <1>5, <1>6, <1>7 DEF StreamOK

\* Reading back the events of a stream without a row.
LEMMA BackfillMakesTheRow ==
    ASSUME NEW lg, LogOK(lg), NEW s \in Streams, NEW ex, NEW a, NEW S, NEW m, NEW X,
           StreamOK(lg, s, 0, a, S, m, X, ex)
    PROVE  /\ a = 0 /\ S = {} /\ m = NoRows /\ X = {}
           /\ StreamOK(lg, s, LatestIn(lg, s), AppliedIn(lg, s), {},
                  IF AppliedIn(lg, s) # 0
                  THEN Merged(lg, s, AppliedIn(lg, s)) ELSE NoRows, {}, ex)
           /\ LatestIn(lg, s) = 0 => AppliedIn(lg, s) = 0
<1> DEFINE L == {n \in Snapshots(s) : Received(lg, s, n) # {}}
           A == {n \in Snapshots(s) : Complete(lg, s, n)}
           l == LatestIn(lg, s)
           b == AppliedIn(lg, s)
<1>1. a = 0 /\ S = {} /\ m = NoRows /\ X = {}
  BY DEF StreamOK
<1>2. /\ MaxSnapshots[s] \in Nat /\ Snapshots(s) = 1..MaxSnapshots[s]
      /\ Pages(s) # {}
  BY PagesAreNumbered
<1>3. /\ L = {} => l = 0
      /\ L # {} => l \in L
      /\ \A n \in L : n <= l
  BY <1>2, NewestIsLargest DEF LatestIn
<1>4. /\ A = {} => b = 0
      /\ A # {} => b \in A
      /\ \A n \in A : n <= b
  BY <1>2, NewestIsLargest DEF AppliedIn
<1>5. A \subseteq L
  BY <1>2 DEF Complete
<1>6. \A n \in Snapshots(s), p \in Pages(s) :
          lg[<<s, n, p>>].come => <<s, n, p>> \in ex
  BY DEF StreamOK
<1>7. /\ l \in Snapshots(s) \cup {0} /\ b \in Snapshots(s) \cup {0}
      /\ l = 0 => b = 0
      /\ l # 0 => Received(lg, s, l) # {}
      /\ b # 0 => Complete(lg, s, b)
      /\ b <= l
  <2>1. 0 \notin Snapshots(s) /\ Snapshots(s) \subseteq Nat
    BY PagesAreNumbered
  <2> HIDE DEF l, b
  <2> QED BY <1>3, <1>4, <1>5, <2>1
<1>8. l # 0 => \E p \in Pages(s) : ~(lg[<<s, l, p>>].come /\ <<s, l, p>> \notin ex)
  BY <1>2, <1>6, <1>7
<1> HIDE DEF l, b
<1>9. l # 0 => \A p \in Pages(s) : lg[<<s, l, p>>].come => <<s, l, p>> \in ex
  BY <1>6, <1>7
<1>10. StreamOK(lg, s, l, b, {},
           IF b # 0 THEN Merged(lg, s, b) ELSE NoRows, {}, ex)
  BY <1>6, <1>7, <1>8, <1>9, NothingLost DEF StreamOK
<1> QED BY <1>1, <1>7, <1>10 DEF l, b

\* A row of one stream does not depend on another stream's page.
LEMMA OtherPagesDoNotMatter ==
    ASSUME NEW lg, NEW t \in Streams, NEW s, NEW n, NEW p, s # t,
           NEW l, NEW a, NEW S, NEW m, NEW X, NEW ex,
           StreamOK(lg, t, l, a, S, m, X, ex \cup {<<s, n, p>>})
    PROVE  StreamOK(lg, t, l, a, S, m, X, ex)
<1>1. \A k, q : <<t, k, q>> \in ex \cup {<<s, n, p>>} <=> <<t, k, q>> \in ex
  OBVIOUS
<1> QED BY <1>1 DEF StreamOK

\* The page that has come is worked into the row of its stream, after which
\* everything is asked of it, too.
LEMMA PageMakesTheRow ==
    ASSUME NEW lg, LogOK(lg), NEW s \in Streams,
           NEW n \in Snapshots(s), NEW p \in Pages(s), lg[<<s, n, p>>].come,
           NEW l, NEW a, NEW S, NEW m, NEW X, NEW ex,
           StreamOK(lg, s, l, a, S, m, X, ex \cup {<<s, n, p>>}),
           NEW pages, pages = {p} \cup (IF l = n THEN S ELSE {})
    PROVE  /\ Accepts(s, n, l) /\ Ready(lg, s, n, pages) =>
                  StreamOK(lg, s, n, n, IF s \in Paged THEN pages ELSE S,
                           Merged(lg, s, n), {}, ex)
           /\ Accepts(s, n, l) /\ ~Ready(lg, s, n, pages) =>
                  StreamOK(lg, s, n, a, IF s \in Paged THEN pages ELSE S, m, X, ex)
           /\ ~Accepts(s, n, l) => StreamOK(lg, s, l, a, S, m, X, ex)
<1> DEFINE pg == <<s, n, p>>
<1>1. /\ n \in Nat /\ n # 0 /\ Snapshots(s) \subseteq Nat
      /\ l \in Nat /\ a \in Nat
      /\ PageCount[s] \in Pages(s)
      /\ s \notin Paged => Pages(s) = {1}
  BY PagesAreNumbered DEF StreamOK
<1>2. p \in Received(lg, s, n) /\ pages \subseteq Pages(s)
  BY DEF Received, StreamOK
<1>3. s \in Paged => pages \subseteq Received(lg, s, n)
  BY <1>1, <1>2 DEF StreamOK
<1>4. ASSUME Ready(lg, s, n, pages) PROVE Complete(lg, s, n)
  <2>1. Received(lg, s, n) = Pages(s)
    <3>1. CASE s \in Paged
      BY <3>1, <1>3, <1>4 DEF Ready, Received
    <3>2. CASE s \notin Paged
      BY <3>2, <1>1, <1>2 DEF Received
    <3> QED BY <3>1, <3>2
  <2> QED BY <2>1, <1>4 DEF Ready, Complete
<1>5. ASSUME s \in Paged, Accepts(s, n, l),
             NEW q \in Pages(s), lg[<<s, n, q>>].come, <<s, n, q>> \notin ex
      PROVE  q \in pages
  <2>1. CASE q = p
    BY <2>1
  <2>2. CASE q # p
    <3>1. <<s, n, q>> \notin ex \cup {pg}
      BY <2>2, <1>5
    <3>2. l # 0 /\ n <= l
      BY <3>1, <1>5 DEF StreamOK
    <3>3. l = n
      BY <3>2, <1>1, <1>5 DEF Accepts
    <3> QED BY <3>1, <3>3, <1>1, <1>5 DEF StreamOK
  <2> QED BY <2>1, <2>2
<1>6. ASSUME s \in Paged, Accepts(s, n, l),
             \A q \in Pages(s) : lg[<<s, n, q>>].come /\ <<s, n, q>> \notin ex
      PROVE  Ready(lg, s, n, pages)
  <2>1. pages = Pages(s)
    BY <1>2, <1>5, <1>6
  <2>2. lg[<<s, n, PageCount[s]>>].complete = TRUE
    BY <1>1, <1>6 DEF LogOK
  <2> QED BY <2>1, <2>2, <1>1 DEF Ready
<1>7. ASSUME Accepts(s, n, l)
      PROVE  /\ s \in Paged => l <= n
             /\ \A k \in Snapshots(s), q \in Pages(s) :
                    lg[<<s, k, q>>].come /\ <<s, k, q>> \notin ex =>
                        n # 0 /\ (s \in Paged => k <= n)
  <2>1. s \in Paged => l <= n
    BY <1>1, <1>7 DEF Accepts
  <2>2. ASSUME NEW k \in Snapshots(s), NEW q \in Pages(s), s \in Paged,
               lg[<<s, k, q>>].come, <<s, k, q>> \notin ex
        PROVE  k <= n
    <3>1. CASE <<s, k, q>> = pg
      BY <3>1, <1>1
    <3>2. CASE <<s, k, q>> # pg
      <4>1. k <= l
        BY <2>2, <3>2 DEF StreamOK
      <4> QED BY <4>1, <2>1, <2>2, <1>1
    <3> QED BY <3>1, <3>2
  <2> QED BY <2>1, <2>2, <1>1
<1>8. ASSUME Accepts(s, n, l), Ready(lg, s, n, pages)
      PROVE  StreamOK(lg, s, n, n, IF s \in Paged THEN pages ELSE S,
                      Merged(lg, s, n), {}, ex)
  <2>1. S \subseteq Pages(s)
    BY DEF StreamOK
  <2> QED BY <2>1, <1>1, <1>2, <1>3, <1>4, <1>5, <1>7, <1>8, NothingLost
          DEF StreamOK
<1>9. ASSUME Accepts(s, n, l), ~Ready(lg, s, n, pages)
      PROVE  StreamOK(lg, s, n, a, IF s \in Paged THEN pages ELSE S, m, X, ex)
  <2>1. /\ S \subseteq Pages(s)
        /\ a \in Snapshots(s) \cup {0}
        /\ a = 0 => m = NoRows /\ X = {}
        /\ a # 0 => Complete(lg, s, a) /\ m = Without(Merged(lg, s, a), X)
        /\ s \in Paged => a <= l
    BY DEF StreamOK
  <2>2. s \in Paged => a <= n
    BY <2>1, <1>1, <1>7, <1>9
  <2> QED BY <2>1, <2>2, <1>1, <1>2, <1>3, <1>5, <1>6, <1>7, <1>9 DEF StreamOK
<1>10. ASSUME ~Accepts(s, n, l)
       PROVE  StreamOK(lg, s, l, a, S, m, X, ex)
  <2>1. s \in Paged /\ l # 0 /\ n < l
    BY <1>1, <1>10 DEF Accepts
  <2>2. \A q : <<s, l, q>> \in ex \cup {pg} <=> <<s, l, q>> \in ex
    BY <2>1, <1>1
  <2>3. \A k \in Snapshots(s), q \in Pages(s) :
            lg[<<s, k, q>>].come /\ <<s, k, q>> \notin ex =>
                l # 0 /\ (s \in Paged => k <= l)
    BY <2>1, <1>1 DEF StreamOK
  <2> QED BY <2>2, <2>3 DEF StreamOK
<1> QED BY <1>8, <1>9, <1>10

----------------------------------------------------------------------------
(* The tables and the products *)

\* Every stream's row is right, except for what depends on the pages in ex.
TablesOK(lg, la, ap, st, mb, lo, ex) ==
    \A s \in Streams : StreamOK(lg, s, la[s], ap[s], st[s], mb[s], lo[s], ex)

MemberType == [Streams -> [Products -> {"none", "inactive", "active"}]]

LEMMA RowsAreTyped ==
    ASSUME NEW lg, LogOK(lg), NEW s \in Streams,
           NEW l, NEW a, NEW S, NEW m, NEW X, NEW ex,
           StreamOK(lg, s, l, a, S, m, X, ex)
    PROVE  l \in Nat /\ a \in Nat /\ S \in SUBSET Nat
           /\ m \in [Products -> {"none", "inactive", "active"}]
<1>1. l \in Nat /\ a \in Nat /\ S \in SUBSET Nat
  BY PagesAreNumbered DEF StreamOK
<1>2. CASE a = 0
  BY <1>1, <1>2 DEF StreamOK, NoRows
<1>3. CASE a # 0
  <2>1. a \in Snapshots(s) /\ m = Without(Merged(lg, s, a), X)
    BY <1>3 DEF StreamOK
  <2>2. Merged(lg, s, a) \in [Products -> {"none", "inactive", "active"}]
    BY <2>1, MergedFollowsPages
  <2>3. m \in [Products -> {"none", "inactive", "active"}]
    BY <2>1, <2>2 DEF Without
  <2> QED BY <1>1, <2>3
<1> QED BY <1>2, <1>3

\* What reading back the events of some streams without a row comes to.
LEMMA BackfillMakesTheTables ==
    ASSUME NEW lg, LogOK(lg), NEW ex,
           TablesOK(lg, latest, applied, stored, member, lost, ex),
           NEW S \in SUBSET Streams, \A s \in S : latest[s] = 0
    PROVE  LET B == Backfilled(lg, S)
           IN  /\ B.latest \in [Streams -> Nat]
               /\ B.applied \in [Streams -> Nat]
               /\ B.member \in MemberType
               /\ TablesOK(lg, B.latest, B.applied, stored, B.member, lost, ex)
               /\ \A s \in Streams : s \notin S =>
                      B.member[s] = member[s] /\ B.applied[s] = applied[s]
               /\ \A s \in S : member[s] = NoRows /\ lost[s] = {} /\ applied[s] = 0
               /\ \A s \in Streams : B.applied[s] >= applied[s]
<1> DEFINE B == Backfilled(lg, S)
<1>1. ASSUME NEW s \in Streams, s \notin S
      PROVE  /\ B.latest[s] = latest[s] /\ B.applied[s] = applied[s]
             /\ B.member[s] = member[s]
  BY <1>1 DEF Backfilled
<1>2. ASSUME NEW s \in S
      PROVE  /\ B.latest[s] = LatestIn(lg, s) /\ B.applied[s] = AppliedIn(lg, s)
             /\ B.member[s] = IF AppliedIn(lg, s) # 0
                              THEN Merged(lg, s, AppliedIn(lg, s)) ELSE member[s]
  BY <1>2 DEF Backfilled
<1>3. ASSUME NEW s \in S
      PROVE  /\ applied[s] = 0 /\ stored[s] = {}
             /\ member[s] = NoRows /\ lost[s] = {}
  <2>1. StreamOK(lg, s, 0, applied[s], stored[s], member[s], lost[s], ex)
    BY <1>3 DEF TablesOK
  <2> QED BY <2>1, BackfillMakesTheRow
<1>4. ASSUME NEW s \in S
      PROVE  StreamOK(lg, s, B.latest[s], B.applied[s], stored[s], B.member[s],
                      lost[s], ex)
  <2>1. StreamOK(lg, s, 0, applied[s], stored[s], member[s], lost[s], ex)
    BY <1>4 DEF TablesOK
  <2>2. StreamOK(lg, s, LatestIn(lg, s), AppliedIn(lg, s), {},
            IF AppliedIn(lg, s) # 0
            THEN Merged(lg, s, AppliedIn(lg, s)) ELSE NoRows, {}, ex)
    BY <2>1, BackfillMakesTheRow
  <2> HIDE DEF B
  <2> QED BY <2>2, <1>2, <1>3
<1>5. TablesOK(lg, B.latest, B.applied, stored, B.member, lost, ex)
  <2> HIDE DEF B
  <2> QED BY <1>1, <1>4 DEF TablesOK
<1>6. /\ B.latest = [s \in Streams |-> B.latest[s]]
      /\ B.applied = [s \in Streams |-> B.applied[s]]
      /\ B.member = [s \in Streams |-> B.member[s]]
  BY DEF Backfilled
<1> HIDE DEF B
<1>7. \A s \in Streams :
          /\ B.latest[s] \in Nat /\ B.applied[s] \in Nat
          /\ B.member[s] \in [Products -> {"none", "inactive", "active"}]
  BY <1>5, RowsAreTyped DEF TablesOK
<1>8. /\ B.latest \in [Streams -> Nat] /\ B.applied \in [Streams -> Nat]
      /\ B.member \in MemberType
  BY <1>6, <1>7 DEF MemberType
<1>9. \A s \in Streams : B.applied[s] >= applied[s]
  <2>1. \A s \in Streams : applied[s] \in Nat
    BY RowsAreTyped DEF TablesOK
  <2> QED BY <1>1, <1>3, <1>7, <2>1
<1> QED BY <1>1, <1>3, <1>5, <1>8, <1>9 DEF B

\* The streams that are read back before an event is taken.
ReadBack == IF Initialized THEN {} ELSE Streams

LEMMA ReadBackHasNoRows ==
    ReadBack \in SUBSET Streams /\ \A s \in ReadBack : latest[s] = 0
BY DEF ReadBack, Initialized

\* Reading back changes only memberships that it names.
LEMMA BackfillNamesItsKeys ==
    ASSUME NEW lg, LogOK(lg), NEW ex,
           TablesOK(lg, latest, applied, stored, member, lost, ex),
           NEW x \in Products, x \notin BackfilledKeys(lg), NEW s \in Streams
    PROVE  Backfill(lg).member[s][x] = member[s][x]
<1>1. Backfill(lg) = Backfilled(lg, ReadBack)
  BY DEF Backfill, ReadBack
<1>2. CASE s \notin ReadBack
  BY <1>1, <1>2, ReadBackHasNoRows, BackfillMakesTheTables
<1>3. CASE s \in ReadBack
  <2>1. member[s] = NoRows
    BY <1>3, ReadBackHasNoRows, BackfillMakesTheTables
  <2>2. x \notin Members(Backfill(lg).member, s)
    BY <1>3 DEF BackfilledKeys, ReadBack
  <2> QED BY <2>1, <2>2 DEF Members, NoRows
<1> QED BY <1>2, <1>3

\* A product is shown while some connected platform lists it, unless somebody
\* meddled with it.
ShownRight(sh, mb, st, as) ==
    \A x \in Products \ as :
        sh[x] # "none" => (sh[x] = "shown" <=> Visible(mb, st, x))

\* Products that are shown or hidden anew are right; the others stay right if
\* no connected platform changed its mind about them.
LEMMA ReconciledIsRight ==
    ASSUME ShownRight(shown, member, status, astray),
           NEW sh, NEW mb, NEW st, NEW keys,
           \A x \in Products \ keys :
               /\ sh[x] = shown[x]
               /\ \A s \in Streams :
                      (mb[s][x] = "active" /\ st[Of[s]] # "off") <=>
                          (member[s][x] = "active" /\ status[Of[s]] # "off")
    PROVE  ShownRight(Reconciled(sh, keys, mb, st), mb, st, astray \ keys)
<1> SUFFICES ASSUME NEW x \in Products \ (astray \ keys),
                    Reconciled(sh, keys, mb, st)[x] # "none"
             PROVE  Reconciled(sh, keys, mb, st)[x] = "shown" <=> Visible(mb, st, x)
  BY DEF ShownRight
<1>1. CASE x \in keys
  BY <1>1 DEF Reconciled
<1>2. CASE x \notin keys
  <2>1. Reconciled(sh, keys, mb, st)[x] = shown[x]
    BY <1>2 DEF Reconciled
  <2>2. Visible(mb, st, x) <=> Visible(member, status, x)
    BY <1>2 DEF Visible
  <2> QED BY <1>2, <2>1, <2>2 DEF ShownRight
<1> QED BY <1>1, <1>2

LEMMA ReconciledIsTyped ==
    ASSUME NEW sh \in [Products -> {"none", "hidden", "shown"}],
           NEW mb, NEW st, NEW keys
    PROVE  Reconciled(sh, keys, mb, st) \in [Products -> {"none", "hidden", "shown"}]
BY DEF Reconciled

----------------------------------------------------------------------------
(* The inductive invariant *)

IInv ==
    /\ TypeOK
    /\ LogOK(log)
    /\ TablesOK(log, latest, applied, stored, member, lost, early)
    /\ ShownRight(shown, member, status, astray)

\* Streams whose snapshots have ids do not go back, and none loses what counts;
\* what was lost of a snapshot stays lost.
Forward ==
    \A t \in Streams :
        /\ t \in Paged => applied'[t] >= applied[t]
        /\ applied[t] # 0 => applied'[t] # 0
        /\ applied'[t] = applied[t] => lost'[t] = lost[t]

\* A snapshot that begins to count does so as a whole, unless it is the first
\* of a stream in cut.
WholeOrCut(cut) ==
    \A t \in Streams :
        applied'[t] # applied[t] /\ lost'[t] # {} => t \in cut /\ applied[t] = 0

LEMMA InitIInv == Init => IInv
<1> SUFFICES ASSUME Init PROVE IInv
  OBVIOUS
<1>1. LogOK(log)
  <2>1. log \in [AllPages -> Content \cup {NotReceived}]
    BY DEF Init
  <2>2. ASSUME NEW s \in Streams, NEW n \in Snapshots(s), NEW p \in Pages(s),
               log[<<s, n, p>>].come
        PROVE  MayCome([log EXCEPT ![<<s, n, p>>] = NotReceived], s, n, p,
                       log[<<s, n, p>>])
    BY <2>2 DEF Init
  <2>3. ASSUME NEW s \in Streams, NEW n \in Snapshots(s), NEW x \in Products,
               NEW p \in Pages(s), NEW q \in Pages(s),
               Lists(log, s, n, p, x), Lists(log, s, n, q, x), p # q
        PROVE  FALSE
    <3> DEFINE lg == [log EXCEPT ![<<s, n, p>>] = NotReceived]
    <3>1. log[<<s, n, p>>].come /\ log[<<s, n, p>>].items[x] # "absent"
      BY <2>1, <2>3, PageEntry DEF Lists
    <3>2. ~Lists(lg, s, n, q, x)
      BY <2>2, <3>1 DEF MayCome
    <3>3. <<s, n, q>> \in AllPages /\ <<s, n, q>> # <<s, n, p>>
      BY <2>3, PagesAreNumbered
    <3>4. lg[<<s, n, q>>] = log[<<s, n, q>>]
      BY <2>1, <3>3
    <3> QED BY <2>3, <3>2, <3>4 DEF Lists
  <2>4. ASSUME NEW s \in Streams, NEW n \in Snapshots(s), s \in Paged,
               NEW p \in Pages(s), log[<<s, n, p>>].come
        PROVE  log[<<s, n, p>>].complete = (p = PageCount[s])
    BY <2>2, <2>4 DEF MayCome
  <2> QED BY <2>1, <2>3, <2>4 DEF LogOK
<1>2. TablesOK(log, latest, applied, stored, member, lost, early)
  <2> SUFFICES ASSUME NEW s \in Streams
               PROVE  StreamOK(log, s, latest[s], applied[s], stored[s],
                               member[s], lost[s], early)
    BY DEF TablesOK
  <2>1. /\ latest[s] = 0 /\ applied[s] = 0 /\ stored[s] = {}
        /\ member[s] = NoRows /\ lost[s] = {}
    BY DEF Init, NoRows
  <2>2. \A n \in Snapshots(s), p \in Pages(s) :
            log[<<s, n, p>>].come => <<s, n, p>> \in early
    BY PagesAreNumbered DEF Init
  <2> QED BY <2>1, <2>2 DEF StreamOK
<1>3. ShownRight(shown, member, status, astray)
  BY DEF Init, ShownRight
<1>4. TypeOK
  BY SnapshotConstants DEF Init, TypeOK
<1> QED BY <1>1, <1>2, <1>3, <1>4 DEF IInv

\* The products in keys are shown or hidden anew, after some got rows; about
\* the others no connected platform changes its mind.
PutRight(rows, keys) ==
    /\ rows \in [Products -> {"none", "hidden", "shown"}]
    /\ \A x \in Products : rows[x] = "none" => shown[x] = "none"
    /\ shown' = Reconciled(rows, keys, member', status')
    /\ astray' = astray \ keys
    /\ \A x \in Products \ keys :
           /\ rows[x] = shown[x]
           /\ \A t \in Streams :
                  (member'[t][x] = "active" /\ status'[Of[t]] # "off") <=>
                      (member[t][x] = "active" /\ status[Of[t]] # "off")

LEMMA PutRightIsRight ==
    ASSUME IInv, NEW rows, NEW keys, PutRight(rows, keys)
    PROVE  /\ ShownRight(shown', member', status', astray')
           /\ shown' \in [Products -> {"none", "hidden", "shown"}]
           /\ astray' \subseteq Products
<1>1. ShownRight(shown, member, status, astray) /\ astray \subseteq Products
  BY DEF IInv, TypeOK
<1>2. ShownRight(Reconciled(rows, keys, member', status'), member', status',
                 astray \ keys)
  BY <1>1, ReconciledIsRight DEF PutRight
<1>3. Reconciled(rows, keys, member', status') \in
          [Products -> {"none", "hidden", "shown"}]
  BY ReconciledIsTyped DEF PutRight
<1> QED BY <1>1, <1>2, <1>3 DEF PutRight

\* A page puts right what was read back with it, what it lists and what the
\* snapshots list between which it changes.
LEMMA PagePutsRight ==
    ASSUME IInv, NEW s \in Streams, NEW n \in Snapshots(s), NEW p \in Pages(s),
           ReceivePage(s, n, p)
    PROVE  \E rows, keys : PutRight(rows, keys)
<1>1. PICK c \in Content :
        /\ MayCome(log, s, n, p, c)
        /\ log' = [log EXCEPT ![<<s, n, p>>] = c]
        /\ LET before == Backfill(log')
               ok     == Accepts(s, n, before.latest[s])
               pages  == PagesWith(before.latest[s], s, n, p)
               ready  == ok /\ Ready(log', s, n, pages)
               listed == IF ok THEN {x \in Products : c.items[x] # "absent"} ELSE {}
               keys   == BackfilledKeys(log') \cup listed \cup
                             IF ready THEN Replaced(before.member, member', s)
                                      ELSE {}
               rows   == [x \in Products |->
                             IF x \in listed /\ shown[x] = "none" THEN "shown"
                                                                  ELSE shown[x]]
           IN  /\ member' = IF ready
                            THEN [before.member EXCEPT ![s] = Merged(log', s, n)]
                            ELSE before.member
               /\ shown' = Reconciled(rows, keys, member', status)
               /\ astray' = astray \ keys
  BY DEF ReceivePage
<1> DEFINE ex     == early \cup {<<s, n, p>>}
           B      == Backfill(log')
           ok     == Accepts(s, n, B.latest[s])
           pages  == PagesWith(B.latest[s], s, n, p)
           ready  == ok /\ Ready(log', s, n, pages)
           listed == IF ok THEN {x \in Products : c.items[x] # "absent"} ELSE {}
           keys   == BackfilledKeys(log') \cup listed \cup
                         IF ready THEN Replaced(B.member, member', s) ELSE {}
           rows   == [x \in Products |->
                         IF x \in listed /\ shown[x] = "none" THEN "shown"
                                                              ELSE shown[x]]
<1>2. Arrives(log, log', s, n, p, c)
  BY <1>1 DEF Arrives, ReceivePage, Deliverable
<1>3. LogOK(log')
  BY <1>2, ArrivalIsWellFormed DEF IInv
<1>4. TablesOK(log', latest, applied, stored, member, lost, ex)
  BY <1>2, ArrivalKeepsTheRows DEF IInv, TablesOK
<1>5. B.member \in MemberType
  BY <1>3, <1>4, ReadBackHasNoRows, BackfillMakesTheTables DEF Backfill, ReadBack
<1>6. \A x \in Products : x \notin BackfilledKeys(log') =>
          \A t \in Streams : B.member[t][x] = member[t][x]
  BY <1>3, <1>4, BackfillNamesItsKeys
<1>7. /\ member' = IF ready THEN [B.member EXCEPT ![s] = Merged(log', s, n)]
                            ELSE B.member
      /\ shown' = Reconciled(rows, keys, member', status)
      /\ astray' = astray \ keys
      /\ status' = status
  BY <1>1 DEF ReceivePage
<1> HIDE DEF ex, B, pages
<1>8. ASSUME NEW x \in Products \ keys
      PROVE  /\ rows[x] = shown[x]
             /\ \A t \in Streams : member'[t][x] = member[t][x]
  <2>1. x \notin listed /\ x \notin BackfilledKeys(log')
    BY <1>8
  <2>2. rows[x] = shown[x]
    BY <2>1
  <2>3. \A t \in Streams : B.member[t][x] = member[t][x]
    BY <2>1, <1>6
  <2>4. CASE ready
    <3>1. x \notin Replaced(B.member, member', s)
      BY <1>8, <2>4
    <3>2. B.member[s][x] = "none" /\ member'[s][x] = "none"
      BY <3>1 DEF Replaced, Members
    <3>3. \A t \in Streams : t # s => member'[t] = B.member[t]
      BY <2>4, <1>5, <1>7 DEF MemberType
    <3> QED BY <2>2, <2>3, <3>2, <3>3
  <2>5. CASE ~ready
    BY <2>2, <2>3, <2>5, <1>7
  <2> QED BY <2>4, <2>5
<1>9. /\ rows \in [Products -> {"none", "hidden", "shown"}]
      /\ \A x \in Products : rows[x] = "none" => shown[x] = "none"
  BY DEF IInv, TypeOK
<1> HIDE DEF rows, keys
<1>10. PutRight(rows, keys)
  BY <1>7, <1>8, <1>9 DEF PutRight
<1> QED BY <1>10

\* A page that comes: its row, the rows that were read back with it, and the
\* products of either.
LEMMA ReceivePageKeepsIInv ==
    ASSUME IInv, NEW s \in Streams, NEW n \in Snapshots(s), NEW p \in Pages(s),
           ReceivePage(s, n, p)
    PROVE  IInv' /\ Forward /\ WholeOrCut({})
<1>1. PICK c \in Content :
        /\ MayCome(log, s, n, p, c)
        /\ log' = [log EXCEPT ![<<s, n, p>>] = c]
        /\ LET before == Backfill(log')
               ok     == Accepts(s, n, before.latest[s])
               pages  == PagesWith(before.latest[s], s, n, p)
               ready  == ok /\ Ready(log', s, n, pages)
           IN  /\ latest' = IF ok THEN [before.latest EXCEPT ![s] = n]
                                  ELSE before.latest
               /\ stored' = IF ok /\ s \in Paged
                            THEN [stored EXCEPT ![s] = pages] ELSE stored
               /\ applied' = IF ready THEN [before.applied EXCEPT ![s] = n]
                                      ELSE before.applied
               /\ member' = IF ready
                            THEN [before.member EXCEPT ![s] = Merged(log', s, n)]
                            ELSE before.member
               /\ lost' = IF ready THEN [lost EXCEPT ![s] = {}] ELSE lost
  BY DEF ReceivePage
<1> DEFINE ex     == early \cup {<<s, n, p>>}
           B      == Backfill(log')
           ok     == Accepts(s, n, B.latest[s])
           pages  == PagesWith(B.latest[s], s, n, p)
           ready  == ok /\ Ready(log', s, n, pages)
<1>2. Arrives(log, log', s, n, p, c)
  BY <1>1 DEF Arrives, ReceivePage, Deliverable
<1>3. LogOK(log')
  BY <1>2, ArrivalIsWellFormed DEF IInv
<1>4. TablesOK(log', latest, applied, stored, member, lost, ex)
  BY <1>2, ArrivalKeepsTheRows DEF IInv, TablesOK
<1>5. /\ B.latest \in [Streams -> Nat] /\ B.applied \in [Streams -> Nat]
      /\ B.member \in MemberType
      /\ TablesOK(log', B.latest, B.applied, stored, B.member, lost, ex)
      /\ \A t \in Streams :
             /\ B.applied[t] >= applied[t]
             /\ B.applied[t] # applied[t] => applied[t] = 0 /\ lost[t] = {}
  BY <1>3, <1>4, ReadBackHasNoRows, BackfillMakesTheTables DEF Backfill, ReadBack
<1>7. /\ latest' = IF ok THEN [B.latest EXCEPT ![s] = n] ELSE B.latest
      /\ stored' = IF ok /\ s \in Paged THEN [stored EXCEPT ![s] = pages]
                                        ELSE stored
      /\ applied' = IF ready THEN [B.applied EXCEPT ![s] = n] ELSE B.applied
      /\ member' = IF ready THEN [B.member EXCEPT ![s] = Merged(log', s, n)]
                            ELSE B.member
      /\ lost' = IF ready THEN [lost EXCEPT ![s] = {}] ELSE lost
      /\ UNCHANGED <<status, early, accidents>>
  BY <1>1 DEF ReceivePage, history
<1>8. /\ stored \in [Streams -> SUBSET Nat]
      /\ shown \in [Products -> {"none", "hidden", "shown"}]
      /\ astray \subseteq Products /\ early \subseteq AllPages
      /\ lost \in [Streams -> SUBSET Products]
      /\ accidents \in 0..MaxAccidents
      /\ status \in [Integrations -> {"active", "connected", "off"}]
  BY DEF IInv, TypeOK
<1>9. pages = {p} \cup (IF B.latest[s] = n THEN stored[s] ELSE {})
  BY DEF PagesWith
<1>10. log'[<<s, n, p>>].come
  BY <1>1, PagesAreNumbered DEF IInv, LogOK, Content
<1> HIDE DEF ex, B, pages
<1>11. StreamOK(log', s, B.latest[s], B.applied[s], stored[s], B.member[s],
                lost[s], ex)
  BY <1>5 DEF TablesOK
<1>12. /\ ready => StreamOK(log', s, n, n, IF s \in Paged THEN pages ELSE stored[s],
                            Merged(log', s, n), {}, early)
       /\ ok /\ ~ready => StreamOK(log', s, n, B.applied[s],
                              IF s \in Paged THEN pages ELSE stored[s],
                              B.member[s], lost[s], early)
       /\ ~ok => StreamOK(log', s, B.latest[s], B.applied[s], stored[s],
                          B.member[s], lost[s], early)
  BY <1>3, <1>9, <1>10, <1>11, PageMakesTheRow DEF ex
<1>13. StreamOK(log', s, latest'[s], applied'[s], stored'[s], member'[s],
                lost'[s], early)
  <2>1. CASE ready
    <3>1. /\ latest'[s] = n /\ applied'[s] = n /\ member'[s] = Merged(log', s, n)
          /\ lost'[s] = {}
          /\ stored'[s] = IF s \in Paged THEN pages ELSE stored[s]
      BY <2>1, <1>5, <1>7, <1>8 DEF MemberType
    <3> QED BY <2>1, <3>1, <1>12
  <2>2. CASE ok /\ ~ready
    <3>1. /\ latest'[s] = n /\ applied'[s] = B.applied[s]
          /\ member'[s] = B.member[s] /\ lost'[s] = lost[s]
          /\ stored'[s] = IF s \in Paged THEN pages ELSE stored[s]
      BY <2>2, <1>5, <1>7, <1>8
    <3> QED BY <2>2, <3>1, <1>12
  <2>3. CASE ~ok
    BY <2>3, <1>7, <1>12
  <2> QED BY <2>1, <2>2, <2>3
<1>14. ASSUME NEW t \in Streams, t # s
       PROVE  /\ StreamOK(log', t, latest'[t], applied'[t], stored'[t], member'[t],
                          lost'[t], early)
              /\ applied'[t] = B.applied[t] /\ member'[t] = B.member[t]
              /\ lost'[t] = lost[t]
  <2>1. /\ latest'[t] = B.latest[t] /\ applied'[t] = B.applied[t]
        /\ stored'[t] = stored[t] /\ member'[t] = B.member[t]
        /\ lost'[t] = lost[t]
    BY <1>14, <1>5, <1>7, <1>8 DEF MemberType
  <2>2. StreamOK(log', t, B.latest[t], B.applied[t], stored[t], B.member[t],
                 lost[t], ex)
    BY <1>5 DEF TablesOK
  <2>3. StreamOK(log', t, B.latest[t], B.applied[t], stored[t], B.member[t],
                 lost[t], early)
    BY <1>14, <2>2, OtherPagesDoNotMatter DEF ex
  <2> QED BY <2>1, <2>3
<1>15. TablesOK(log', latest', applied', stored', member', lost', early)
  BY <1>13, <1>14 DEF TablesOK
<1>16. Forward /\ WholeOrCut({})
  <2> SUFFICES ASSUME NEW t \in Streams
               PROVE  /\ t \in Paged => applied'[t] >= applied[t]
                      /\ applied[t] # 0 => applied'[t] # 0
                      /\ applied'[t] = applied[t] => lost'[t] = lost[t]
                      /\ applied'[t] # applied[t] => lost'[t] = {}
    BY DEF Forward, WholeOrCut
  <2>1. B.applied[t] >= applied[t] /\ B.applied[t] \in Nat /\ applied[t] \in Nat
    BY <1>5 DEF IInv, TypeOK
  <2>2. CASE t # s \/ ~ready
    <3>1. applied'[t] = B.applied[t] /\ lost'[t] = lost[t]
      BY <2>2, <1>7, <1>14
    <3>2. B.applied[t] # applied[t] => lost[t] = {}
      BY <1>5
    <3> QED BY <2>1, <3>1, <3>2
  <2>3. CASE t = s /\ ready
    <3>1. applied'[t] = n /\ n \in Nat /\ n # 0
      BY <2>1, <2>3, <1>5, <1>7, PagesAreNumbered
    <3>2. t \in Paged => B.applied[s] <= B.latest[s]
      BY <2>3, <1>11 DEF StreamOK
    <3>3. t \in Paged => B.latest[s] \in Nat /\ (B.latest[s] = 0 \/ n >= B.latest[s])
      BY <2>3, <1>5 DEF Accepts
    <3>4. lost'[t] = {}
      BY <2>3, <1>7, <1>8
    <3>5. applied[s] # n
      <4>1. StreamOK(log, s, latest[s], applied[s], stored[s], member[s], lost[s],
                     early)
        BY DEF IInv, TablesOK
      <4>2. ~log[<<s, n, p>>].come
        BY <1>2 DEF Arrives
      <4>3. ~Complete(log, s, n)
        BY <4>2 DEF Complete, Received
      <4>4. n # 0
        BY PagesAreNumbered
      <4> QED BY <4>1, <4>3, <4>4 DEF StreamOK
    <3> QED BY <2>1, <2>3, <3>1, <3>2, <3>3, <3>4, <3>5
  <2> QED BY <2>2, <2>3
<1>17. /\ latest' \in [Streams -> Nat] /\ applied' \in [Streams -> Nat]
       /\ lost' \in [Streams -> SUBSET Products]
       /\ stored' \in [Streams -> SUBSET Nat] /\ member' \in MemberType
  <2>1. n \in Nat /\ Merged(log', s, n) \in [Products -> {"none", "inactive", "active"}]
    BY <1>3, PagesAreNumbered, MergedFollowsPages
  <2>2. latest' \in [Streams -> Nat]
    BY <2>1, <1>5, <1>7
  <2>3. applied' \in [Streams -> Nat]
    BY <2>1, <1>5, <1>7
  <2>4. member' \in MemberType
    BY <2>1, <1>5, <1>7 DEF MemberType
  <2>5. pages \in SUBSET Nat
    BY <1>8, <1>9, PagesAreNumbered
  <2>6. stored' \in [Streams -> SUBSET Nat]
    BY <2>5, <1>7, <1>8
  <2>7. lost' \in [Streams -> SUBSET Products]
    BY <1>7, <1>8
  <2> QED BY <2>2, <2>3, <2>4, <2>6, <2>7
<1>18. /\ ShownRight(shown', member', status', astray')
       /\ shown' \in [Products -> {"none", "hidden", "shown"}]
       /\ astray' \subseteq Products
  <2>1. PICK rows, keys : PutRight(rows, keys)
    BY PagePutsRight
  <2> QED BY <2>1, PutRightIsRight
<1>19. TypeOK'
  <2>1. log' \in [AllPages -> Content \cup {NotReceived}]
    BY <1>3 DEF LogOK
  <2> QED BY <2>1, <1>7, <1>8, <1>17, <1>18 DEF TypeOK, MemberType
<1>20. IInv'
  <2>1. /\ LogOK(log')
        /\ TablesOK(log', latest', applied', stored', member', lost', early')
    BY <1>3, <1>7, <1>15
  <2> QED BY <2>1, <1>18, <1>19 DEF IInv
<1> QED BY <1>16, <1>20

\* What an integration's status decides.
LEMMA StatusDecidesItsOwn ==
    ASSUME status \in [Integrations -> {"active", "connected", "off"}],
           NEW i \in Integrations, NEW new, NEW s \in Streams, Of[s] # i
    PROVE  [status EXCEPT ![i] = new][Of[s]] = status[Of[s]]
BY SnapshotConstants

\* A change of status puts right what was read back with it and what the
\* integration lists.
LEMMA StatusPutsRight ==
    ASSUME IInv, NEW i \in Integrations,
           NEW new \in {"active", "connected", "off"}, ChangeStatus(i, new)
    PROVE  \E rows, keys : PutRight(rows, keys)
<1> DEFINE B    == Backfill(log)
           keys == BackfilledKeys(log) \cup LifecycleKeys(B.member, i)
<1>1. /\ status' = [status EXCEPT ![i] = new]
      /\ member' = B.member
      /\ shown' = Reconciled(shown, keys, member', status')
      /\ astray' = astray \ keys
  BY DEF ChangeStatus
<1>2. \A x \in Products : x \notin BackfilledKeys(log) =>
          \A t \in Streams : B.member[t][x] = member[t][x]
  BY BackfillNamesItsKeys DEF IInv
<1> HIDE DEF B
<1>3. /\ status \in [Integrations -> {"active", "connected", "off"}]
      /\ shown \in [Products -> {"none", "hidden", "shown"}]
  BY DEF IInv, TypeOK
<1>4. ASSUME NEW x \in Products \ keys, NEW s \in Streams
      PROVE  (member'[s][x] = "active" /\ status'[Of[s]] # "off") <=>
                 (member[s][x] = "active" /\ status[Of[s]] # "off")
  <2>1. member'[s][x] = member[s][x]
    BY <1>1, <1>2
  <2>2. CASE Of[s] = i
    <3>1. x \notin Members(B.member, s)
      BY <2>2 DEF LifecycleKeys
    <3>2. member'[s][x] = "none"
      BY <3>1, <1>1 DEF Members
    <3> QED BY <3>2, <2>1
  <2>3. CASE Of[s] # i
    BY <2>1, <2>3, <1>1, <1>3, StatusDecidesItsOwn
  <2> QED BY <2>2, <2>3
<1> HIDE DEF keys
<1>5. PutRight(shown, keys)
  BY <1>1, <1>3, <1>4 DEF PutRight
<1> QED BY <1>5

\* A change of status: rows may be read back, and the products that the
\* integration lists are shown or hidden.
LEMMA ChangeStatusKeepsIInv ==
    ASSUME IInv, NEW i \in Integrations,
           NEW new \in {"active", "connected", "off"}, ChangeStatus(i, new)
    PROVE  IInv' /\ Forward /\ WholeOrCut({})
<1> DEFINE B == Backfill(log)
<1>1. /\ status' = [status EXCEPT ![i] = new]
      /\ latest' = B.latest /\ applied' = B.applied /\ member' = B.member
      /\ UNCHANGED <<log, stored, early, accidents, lost>>
  BY DEF ChangeStatus, history
<1>2. LogOK(log) /\ TablesOK(log, latest, applied, stored, member, lost, early)
  BY DEF IInv
<1>3. /\ B.latest \in [Streams -> Nat] /\ B.applied \in [Streams -> Nat]
      /\ B.member \in MemberType
      /\ TablesOK(log, B.latest, B.applied, stored, B.member, lost, early)
      /\ \A t \in Streams :
             /\ B.applied[t] >= applied[t]
             /\ B.applied[t] # applied[t] => applied[t] = 0 /\ lost[t] = {}
  BY <1>2, ReadBackHasNoRows, BackfillMakesTheTables DEF Backfill, ReadBack
<1> HIDE DEF B
<1>4. /\ status' \in [Integrations -> {"active", "connected", "off"}]
      /\ stored' \in [Streams -> SUBSET Nat]
      /\ early' \subseteq AllPages /\ accidents' \in 0..MaxAccidents
      /\ lost' \in [Streams -> SUBSET Products]
  BY <1>1 DEF IInv, TypeOK
<1>5. /\ ShownRight(shown', member', status', astray')
      /\ shown' \in [Products -> {"none", "hidden", "shown"}]
      /\ astray' \subseteq Products
  <2>1. PICK rows, keys : PutRight(rows, keys)
    BY StatusPutsRight
  <2> QED BY <2>1, PutRightIsRight
<1>6. TypeOK'
  BY <1>1, <1>2, <1>3, <1>4, <1>5 DEF TypeOK, MemberType, LogOK
<1>7. IInv'
  BY <1>1, <1>2, <1>3, <1>5, <1>6 DEF IInv
<1>8. Forward /\ WholeOrCut({})
  <2>1. \A t \in Streams : applied'[t] >= applied[t] /\ applied[t] \in Nat
                                /\ applied'[t] \in Nat
    BY <1>1, <1>3 DEF IInv, TypeOK
  <2>2. \A t \in Streams : applied'[t] # applied[t] => lost'[t] = {}
    BY <1>1, <1>3
  <2> QED BY <2>1, <2>2, <1>1 DEF Forward, WholeOrCut
<1> QED BY <1>7, <1>8

\* A callback that a crash cut off: some rows are read back, one of them in
\* part, and no product counts as right.
LEMMA CutOffKeepsIInv ==
    ASSUME IInv, NEW i \in Integrations,
           NEW new \in {"active", "connected", "off"}, CutOff(i, new)
    PROVE  IInv' /\ Forward /\ \E t \in Streams : WholeOrCut({t})
<1>1. PICK S \in IF Initialized THEN {{}} ELSE SUBSET Streams :
          LET after == Backfilled(log, S)
          IN  /\ latest' = after.latest
              /\ applied' = after.applied
              /\ \E t \in Streams, X \in SUBSET Products :
                  /\ X \subseteq (IF t \in S THEN Members(after.member, t) ELSE {})
                  /\ member' = [after.member EXCEPT ![t] = Without(@, X)]
                  /\ lost' = [lost EXCEPT ![t] = @ \cup X]
  BY DEF CutOff
<1>2. S \in SUBSET Streams /\ \A s \in S : latest[s] = 0
  BY DEF Initialized
<1> DEFINE B == Backfilled(log, S)
<1>3. LogOK(log) /\ TablesOK(log, latest, applied, stored, member, lost, early)
  BY DEF IInv
<1>4. /\ B.latest \in [Streams -> Nat] /\ B.applied \in [Streams -> Nat]
      /\ B.member \in MemberType
      /\ TablesOK(log, B.latest, B.applied, stored, B.member, lost, early)
      /\ \A t \in Streams :
             /\ B.applied[t] >= applied[t]
             /\ B.applied[t] # applied[t] => applied[t] = 0 /\ lost[t] = {}
  BY <1>2, <1>3, BackfillMakesTheTables
<1>5. latest' = B.latest /\ applied' = B.applied
  BY <1>1
<1>11. PICK t \in Streams, X \in SUBSET Products :
          /\ X \subseteq (IF t \in S THEN Members(B.member, t) ELSE {})
          /\ member' = [B.member EXCEPT ![t] = Without(@, X)]
          /\ lost' = [lost EXCEPT ![t] = @ \cup X]
  BY <1>1
<1>12. t \in S => lost[t] = {} /\ applied[t] = 0
  BY <1>2, <1>3, BackfillMakesTheTables
<1> HIDE DEF B
<1>13. /\ lost \in [Streams -> SUBSET Products]
       /\ applied \in [Streams -> Nat]
  BY DEF IInv, TypeOK
<1>14. /\ lost' \in [Streams -> SUBSET Products]
       /\ lost'[t] = lost[t] \cup X
       /\ \A s \in Streams : s # t => lost'[s] = lost[s] /\ member'[s] = B.member[s]
       /\ member'[t] = Without(B.member[t], X)
  BY <1>4, <1>11, <1>13 DEF MemberType
<1>15. StreamOK(log, t, B.latest[t], B.applied[t], stored[t], B.member[t], lost[t],
                early)
  BY <1>4 DEF TablesOK
<1>16. B.applied[t] = 0 => X = {}
  BY <1>11, <1>15 DEF StreamOK, Members, NoRows
<1>17. X # {} => lost[t] = {} /\ applied[t] = 0 /\ B.applied[t] # 0
  BY <1>11, <1>12, <1>16
<1>18. B.member[t] \in [Products -> {"none", "inactive", "active"}]
  BY <1>4 DEF MemberType
<1>19. StreamOK(log, t, latest'[t], applied'[t], stored[t], member'[t], lost'[t],
                early)
  <2>1. CASE X = {}
    <3>1. member'[t] = B.member[t] /\ lost'[t] = lost[t]
      BY <2>1, <1>14, <1>18 DEF Without
    <3> QED BY <3>1, <1>5, <1>15
  <2>2. CASE X # {}
    <3>1. B.applied[t] \in Snapshots(t) /\ B.applied[t] # 0
      BY <2>2, <1>15, <1>17 DEF StreamOK
    <3>2. B.member[t] = Without(Merged(log, t, B.applied[t]), {})
      BY <2>2, <1>15, <1>17, <3>1 DEF StreamOK
    <3>3. member'[t] = Without(Merged(log, t, B.applied[t]), X) /\ lost'[t] = X
      BY <2>2, <3>2, <1>14, <1>17, NothingLost
    <3> QED BY <3>1, <3>3, <1>5, <1>15 DEF StreamOK
  <2> QED BY <2>1, <2>2
<1>20. TablesOK(log, latest', applied', stored, member', lost', early)
  BY <1>4, <1>5, <1>14, <1>19 DEF TablesOK
<1>21. member' \in MemberType
  <2>1. Without(B.member[t], X) \in [Products -> {"none", "inactive", "active"}]
    BY <1>18 DEF Without
  <2> QED BY <2>1, <1>4, <1>11 DEF MemberType
<1>6. /\ status' = [status EXCEPT ![i] = new]
      /\ accidents < MaxAccidents /\ accidents' = accidents + 1
      /\ astray' = Products
      /\ UNCHANGED <<log, stored, shown, early>>
  BY DEF CutOff
<1>7. ShownRight(shown', member', status', astray')
  BY <1>6 DEF ShownRight
<1>8. TypeOK'
  <2>1. status' \in [Integrations -> {"active", "connected", "off"}]
    BY <1>6 DEF IInv, TypeOK
  <2>2. accidents' \in 0..MaxAccidents
    BY <1>6, SnapshotConstants DEF IInv, TypeOK
  <2>3. stored' \in [Streams -> SUBSET Nat] /\ early' \subseteq AllPages
        /\ shown' \in [Products -> {"none", "hidden", "shown"}]
    BY <1>6 DEF IInv, TypeOK
  <2> QED BY <2>1, <2>2, <2>3, <1>3, <1>4, <1>5, <1>6, <1>14, <1>21
          DEF TypeOK, MemberType, LogOK
<1>9. IInv'
  BY <1>3, <1>6, <1>7, <1>8, <1>20 DEF IInv
<1>10. Forward /\ WholeOrCut({t})
  <2>1. \A s \in Streams : applied'[s] >= applied[s] /\ applied[s] \in Nat
                                /\ applied'[s] \in Nat
    BY <1>4, <1>5 DEF IInv, TypeOK
  <2>2. \A s \in Streams : applied'[s] = applied[s] => lost'[s] = lost[s]
    BY <1>5, <1>14, <1>17
  <2>3. \A s \in Streams : applied'[s] # applied[s] /\ lost'[s] # {} =>
            s \in {t} /\ applied[s] = 0
    BY <1>4, <1>5, <1>14
  <2> QED BY <2>1, <2>2, <2>3 DEF Forward, WholeOrCut
<1> QED BY <1>9, <1>10

\* Sales and the owner's edits touch one product, which then counts as astray.
LEMMA EditsKeepIInv ==
    ASSUME IInv, NEW x \in Products,
           (\E i \in Integrations : Mention(i, x)) \/ Edit(x)
    PROVE  IInv' /\ applied' = applied /\ lost' = lost
<1>1. PICK v \in {"none", "shown", "hidden"} :
          /\ shown' = [shown EXCEPT ![x] = v]
          /\ astray' = astray \cup {x}
          /\ UNCHANGED <<status, log, latest, applied, stored, member, early,
                         accidents, lost>>
  BY DEF Mention, Edit, tables, history
<1>2. TypeOK'
  BY <1>1 DEF IInv, TypeOK
<1>3. ShownRight(shown', member', status', astray')
  <2> SUFFICES ASSUME NEW y \in Products \ astray', shown'[y] # "none"
               PROVE  shown'[y] = "shown" <=> Visible(member', status', y)
    BY DEF ShownRight
  <2>1. y # x /\ y \in Products \ astray /\ shown'[y] = shown[y]
    BY <1>1 DEF IInv, TypeOK
  <2> QED BY <2>1, <1>1 DEF IInv, ShownRight, Visible
<1> QED BY <1>1, <1>2, <1>3 DEF IInv

\* Steps that change nothing.
LEMMA StutterKeepsIInv ==
    IInv /\ UNCHANGED vars => IInv' /\ applied' = applied /\ lost' = lost
BY DEF IInv, TypeOK, vars, tables, history, ShownRight, Visible

LEMMA NextKeepsIInv ==
    IInv /\ [Next]_vars => IInv' /\ Forward
<1> SUFFICES ASSUME IInv, [Next]_vars
             PROVE  IInv' /\ Forward
  OBVIOUS
<1>0. applied' = applied /\ lost' = lost => Forward
  BY DEF IInv, TypeOK, Forward
<1>1. ASSUME NEW s \in Streams, NEW n \in Snapshots(s), NEW p \in Pages(s),
             ReceivePage(s, n, p)
      PROVE  IInv' /\ Forward
  BY <1>1, ReceivePageKeepsIInv
<1>2. ASSUME NEW i \in Integrations, Report(i) \/ Provision(i) \/ RequestConnection(i)
      PROVE  IInv' /\ Forward
  <2>1. PICK new \in {"active", "connected", "off"} : ChangeStatus(i, new)
    BY <1>2 DEF Report, Provision, RequestConnection
  <2> QED BY <2>1, ChangeStatusKeepsIInv
<1>3. ASSUME NEW i \in Integrations, NEW new \in {"active", "connected", "off"},
             CutOff(i, new)
      PROVE  IInv' /\ Forward
  BY <1>3, CutOffKeepsIInv
<1>4. ASSUME NEW x \in Products, (\E i \in Integrations : Mention(i, x)) \/ Edit(x)
      PROVE  IInv' /\ Forward
  BY <1>0, <1>4, EditsKeepIInv
<1>5. CASE UNCHANGED vars
  BY <1>0, <1>5, StutterKeepsIInv
<1> QED BY <1>1, <1>2, <1>3, <1>4, <1>5 DEF Next

LEMMA AlwaysIInv == Spec => []IInv
<1>1. IInv /\ [Next]_vars => IInv'
  BY NextKeepsIInv
<1> QED BY InitIInv, <1>1, PTL DEF Spec

----------------------------------------------------------------------------
(* Theorems *)

\* Every variable keeps its type.
THEOREM TypeCorrect == Spec => []TypeOK
<1>1. IInv => TypeOK
  BY DEF IInv
<1> QED BY AlwaysIInv, <1>1, PTL

\* What the memberships of a stream say is what its applied snapshot lists, as
\* far as it was read back.
LEMMA MembersAreListed ==
    ASSUME IInv, NEW s \in Streams, NEW x \in Products
    PROVE  member[s][x] = "active" <=> Listed(s, x) /\ x \notin lost[s]
<1>1. StreamOK(log, s, latest[s], applied[s], stored[s], member[s], lost[s], early)
  BY DEF IInv, TablesOK
<1>2. CASE applied[s] = 0
  BY <1>1, <1>2 DEF StreamOK, NoRows, Listed
<1>3. CASE applied[s] # 0
  BY <1>1, <1>3 DEF StreamOK, Listed, Without
<1> QED BY <1>2, <1>3

\* However pages, platforms, sales, edits and callbacks interleave, a product
\* that nobody meddled with is shown exactly while some connected platform's
\* applied snapshot, a complete one, lists it as active.  Of listings whose
\* reading back a crash cut off, those that were not read do not count.
THEOREM VisibilityFollowsSnapshots == Spec => []ShownFollowsSnapshots
<1>1. IInv => ShownFollowsSnapshots
  <2> SUFFICES ASSUME IInv, NEW x \in Products \ astray, shown[x] # "none"
               PROVE  shown[x] = "shown" <=>
                          \E s \in Streams : /\ status[Of[s]] # "off"
                                             /\ Listed(s, x) /\ x \notin lost[s]
    BY DEF ShownFollowsSnapshots
  <2>1. shown[x] = "shown" <=> Visible(member, status, x)
    BY DEF IInv, ShownRight
  <2>2. Visible(member, status, x) <=>
            \E s \in Streams : /\ status[Of[s]] # "off"
                               /\ Listed(s, x) /\ x \notin lost[s]
    BY MembersAreListed DEF Visible
  <2> QED BY <2>1, <2>2
<1> QED BY AlwaysIInv, <1>1, PTL

\* The newest snapshot of a stream is the one applied as soon as its pages
\* have all come, in whatever order and among whatever pages of older ones.
THEOREM NewestCounts == Spec => []NewestIsApplied
<1>1. IInv => NewestIsApplied
  <2> SUFFICES ASSUME IInv, NEW s \in Paged, LatestIn(log, s) # 0,
                      Received(log, s, LatestIn(log, s)) = Pages(s),
                      \A p \in Pages(s) : <<s, LatestIn(log, s), p>> \notin early
               PROVE  applied[s] = LatestIn(log, s)
    BY DEF NewestIsApplied
  <2> DEFINE n == LatestIn(log, s)
             L == {k \in Snapshots(s) : Received(log, s, k) # {}}
  <2>1. s \in Streams
    BY SnapshotConstants
  <2>2. StreamOK(log, s, latest[s], applied[s], stored[s], member[s], lost[s],
                 early)
    BY <2>1 DEF IInv, TablesOK
  <2>3. /\ MaxSnapshots[s] \in Nat /\ Snapshots(s) = 1..MaxSnapshots[s]
        /\ 1 \in Pages(s)
    BY <2>1, PagesAreNumbered
  <2>4. /\ L = {} => n = 0
        /\ L # {} => n \in L
        /\ \A k \in L : k <= n
    BY <2>3, NewestIsLargest DEF LatestIn
  <2>5. \A p \in Pages(s) : log[<<s, n, p>>].come /\ <<s, n, p>> \notin early
    BY DEF Received
  <2> HIDE DEF n
  <2>6. n \in Snapshots(s)
    BY <2>4 DEF n
  <2>7. latest[s] # 0 /\ n <= latest[s]
    BY <2>2, <2>3, <2>5, <2>6 DEF StreamOK
  <2>8. latest[s] \in L
    BY <2>2, <2>7 DEF StreamOK
  <2>9. latest[s] = n
    BY <2>3, <2>4, <2>6, <2>7, <2>8
  <2>10. applied[s] = latest[s]
    BY <2>2, <2>5, <2>7, <2>9 DEF StreamOK
  <2> QED BY <2>9, <2>10 DEF n
<1> QED BY AlwaysIInv, <1>1, PTL

\* A stream whose snapshots have ids never returns to an older one: late pages
\* are kept but do not count.
THEOREM StreamsMoveForward == Spec => AppliedMovesForward
<1>1. IInv /\ [Next]_vars => [\A s \in Paged : applied'[s] >= applied[s]]_applied
  BY NextKeepsIInv, SnapshotConstants DEF Forward
<1> QED BY AlwaysIInv, <1>1, PTL DEF Spec, AppliedMovesForward

----------------------------------------------------------------------------
(* Refinement of Storefront *)

\* What the code merges of a complete snapshot is what its pages list.
LEMMA CompleteIsWhole ==
    ASSUME NEW lg, LogOK(lg), NEW s \in Streams, NEW n \in Snapshots(s),
           Complete(lg, s, n)
    PROVE  /\ Promise!Whole(lg, s, n)
           /\ Promise!Listed(lg, s, n) =
                  {x \in Products : Merged(lg, s, n)[x] = "active"}
<1>1. /\ Pages(s) = 1..PageCount[s]
      /\ \A p \in Pages(s) : <<s, n, p>> \in AllPages
  BY PagesAreNumbered DEF Pages
<1>2. Promise!Whole(lg, s, n)
  BY <1>1 DEF Promise!Whole, Complete, Received
<1>3. ASSUME NEW x \in Products
      PROVE  (\E p \in Pages(s) : lg[<<s, n, p>>].items[x] = "active") <=>
                 Merged(lg, s, n)[x] = "active"
  <2>1. ASSUME NEW p \in Pages(s), lg[<<s, n, p>>].items[x] = "active"
        PROVE  Merged(lg, s, n)[x] = "active"
    <3>1. Lists(lg, s, n, p, x)
      BY <2>1 DEF Lists
    <3> QED BY <2>1, <3>1, MergedFollowsPages
  <2>2. ASSUME Merged(lg, s, n)[x] = "active"
        PROVE  \E p \in Pages(s) : lg[<<s, n, p>>].items[x] = "active"
    <3>1. PICK p \in Pages(s) : Lists(lg, s, n, p, x)
      BY <2>2, MergedFollowsPages
    <3>2. Merged(lg, s, n)[x] = lg[<<s, n, p>>].items[x]
      BY <3>1, MergedFollowsPages
    <3> QED BY <2>2, <3>2
  <2> QED BY <2>1, <2>2
<1> QED BY <1>1, <1>2, <1>3 DEF Promise!Listed

\* Pages stay as they came.
Grows == \A page \in AllPages : log[page].come => log'[page] = log[page]

\* A stream changes what it offers only for a whole snapshot, or for what an
\* accident left of its first one.
LEMMA SnapshotsAdvance ==
    ASSUME IInv, IInv', Grows, Forward, NEW cut, WholeOrCut(cut)
    PROVE  Promise!Advance(cut)
<1>1. /\ applied' \in [Streams -> Nat]
      /\ lost' \in [Streams -> SUBSET Products]
      /\ Offers' \in [Streams -> SUBSET Products]
  BY DEF IInv, TypeOK, Offers
<1>2. ASSUME NEW s \in Streams
      PROVE  \/ /\ applied'[s] = applied[s]
                /\ Offers'[s] = Offers[s] /\ lost'[s] = lost[s]
             \/ /\ Promise!Whole(log', s, applied'[s])
                /\ Offers'[s] = Promise!Listed(log', s, applied'[s]) \ lost'[s]
                /\ s \in Paged => applied'[s] > applied[s]
                /\ lost'[s] # {} => s \in cut /\ applied[s] = 0
  <2> DEFINE a == applied[s]
             b == applied'[s]
  <2>1. /\ LogOK(log) /\ LogOK(log')
        /\ StreamOK(log, s, latest[s], a, stored[s], member[s], lost[s], early)
        /\ StreamOK(log', s, latest'[s], b, stored'[s], member'[s], lost'[s],
                    early')
    BY DEF IInv, TablesOK
  <2>2. /\ a \in Nat /\ b \in Nat
        /\ Offers[s] = {x \in Products : member[s][x] = "active"}
        /\ Offers'[s] = {x \in Products : member'[s][x] = "active"}
        /\ a = b => lost'[s] = lost[s]
        /\ a # b /\ lost'[s] # {} => s \in cut /\ a = 0
    BY DEF IInv, TypeOK, Offers, Forward, WholeOrCut
  <2> HIDE DEF a, b
  <2>3. CASE a = b /\ b = 0
    BY <2>1, <2>2, <2>3 DEF StreamOK, a, b
  <2>4. CASE a = b /\ b # 0
    <3>1. /\ a \in Snapshots(s) /\ Complete(log, s, a)
          /\ member[s] = Without(Merged(log, s, a), lost[s])
          /\ member'[s] = Without(Merged(log', s, a), lost[s])
      BY <2>1, <2>2, <2>4 DEF StreamOK
    <3>2. \A p \in Pages(s) : log'[<<s, a, p>>] = log[<<s, a, p>>]
      BY <3>1, PagesAreNumbered DEF Grows, Complete, Received
    <3>3. member'[s] = member[s]
      BY <2>1, <3>1, <3>2, MergedDependsOnItsPages
    <3> QED BY <2>2, <2>4, <3>3 DEF a, b
  <2>5. CASE a # b /\ b # 0
    <3>1. /\ b \in Snapshots(s) /\ Complete(log', s, b)
          /\ member'[s] = Without(Merged(log', s, b), lost'[s])
      BY <2>1, <2>5 DEF StreamOK
    <3>5. /\ Promise!Whole(log', s, b)
          /\ Promise!Listed(log', s, b) =
                 {x \in Products : Merged(log', s, b)[x] = "active"}
      BY <2>1, <3>1, CompleteIsWhole
    <3>2. /\ Promise!Whole(log', s, b)
          /\ Offers'[s] = Promise!Listed(log', s, b) \ lost'[s]
      BY <2>2, <3>1, <3>5 DEF Without
    <3>3. s \in Paged => b >= a
      BY DEF a, b, Forward
    <3>4. s \in Paged => b > a
      BY <2>2, <2>5, <3>3
    <3> QED BY <2>2, <2>5, <3>2, <3>4 DEF a, b
  <2>6. CASE a # b /\ b = 0
    BY <2>2, <2>6 DEF a, b, Forward
  <2> QED BY <2>3, <2>4, <2>5, <2>6
<1> QED BY <1>1, <1>2 DEF Promise!Advance

\* Visibility seen from the memberships and from the offers.
LEMMA ShopIsPutRight ==
    ASSUME IInv, IInv', NEW rows, NEW keys, PutRight(rows, keys)
    PROVE  Promise!PutRight
<1> DEFINE K == keys \cap Products
<1>1. /\ shown' \in [Products -> {"none", "hidden", "shown"}]
      /\ astray' = astray \ K
  BY DEF IInv, TypeOK, PutRight
<1>2. \A s \in Streams, x \in Products :
          /\ Promise!Offered(s, x) <=>
                 member[s][x] = "active" /\ status[Of[s]] # "off"
          /\ Promise!Offered(s, x)' <=>
                 member'[s][x] = "active" /\ status'[Of[s]] # "off"
  BY DEF Promise!Offered, Offers
<1>3. \A x \in Products :
          Visible(member', status', x) <=> \E s \in Streams : Promise!Offered(s, x)'
  BY <1>2 DEF Visible
<1>4. ASSUME NEW x \in K
      PROVE  \/ shown[x] = "none" /\ shown'[x] = "none"
             \/ shown'[x] = IF \E s \in Streams : Promise!Offered(s, x)'
                            THEN "shown" ELSE "hidden"
  <2>1. shown'[x] = IF rows[x] = "none" THEN "none"
                    ELSE IF Visible(member', status', x) THEN "shown" ELSE "hidden"
    BY DEF PutRight, Reconciled
  <2> QED BY <1>3, <2>1 DEF PutRight
<1>5. ASSUME NEW x \in Products \ K
      PROVE  /\ shown'[x] = shown[x]
             /\ \A s \in Streams : Promise!Offered(s, x)' <=> Promise!Offered(s, x)
  <2>1. x \in Products \ keys
    OBVIOUS
  <2>2. shown'[x] = shown[x]
    BY <2>1 DEF PutRight, Reconciled
  <2> QED BY <1>2, <2>1, <2>2 DEF PutRight
<1>6. K \in SUBSET Products
  OBVIOUS
<1> HIDE DEF K
<1> QED BY <1>1, <1>4, <1>5, <1>6 DEF Promise!PutRight

\* Before anything has come nothing counts.
LEMMA StorefrontInit == Init => Promise!Init
BY DEF Init, Promise!Init, Offers

\* A page.
LEMMA PageArrives ==
    ASSUME IInv, IInv', Forward, WholeOrCut({}),
           NEW s \in Streams, NEW n \in Snapshots(s), NEW p \in Pages(s),
           ReceivePage(s, n, p)
    PROVE  Promise!Next
<1> DEFINE page == <<s, n, p>>
<1>1. PICK c \in Content : log' = [log EXCEPT ![page] = c]
  BY DEF ReceivePage
<1>2. /\ page \in AllPages /\ page[1] = s
      /\ ~log[page].come /\ status[Of[s]] = "active" /\ UNCHANGED status
  BY PagesAreNumbered DEF ReceivePage, Deliverable
<1>3. log \in [AllPages -> Content \cup {NotReceived}]
  BY DEF IInv, TypeOK
<1> HIDE DEF page
<1>4. log'[page] = c /\ c.come
  BY <1>1, <1>2, <1>3 DEF Content
<1>5. log' = [log EXCEPT ![page] = log'[page]]
  BY <1>1, <1>4
<1>6. Grows
  BY <1>1, <1>2, <1>3 DEF Grows
<1>7. Promise!Advance({})
  BY <1>6, SnapshotsAdvance
<1>8. PICK rows, keys : PutRight(rows, keys)
  BY PagePutsRight
<1>9. Promise!PutRight
  BY <1>8, ShopIsPutRight
<1>10. Promise!Arrive(page)
  BY <1>2, <1>4, <1>5, <1>7, <1>9 DEF Promise!Arrive
<1> QED BY <1>2, <1>10 DEF Promise!Next

\* A callback, an answer or an approval.
LEMMA StatusConnects ==
    ASSUME IInv, IInv', Forward, WholeOrCut({}), NEW i \in Integrations,
           NEW new \in {"active", "connected", "off"}, ChangeStatus(i, new)
    PROVE  Promise!Next
<1>1. status' = [status EXCEPT ![i] = new] /\ UNCHANGED log
  BY DEF ChangeStatus
<1>2. Promise!Advance({})
  BY <1>1, SnapshotsAdvance DEF Grows
<1>3. PICK rows, keys : PutRight(rows, keys)
  BY StatusPutsRight
<1>4. Promise!PutRight
  BY <1>3, ShopIsPutRight
<1>5. Promise!Connect(i, new)
  BY <1>1, <1>2, <1>4 DEF Promise!Connect
<1> QED BY <1>5 DEF Promise!Next

\* A crash within a callback.
LEMMA CutOffIsAccident ==
    ASSUME IInv, IInv', Forward, \E t \in Streams : WholeOrCut({t}),
           NEW i \in Integrations,
           NEW new \in {"active", "connected", "off"}, CutOff(i, new)
    PROVE  Promise!Next
<1>1. /\ status' = [status EXCEPT ![i] = new]
      /\ astray' = Products /\ UNCHANGED <<log, shown>>
  BY DEF CutOff
<1>2. PICK t \in Streams : WholeOrCut({t})
  OBVIOUS
<1>4. Promise!Advance({t})
  BY <1>1, <1>2, SnapshotsAdvance DEF Grows
<1>3. Promise!Accident(i, new)
  BY <1>1, <1>4 DEF Promise!Accident
<1> QED BY <1>3 DEF Promise!Next

\* The owner, or a sale.
LEMMA EditTouches ==
    ASSUME NEW x \in Products, (\E i \in Integrations : Mention(i, x)) \/ Edit(x)
    PROVE  Promise!Next
<1>1. PICK v \in {"none", "hidden", "shown"} :
          /\ shown' = [shown EXCEPT ![x] = v]
          /\ astray' = astray \cup {x}
          /\ UNCHANGED <<status, log, applied, member, lost>>
          /\ shown[x] # "none" \/ \E i \in Integrations : status[i] = "active"
  BY DEF Mention, Edit, tables
<1>2. Offers' = Offers
  BY <1>1 DEF Offers
<1>3. Promise!Touch(x, v)
  BY <1>1, <1>2 DEF Promise!Touch
<1> QED BY <1>3 DEF Promise!Next

\* Every step of the service is a step or a stutter of the promise.
LEMMA StorefrontStep ==
    IInv /\ IInv' /\ [Next]_vars => [Promise!Next]_Promise!vars
<1> SUFFICES ASSUME IInv, IInv', [Next]_vars
             PROVE  [Promise!Next]_Promise!vars
  OBVIOUS
<1>0. Forward
  BY NextKeepsIInv
<1>1. ASSUME NEW s \in Streams, NEW n \in Snapshots(s), NEW p \in Pages(s),
             ReceivePage(s, n, p)
      PROVE  Promise!Next
  BY <1>0, <1>1, ReceivePageKeepsIInv, PageArrives
<1>2. ASSUME NEW i \in Integrations, Report(i) \/ Provision(i) \/ RequestConnection(i)
      PROVE  Promise!Next
  <2>1. PICK new \in {"active", "connected", "off"} : ChangeStatus(i, new)
    BY <1>2 DEF Report, Provision, RequestConnection
  <2> QED BY <1>0, <2>1, ChangeStatusKeepsIInv, StatusConnects
<1>3. ASSUME NEW i \in Integrations, NEW new \in {"active", "connected", "off"},
             CutOff(i, new)
      PROVE  Promise!Next
  BY <1>0, <1>3, CutOffKeepsIInv, CutOffIsAccident
<1>4. ASSUME NEW x \in Products, (\E i \in Integrations : Mention(i, x)) \/ Edit(x)
      PROVE  Promise!Next
  BY <1>4, EditTouches
<1>5. CASE UNCHANGED vars
  BY <1>5 DEF vars, tables, history, Promise!vars, Offers
<1> QED BY <1>1, <1>2, <1>3, <1>4, <1>5 DEF Next

\* Pages in any order, tables that are read back and callbacks of several
\* statements keep the promise: snapshots count whole and in order, but for a
\* first one whose reading back a crash cuts off, and what platforms change
\* their mind about is put right in the same step.
THEOREM StorefrontIsKept == Spec => ImplementsStorefront
<1>1. IInv /\ IInv' /\ [Next]_vars => [Promise!Next]_Promise!vars
  BY StorefrontStep
<1> QED BY StorefrontInit, AlwaysIInv, <1>1, PTL
        DEF Spec, ImplementsStorefront, Promise!Spec

=============================================================================
