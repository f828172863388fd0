--------------------------- MODULE SessionsProof ---------------------------
(***************************************************************************)
(* The session cache and the response counts, for any number of browsers,  *)
(* requests and status codes and a cache of any size: cookies stay with    *)
(* the browser they were set for, none is lost unless its session is       *)
(* unsettled, and no response is counted twice.                            *)
(***************************************************************************)
EXTENDS Sessions, SequenceTheorems, TLAPS

\* The entries of the cache, in any order.
Elements(c) == {c[k] : k \in 1 .. Len(c)}
Entries     == Elements(cache)

\* The session that a jar is made for.  A request that has no session uses the
\* jar of NoSession, and makes a session of its own number afterwards.
Owner(ids, j) == IF j[2] = "first" /\ ids[j[1]] = j[1] THEN NoSession ELSE ids[j[1]]

BeforeHeader == {"new", "get1", "add1", "restore", "header"}
AfterSet     == {"send", "count", "done"}
Over         == {"count", "done"}

\* Where a session ID comes from: a request has made it, or has it from its
\* browser, which has it from before the start, or got it with the response to
\* the request that made it.
SessionsOwned ==
    /\ \A b \in Browsers : cookie[b] \notin {NoSession, b} =>
          /\ cookie[b] \in Requests /\ browser[cookie[b]] = b
          /\ pc[cookie[b]] \in Over /\ sid[cookie[b]] = cookie[b]
    /\ \A r \in Requests : pc[r] = "new" => sid[r] = NoSession
    /\ \A r \in Requests : pc[r] \in BeforeHeader => sid[r] # r
    /\ \A r \in Requests : pc[r] \notin BeforeHeader => sid[r] # NoSession
    /\ \A r \in Requests : sid[r] \notin {NoSession, r, browser[r]} =>
          /\ sid[r] \in Requests /\ browser[sid[r]] = browser[r]
          /\ pc[sid[r]] \in Over /\ sid[sid[r]] = sid[r]

\* A jar never changes its session.
JarsOwned ==
    /\ \A e \in Entries :
          /\ e[1] = Owner(sid, e[2])
          /\ pc[e[2][1]] \notin {"new", "get1", "add1"}
          /\ e[2][2] = "second" => pc[e[2][1]] \in {"set"} \cup AfterSet
    /\ \A r \in Requests : pc[r] \in {"restore", "set"} =>
          /\ Owner(sid, jar[r]) = sid[r]
          /\ pc[jar[r][1]] \notin {"new", "get1", "add1"}
          /\ jar[r][2] = "second" => pc[jar[r][1]] \in {"set"} \cup AfterSet

\* What is in a jar was set in its session, and never in that of NoSession.
JarContents ==
    \A j \in Jars : \A q \in cookies[j] :
        q \in set /\ sid[q] = Owner(sid, j) /\ Owner(sid, j) # NoSession

SetWhenOver == \A q \in set : pc[q] \in AfterSet

\* A request that has not put or found its session in the cache yet: its first
\* look-up is not over, or it has just made the session.
Seeking(r) == pc[r] \in {"new", "get1", "add1"} \/ (sid[r] = r /\ pc[r] \in {"get2", "add2"})

\* Unless a session is unsettled, it has one jar.  One that was made since the
\* start is put into the cache before anybody else knows it, and later requests
\* find it; only of one from before may several requests miss.
OneJar ==
    \A r \in Requests : sid[r] # NoSession /\ sid[r] \notin Unsettled =>
        /\ ~Seeking(r) => \E e \in Entries : e[1] = sid[r]
        /\ (pc[r] = "add1" => sid[r] \in Browsers) /\ (pc[r] = "add2" => sid[r] = r)
        /\ pc[r] \in {"restore", "set"} => \A e \in Entries : e[1] = sid[r] => jar[r] = e[2]
        /\ r \in set => \A e \in Entries : e[1] = sid[r] => r \in cookies[e[2]]

\* What a request must be forwarded with was set in its session.
OwedInSession == \A r \in Requests : \A q \in owed[r] : q \in set /\ sid[q] = sid[r] /\ pc[r] # "new"

CookieInv ==
    /\ SessionsOwned /\ JarsOwned /\ JarContents /\ SetWhenOver /\ OneJar /\ OwedInSession
    /\ Isolation /\ CookiesKept

\* The accounts of a code: what its loop has yet to visit is still to be
\* written, what it has visited is about to be dropped.
Accounts ==
    \A c \in Codes :
        IF epc = "sleep" \/ c \in left
        THEN counted[c] - emitted[c] - codeCount[c] \in 0 .. late[c] + failed[c]
        ELSE counted[c] - emitted[c] \in 0 .. late[c] + failed[c]

MetricsInv == MetricsTypeOK /\ Accounts /\ (epc # "emit" => left = {})

IndInv == TypeOK /\ CookieInv /\ MetricsInv

-----------------------------------------------------------------------------
(* The LRU cache *)

CacheEntries == SessionIDs \X Jars

\* d is c with e in front, which replaces the k-th element.
MovedToFront(d, c, k, e) == d = <<e>> \o RemoveAt(c, k)

\* A cache that holds at most one jar for a session.
Unique(c) == \A k, l \in 1 .. Len(c) : c[k][1] = c[l][1] => k = l

\* What stands in front of a sequence pushes the rest back.
LEMMA PushFront ==
  ASSUME NEW S, NEW c \in Seq(S), NEW e \in S, NEW d, d = <<e>> \o c
  PROVE /\ d \in Seq(S) /\ Len(d) = Len(c) + 1
        /\ d[1] = e
        /\ \A i \in 2 .. Len(c) + 1 : d[i] = c[i - 1]
<1>1. <<e>> \in Seq(S) /\ Len(<<e>>) = 1 /\ <<e>>[1] = e /\ Len(c) \in Nat
  BY LenProperties
<1>2. /\ <<e>> \o c \in Seq(S) /\ Len(<<e>> \o c) = Len(<<e>>) + Len(c)
      /\ \A i \in 1 .. Len(<<e>>) + Len(c) :
            (<<e>> \o c)[i] = IF i <= Len(<<e>>) THEN <<e>>[i] ELSE c[i - Len(<<e>>)]
  BY <1>1, ConcatProperties
<1> QED BY <1>1, <1>2

\* The sequence without its k-th element.
LEMMA RemoveOne ==
  ASSUME NEW S, NEW c \in Seq(S), NEW k \in 1 .. Len(c)
  PROVE /\ RemoveAt(c, k) \in Seq(S) /\ Len(RemoveAt(c, k)) = Len(c) - 1
        /\ \A i \in 1 .. k - 1 : RemoveAt(c, k)[i] = c[i]
        /\ \A i \in k .. Len(c) - 1 : RemoveAt(c, k)[i] = c[i + 1]
<1> DEFINE a == SubSeq(c, 1, k - 1)
           b == SubSeq(c, k + 1, Len(c))
<1>1. Len(c) \in Nat /\ \A i \in 1 .. Len(c) : c[i] \in S
  BY LenProperties
<1>2. a \in Seq(S) /\ Len(a) = k - 1 /\ \A i \in 1 .. k - 1 : a[i] = c[i]
  BY <1>1, SubSeqProperties
<1>3. b \in Seq(S) /\ Len(b) = Len(c) - k /\ \A i \in 1 .. Len(c) - k : b[i] = c[k + i]
  BY <1>1, SubSeqProperties
<1> HIDE DEF a, b
<1>4. /\ a \o b \in Seq(S) /\ Len(a \o b) = Len(a) + Len(b)
      /\ \A i \in 1 .. Len(a) + Len(b) : (a \o b)[i] = IF i <= Len(a) THEN a[i] ELSE b[i - Len(a)]
  BY <1>2, <1>3, ConcatProperties
<1>5. Len(a \o b) = Len(c) - 1
  BY <1>1, <1>2, <1>3, <1>4
<1>6. \A i \in 1 .. k - 1 : (a \o b)[i] = c[i]
  BY <1>1, <1>2, <1>3, <1>4
<1>7. \A i \in k .. Len(c) - 1 : (a \o b)[i] = c[i + 1]
  <2> SUFFICES ASSUME NEW i \in k .. Len(c) - 1 PROVE (a \o b)[i] = c[i + 1]
    OBVIOUS
  <2>1. i \in 1 .. Len(a) + Len(b) /\ ~(i <= Len(a)) /\ i - Len(a) = i - k + 1
    BY <1>1, <1>2, <1>3
  <2>2. (a \o b)[i] = b[i - k + 1]
    BY <1>4, <2>1
  <2>3. i - k + 1 \in 1 .. Len(c) - k /\ k + (i - k + 1) = i + 1
    BY <1>1
  <2> QED BY <1>3, <2>2, <2>3
<1> QED BY <1>4, <1>5, <1>6, <1>7 DEF RemoveAt, a, b

\* An entry is moved to the front, or replaced there: the cache has one entry
\* for each session that it had one for.
LEMMA ToFront ==
  ASSUME NEW c \in Seq(CacheEntries), Unique(c), NEW k \in 1 .. Len(c),
         NEW e \in CacheEntries, e[1] = c[k][1], NEW d, MovedToFront(d, c, k, e)
  PROVE /\ d \in Seq(CacheEntries) /\ Len(d) = Len(c) /\ Unique(d)
        /\ e \in Elements(d)
        /\ \A x \in Elements(d) : x = e \/ (x \in Elements(c) /\ x[1] # e[1])
        /\ \A x \in Elements(c) : x[1] = e[1] \/ x \in Elements(d)
<1> DEFINE b == RemoveAt(c, k)
<1>1. Len(c) \in Nat \ {0}
  BY LenProperties
<1>2. /\ b \in Seq(CacheEntries) /\ Len(b) = Len(c) - 1
      /\ \A i \in 1 .. k - 1 : b[i] = c[i]
      /\ \A i \in k .. Len(c) - 1 : b[i] = c[i + 1]
  BY RemoveOne
<1>3. /\ d \in Seq(CacheEntries) /\ Len(d) = Len(c)
      /\ d[1] = e /\ \A i \in 2 .. Len(c) : d[i] = b[i - 1]
  <2>1. d = <<e>> \o b
    BY DEF MovedToFront
  <2> HIDE DEF b
  <2>2. d \in Seq(CacheEntries) /\ Len(d) = Len(b) + 1 /\ d[1] = e
        /\ \A i \in 2 .. Len(b) + 1 : d[i] = b[i - 1]
    BY <1>2, <2>1, PushFront
  <2>3. Len(b) + 1 = Len(c)
    BY <1>1, <1>2
  <2> QED BY <2>2, <2>3
<1> HIDE DEF b
<1>4. \A i \in 2 .. k : d[i] = c[i - 1]
  BY <1>1, <1>2, <1>3
<1>5. \A i \in k + 1 .. Len(c) : d[i] = c[i]
  BY <1>1, <1>2, <1>3
<1>6. Unique(d)
  <2> SUFFICES ASSUME NEW i \in 1 .. Len(c), NEW l \in 1 .. Len(c), d[i][1] = d[l][1] PROVE i = l
    BY <1>3 DEF Unique
  <2> DEFINE was(n) == IF n = 1 THEN k ELSE IF n <= k THEN n - 1 ELSE n
  <2>1. ASSUME NEW n \in 1 .. Len(c) PROVE was(n) \in 1 .. Len(c) /\ d[n][1] = c[was(n)][1]
    BY <1>1, <1>3, <1>4, <1>5
  <2>2. was(i) = was(l)
    BY <2>1 DEF Unique
  <2> QED BY <2>2, <1>1
<1>7. /\ e \in Elements(d)
      /\ \A x \in Elements(d) : x = e \/ (x \in Elements(c) /\ x[1] # e[1])
      /\ \A x \in Elements(c) : x[1] = e[1] \/ x \in Elements(d)
  <2>1. ASSUME NEW i \in 1 .. Len(c), i # 1 PROVE \E l \in 1 .. Len(c) : d[i] = c[l] /\ c[l][1] # e[1]
    <3>1. d[i][1] # d[1][1]
      BY <1>1, <1>3, <1>6, <2>1 DEF Unique
    <3>2. CASE i <= k
      <4>1. i \in 2 .. k /\ i - 1 \in 1 .. Len(c)
        BY <1>1, <2>1, <3>2
      <4>2. d[i] = c[i - 1]
        BY <1>4, <4>1
      <4> QED BY <1>3, <3>1, <4>1, <4>2
    <3>3. CASE i > k
      BY <1>1, <1>3, <1>5, <3>1, <3>3
    <3> QED BY <1>1, <3>2, <3>3
  <2>2. ASSUME NEW l \in 1 .. Len(c), c[l][1] # e[1] PROVE \E i \in 1 .. Len(c) : d[i] = c[l]
    <3>1. l # k
      BY <2>2
    <3>2. CASE l < k
      <4>1. l + 1 \in 2 .. k /\ l + 1 \in 1 .. Len(c) /\ (l + 1) - 1 = l
        BY <1>1, <3>2
      <4> QED BY <1>4, <4>1
    <3>3. CASE l > k
      BY <1>1, <1>5, <3>3
    <3> QED BY <1>1, <3>1, <3>2, <3>3
  <2>3. 1 \in 1 .. Len(c)
    BY <1>1
  <2>4. ASSUME NEW x \in Elements(d) PROVE x = e \/ (x \in Elements(c) /\ x[1] # e[1])
    BY <1>3, <2>1, <2>4 DEF Elements
  <2>5. e \in Elements(d)
    BY <1>3, <2>3 DEF Elements
  <2>6. ASSUME NEW x \in Elements(c), x[1] # e[1] PROVE x \in Elements(d)
    BY <1>3, <2>2, <2>6 DEF Elements
  <2> QED BY <2>4, <2>5, <2>6
<1> QED BY <1>3, <1>6, <1>7

\* What the type invariant says of the cache.
LEMMA CacheFacts ==
  ASSUME TypeOK
  PROVE /\ cache \in Seq(CacheEntries) /\ Unique(cache)
        /\ Len(cache) \in Nat /\ Len(cache) <= CacheLimit
        /\ Entries \subseteq CacheEntries
        /\ \A x, y \in Entries : x[1] = y[1] => x = y
        /\ \A s : InCache(s) => /\ Place(s) \in 1 .. Len(cache)
                                /\ cache[Place(s)][1] = s
                                /\ cache[Place(s)] \in Entries
<1>1. cache \in Seq(CacheEntries) /\ Unique(cache) /\ Len(cache) <= CacheLimit
  BY DEF TypeOK, CacheEntries, Unique
<1>2. Len(cache) \in Nat /\ \A k \in 1 .. Len(cache) : cache[k] \in CacheEntries
  BY <1>1, LenProperties
<1>3. \A s : InCache(s) => Place(s) \in 1 .. Len(cache) /\ cache[Place(s)][1] = s
  BY DEF InCache, Place
<1> QED BY <1>1, <1>2, <1>3 DEF Entries, Elements, Unique

\* A look-up that hits changes the order of the entries only.
LEMMA GetHit ==
  ASSUME TypeOK, NEW r \in Requests, Get(r), InCache(sid[r])
  PROVE /\ cache' \in Seq(CacheEntries) /\ Len(cache') <= CacheLimit /\ Unique(cache')
        /\ Entries' = Entries
        /\ \E x \in Entries : x[1] = sid[r] /\ jar' = [jar EXCEPT ![r] = x[2]]
<1> DEFINE k == Place(sid[r])
           x == cache[k]
<1>1. /\ cache \in Seq(CacheEntries) /\ Unique(cache) /\ Len(cache) <= CacheLimit
      /\ k \in 1 .. Len(cache) /\ x[1] = sid[r] /\ x \in Entries /\ Entries \subseteq CacheEntries
      /\ \A y, z \in Entries : y[1] = z[1] => y = z
  BY CacheFacts
<1>2. cache' = <<x>> \o Without(sid[r]) /\ jar' = [jar EXCEPT ![r] = x[2]]
  BY DEF Get
<1>3. Without(sid[r]) = RemoveAt(cache, k)
  BY DEF Without
<1> HIDE DEF k
<1>4. /\ cache' \in Seq(CacheEntries) /\ Len(cache') = Len(cache) /\ Unique(cache')
      /\ x \in Entries'
      /\ \A y \in Entries' : y = x \/ (y \in Entries /\ y[1] # x[1])
      /\ \A y \in Entries : y[1] = x[1] \/ y \in Entries'
  <2>1. x \in CacheEntries /\ cache' = <<x>> \o RemoveAt(cache, k)
    BY <1>1, <1>2, <1>3
  <2> DEFINE d == cache'
  <2>2. PICK y : y = x
    OBVIOUS
  <2>3. y \in CacheEntries /\ y[1] = cache[k][1] /\ MovedToFront(d, cache, k, y)
    BY <2>1, <2>2 DEF MovedToFront
  <2> HIDE DEF d
  <2>4. /\ d \in Seq(CacheEntries) /\ Len(d) = Len(cache) /\ Unique(d)
        /\ y \in Elements(d)
        /\ \A z \in Elements(d) : z = y \/ (z \in Elements(cache) /\ z[1] # y[1])
        /\ \A z \in Elements(cache) : z[1] = y[1] \/ z \in Elements(d)
    BY <1>1, <2>3, ToFront
  <2>5. Entries' = Elements(d)
    BY DEF d, Entries
  <2> QED BY <2>2, <2>4, <2>5 DEF d, Entries
<1> HIDE DEF x
<1>6. Entries' = Entries
  <2>1. \A y \in Entries' : y \in Entries
    BY <1>1, <1>4
  <2>2. \A y \in Entries : y \in Entries'
    BY <1>1, <1>4
  <2> HIDE DEF Entries
  <2> QED BY <2>1, <2>2
<1> QED BY <1>1, <1>2, <1>4, <1>6

\* Adding a jar replaces that of its session, and only what was evicted is
\* missing afterwards.
LEMMA AddOne ==
  ASSUME TypeOK, NEW r \in Requests, Add(r)
  PROVE LET e == <<sid[r], NewJar(r)>>
        IN  /\ cache' \in Seq(CacheEntries) /\ Len(cache') <= CacheLimit /\ Unique(cache')
            /\ e \in Entries'
            /\ \A x \in Entries' : x = e \/ (x \in Entries /\ x[1] # sid[r])
            /\ \A x \in Entries : x[1] = sid[r] \/ x \in Entries' \/ x[1] \in forgotten'
            /\ forgotten \subseteq forgotten' /\ forgotten' \subseteq SessionIDs
            /\ replaced \subseteq replaced' /\ replaced' \subseteq SessionIDs
            /\ (\E x \in Entries : x[1] = sid[r]) => sid[r] \in replaced'
<1> DEFINE e == <<sid[r], NewJar(r)>>
           added == <<e>> \o Without(sid[r])
<1>1. /\ cache \in Seq(CacheEntries) /\ Unique(cache) /\ Len(cache) \in Nat
      /\ Len(cache) <= CacheLimit /\ CacheLimit \in Nat \ {0}
  BY CacheFacts, LimitAssumption
<1>2. e \in CacheEntries
  BY DEF CacheEntries, TypeOK, NewJar, Jars
<1>0. /\ replaced \subseteq replaced' /\ replaced' \subseteq SessionIDs
      /\ (\E x \in Entries : x[1] = sid[r]) => sid[r] \in replaced'
  <2>1. replaced' = IF InCache(sid[r]) THEN replaced \cup {sid[r]} ELSE replaced
    BY DEF Add
  <2>2. sid[r] \in SessionIDs /\ replaced \subseteq SessionIDs
    BY DEF TypeOK
  <2>3. (\E x \in Entries : x[1] = sid[r]) => InCache(sid[r])
    BY DEF Entries, Elements, InCache
  <2> QED BY <2>1, <2>2, <2>3
<1>3. /\ cache' = IF Len(added) > CacheLimit THEN Front(added) ELSE added
      /\ forgotten' = IF Len(added) > CacheLimit THEN forgotten \cup {Last(added)[1]} ELSE forgotten
  BY DEF Add
<1>4. forgotten \subseteq SessionIDs
  BY DEF TypeOK
<1>5. CASE InCache(sid[r])
  <2> DEFINE k == Place(sid[r])
  <2>1. k \in 1 .. Len(cache) /\ cache[k][1] = sid[r]
    BY <1>5, CacheFacts
  <2>2. MovedToFront(added, cache, k, e)
    BY <1>5 DEF Without, MovedToFront
  <2> HIDE DEF k
  <2>3. e[1] = cache[k][1]
    BY <2>1
  <2> HIDE DEF e, added
  <2>4. /\ added \in Seq(CacheEntries) /\ Len(added) = Len(cache) /\ Unique(added)
        /\ e \in Elements(added)
        /\ \A x \in Elements(added) : x = e \/ (x \in Elements(cache) /\ x[1] # e[1])
        /\ \A x \in Elements(cache) : x[1] = e[1] \/ x \in Elements(added)
    BY <1>1, <1>2, <2>1, <2>2, <2>3, ToFront
  <2>5. cache' = added /\ forgotten' = forgotten
    BY <1>1, <1>3, <2>4
  <2>6. Entries' = Elements(added)
    BY <2>5 DEF Entries
  <2>7. e[1] = sid[r]
    BY DEF e
  <2> QED BY <1>0, <1>1, <1>4, <2>4, <2>5, <2>6, <2>7 DEF e, Entries
<1>6. CASE ~InCache(sid[r])
  <2>1. added = <<e>> \o cache /\ \A i \in 1 .. Len(cache) : cache[i][1] # e[1]
    BY <1>6 DEF Without, InCache
  <2> HIDE DEF e, added
  <2>2. /\ added \in Seq(CacheEntries) /\ Len(added) = Len(cache) + 1 /\ added[1] = e
        /\ \A i \in 2 .. Len(cache) + 1 : added[i] = cache[i - 1]
    BY <1>1, <1>2, <2>1, PushFront
  <2>3. \A i \in 1 .. Len(cache) : added[i + 1] = cache[i]
    <3> SUFFICES ASSUME NEW i \in 1 .. Len(cache) PROVE added[i + 1] = cache[i]
      OBVIOUS
    <3>1. i + 1 \in 2 .. Len(cache) + 1 /\ (i + 1) - 1 = i
      BY <1>1
    <3> QED BY <2>2, <3>1
  <2>4. Unique(added)
    <3> SUFFICES ASSUME NEW i \in 1 .. Len(cache) + 1, NEW l \in 1 .. Len(cache) + 1,
                        added[i][1] = added[l][1]
                 PROVE i = l
      BY <2>2 DEF Unique
    <3>0. \A n \in 2 .. Len(cache) + 1 : added[n][1] # e[1]
      <4> SUFFICES ASSUME NEW n \in 2 .. Len(cache) + 1 PROVE added[n][1] # e[1]
        OBVIOUS
      <4>1. n - 1 \in 1 .. Len(cache) /\ added[n] = cache[n - 1]
        BY <1>1, <2>2
      <4> QED BY <2>1, <4>1
    <3>1. CASE i = 1 \/ l = 1
      <4>1. (i = 1 \/ i \in 2 .. Len(cache) + 1) /\ (l = 1 \/ l \in 2 .. Len(cache) + 1)
        BY <1>1
      <4> QED BY <2>2, <3>0, <3>1, <4>1
    <3>2. CASE i # 1 /\ l # 1
      <4>1. i - 1 \in 1 .. Len(cache) /\ l - 1 \in 1 .. Len(cache) /\ i \in 2 .. Len(cache) + 1
            /\ l \in 2 .. Len(cache) + 1
        BY <1>1, <3>2
      <4>2. cache[i - 1][1] = cache[l - 1][1]
        BY <2>2, <4>1
      <4>3. i - 1 = l - 1
        BY <1>1, <4>1, <4>2 DEF Unique
      <4> QED BY <4>3
    <3> QED BY <3>1, <3>2
  <2>5. e[1] = sid[r]
    BY DEF e
  <2>6. CASE ~(Len(added) > CacheLimit)
    <3>1. cache' = added /\ forgotten' = forgotten
      BY <1>3, <2>6
    <3>2. ASSUME NEW x \in Entries PROVE x \in Entries'
      <4>1. PICK i \in 1 .. Len(cache) : x = cache[i]
        BY DEF Entries, Elements
      <4>2. x = added[i + 1] /\ i + 1 \in 1 .. Len(added)
        BY <1>1, <2>2, <2>3, <4>1
      <4> QED BY <3>1, <4>2 DEF Entries, Elements
    <3>3. ASSUME NEW x \in Entries' PROVE x = e \/ (x \in Entries /\ x[1] # e[1])
      <4>1. PICK i \in 1 .. Len(cache) + 1 : x = added[i]
        BY <2>2, <3>1 DEF Entries, Elements
      <4>2. CASE i = 1
        BY <2>2, <4>1, <4>2
      <4>3. CASE i # 1
        <5>1. i - 1 \in 1 .. Len(cache) /\ x = cache[i - 1]
          BY <1>1, <2>2, <4>1, <4>3
        <5> QED BY <2>1, <5>1 DEF Entries, Elements
      <4> QED BY <4>2, <4>3
    <3>4. e \in Entries'
      BY <1>1, <2>2, <3>1 DEF Entries, Elements
    <3> QED BY <1>0, <1>1, <1>4, <2>2, <2>4, <2>5, <2>6, <3>1, <3>2, <3>3, <3>4 DEF e
  <2>7. CASE Len(added) > CacheLimit
    <3>1. cache' = Front(added) /\ forgotten' = forgotten \cup {Last(added)[1]}
      BY <1>3, <2>7
    <3>2. Len(cache) \in Nat \ {0} /\ Len(added) \in Nat
      BY <1>1, <2>2, <2>7
    <3>3. Last(added) = cache[Len(cache)] /\ cache[Len(cache)] \in CacheEntries
      <4>1. Last(added) = added[Len(cache) + 1] /\ Len(cache) \in 1 .. Len(cache)
        BY <2>2, <3>2 DEF Last
      <4> QED BY <1>1, <2>3, <4>1, LenProperties
    <3>4. /\ Front(added) \in Seq(CacheEntries) /\ Len(Front(added)) = Len(cache)
          /\ \A i \in 1 .. Len(cache) : Front(added)[i] = added[i]
      <4>1. \A i \in 1 .. Len(cache) : added[i] \in CacheEntries
        BY <2>2, <3>2, LenProperties
      <4>2. Front(added) = SubSeq(added, 1, Len(cache))
        BY <2>2, <3>2 DEF Front
      <4> QED BY <3>2, <4>1, <4>2, SubSeqProperties
    <3> DEFINE f == Front(added)
    <3> HIDE DEF f
    <3>5. cache' = f /\ Len(f) = Len(cache) /\ \A i \in 1 .. Len(cache) : f[i] = added[i]
      BY <3>1, <3>4 DEF f
    <3>6. Unique(cache') /\ Len(cache') <= CacheLimit
      BY <1>1, <2>2, <2>4, <3>5 DEF Unique
    <3>7. e \in Entries'
      BY <2>2, <3>2, <3>5 DEF Entries, Elements
    <3>8. ASSUME NEW x \in Entries' PROVE x = e \/ (x \in Entries /\ x[1] # e[1])
      <4>1. PICK i \in 1 .. Len(cache) : x = added[i]
        BY <3>5 DEF Entries, Elements
      <4>2. CASE i = 1
        BY <2>2, <4>1, <4>2
      <4>3. CASE i # 1
        <5>1. i - 1 \in 1 .. Len(cache) /\ x = cache[i - 1]
          BY <1>1, <2>2, <4>1, <4>3
        <5> QED BY <2>1, <5>1 DEF Entries, Elements
      <4> QED BY <4>2, <4>3
    <3>9. ASSUME NEW x \in Entries PROVE x \in Entries' \/ x[1] \in forgotten'
      <4>1. PICK i \in 1 .. Len(cache) : x = cache[i]
        BY DEF Entries, Elements
      <4>2. CASE i = Len(cache)
        BY <3>1, <3>3, <4>1, <4>2
      <4>3. CASE i # Len(cache)
        <5>1. i + 1 \in 1 .. Len(cache) /\ x = f[i + 1]
          BY <1>1, <2>3, <3>5, <4>1, <4>3
        <5> QED BY <3>5, <5>1 DEF Entries, Elements
      <4> QED BY <4>2, <4>3
    <3>10. forgotten \subseteq forgotten' /\ forgotten' \subseteq SessionIDs
      BY <1>4, <3>1, <3>3 DEF CacheEntries
    <3>11. cache' \in Seq(CacheEntries)
      BY <3>1, <3>4
    <3> QED BY <1>0, <2>5, <3>6, <3>7, <3>8, <3>9, <3>10, <3>11 DEF e
  <2> QED BY <2>6, <2>7
<1> QED BY <1>5, <1>6

-----------------------------------------------------------------------------
(* The response counts *)

\* Counting a response leaves its code accounted for.
LEMMA CountKept ==
  ASSUME MetricsInv, NEW code \in Codes, WriteResponseCodeMetric(code), UNCHANGED crashed
  PROVE MetricsInv'
<1> USE DEF MetricsInv, MetricsTypeOK
<1>1. codeCount \in [Codes -> Nat] /\ counted \in [Codes -> Nat] /\ late \in [Codes -> Nat]
      /\ emitted \in [Codes -> Nat] /\ failed \in [Codes -> Nat]
  OBVIOUS
<1>2. /\ codeCount' = [codeCount EXCEPT ![code] = @ + 1]
      /\ counted' = [counted EXCEPT ![code] = @ + 1]
      /\ late' = IF epc = "sleep" THEN late ELSE [late EXCEPT ![code] = @ + 1]
      /\ left' = left \/ (epc = "emit" /\ codeCount[code] = 0 /\ left' = left \cup {code})
      /\ epc' = epc /\ ticks' = ticks /\ emitted' = emitted /\ failed' = failed
  BY DEF WriteResponseCodeMetric
<1>3. /\ codeCount' \in [Codes -> Nat] /\ counted' \in [Codes -> Nat] /\ late' \in [Codes -> Nat]
      /\ emitted' \in [Codes -> Nat] /\ failed' \in [Codes -> Nat]
  BY <1>1, <1>2
<1>4. MetricsTypeOK' /\ (epc # "emit" => left = {})'
  <2>1. crashed' \in BOOLEAN
    OBVIOUS
  <2> QED BY <1>2, <1>3, <2>1
<1>5. Accounts'
  <2> SUFFICES ASSUME NEW c \in Codes
               PROVE IF epc' = "sleep" \/ c \in left'
                     THEN counted'[c] - emitted'[c] - codeCount'[c] \in 0 .. late'[c] + failed'[c]
                     ELSE counted'[c] - emitted'[c] \in 0 .. late'[c] + failed'[c]
    BY DEF Accounts
  <2>1. IF epc = "sleep" \/ c \in left
        THEN counted[c] - emitted[c] - codeCount[c] \in 0 .. late[c] + failed[c]
        ELSE counted[c] - emitted[c] \in 0 .. late[c] + failed[c]
    BY DEF Accounts
  <2>2. counted[c] \in Nat /\ emitted[c] \in Nat /\ codeCount[c] \in Nat /\ late[c] \in Nat /\ failed[c] \in Nat
    BY <1>1
  <2>3. CASE c # code
    BY <1>1, <1>2, <2>1, <2>2, <2>3
  <2>4. CASE c = code
    <3>1. /\ codeCount'[c] = codeCount[c] + 1 /\ counted'[c] = counted[c] + 1
          /\ late'[c] = IF epc = "sleep" THEN late[c] ELSE late[c] + 1
          /\ emitted'[c] = emitted[c] /\ failed'[c] = failed[c]
      BY <1>1, <1>2, <2>4
    <3> QED BY <1>2, <2>1, <2>2, <2>4, <3>1
  <2> QED BY <2>3, <2>4
<1> QED BY <1>4, <1>5

\* A step of a report does so, too.
LEMMA ReportKept ==
  ASSUME MetricsInv, MetricsStep, UNCHANGED crashed
  PROVE MetricsInv'
<1> USE DEF MetricsInv, MetricsTypeOK
<1>1. /\ codeCount \in [Codes -> Nat] /\ counted \in [Codes -> Nat] /\ late \in [Codes -> Nat]
      /\ emitted \in [Codes -> Nat] /\ failed \in [Codes -> Nat]
      /\ left \subseteq Codes /\ ticks \in 0 .. MaxTicks /\ MaxTicks \in Nat
  BY TicksAssumption
<1>0. crashed' \in BOOLEAN
  OBVIOUS
<1>2. CASE Tick
  <2>1. MetricsTypeOK' /\ (epc # "emit" => left = {})'
    BY <1>0, <1>1, <1>2 DEF Tick
  <2>2. Accounts'
    <3>1. \A c \in Codes : counted[c] - emitted[c] - codeCount[c] \in 0 .. late[c] + failed[c]
      BY <1>2 DEF Tick, Accounts
    <3> QED BY <1>1, <1>2, <3>1 DEF Tick, Accounts
  <2> QED BY <2>1, <2>2
<1>3. CASE \E c \in Codes : Emit(c)
  <2>1. PICK code \in Codes : Emit(code)
    BY <1>3
  <2>2. /\ epc = "emit" /\ code \in left /\ left' = left \ {code} /\ epc' = epc /\ ticks' = ticks
        /\ codeCount' = codeCount /\ counted' = counted /\ late' = late
        /\ \/ emitted' = [emitted EXCEPT ![code] = @ + codeCount[code]] /\ failed' = failed
           \/ failed' = [failed EXCEPT ![code] = @ + codeCount[code]] /\ emitted' = emitted
    BY <2>1 DEF Emit
  <2>3. emitted' \in [Codes -> Nat] /\ failed' \in [Codes -> Nat]
    BY <1>1, <2>2
  <2>4. MetricsTypeOK' /\ (epc # "emit" => left = {})'
    BY <1>0, <1>1, <2>2, <2>3
  <2>5. Accounts'
    <3> SUFFICES ASSUME NEW c \in Codes
                 PROVE IF c \in left'
                       THEN counted[c] - emitted'[c] - codeCount[c] \in 0 .. late[c] + failed'[c]
                       ELSE counted[c] - emitted'[c] \in 0 .. late[c] + failed'[c]
      BY <2>2 DEF Accounts
    <3>1. IF c \in left
          THEN counted[c] - emitted[c] - codeCount[c] \in 0 .. late[c] + failed[c]
          ELSE counted[c] - emitted[c] \in 0 .. late[c] + failed[c]
      BY <2>2 DEF Accounts
    <3>2. counted[c] \in Nat /\ emitted[c] \in Nat /\ codeCount[c] \in Nat /\ late[c] \in Nat /\ failed[c] \in Nat
      BY <1>1
    <3>3. CASE c # code
      BY <1>1, <2>2, <3>1, <3>3
    <3>4. CASE c = code
      <4>1. c \in left /\ c \notin left'
        BY <2>2, <3>4
      <4>2. \/ emitted'[c] = emitted[c] + codeCount[c] /\ failed'[c] = failed[c]
            \/ failed'[c] = failed[c] + codeCount[c] /\ emitted'[c] = emitted[c]
        BY <1>1, <2>2, <3>4
      <4> QED BY <3>1, <3>2, <4>1, <4>2
    <3> QED BY <3>3, <3>4
  <2> QED BY <2>4, <2>5
<1>4. CASE EmitDone
  BY <1>0, <1>1, <1>4 DEF EmitDone, Accounts
<1>5. CASE Reset
  <2>1. codeCount' \in [Codes -> Nat] /\ \A c \in Codes : codeCount'[c] = 0
    BY <1>5 DEF Reset, NoCount
  <2>2. MetricsTypeOK' /\ (epc # "emit" => left = {})'
    BY <1>0, <1>1, <1>5, <2>1 DEF Reset
  <2>3. \A c \in Codes : counted[c] - emitted[c] \in 0 .. late[c] + failed[c]
    BY <1>5 DEF Reset, Accounts
  <2>4. \A c \in Codes : counted[c] - emitted[c] - 0 = counted[c] - emitted[c]
    BY <1>1
  <2>5. Accounts'
    BY <1>5, <2>1, <2>3, <2>4 DEF Reset, Accounts
  <2> QED BY <2>2, <2>5
<1> QED BY <1>2, <1>3, <1>4, <1>5 DEF MetricsStep

-----------------------------------------------------------------------------
(* The steps of a request *)

Steps == {"new", "get1", "add1", "restore", "header", "get2", "add2", "set", "send", "count", "done"}

\* The part of the type invariant that is about the sessions.
SessionTypes ==
    /\ cookie \in [Browsers -> SessionIDs]
    /\ browser \in [Requests -> Browsers]
    /\ pc \in [Requests -> Steps]
    /\ sid \in [Requests -> SessionIDs]
    /\ jar \in [Requests -> Jars]
    /\ cookies \in [Jars -> SUBSET Requests]
    /\ restored \in [Requests -> SUBSET Requests]
    /\ owed \in [Requests -> SUBSET Requests]
    /\ set \subseteq Requests
    /\ forgotten \subseteq SessionIDs /\ replaced \subseteq SessionIDs

CacheTypes == cache \in Seq(CacheEntries) /\ Len(cache) <= CacheLimit /\ Unique(cache)

LEMMA TypeParts == TypeOK <=> MetricsTypeOK /\ SessionTypes /\ CacheTypes
BY DEF TypeOK, SessionTypes, CacheTypes, CacheEntries, Unique, Steps

LEMMA IDsDiffer == NoSession \notin Requests /\ NoSession \notin Browsers /\ Browsers \cap Requests = {}
BY LimitAssumption, BrowsersAssumption DEF NoSession, Requests

\* A step that leaves the jars and the sessions alone keeps their owners.
LEMMA JarsKept ==
  ASSUME SessionTypes, Entries \subseteq CacheEntries, JarsOwned, NEW r \in Requests,
         sid' = sid, jar' = jar, Entries' = Entries,
         \A q \in Requests : q # r => pc'[q] = pc[q],
         pc'[r] \in {"new", "get1", "add1"} => pc[r] \in {"new", "get1", "add1"},
         pc[r] \in {"set"} \cup AfterSet => pc'[r] \in {"set"} \cup AfterSet,
         pc'[r] \notin {"restore", "set"}
  PROVE JarsOwned'
<1>1. ASSUME NEW e \in Entries
      PROVE /\ e[1] = Owner(sid, e[2])
            /\ pc'[e[2][1]] \notin {"new", "get1", "add1"}
            /\ e[2][2] = "second" => pc'[e[2][1]] \in {"set"} \cup AfterSet
  <2>1. e[2] \in Jars /\ e[2][1] \in Requests
    BY DEF CacheEntries, Jars
  <2> QED BY <2>1 DEF JarsOwned
<1>2. ASSUME NEW q \in Requests, pc'[q] \in {"restore", "set"}
      PROVE /\ Owner(sid, jar[q]) = sid[q]
            /\ pc'[jar[q][1]] \notin {"new", "get1", "add1"}
            /\ jar[q][2] = "second" => pc'[jar[q][1]] \in {"set"} \cup AfterSet
  <2>1. jar[q] \in Jars /\ jar[q][1] \in Requests
    BY DEF SessionTypes, Jars
  <2> QED BY <1>2, <2>1 DEF JarsOwned
<1> QED BY <1>1, <1>2 DEF JarsOwned

\* A request begins with the session of its browser.
LEMMA BeginKept ==
  ASSUME IndInv, NEW r \in Requests, Begin(r)
  PROVE SessionTypes' /\ CacheTypes' /\ CookieInv'
<1> DEFINE s == cookie[browser[r]]
<1>1. /\ SessionTypes /\ CacheTypes
      /\ NoSession \notin Requests /\ NoSession \notin Browsers /\ Browsers \cap Requests = {}
  BY TypeParts, IDsDiffer DEF IndInv
<1>2. /\ pc[r] = "new" /\ pc' = [pc EXCEPT ![r] = "get1"] /\ sid' = [sid EXCEPT ![r] = s]
      /\ owed' = [owed EXCEPT ![r] = {q \in set : pc[q] \in {"count", "done"} /\ sid[q] = s}]
      /\ cookie' = cookie /\ browser' = browser /\ jar' = jar /\ cache' = cache /\ cookies' = cookies
      /\ forgotten' = forgotten /\ replaced' = replaced /\ restored' = restored /\ set' = set
  BY DEF Begin, cacheVars
<1>3. s \in SessionIDs
  BY <1>1 DEF SessionTypes
<1>4. SessionTypes'
  <2>1. {q \in set : pc[q] \in {"count", "done"} /\ sid[q] = s} \in SUBSET Requests
    BY <1>1 DEF SessionTypes
  <2> HIDE DEF s
  <2> QED BY <1>1, <1>2, <1>3, <2>1 DEF SessionTypes, Steps
<1>5. CacheTypes'
  BY <1>1, <1>2 DEF CacheTypes
<1>6. /\ pc'[r] = "get1" /\ sid'[r] = s /\ sid[r] = NoSession /\ r \notin set
      /\ \A q \in Requests : q # r => pc'[q] = pc[q] /\ sid'[q] = sid[q] /\ owed'[q] = owed[q]
      /\ \A q \in owed'[r] : q \in set /\ sid[q] = s
      /\ Entries' = Entries /\ Entries \subseteq CacheEntries
  BY <1>1, <1>2, CacheFacts
     DEF IndInv, CookieInv, SessionTypes, SessionsOwned, SetWhenOver, AfterSet, Entries
<1>7. SessionsOwned /\ JarsOwned /\ JarContents /\ SetWhenOver /\ OneJar /\ OwedInSession /\ Isolation /\ CookiesKept
  BY DEF IndInv, CookieInv
<1>8. /\ s \notin {NoSession, browser[r]} =>
            s \in Requests /\ browser[s] = browser[r] /\ pc[s] \in Over /\ sid[s] = s
      /\ s # r
  <2>1. browser[r] \in Browsers
    BY <1>1 DEF SessionTypes
  <2> QED BY <1>1, <1>2, <1>7, <2>1 DEF SessionsOwned, Over
<1> HIDE DEF s
<1>9. SessionsOwned'
  BY <1>1, <1>2, <1>3, <1>6, <1>7, <1>8 DEF SessionsOwned, SessionTypes, Over, BeforeHeader
<1>10. \A j \in Jars : j[1] # r => Owner(sid', j) = Owner(sid, j)
  BY <1>1, <1>6 DEF Owner, Jars
<1>11. \A j \in Jars : j[1] = r => Owner(sid, j) = NoSession
  BY <1>6 DEF Owner
<1>12. JarsOwned'
  <2>1. ASSUME NEW e \in Entries
        PROVE /\ e[1] = Owner(sid', e[2])
              /\ pc'[e[2][1]] \notin {"new", "get1", "add1"}
              /\ e[2][2] = "second" => pc'[e[2][1]] \in {"set"} \cup AfterSet
    <3>1. e[2] \in Jars /\ e[2][1] \in Requests
      BY <1>6 DEF CacheEntries, Jars
    <3> QED BY <1>2, <1>6, <1>7, <1>10, <3>1 DEF JarsOwned
  <2>2. ASSUME NEW q \in Requests, pc'[q] \in {"restore", "set"}
        PROVE /\ Owner(sid', jar[q]) = sid'[q]
              /\ pc'[jar[q][1]] \notin {"new", "get1", "add1"}
              /\ jar[q][2] = "second" => pc'[jar[q][1]] \in {"set"} \cup AfterSet
    <3>1. jar[q] \in Jars /\ jar[q][1] \in Requests
      BY <1>1 DEF SessionTypes, Jars
    <3> QED BY <1>2, <1>6, <1>7, <1>10, <2>2, <3>1 DEF JarsOwned
  <2> QED BY <1>2, <1>6, <2>1, <2>2 DEF JarsOwned
<1>13. JarContents'
  <2> SUFFICES ASSUME NEW j \in Jars, NEW q \in cookies[j]
               PROVE q \in set /\ sid'[q] = Owner(sid', j) /\ Owner(sid', j) # NoSession
    BY <1>2 DEF JarContents
  <2>1. q \in set /\ sid[q] = Owner(sid, j) /\ Owner(sid, j) # NoSession
    BY <1>7 DEF JarContents
  <2>2. q \in Requests /\ q # r /\ j[1] # r
    BY <1>1, <1>6, <1>11, <2>1 DEF SessionTypes
  <2> QED BY <1>6, <1>10, <2>1, <2>2
<1>14. SetWhenOver'
  BY <1>1, <1>2, <1>6, <1>7 DEF SetWhenOver, SessionTypes
<1>15. OneJar'
  BY <1>1, <1>2, <1>6, <1>7 DEF OneJar, Seeking, Unsettled
<1>16. OwedInSession'
  <2> SUFFICES ASSUME NEW p \in Requests, NEW q \in owed'[p]
               PROVE q \in set /\ sid'[q] = sid'[p] /\ pc'[p] # "new"
    BY <1>2 DEF OwedInSession
  <2>1. q \in set /\ sid[q] = sid'[p] /\ pc'[p] # "new"
    BY <1>6, <1>7 DEF OwedInSession
  <2> QED BY <1>1, <1>6, <2>1 DEF SessionTypes
<1>17. Isolation' /\ CookiesKept'
  BY <1>2, <1>6, <1>7 DEF Isolation, CookiesKept, Unsettled
<1> QED BY <1>4, <1>5, <1>9, <1>12, <1>13, <1>14, <1>15, <1>16, <1>17 DEF CookieInv

\* A request without a session makes one: the jar of NoSession that it may
\* have made before stays that of NoSession.
LEMMA WriteHeaderKept ==
  ASSUME IndInv, NEW r \in Requests, WriteHeader(r)
  PROVE SessionTypes' /\ CacheTypes' /\ CookieInv'
<1>1. /\ SessionTypes /\ CacheTypes
      /\ NoSession \notin Requests /\ NoSession \notin Browsers /\ Browsers \cap Requests = {}
  BY TypeParts, IDsDiffer DEF IndInv
<1>2. /\ pc[r] = "header" /\ pc' = [pc EXCEPT ![r] = "get2"] /\ sid' = [sid EXCEPT ![r] = SessionID(r)]
      /\ owed' = owed
      /\ cookie' = cookie /\ browser' = browser /\ jar' = jar /\ cache' = cache /\ cookies' = cookies
      /\ forgotten' = forgotten /\ replaced' = replaced /\ restored' = restored /\ set' = set
  BY DEF WriteHeader, cacheVars
<1>3. SessionTypes' /\ CacheTypes'
  BY <1>1, <1>2 DEF SessionTypes, CacheTypes, Steps, SessionID, SessionIDs
<1>6. /\ pc'[r] = "get2" /\ sid'[r] = (IF sid[r] = NoSession THEN r ELSE sid[r]) /\ sid[r] # r /\ r \notin set
      /\ \A q \in Requests : q # r => pc'[q] = pc[q] /\ sid'[q] = sid[q]
      /\ Entries' = Entries /\ Entries \subseteq CacheEntries
  BY <1>1, <1>2, CacheFacts
     DEF IndInv, CookieInv, SessionTypes, SessionsOwned, SetWhenOver, AfterSet, Entries, SessionID, BeforeHeader
<1>7. SessionsOwned /\ JarsOwned /\ JarContents /\ SetWhenOver /\ OneJar /\ OwedInSession /\ Isolation /\ CookiesKept
  BY DEF IndInv, CookieInv
<1>9. SessionsOwned'
  BY <1>1, <1>2, <1>6, <1>7 DEF SessionsOwned, SessionTypes, Over, BeforeHeader
<1>10. \A j \in Jars : j[1] # r \/ (j[2] = "first" /\ sid[r] = NoSession) \/ sid[r] # NoSession =>
          Owner(sid', j) = Owner(sid, j)
  <2> SUFFICES ASSUME NEW j \in Jars,
                      j[1] # r \/ (j[2] = "first" /\ sid[r] = NoSession) \/ sid[r] # NoSession
               PROVE Owner(sid', j) = Owner(sid, j)
    OBVIOUS
  <2>1. j[1] \in Requests
    BY DEF Jars
  <2> QED BY <1>6, <2>1 DEF Owner
<1>11. \A j \in Jars : j[1] = r /\ sid[r] = NoSession => Owner(sid, j) = NoSession
  BY <1>6 DEF Owner
<1>12. JarsOwned'
  <2>0. ASSUME NEW j \in Jars, j[2] = "second" => pc[j[1]] \in {"set"} \cup AfterSet
        PROVE Owner(sid', j) = Owner(sid, j)
    <3>1. j[2] = "first" \/ j[2] = "second"
      BY DEF Jars
    <3> QED BY <1>2, <1>10, <2>0, <3>1 DEF AfterSet
  <2>1. ASSUME NEW e \in Entries
        PROVE /\ e[1] = Owner(sid', e[2])
              /\ pc'[e[2][1]] \notin {"new", "get1", "add1"}
              /\ e[2][2] = "second" => pc'[e[2][1]] \in {"set"} \cup AfterSet
    <3>1. e[2] \in Jars /\ e[2][1] \in Requests
      BY <1>6 DEF CacheEntries, Jars
    <3> QED BY <1>2, <1>6, <1>7, <2>0, <3>1 DEF JarsOwned, AfterSet
  <2>2. ASSUME NEW q \in Requests, pc'[q] \in {"restore", "set"}
        PROVE /\ Owner(sid', jar[q]) = sid'[q]
              /\ pc'[jar[q][1]] \notin {"new", "get1", "add1"}
              /\ jar[q][2] = "second" => pc'[jar[q][1]] \in {"set"} \cup AfterSet
    <3>1. jar[q] \in Jars /\ jar[q][1] \in Requests
      BY <1>1 DEF SessionTypes, Jars
    <3> QED BY <1>2, <1>6, <1>7, <2>0, <2>2, <3>1 DEF JarsOwned, AfterSet
  <2> QED BY <1>2, <1>6, <2>1, <2>2 DEF JarsOwned
<1>13. JarContents'
  <2> SUFFICES ASSUME NEW j \in Jars, NEW q \in cookies[j]
               PROVE q \in set /\ sid'[q] = Owner(sid', j) /\ Owner(sid', j) # NoSession
    BY <1>2 DEF JarContents
  <2>1. q \in set /\ sid[q] = Owner(sid, j) /\ Owner(sid, j) # NoSession
    BY <1>7 DEF JarContents
  <2>2. q \in Requests /\ q # r /\ (j[1] # r \/ sid[r] # NoSession)
    BY <1>1, <1>6, <1>11, <2>1 DEF SessionTypes
  <2> QED BY <1>6, <1>10, <2>1, <2>2
<1>14. SetWhenOver'
  BY <1>1, <1>2, <1>6, <1>7 DEF SetWhenOver, SessionTypes
<1>15. OneJar'
  BY <1>1, <1>2, <1>6, <1>7 DEF OneJar, Seeking, Unsettled
<1>15a. sid[r] = NoSession => owed[r] = {}
  BY <1>1, <1>7 DEF OwedInSession, SessionsOwned, SetWhenOver, SessionTypes, AfterSet, BeforeHeader
<1>16. OwedInSession'
  <2> SUFFICES ASSUME NEW p \in Requests, NEW q \in owed[p]
               PROVE q \in set /\ sid'[q] = sid'[p] /\ pc'[p] # "new"
    BY <1>2 DEF OwedInSession
  <2>1. q \in set /\ sid[q] = sid[p] /\ pc[p] # "new"
    BY <1>7 DEF OwedInSession
  <2>2. q \in Requests /\ q # r /\ (p = r => sid[r] # NoSession)
    BY <1>1, <1>6, <1>15a, <2>1 DEF SessionTypes
  <2> QED BY <1>6, <2>1, <2>2
<1>17. Isolation' /\ CookiesKept'
  BY <1>2, <1>6, <1>7, <1>15a DEF Isolation, CookiesKept, Unsettled
<1> QED BY <1>3, <1>9, <1>12, <1>13, <1>14, <1>15, <1>16, <1>17 DEF CookieInv

\* Looking a jar up.  A request of a session that others know finds its jar,
\* unless it has been evicted.
LEMMA GetKept ==
  ASSUME IndInv, NEW r \in Requests, Get(r)
  PROVE SessionTypes' /\ CacheTypes' /\ CookieInv'
<1>1. /\ SessionTypes /\ CacheTypes
      /\ NoSession \notin Requests /\ NoSession \notin Browsers /\ Browsers \cap Requests = {}
  BY TypeParts, IDsDiffer DEF IndInv
<1>2. /\ pc[r] \in {"get1", "get2"} /\ sid' = sid /\ owed' = owed
      /\ cookie' = cookie /\ browser' = browser /\ cookies' = cookies
      /\ forgotten' = forgotten /\ replaced' = replaced /\ restored' = restored /\ set' = set
  BY DEF Get
<1>3. SessionsOwned /\ JarsOwned /\ JarContents /\ SetWhenOver /\ OneJar /\ OwedInSession /\ Isolation /\ CookiesKept
  BY DEF IndInv, CookieInv
<1>4. Entries \subseteq CacheEntries /\ \A x, y \in Entries : x[1] = y[1] => x = y
  BY CacheFacts DEF IndInv
<1>5. CASE InCache(sid[r])
  <2>1. CacheTypes' /\ Entries' = Entries
    BY <1>5, GetHit DEF IndInv, CacheTypes
  <2>2. PICK x \in Entries : x[1] = sid[r] /\ jar' = [jar EXCEPT ![r] = x[2]]
    BY <1>5, GetHit DEF IndInv
  <2>3. pc' = [pc EXCEPT ![r] = IF pc[r] = "get1" THEN "restore" ELSE "set"]
    BY <1>2, <1>5 DEF Get, After
  <2>4. x[2] \in Jars /\ x[2][1] \in Requests
    BY <1>4 DEF CacheEntries, Jars
  <2>5. SessionTypes'
    BY <1>1, <1>2, <2>2, <2>3, <2>4 DEF SessionTypes, Steps
  <2>6. /\ pc'[r] = IF pc[r] = "get1" THEN "restore" ELSE "set"
        /\ jar'[r] = x[2]
        /\ \A q \in Requests : q # r => pc'[q] = pc[q] /\ jar'[q] = jar[q]
    BY <1>1, <2>2, <2>3 DEF SessionTypes
  <2>7. SessionsOwned'
    BY <1>1, <1>2, <1>3, <2>6 DEF SessionsOwned, SessionTypes, Over, BeforeHeader
  <2>8. JarsOwned'
    <3>1. ASSUME NEW e \in Entries
          PROVE /\ e[1] = Owner(sid, e[2])
                /\ pc'[e[2][1]] \notin {"new", "get1", "add1"}
                /\ e[2][2] = "second" => pc'[e[2][1]] \in {"set"} \cup AfterSet
      <4>1. e[2] \in Jars /\ e[2][1] \in Requests
        BY <1>4 DEF CacheEntries, Jars
      <4> QED BY <1>2, <1>3, <2>6, <4>1 DEF JarsOwned, AfterSet
    <3>2. ASSUME NEW q \in Requests, pc'[q] \in {"restore", "set"}
          PROVE /\ Owner(sid, jar'[q]) = sid[q]
                /\ pc'[jar'[q][1]] \notin {"new", "get1", "add1"}
                /\ jar'[q][2] = "second" => pc'[jar'[q][1]] \in {"set"} \cup AfterSet
      <4>1. CASE q = r
        BY <2>2, <2>6, <3>1, <4>1
      <4>2. CASE q # r
        <5>1. jar[q] \in Jars /\ jar[q][1] \in Requests
          BY <1>1 DEF SessionTypes, Jars
        <5> QED BY <1>2, <1>3, <2>6, <3>2, <4>2, <5>1 DEF JarsOwned, AfterSet
      <4> QED BY <4>1, <4>2
    <3> QED BY <1>2, <2>1, <3>1, <3>2 DEF JarsOwned
  <2>9. JarContents' /\ OwedInSession'
    BY <1>2, <1>3, <2>6 DEF JarContents, OwedInSession
  <2>10. SetWhenOver'
    BY <1>1, <1>2, <1>3, <2>6 DEF SetWhenOver, SessionTypes, AfterSet
  <2>11. OneJar'
    BY <1>1, <1>2, <1>3, <1>4, <2>1, <2>2, <2>6 DEF OneJar, AfterSet, Seeking, Unsettled
  <2>12. Isolation' /\ CookiesKept'
    BY <1>2, <1>3, <2>6 DEF Isolation, CookiesKept, Unsettled
  <2> QED BY <2>1, <2>5, <2>7, <2>8, <2>9, <2>10, <2>11, <2>12 DEF CookieInv
<1>6. CASE ~InCache(sid[r])
  <2>1. /\ pc' = [pc EXCEPT ![r] = IF pc[r] = "get1" THEN "add1" ELSE "add2"]
        /\ cache' = cache /\ jar' = jar
    BY <1>6 DEF Get
  <2>2. SessionTypes' /\ CacheTypes' /\ Entries' = Entries
    BY <1>1, <1>2, <2>1 DEF SessionTypes, CacheTypes, Steps, Entries
  <2>3. /\ pc'[r] = IF pc[r] = "get1" THEN "add1" ELSE "add2"
        /\ \A q \in Requests : q # r => pc'[q] = pc[q]
    BY <1>1, <2>1 DEF SessionTypes
  <2>4. SessionsOwned'
    BY <1>1, <1>2, <1>3, <2>3 DEF SessionsOwned, SessionTypes, Over, BeforeHeader
  <2>5. JarsOwned'
    BY <1>1, <1>2, <1>3, <1>4, <2>1, <2>2, <2>3, JarsKept DEF AfterSet
  <2>6. JarContents' /\ OwedInSession'
    BY <1>2, <1>3, <2>3 DEF JarContents, OwedInSession
  <2>7. SetWhenOver'
    BY <1>1, <1>2, <1>3, <2>3 DEF SetWhenOver, SessionTypes, AfterSet
  <2>8. sid[r] # NoSession /\ sid[r] \notin Unsettled =>
            (pc[r] = "get1" => sid[r] \in Browsers) /\ (pc[r] = "get2" => sid[r] = r)
    <3> SUFFICES ASSUME sid[r] # NoSession, sid[r] \notin Unsettled
                 PROVE (pc[r] = "get1" => sid[r] \in Browsers) /\ (pc[r] = "get2" => sid[r] = r)
      OBVIOUS
    <3>1. \A e \in Entries : e[1] # sid[r]
      BY <1>6 DEF InCache, Entries, Elements
    <3>2. pc[r] = "get2" => sid[r] = r
      BY <1>3, <3>1 DEF OneJar, Seeking
    <3>3. ASSUME pc[r] = "get1" PROVE sid[r] = browser[r]
      <4>1. sid[r] # r
        BY <1>3, <3>3 DEF SessionsOwned, BeforeHeader
      <4> QED BY <1>3, <3>1, <4>1 DEF SessionsOwned, OneJar, Over, Seeking
    <3>4. browser[r] \in Browsers
      BY <1>1 DEF SessionTypes
    <3> QED BY <3>2, <3>3, <3>4
  <2>9. OneJar'
    BY <1>1, <1>2, <1>3, <2>1, <2>2, <2>3, <2>8 DEF OneJar, Seeking, Unsettled
  <2>10. Isolation' /\ CookiesKept'
    BY <1>2, <1>3, <2>3 DEF Isolation, CookiesKept, Unsettled
  <2> QED BY <2>2, <2>4, <2>5, <2>6, <2>7, <2>9, <2>10 DEF CookieInv
<1> QED BY <1>5, <1>6

\* Adding a jar.  The session of a request that misses is its own, which no other
\* request has yet, or one from before the start, of which no request has found
\* or put a jar unless this one replaces it; or it has been evicted.
LEMMA AddKept ==
  ASSUME IndInv, NEW r \in Requests, Add(r)
  PROVE SessionTypes' /\ CacheTypes' /\ CookieInv'
<1> DEFINE e == <<sid[r], NewJar(r)>>
<1>1. /\ SessionTypes /\ CacheTypes
      /\ NoSession \notin Requests /\ NoSession \notin Browsers /\ Browsers \cap Requests = {}
  BY TypeParts, IDsDiffer DEF IndInv
<1>2. /\ pc[r] \in {"add1", "add2"} /\ pc' = [pc EXCEPT ![r] = IF @ = "add1" THEN "restore" ELSE "set"]
      /\ jar' = [jar EXCEPT ![r] = NewJar(r)] /\ sid' = sid /\ owed' = owed
      /\ cookie' = cookie /\ browser' = browser /\ cookies' = cookies
      /\ restored' = restored /\ set' = set
  BY DEF Add
<1>3. SessionsOwned /\ JarsOwned /\ JarContents /\ SetWhenOver /\ OneJar /\ OwedInSession /\ Isolation /\ CookiesKept
  BY DEF IndInv, CookieInv
<1>4. Entries \subseteq CacheEntries /\ \A x, y \in Entries : x[1] = y[1] => x = y
  BY CacheFacts DEF IndInv
<1>5. /\ CacheTypes'
      /\ e \in Entries'
      /\ \A x \in Entries' : x = e \/ (x \in Entries /\ x[1] # sid[r])
      /\ \A x \in Entries : x[1] = sid[r] \/ x \in Entries' \/ x[1] \in forgotten'
      /\ forgotten \subseteq forgotten' /\ forgotten' \subseteq SessionIDs
      /\ replaced \subseteq replaced' /\ replaced' \subseteq SessionIDs
      /\ (\E x \in Entries : x[1] = sid[r]) => sid[r] \in replaced'
  BY AddOne DEF IndInv, CacheTypes
<1>6. NewJar(r) = IF pc[r] = "add1" THEN <<r, "first">> ELSE <<r, "second">>
  BY <1>2 DEF NewJar
<1>7. NewJar(r) \in Jars
  BY <1>6 DEF Jars
<1>8. SessionTypes'
  BY <1>1, <1>2, <1>5, <1>7 DEF SessionTypes, Steps
<1>9. /\ pc'[r] = IF pc[r] = "add1" THEN "restore" ELSE "set"
      /\ jar'[r] = NewJar(r)
      /\ \A q \in Requests : q # r => pc'[q] = pc[q] /\ jar'[q] = jar[q]
  BY <1>1, <1>2 DEF SessionTypes
<1>10. SessionsOwned'
  BY <1>1, <1>2, <1>3, <1>9 DEF SessionsOwned, SessionTypes, Over, BeforeHeader
<1>11. Owner(sid, NewJar(r)) = sid[r]
  BY <1>2, <1>3, <1>6 DEF Owner, SessionsOwned, BeforeHeader
<1>12. e[1] = sid[r] /\ e[2] = NewJar(r) /\ NewJar(r)[1] = r
       /\ (NewJar(r)[2] = "second" => pc'[r] = "set")
  BY <1>2, <1>6, <1>9
<1> HIDE DEF e
<1>13. JarsOwned'
  <2>1. ASSUME NEW x \in Entries'
        PROVE /\ x[1] = Owner(sid, x[2])
              /\ pc'[x[2][1]] \notin {"new", "get1", "add1"}
              /\ x[2][2] = "second" => pc'[x[2][1]] \in {"set"} \cup AfterSet
    <3>1. CASE x = e
      BY <1>2, <1>9, <1>11, <1>12, <3>1
    <3>2. CASE x # e
      <4>1. x \in Entries /\ x[2] \in Jars /\ x[2][1] \in Requests
        BY <1>4, <1>5, <3>2 DEF CacheEntries, Jars
      <4> QED BY <1>2, <1>3, <1>9, <4>1 DEF JarsOwned, AfterSet
    <3> QED BY <3>1, <3>2
  <2>2. ASSUME NEW q \in Requests, pc'[q] \in {"restore", "set"}
        PROVE /\ Owner(sid, jar'[q]) = sid[q]
              /\ pc'[jar'[q][1]] \notin {"new", "get1", "add1"}
              /\ jar'[q][2] = "second" => pc'[jar'[q][1]] \in {"set"} \cup AfterSet
    <3>1. CASE q = r
      BY <1>2, <1>9, <1>11, <1>12, <3>1
    <3>2. CASE q # r
      <4>1. jar[q] \in Jars /\ jar[q][1] \in Requests
        BY <1>1 DEF SessionTypes, Jars
      <4> QED BY <1>2, <1>3, <1>9, <2>2, <3>2, <4>1 DEF JarsOwned, AfterSet
    <3> QED BY <3>1, <3>2
  <2> QED BY <1>2, <2>1, <2>2 DEF JarsOwned
<1>14. JarContents' /\ OwedInSession'
  BY <1>2, <1>3, <1>9 DEF JarContents, OwedInSession
<1>15. SetWhenOver'
  BY <1>1, <1>2, <1>3, <1>9 DEF SetWhenOver, SessionTypes, AfterSet
<1>16. OneJar'
  <2> SUFFICES ASSUME NEW q \in Requests, sid[q] # NoSession, sid[q] \notin Unsettled'
               PROVE /\ ~Seeking(q)' => \E x \in Entries' : x[1] = sid[q]
                     /\ (pc'[q] = "add1" => sid[q] \in Browsers) /\ (pc'[q] = "add2" => sid[q] = q)
                     /\ pc'[q] \in {"restore", "set"} => \A x \in Entries' : x[1] = sid[q] => jar'[q] = x[2]
                     /\ q \in set => \A x \in Entries' : x[1] = sid[q] => q \in cookies[x[2]]
    BY <1>2 DEF OneJar
  <2>1. sid[q] \notin Unsettled /\ sid[q] \notin forgotten'
    BY <1>5 DEF Unsettled
  <2>2. sid[q] = sid[r] => Seeking(q)
    <3> SUFFICES ASSUME sid[q] = sid[r], ~Seeking(q) PROVE FALSE
      OBVIOUS
    <3>1. \E x \in Entries : x[1] = sid[r]
      BY <1>3, <2>1 DEF OneJar
    <3>2. sid[r] \in replaced' /\ sid[r] \notin Browsers
      BY <1>5, <3>1 DEF Unsettled
    <3>3. pc[r] = "add2" /\ sid[r] = r
      BY <1>2, <1>3, <2>1, <3>2 DEF OneJar
    <3>4. browser[q] \in Browsers /\ r \notin Browsers
      BY <1>1 DEF SessionTypes
    <3> QED BY <1>1, <1>3, <3>3, <3>4 DEF SessionsOwned, Over, Seeking
  <2>3. ~Seeking(q)' => \E x \in Entries' : x[1] = sid[q]
    <3>1. CASE sid[q] = sid[r]
      BY <1>5, <1>12, <3>1
    <3>2. CASE sid[q] # sid[r]
      BY <1>2, <1>3, <1>5, <1>9, <2>1, <3>2 DEF OneJar, Seeking
    <3> QED BY <3>1, <3>2
  <2>4. (pc'[q] = "add1" => sid[q] \in Browsers) /\ (pc'[q] = "add2" => sid[q] = q)
    BY <1>3, <1>9, <2>1 DEF OneJar
  <2>5. ASSUME NEW x \in Entries', x[1] = sid[q], pc'[q] \in {"restore", "set"} PROVE jar'[q] = x[2]
    BY <1>3, <1>5, <1>9, <1>12, <2>1, <2>2, <2>5 DEF OneJar, Seeking
  <2>6. ASSUME NEW x \in Entries', x[1] = sid[q], q \in set PROVE q \in cookies[x[2]]
    BY <1>3, <1>5, <1>12, <2>1, <2>2, <2>6 DEF OneJar, Seeking, SetWhenOver, AfterSet
  <2> QED BY <2>3, <2>4, <2>5, <2>6
<1>17. Isolation' /\ CookiesKept'
  BY <1>2, <1>3, <1>5, <1>9 DEF Isolation, CookiesKept, Unsettled
<1> QED BY <1>5, <1>8, <1>10, <1>13, <1>14, <1>15, <1>16, <1>17 DEF CookieInv

\* Forwarding with the cookies of the jar: those owed are in it, and no others
\* than those of the browser.
LEMMA RestoreKept ==
  ASSUME IndInv, NEW r \in Requests, Restore(r)
  PROVE SessionTypes' /\ CacheTypes' /\ CookieInv'
<1>1. /\ SessionTypes /\ CacheTypes
      /\ NoSession \notin Requests /\ NoSession \notin Browsers /\ Browsers \cap Requests = {}
  BY TypeParts, IDsDiffer DEF IndInv
<1>2. /\ pc[r] = "restore" /\ pc' = [pc EXCEPT ![r] = "header"]
      /\ restored' = [restored EXCEPT ![r] = cookies[jar[r]]]
      /\ sid' = sid /\ owed' = owed /\ jar' = jar /\ cache' = cache /\ forgotten' = forgotten /\ replaced' = replaced
      /\ cookie' = cookie /\ browser' = browser /\ cookies' = cookies /\ set' = set
  BY DEF Restore, cacheVars
<1>3. SessionsOwned /\ JarsOwned /\ JarContents /\ SetWhenOver /\ OneJar /\ OwedInSession /\ Isolation /\ CookiesKept
  BY DEF IndInv, CookieInv
<1>4. jar[r] \in Jars /\ Entries \subseteq CacheEntries /\ Entries' = Entries
  BY <1>1, <1>2, CacheFacts DEF SessionTypes, IndInv, Entries
<1>5. SessionTypes' /\ CacheTypes'
  BY <1>1, <1>2, <1>4 DEF SessionTypes, CacheTypes, Steps
<1>6. /\ pc'[r] = "header" /\ restored'[r] = cookies[jar[r]]
      /\ \A q \in Requests : q # r => pc'[q] = pc[q] /\ restored'[q] = restored[q]
  BY <1>1, <1>2 DEF SessionTypes
<1>7. SessionsOwned'
  BY <1>1, <1>2, <1>3, <1>6 DEF SessionsOwned, SessionTypes, Over, BeforeHeader
<1>8. JarsOwned'
  BY <1>1, <1>2, <1>3, <1>4, <1>6, JarsKept DEF AfterSet
<1>9. JarContents' /\ OwedInSession'
  BY <1>2, <1>3, <1>6 DEF JarContents, OwedInSession
<1>10. SetWhenOver'
  BY <1>1, <1>2, <1>3, <1>6 DEF SetWhenOver, SessionTypes, AfterSet
<1>11. OneJar'
  BY <1>1, <1>2, <1>3, <1>4, <1>6 DEF OneJar, AfterSet, Seeking, Unsettled
<1>12. Isolation'
  <2> SUFFICES ASSUME NEW q \in cookies[jar[r]] PROVE browser[q] = browser[r]
    BY <1>2, <1>3, <1>6 DEF Isolation
  <2>1. q \in set /\ q \in Requests /\ sid[q] = sid[r] /\ sid[r] # NoSession
    BY <1>1, <1>2, <1>3, <1>4 DEF JarContents, JarsOwned, SessionTypes
  <2>2. ASSUME NEW p \in Requests, sid[p] # NoSession
        PROVE \/ sid[p] \in Browsers /\ browser[p] = sid[p]
              \/ sid[p] \in Requests /\ browser[p] = browser[sid[p]]
    <3>1. browser[p] \in Browsers
      BY <1>1 DEF SessionTypes
    <3> QED BY <1>3, <2>2, <3>1 DEF SessionsOwned
  <2> QED BY <1>1, <2>1, <2>2
<1>13. CookiesKept'
  <2> SUFFICES ASSUME sid[r] \notin Unsettled, NEW q \in owed[r] PROVE q \in cookies[jar[r]]
    BY <1>2, <1>3, <1>6 DEF CookiesKept, Unsettled
  <2>1. q \in set /\ q \in Requests /\ sid[q] = sid[r] /\ pc[q] \in AfterSet
    BY <1>1, <1>3 DEF OwedInSession, SetWhenOver, SessionTypes
  <2>2. sid[q] # NoSession
    BY <1>3, <2>1 DEF SessionsOwned, AfterSet, BeforeHeader
  <2>3. PICK e \in Entries : e[1] = sid[q]
    BY <1>3, <2>1, <2>2 DEF OneJar, Seeking, AfterSet
  <2> QED BY <1>2, <1>3, <2>1, <2>2, <2>3 DEF OneJar
<1> QED BY <1>5, <1>7, <1>8, <1>9, <1>10, <1>11, <1>12, <1>13 DEF CookieInv

\* A cookie goes into the one jar of its session.
LEMMA SetCookiesKept ==
  ASSUME IndInv, NEW r \in Requests, SetCookies(r)
  PROVE SessionTypes' /\ CacheTypes' /\ CookieInv'
<1>1. /\ SessionTypes /\ CacheTypes
      /\ NoSession \notin Requests /\ NoSession \notin Browsers /\ Browsers \cap Requests = {}
  BY TypeParts, IDsDiffer DEF IndInv
<1>2. /\ pc[r] = "set" /\ pc' = [pc EXCEPT ![r] = "send"]
      /\ cookies' = [cookies EXCEPT ![jar[r]] = @ \cup {r}] /\ set' = set \cup {r}
      /\ sid' = sid /\ owed' = owed /\ jar' = jar /\ cache' = cache /\ forgotten' = forgotten /\ replaced' = replaced
      /\ cookie' = cookie /\ browser' = browser /\ restored' = restored
  BY DEF SetCookies
<1>3. SessionsOwned /\ JarsOwned /\ JarContents /\ SetWhenOver /\ OneJar /\ OwedInSession /\ Isolation /\ CookiesKept
  BY DEF IndInv, CookieInv
<1>4. jar[r] \in Jars /\ Entries \subseteq CacheEntries /\ Entries' = Entries
  BY <1>1, <1>2, CacheFacts DEF SessionTypes, IndInv, Entries
<1>5. SessionTypes' /\ CacheTypes'
  <2>1. cookies' \in [Jars -> SUBSET Requests]
    BY <1>1, <1>2, <1>4 DEF SessionTypes
  <2> QED BY <1>1, <1>2, <2>1 DEF SessionTypes, CacheTypes, Steps
<1>6. /\ pc'[r] = "send"
      /\ \A q \in Requests : q # r => pc'[q] = pc[q]
      /\ cookies'[jar[r]] = cookies[jar[r]] \cup {r}
      /\ \A j \in Jars : j # jar[r] => cookies'[j] = cookies[j]
  BY <1>1, <1>2, <1>4 DEF SessionTypes
<1>7. SessionsOwned'
  BY <1>1, <1>2, <1>3, <1>6 DEF SessionsOwned, SessionTypes, Over, BeforeHeader
<1>8. JarsOwned'
  BY <1>1, <1>2, <1>3, <1>4, <1>6, JarsKept DEF AfterSet
<1>9. JarContents'
  <2>1. Owner(sid, jar[r]) = sid[r] /\ sid[r] # NoSession
    BY <1>2, <1>3 DEF JarsOwned, SessionsOwned, BeforeHeader
  <2> SUFFICES ASSUME NEW j \in Jars, NEW q \in cookies'[j]
               PROVE q \in set' /\ sid[q] = Owner(sid, j) /\ Owner(sid, j) # NoSession
    BY <1>2 DEF JarContents
  <2>2. CASE q \in cookies[j]
    BY <1>2, <1>3, <2>2 DEF JarContents
  <2>3. CASE q \notin cookies[j]
    BY <1>2, <1>6, <2>1, <2>3
  <2> QED BY <2>2, <2>3
<1>10. SetWhenOver' /\ OwedInSession'
  BY <1>1, <1>2, <1>3, <1>6 DEF SetWhenOver, OwedInSession, SessionTypes, AfterSet
<1>11. OneJar'
  <2> SUFFICES ASSUME NEW q \in Requests, sid[q] # NoSession, sid[q] \notin Unsettled
               PROVE /\ ~Seeking(q)' => \E x \in Entries : x[1] = sid[q]
                     /\ (pc'[q] = "add1" => sid[q] \in Browsers) /\ (pc'[q] = "add2" => sid[q] = q)
                     /\ pc'[q] \in {"restore", "set"} => \A x \in Entries : x[1] = sid[q] => jar[q] = x[2]
                     /\ q \in set' => \A x \in Entries : x[1] = sid[q] => q \in cookies'[x[2]]
    BY <1>2, <1>4 DEF OneJar, Unsettled
  <2>1. ASSUME NEW x \in Entries PROVE cookies[x[2]] \subseteq cookies'[x[2]]
    <3>1. x[2] \in Jars
      BY <1>4 DEF CacheEntries
    <3> QED BY <1>6, <3>1
  <2>2. ~Seeking(q)' => \E x \in Entries : x[1] = sid[q]
    BY <1>2, <1>3, <1>6 DEF OneJar, Seeking
  <2>3. ASSUME NEW x \in Entries, x[1] = sid[q], q \in set' PROVE q \in cookies'[x[2]]
    <3>1. CASE q = r
      BY <1>2, <1>3, <1>6, <2>3, <3>1 DEF OneJar
    <3>2. CASE q # r
      BY <1>2, <1>3, <2>1, <2>3, <3>2 DEF OneJar
    <3> QED BY <3>1, <3>2
  <2> QED BY <1>2, <1>3, <1>6, <2>2, <2>3 DEF OneJar
<1>12. Isolation' /\ CookiesKept'
  BY <1>2, <1>3, <1>6 DEF Isolation, CookiesKept, Unsettled
<1> QED BY <1>5, <1>7, <1>8, <1>9, <1>10, <1>11, <1>12 DEF CookieInv

\* The rest of a request changes nothing but its browser's cookie: the session
\* that the browser gets is its own.
LEMMA EndKept ==
  ASSUME IndInv, NEW r \in Requests,
         NoCookies(r) \/ Respond(r) \/ \E c \in Codes : CountResponse(r, c)
  PROVE SessionTypes' /\ CacheTypes' /\ CookieInv'
<1>1. /\ SessionTypes /\ CacheTypes
      /\ NoSession \notin Requests /\ NoSession \notin Browsers /\ Browsers \cap Requests = {}
  BY TypeParts, IDsDiffer DEF IndInv
<1>2. /\ \/ pc[r] = "set" /\ pc' = [pc EXCEPT ![r] = "send"] /\ cookie' = cookie
         \/ /\ pc[r] = "send" /\ pc' = [pc EXCEPT ![r] = "count"]
            /\ cookie' = IF sid[r] = r THEN [cookie EXCEPT ![browser[r]] = r] ELSE cookie
         \/ pc[r] = "count" /\ pc' = [pc EXCEPT ![r] = "done"] /\ cookie' = cookie
      /\ sid' = sid /\ owed' = owed /\ jar' = jar /\ cache' = cache /\ forgotten' = forgotten /\ replaced' = replaced
      /\ browser' = browser /\ restored' = restored /\ cookies' = cookies /\ set' = set
  BY DEF NoCookies, Respond, CountResponse, cacheVars
<1>3. SessionsOwned /\ JarsOwned /\ JarContents /\ SetWhenOver /\ OneJar /\ OwedInSession /\ Isolation /\ CookiesKept
  BY DEF IndInv, CookieInv
<1>4. Entries \subseteq CacheEntries /\ Entries' = Entries
  BY <1>1, <1>2, CacheFacts DEF SessionTypes, IndInv, Entries
<1>5. SessionTypes' /\ CacheTypes'
  BY <1>1, <1>2 DEF SessionTypes, CacheTypes, Steps, SessionIDs
<1>6. /\ pc[r] \in {"set", "send", "count"} /\ pc'[r] \in AfterSet
      /\ pc[r] # "set" => pc'[r] \in Over
      /\ \A q \in Requests : q # r => pc'[q] = pc[q]
      /\ \A b \in Browsers : cookie'[b] = cookie[b]
                             \/ (cookie'[b] = r /\ browser[r] = b /\ sid[r] = r /\ pc'[r] \in Over)
  BY <1>1, <1>2 DEF SessionTypes, AfterSet, Over
<1>7. SessionsOwned'
  <2>1. ASSUME NEW b \in Browsers, cookie'[b] \notin {NoSession, b}
        PROVE /\ cookie'[b] \in Requests /\ browser[cookie'[b]] = b
              /\ pc'[cookie'[b]] \in Over /\ sid[cookie'[b]] = cookie'[b]
    <3>1. CASE cookie'[b] = cookie[b]
      BY <1>3, <1>6, <2>1, <3>1 DEF SessionsOwned, Over
    <3>2. CASE cookie'[b] # cookie[b]
      BY <1>6, <3>2
    <3> QED BY <3>1, <3>2
  <2>2. \A q \in Requests : pc'[q] = "new" => sid[q] = NoSession
    BY <1>3, <1>6 DEF SessionsOwned, AfterSet
  <2>3. \A q \in Requests : pc'[q] \in BeforeHeader => sid[q] # q
    BY <1>3, <1>6 DEF SessionsOwned, AfterSet, BeforeHeader
  <2>4. \A q \in Requests : pc'[q] \notin BeforeHeader => sid[q] # NoSession
    BY <1>3, <1>6 DEF SessionsOwned, AfterSet, BeforeHeader
  <2>5. ASSUME NEW q \in Requests, sid[q] \notin {NoSession, q, browser[q]}
        PROVE /\ sid[q] \in Requests /\ browser[sid[q]] = browser[q]
              /\ pc'[sid[q]] \in Over /\ sid[sid[q]] = sid[q]
    BY <1>3, <1>6, <2>5 DEF SessionsOwned, Over
  <2> QED BY <1>2, <2>1, <2>2, <2>3, <2>4, <2>5 DEF SessionsOwned
<1>8. JarsOwned'
  BY <1>1, <1>2, <1>3, <1>4, <1>6, JarsKept DEF AfterSet
<1>9. JarContents' /\ OwedInSession'
  BY <1>2, <1>3, <1>6 DEF JarContents, OwedInSession, AfterSet
<1>10. SetWhenOver'
  BY <1>1, <1>2, <1>3, <1>6 DEF SetWhenOver, SessionTypes
<1>11. OneJar'
  BY <1>1, <1>2, <1>3, <1>4, <1>6 DEF OneJar, AfterSet, Seeking, Unsettled
<1>12. Isolation' /\ CookiesKept'
  BY <1>2, <1>3, <1>6 DEF Isolation, CookiesKept, Unsettled
<1> QED BY <1>5, <1>7, <1>8, <1>9, <1>10, <1>11, <1>12 DEF CookieInv

-----------------------------------------------------------------------------
(* The theorems *)

LEMMA InitInv == Init => IndInv
<1> SUFFICES ASSUME Init PROVE IndInv
  OBVIOUS
<1>1. /\ NoSession \notin Requests /\ NoSession \notin Browsers /\ Browsers \cap Requests = {}
      /\ CacheLimit \in Nat /\ MaxTicks \in Nat
  BY IDsDiffer, LimitAssumption, TicksAssumption
<1>2. MetricsInv
  <2>1. /\ codeCount = NoCount /\ counted = NoCount /\ late = NoCount /\ emitted = NoCount
        /\ failed = NoCount /\ epc = "sleep" /\ left = {} /\ ticks = 0 /\ crashed = FALSE
    BY DEF Init, MetricsInit
  <2>2. NoCount \in [Codes -> Nat] /\ \A c \in Codes : NoCount[c] = 0
    BY DEF NoCount
  <2>3. crashed \in BOOLEAN
    BY <2>1
  <2>4. MetricsTypeOK
    BY <1>1, <2>1, <2>2, <2>3 DEF MetricsTypeOK
  <2>5. Accounts
    <3> SUFFICES ASSUME NEW c \in Codes
                 PROVE counted[c] - emitted[c] - codeCount[c] \in 0 .. late[c] + failed[c]
      BY <2>1 DEF Accounts
    <3>1. counted[c] = 0 /\ emitted[c] = 0 /\ codeCount[c] = 0 /\ late[c] = 0 /\ failed[c] = 0
      BY <2>1, <2>2
    <3> QED BY <3>1
  <2> QED BY <2>1, <2>4, <2>5 DEF MetricsInv
<1>3. Entries = {} /\ CacheTypes
  <2>1. cache = <<>> /\ cache \in Seq(CacheEntries) /\ Len(cache) = 0
    BY EmptySeq DEF Init
  <2> QED BY <1>1, <2>1 DEF Entries, Elements, CacheTypes, Unique
<1>4. SessionTypes
  BY BrowsersAssumption DEF Init, SessionTypes, Jars, Steps, SessionIDs
<1>5. CookieInv
  <2>1. SessionsOwned
    BY <1>1 DEF Init, SessionsOwned, BeforeHeader
  <2>2. JarsOwned /\ JarContents /\ SetWhenOver
    BY <1>3 DEF Init, JarsOwned, JarContents, SetWhenOver
  <2>3. OneJar /\ OwedInSession /\ Isolation /\ CookiesKept
    BY <1>3 DEF Init, OneJar, OwedInSession, Isolation, CookiesKept, Seeking, Unsettled
  <2> QED BY <2>1, <2>2, <2>3 DEF CookieInv
<1> QED BY <1>2, <1>3, <1>4, <1>5, TypeParts DEF IndInv, MetricsInv

LEMMA NextInv == IndInv /\ [Next]_vars => IndInv'
<1> SUFFICES ASSUME IndInv, [Next]_vars PROVE IndInv'
  OBVIOUS
<1>1. (SessionTypes /\ CacheTypes /\ CookieInv)' /\ MetricsInv' => IndInv'
  <2>1. (TypeOK <=> MetricsTypeOK /\ SessionTypes /\ CacheTypes)'
    BY TypeParts, PTL
  <2> QED BY <2>1 DEF IndInv, MetricsInv
<1>2. ASSUME UNCHANGED <<cookie, browser, pc, sid, jar, cacheVars, restored, owed, set>>
      PROVE (SessionTypes /\ CacheTypes /\ CookieInv)'
  <2>1. SessionTypes /\ CacheTypes
    BY TypeParts DEF IndInv
  <2>2. /\ cookie' = cookie /\ browser' = browser /\ pc' = pc /\ sid' = sid /\ jar' = jar
        /\ cache' = cache /\ cookies' = cookies /\ forgotten' = forgotten /\ replaced' = replaced
        /\ restored' = restored /\ owed' = owed /\ set' = set
    BY <1>2 DEF cacheVars
  <2>3. SessionTypes' /\ CacheTypes' /\ Entries' = Entries
    BY <2>1, <2>2 DEF SessionTypes, CacheTypes, Entries
  <2>4. CookieInv'
    BY <2>2, <2>3 DEF IndInv, CookieInv, SessionsOwned, JarsOwned, JarContents, SetWhenOver,
                      OneJar, OwedInSession, Isolation, CookiesKept, Seeking, Unsettled
  <2> QED BY <2>3, <2>4
<1>3. ASSUME UNCHANGED metricVars, crashed' \in BOOLEAN PROVE MetricsInv'
  BY <1>3 DEF IndInv, MetricsInv, MetricsTypeOK, Accounts, metricVars
<1>4. crashed \in BOOLEAN
  BY DEF IndInv, MetricsInv, MetricsTypeOK
<1>5. ASSUME NEW r \in Requests, RequestStep(r) PROVE IndInv'
  <2>1. CASE \E c \in Codes : CountResponse(r, c)
    <3>1. PICK c \in Codes : CountResponse(r, c)
      BY <2>1
    <3>2. MetricsInv'
      BY <3>1, CountKept DEF IndInv, CountResponse
    <3> QED BY <1>1, <2>1, <3>2, EndKept
  <2>2. CASE ~\E c \in Codes : CountResponse(r, c)
    <3>1. UNCHANGED metricVars /\ crashed' = crashed
      BY <1>5, <2>2 DEF RequestStep, Begin, Get, Add, Restore, WriteHeader, SetCookies, NoCookies, Respond
    <3>2. MetricsInv'
      BY <1>3, <1>4, <3>1
    <3>3. (SessionTypes /\ CacheTypes /\ CookieInv)'
      BY <1>5, <2>2, BeginKept, GetKept, AddKept, RestoreKept, WriteHeaderKept, SetCookiesKept, EndKept
         DEF RequestStep
    <3> QED BY <1>1, <3>2, <3>3
  <2> QED BY <2>1, <2>2
<1>6. CASE MetricsTurn
  <2>1. MetricsInv'
    BY <1>6, ReportKept DEF MetricsTurn, IndInv
  <2> QED BY <1>1, <1>2, <1>6, <2>1 DEF MetricsTurn
<1>7. CASE CacheRace \/ MetricsRace
  <2>1. crashed' \in BOOLEAN /\ UNCHANGED metricVars
    BY <1>7 DEF CacheRace, MetricsRace
  <2> QED BY <1>1, <1>2, <1>3, <1>7, <2>1 DEF CacheRace, MetricsRace
<1>8. CASE UNCHANGED vars
  <2>1. UNCHANGED metricVars /\ crashed' = crashed
        /\ UNCHANGED <<cookie, browser, pc, sid, jar, cacheVars, restored, owed, set>>
    BY <1>8 DEF vars
  <2> QED BY <1>1, <1>2, <1>3, <1>4, <2>1
<1> QED BY <1>5, <1>6, <1>7, <1>8 DEF Next

\* The type invariant, with an LRU cache that keeps to its limit and has one
\* entry for a session.
THEOREM TypeCorrect == Spec => []TypeOK
<1>1. IndInv => TypeOK
  BY DEF IndInv
<1> QED BY <1>1, InitInv, NextInv, PTL DEF Spec

\* A request is forwarded with cookies of its own browser only (restoreSession
\* and WriteHeader), whatever look-ups and responses come in between.
THEOREM Isolated == Spec => []Isolation
<1>1. IndInv => Isolation
  BY DEF IndInv, CookieInv
<1> QED BY <1>1, InitInv, NextInv, PTL DEF Spec

\* A cookie is restored in every request of its session that begins after its
\* response, unless the session has been evicted, or is from before the start of
\* the agent and its jar was replaced (cachedCookieJar, which looks up without a
\* lock).
THEOREM Kept == Spec => []CookiesKept
<1>1. IndInv => CookiesKept
  BY DEF IndInv, CookieInv
<1> QED BY <1>1, InitInv, NextInv, PTL DEF Spec

\* No response is reported twice, and only those counted during a report, or
\* whose report failed, are missing (emitResponseCodeMetric, which reads the
\* counts without the lock and drops them after the report).
THEOREM Reported == Spec => []ReportedOnce
<1>1. IndInv => ReportedOnce
  <2> SUFFICES ASSUME IndInv, epc = "sleep", NEW c \in Codes
               PROVE /\ counted[c] - emitted[c] - codeCount[c] >= 0
                     /\ counted[c] - emitted[c] - codeCount[c] <= late[c] + failed[c]
    BY DEF ReportedOnce
  <2>1. counted[c] - emitted[c] - codeCount[c] \in 0 .. late[c] + failed[c]
    BY DEF IndInv, MetricsInv, Accounts
  <2>2. late[c] \in Nat /\ failed[c] \in Nat
    BY DEF IndInv, MetricsInv, MetricsTypeOK
  <2> QED BY <2>1, <2>2
<1> QED BY <1>1, InitInv, NextInv, PTL DEF Spec
=============================================================================
