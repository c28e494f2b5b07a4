---------------------------- MODULE Socks5Proofs ----------------------------
(***************************************************************************)
(* What the parts of openvpn2socks keep, whatever the constants: the       *)
(* limiter of new flows implements a plain token bucket, the resolver      *)
(* takes a denial for final and keeps its cache sound, and the SOCKS5      *)
(* server keeps its map of relays in step with their goroutines and leaves *)
(* nothing behind.                                                         *)
(***************************************************************************)
EXTENDS OpenVPN2Socks, SequenceTheorems, TLAPS

(* The provers every leaf may use, and how long the first may take. *)
USE SMTT(20), Zenon

-----------------------------------------------------------------------------
(* The limiter of new flows.  A bucket that is dropped has had the time to *)
(* fill.                                                                   *)

Entry == [tokens : 0 .. Capacity, age : 0 .. Oldest]

(* The constants are natural numbers. *)
LEMMA Numbers ==
  /\ Cost \in Nat \ {0} /\ Capacity \in Nat /\ Oldest \in Nat /\ Capacity < Oldest
  /\ connRateMaxIdle \in Nat /\ connRateGCEvery \in Nat /\ Capacity <= connRateMaxIdle
BY RateAssumption DEF Oldest

(* What a bucket holds lies between nothing and a burst. *)
LEMMA RefilledRange == \A b \in Entry : Refilled(b) \in 0 .. Capacity
BY Numbers DEF Refilled, Entry

(* The collection drops buckets that are full again, and no others. *)
LEMMA Collected ==
  ASSUME TypeOK
  PROVE  /\ DOMAIN gcLocked(buckets) \subseteq DOMAIN buckets
         /\ \A t \in DOMAIN gcLocked(buckets) : gcLocked(buckets)[t] = buckets[t]
         /\ \A t \in DOMAIN buckets \ DOMAIN gcLocked(buckets) :
              Refilled(buckets[t]) = Capacity
<1>1. ASSUME NEW t \in DOMAIN buckets, ~(buckets[t].age <= connRateMaxIdle)
      PROVE  Refilled(buckets[t]) = Capacity
  <2>1. buckets[t].tokens \in 0 .. Capacity /\ buckets[t].age \in 0 .. Oldest
    BY DEF TypeOK
  <2> QED BY <1>1, <2>1, Numbers DEF Refilled
<1> QED BY <1>1 DEF gcLocked

(* A call takes what a flow costs from its target's bucket, if that holds it. *)
LEMMA AllowStep ==
  ASSUME TypeOK, NEW t \in Targets, allow(t)
  PROVE  TypeOK' /\ Bucket!Ask(t)
<1> DEFINE bs == IF lastGC > connRateGCEvery THEN gcLocked(buckets) ELSE buckets
           tokens == IF t \in DOMAIN bs THEN Refilled(bs[t]) ELSE Capacity
           granted == tokens >= Cost
           b == [tokens |-> IF granted THEN tokens - Cost ELSE tokens, age |-> 0]
<1>1. /\ DOMAIN bs \subseteq DOMAIN buckets
      /\ \A u \in DOMAIN bs : bs[u] = buckets[u]
      /\ \A u \in DOMAIN buckets \ DOMAIN bs : Refilled(buckets[u]) = Capacity
  BY Collected
<1>2. /\ buckets' = [u \in DOMAIN bs \cup {t} |-> IF u = t THEN b ELSE bs[u]]
      /\ lastGC' = (IF lastGC > connRateGCEvery THEN 0 ELSE lastGC)
      /\ answer' = <<t, granted>>
  BY DEF allow
<1> HIDE DEF bs
<1>3. \A u \in DOMAIN bs : bs[u] \in Entry
  BY <1>1 DEF TypeOK, Entry
<1>4. tokens \in 0 .. Capacity
  BY <1>3, Numbers, RefilledRange
<1>5. tokens = Held[t]
  BY <1>1 DEF Held
<1> HIDE DEF tokens
<1>6. b \in Entry /\ Refilled(b) = b.tokens
  BY <1>4, Numbers DEF Entry, Refilled
<1>7. TypeOK'
  <2>1. DOMAIN buckets' = DOMAIN bs \cup {t}
    BY <1>2
  <2>2. \A u \in DOMAIN buckets' : buckets'[u] \in Entry
    BY <1>2, <1>3, <1>6
  <2>3. DOMAIN buckets' \subseteq Targets
    BY <1>1, <2>1 DEF TypeOK
  <2>4. lastGC' \in 0 .. connRateGCEvery + 1
    BY <1>2, Numbers DEF TypeOK
  <2>5. buckets' = [u \in DOMAIN buckets' |-> buckets'[u]]
    BY <1>2, <2>1
  <2> QED BY <2>2, <2>3, <2>4, <2>5 DEF TypeOK, Entry
<1> HIDE DEF b
<1>8. Held'[t] = b.tokens
  BY <1>2, <1>6 DEF Held
<1>9. ASSUME NEW u \in Targets, u # t PROVE Held'[u] = Held[u]
  BY <1>1, <1>2, <1>9 DEF Held
<1>10. Held' = [Held EXCEPT ![t] = b.tokens]
  BY <1>8, <1>9, Zenon DEF Held
<1>11. b.tokens = IF Held[t] >= Cost THEN Held[t] - Cost ELSE Held[t]
  BY <1>5 DEF b
<1>12. Held = [Held EXCEPT ![t] = Held[t]]
  BY Zenon DEF Held
<1> QED BY <1>2, <1>5, <1>7, <1>10, <1>11, <1>12, Zenon DEF Bucket!Ask

(* As time passes, what the buckets hold grows by one a unit. *)
LEMMA TimeStep ==
  ASSUME TypeOK, TimePasses
  PROVE  TypeOK' /\ Bucket!Tick
<1>1. /\ DOMAIN buckets' = DOMAIN buckets
      /\ \A t \in DOMAIN buckets :
           /\ buckets[t] \in Entry
           /\ buckets'[t] = [buckets[t] EXCEPT !.age = Older(buckets[t].age, Oldest)]
      /\ lastGC' = Older(lastGC, connRateGCEvery + 1) /\ answer' = answer
  BY DEF TimePasses, TypeOK, Entry
<1>2. ASSUME NEW t \in DOMAIN buckets
      PROVE  /\ buckets'[t] \in Entry
             /\ Refilled(buckets'[t]) = IF Refilled(buckets[t]) < Capacity
                                        THEN Refilled(buckets[t]) + 1 ELSE Capacity
  <2>1. /\ buckets[t].tokens \in 0 .. Capacity /\ buckets[t].age \in 0 .. Oldest
        /\ buckets'[t].tokens = buckets[t].tokens
        /\ buckets'[t].age = Older(buckets[t].age, Oldest)
        /\ buckets'[t] = [tokens |-> buckets'[t].tokens, age |-> buckets'[t].age]
    BY <1>1 DEF Entry
  <2>2. Older(buckets[t].age, Oldest) \in 0 .. Oldest
    BY <2>1, Numbers DEF Older
  <2> QED BY <2>1, <2>2, Numbers DEF Entry, Refilled, Older
<1>3. TypeOK'
  <2>1. buckets' = [t \in DOMAIN buckets' |-> buckets'[t]]
    BY DEF TimePasses
  <2>2. lastGC' \in 0 .. connRateGCEvery + 1
    BY <1>1, Numbers DEF TypeOK, Older
  <2> QED BY <1>1, <1>2, <2>1, <2>2 DEF TypeOK, Entry
<1>4. ASSUME NEW t \in Targets
      PROVE  Held'[t] = IF Held[t] < Capacity THEN Held[t] + 1 ELSE Capacity
  BY <1>1, <1>2, Numbers DEF Held
<1> QED BY <1>1, <1>3, <1>4 DEF Bucket!Tick, Held

(* Dropping every bucket fills them all. *)
LEMMA EmptyIsFull ==
  ASSUME buckets = <<>>
  PROVE  Held = Bucket!Full
BY DEF Held, Bucket!Full

(* Every step of the limiter is one of the token bucket. *)
LEMMA RateStep == TypeOK /\ [Next]_vars => TypeOK' /\ [Bucket!Next]_<<Held, answer>>
<1> SUFFICES ASSUME TypeOK, [Next]_vars
             PROVE  TypeOK' /\ [Bucket!Next]_<<Held, answer>>
  OBVIOUS
<1>1. CASE TimePasses
  BY <1>1, TimeStep DEF Bucket!Next
<1>2. CASE Reset
  <2>1. TypeOK'
    BY <1>2, Numbers DEF Reset, TypeOK
  <2>2. Held' = Bucket!Full
    BY <1>2 DEF Reset, Held, Bucket!Full
  <2> QED BY <1>2, <2>1, <2>2 DEF Reset, Bucket!Refill, Bucket!Next
<1>3. CASE \E t \in Targets : allow(t)
  BY <1>3, AllowStep DEF Bucket!Next
<1>4. CASE UNCHANGED vars
  BY <1>4 DEF vars, TypeOK, Held
<1> QED BY <1>1, <1>2, <1>3, <1>4 DEF Next

(* The limiter grants and refuses exactly what a plain token bucket would: *)
(* filling a bucket when allow looks at it, collecting idle ones and       *)
(* dropping all at a reconnect cannot be told from it.                     *)
THEOREM ImplementsBucket == Spec => ImplementsTokenBucket
<1>1. Init => TypeOK /\ Bucket!Init
  BY Numbers, EmptyIsFull DEF Init, TypeOK, Bucket!Init
<1> QED BY <1>1, RateStep, PTL DEF Spec, ImplementsTokenBucket, Bucket!Spec

-----------------------------------------------------------------------------
(* The resolver *)

(* A part of a sequence. *)
LEMMA Part ==
  ASSUME NEW S, NEW s \in Seq(S), NEW m \in 1 .. Len(s) + 1, NEW n \in m - 1 .. Len(s)
  PROVE  /\ SubSeq(s, m, n) \in Seq(S)
         /\ Len(SubSeq(s, m, n)) = n - m + 1
         /\ \A j \in 1 .. n - m + 1 : SubSeq(s, m, n)[j] = s[m + j - 1]
<1>1. Len(s) \in Nat /\ \A j \in 1 .. Len(s) : s[j] \in S
  BY LenProperties
<1>2. m \in Int /\ n \in Int /\ \A j \in m .. n : s[j] \in S
  BY <1>1
<1>3. /\ SubSeq(s, m, n) \in Seq(S)
      /\ Len(SubSeq(s, m, n)) = IF m <= n THEN n - m + 1 ELSE 0
      /\ \A j \in 1 .. n - m + 1 : SubSeq(s, m, n)[j] = s[m + j - 1]
  BY <1>2, SubSeqProperties
<1>4. (IF m <= n THEN n - m + 1 ELSE 0) = n - m + 1
  BY <1>1, <1>2
<1> QED BY <1>3, <1>4, Zenon

(* The sequence without one of its elements. *)
LEMMA Removed ==
  ASSUME NEW S, NEW s \in Seq(S), NEW i \in 1 .. Len(s)
  PROVE  /\ DNS!RemoveAt(s, i) \in Seq(S)
         /\ Len(DNS!RemoveAt(s, i)) = Len(s) - 1
         /\ \A j \in 1 .. Len(s) - 1 :
              DNS!RemoveAt(s, i)[j] = s[IF j < i THEN j ELSE j + 1]
<1> DEFINE front == SubSeq(s, 1, i - 1)
           back == SubSeq(s, i + 1, Len(s))
<1>1. Len(s) \in Nat /\ \A j \in 1 .. Len(s) : s[j] \in S
  BY LenProperties
<1>2. i \in Int /\ i <= Len(s) /\ 1 <= i
  BY <1>1
<1>3. /\ 1 \in 1 .. Len(s) + 1 /\ i - 1 \in 1 - 1 .. Len(s)
      /\ i + 1 \in 1 .. Len(s) + 1 /\ Len(s) \in i + 1 - 1 .. Len(s)
  BY <1>1, <1>2
<1>4. /\ front \in Seq(S) /\ Len(front) = i - 1 - 1 + 1
      /\ \A j \in 1 .. i - 1 - 1 + 1 : front[j] = s[1 + j - 1]
  BY <1>3, Part, Zenon
<1>5. /\ back \in Seq(S) /\ Len(back) = Len(s) - (i + 1) + 1
      /\ \A j \in 1 .. Len(s) - (i + 1) + 1 : back[j] = s[i + 1 + j - 1]
  BY <1>3, Part
<1> HIDE DEF front, back
<1>6. Len(front) = i - 1 /\ Len(back) = Len(s) - i
  BY <1>1, <1>2, <1>4, <1>5
<1>7. /\ front \o back \in Seq(S)
      /\ Len(front \o back) = Len(front) + Len(back)
      /\ \A j \in 1 .. Len(front) + Len(back) :
           (front \o back)[j] = IF j <= Len(front) THEN front[j] ELSE back[j - Len(front)]
  BY <1>4, <1>5, ConcatProperties, Zenon
<1>8. ASSUME NEW j \in 1 .. Len(s) - 1
      PROVE  (front \o back)[j] = s[IF j < i THEN j ELSE j + 1]
  <2>1. j \in 1 .. Len(front) + Len(back)
    BY <1>1, <1>2, <1>6
  <2>2. CASE j < i
    <3>1. j <= Len(front) /\ j \in 1 .. i - 1 - 1 + 1 /\ 1 + j - 1 = j
      BY <1>2, <1>6, <2>2
    <3> QED BY <1>4, <1>7, <2>1, <2>2, <3>1, Zenon
  <2>3. CASE ~(j < i)
    <3>1. /\ ~(j <= Len(front)) /\ j - Len(front) \in 1 .. Len(s) - (i + 1) + 1
          /\ i + 1 + (j - Len(front)) - 1 = j + 1
      BY <1>1, <1>2, <1>6, <2>3
    <3> QED BY <1>5, <1>7, <2>1, <2>3, <3>1, Zenon
  <2> QED BY <2>2, <2>3, Zenon
<1>9. Len(front) + Len(back) = Len(s) - 1
  BY <1>1, <1>2, <1>6
<1> QED BY <1>7, <1>8, <1>9, Zenon DEF DNS!RemoveAt, front, back

ServerName == STRING \cup {"override", "public"}

(* There is a server to ask. *)
LEMMA ChainFacts ==
  /\ DNS!Chain \in Seq(ServerName) /\ Len(DNS!Chain) \in Nat \ {0}
<1>1. <<"override">> \in Seq(ServerName) /\ <<"public">> \in Seq(ServerName) /\ Pushed \in Seq(ServerName)
  <2> DEFINE S == ServerName
  <2>1. "override" \in S /\ "public" \in S /\ STRING \subseteq S
    BY DEF ServerName
  <2> HIDE DEF S
  <2>2. ASSUME NEW x \in S PROVE <<x>> \in Seq(S)
    OBVIOUS
  <2>3. Pushed \in Seq(S)
    <3>1. Pushed \in Seq(STRING)
      BY Socks5Assumption
    <3>2. Len(Pushed) \in Nat /\ Pushed \in [1 .. Len(Pushed) -> STRING]
      BY <3>1, LenProperties, Zenon
    <3>3. Pushed \in [1 .. Len(Pushed) -> S]
      BY <2>1, <3>2, Zenon
    <3> QED BY <3>2, <3>3, SeqDef
  <2> QED BY <2>1, <2>2, <2>3, Zenon DEF S
<1>2. Len(<<"override">>) = 1 /\ Len(<<"public">>) = 1 /\ Len(Pushed) \in Nat
  BY <1>1, LenProperties
<1>3. /\ <<"override">> \o Pushed \in Seq(ServerName)
      /\ Len(<<"override">> \o Pushed) = Len(<<"override">>) + Len(Pushed)
  BY <1>1, ConcatProperties, Zenon
<1>4. /\ Pushed \o <<"public">> \in Seq(ServerName)
      /\ Len(Pushed \o <<"public">>) = Len(Pushed) + Len(<<"public">>)
  BY <1>1, ConcatProperties, Zenon
<1>5. CASE Override
  <2>1. DNS!Chain = <<"override">> \o Pushed
    BY <1>5, Zenon DEF DNS!Chain
  <2> QED BY <1>2, <1>3, <2>1
<1>6. CASE ~Override
  <2>1. DNS!Chain = Pushed \o <<"public">>
    BY <1>6, Zenon DEF DNS!Chain
  <2> QED BY <1>2, <1>4, <2>1
<1> QED BY <1>5, <1>6

CacheEntry == [host : Hosts, via : {DNS!Chain[n] : n \in 1 .. Len(DNS!Chain)}]

(* A cache of which the first n entries have expired. *)
CacheOK(c, n) ==
  /\ c \in Seq(CacheEntry) /\ Len(c) <= dnsCacheMaxEntries
  /\ n \in 0 .. Len(c)
  /\ \A i, j \in 1 .. Len(c) : i # j => c[i].host # c[j].host

(* An entry goes. *)
LEMMA RemovedOK ==
  ASSUME NEW c, NEW n, CacheOK(c, n), NEW i \in 1 .. Len(c)
  PROVE  /\ CacheOK(DNS!RemoveAt(c, i), IF i <= n THEN n - 1 ELSE n)
         /\ Len(DNS!RemoveAt(c, i)) = Len(c) - 1
         /\ \A j \in 1 .. Len(c) - 1 : \E k \in 1 .. Len(c) :
              k # i /\ DNS!RemoveAt(c, i)[j] = c[k]
<1> DEFINE d == DNS!RemoveAt(c, i)
           src(j) == IF j < i THEN j ELSE j + 1
<1>1. /\ c \in Seq(CacheEntry) /\ Len(c) \in Nat /\ Len(c) <= dnsCacheMaxEntries
      /\ dnsCacheMaxEntries \in Nat /\ n \in 0 .. Len(c)
  BY LenProperties, Socks5Assumption DEF CacheOK
<1>2. /\ d \in Seq(CacheEntry) /\ Len(d) = Len(c) - 1
      /\ \A j \in 1 .. Len(c) - 1 : d[j] = c[src(j)]
  BY <1>1, Removed, Zenon
<1> HIDE DEF d
<1>3. /\ \A j \in 1 .. Len(c) - 1 : src(j) \in 1 .. Len(c) /\ src(j) # i
      /\ \A j, k \in 1 .. Len(c) - 1 : j # k => src(j) # src(k)
  BY <1>1
<1> HIDE DEF src
<1>4. ASSUME NEW j \in 1 .. Len(d), NEW k \in 1 .. Len(d), j # k
      PROVE  d[j].host # d[k].host
  <2>1. /\ src(j) \in 1 .. Len(c) /\ src(k) \in 1 .. Len(c) /\ src(j) # src(k)
        /\ d[j] = c[src(j)] /\ d[k] = c[src(k)]
    BY <1>2, <1>3, <1>4, Zenon
  <2> QED BY <2>1, Zenon DEF CacheOK
<1>5. (IF i <= n THEN n - 1 ELSE n) \in 0 .. Len(d) /\ Len(d) <= dnsCacheMaxEntries
  BY <1>1, <1>2
<1>6. CacheOK(d, IF i <= n THEN n - 1 ELSE n)
  BY <1>2, <1>4, <1>5, Zenon DEF CacheOK
<1> QED BY <1>2, <1>3, <1>6, Zenon DEF d

(* An entry for a host that has none comes last. *)
LEMMA AppendedOK ==
  ASSUME NEW c, NEW n, CacheOK(c, n), Len(c) < dnsCacheMaxEntries,
         NEW e \in CacheEntry, \A j \in 1 .. Len(c) : c[j].host # e.host
  PROVE  CacheOK(Append(c, e), n)
<1> DEFINE d == Append(c, e)
<1>1. /\ c \in Seq(CacheEntry) /\ Len(c) \in Nat /\ dnsCacheMaxEntries \in Nat
      /\ n \in 0 .. Len(c)
  BY LenProperties, Socks5Assumption DEF CacheOK
<1>2. /\ d \in Seq(CacheEntry) /\ Len(d) = Len(c) + 1
      /\ \A j \in 1 .. Len(c) : d[j] = c[j]
      /\ d[Len(c) + 1] = e
  BY <1>1, AppendProperties
<1> HIDE DEF d
<1>3. \A j \in 1 .. Len(d) : j \in 1 .. Len(c) \/ j = Len(c) + 1
  BY <1>1, <1>2
<1>4. \A j, k \in 1 .. Len(d) : j # k => d[j].host # d[k].host
  BY <1>2, <1>3, Zenon DEF CacheOK
<1>5. n \in 0 .. Len(d) /\ Len(d) <= dnsCacheMaxEntries
  BY <1>1, <1>2
<1>6. CacheOK(d, n)
  BY <1>2, <1>4, <1>5, Zenon DEF CacheOK
<1> QED BY <1>6 DEF d

(* cacheSet makes room if it must, and leaves one entry for the host. *)
LEMMA CacheSetStep ==
  ASSUME CacheOK(cache, expired), NEW h \in Hosts, NEW n \in 1 .. Len(DNS!Chain),
         DNS!cacheSet(h, DNS!Chain[n])
  PROVE  CacheOK(cache, expired)'
<1> DEFINE e == [host |-> h, via |-> DNS!Chain[n]]
           Less(i) == IF i <= expired THEN expired - 1 ELSE expired
<1>1. e \in CacheEntry /\ e.host = h
  BY DEF CacheEntry
<1>2. Len(cache) \in Nat /\ dnsCacheMaxEntries \in Nat /\ Len(cache) <= dnsCacheMaxEntries
  BY LenProperties, Socks5Assumption DEF CacheOK
<1> HIDE DEF e
<1>3. ASSUME NEW i \in 1 .. Len(cache),
             \A k \in 1 .. Len(cache) : k # i => cache[k].host # h,
             cache' = Append(DNS!RemoveAt(cache, i), e), expired' = Less(i)
      PROVE  CacheOK(cache', expired')
  <2> DEFINE d == DNS!RemoveAt(cache, i)
  <2>1. /\ CacheOK(d, Less(i)) /\ Len(d) = Len(cache) - 1
        /\ \A j \in 1 .. Len(cache) - 1 : \E k \in 1 .. Len(cache) :
             k # i /\ d[j] = cache[k]
    BY RemovedOK
  <2> HIDE DEF d
  <2>2. Len(d) < dnsCacheMaxEntries
    BY <1>2, <2>1
  <2>3. \A j \in 1 .. Len(d) : d[j].host # e.host
    BY <1>1, <1>3, <2>1, Zenon
  <2>4. CacheOK(Append(d, e), Less(i))
    BY <1>1, <2>1, <2>2, <2>3, AppendedOK, Zenon
  <2> QED BY <1>3, <2>4, Zenon DEF d
<1>4. CASE DNS!Position(h) # {}
  <2>1. PICK i \in DNS!Position(h) :
          cache' = Append(DNS!RemoveAt(cache, i), e) /\ expired' = Less(i)
    BY <1>4, Zenon DEF DNS!cacheSet, e
  <2>2. i \in 1 .. Len(cache) /\ cache[i].host = h
    BY <2>1 DEF DNS!Position
  <2>3. \A k \in 1 .. Len(cache) : k # i => cache[k].host # h
    BY <2>2, Zenon DEF CacheOK
  <2> QED BY <1>3, <2>1, <2>2, <2>3, Zenon
<1>5. CASE DNS!Position(h) = {} /\ Len(cache) >= dnsCacheMaxEntries
  <2>1. PICK i \in DNS!Evictable :
          cache' = Append(DNS!RemoveAt(cache, i), e) /\ expired' = Less(i)
    BY <1>5, Zenon DEF DNS!cacheSet, e
  <2>2. i \in 1 .. Len(cache)
    BY <2>1 DEF DNS!Evictable
  <2>3. \A k \in 1 .. Len(cache) : k # i => cache[k].host # h
    BY <1>5 DEF DNS!Position
  <2> QED BY <1>3, <2>1, <2>2, <2>3, Zenon
<1>6. CASE DNS!Position(h) = {} /\ ~(Len(cache) >= dnsCacheMaxEntries)
  <2>1. cache' = Append(cache, e) /\ expired' = expired
    BY <1>6, Zenon DEF DNS!cacheSet, e
  <2>2. \A j \in 1 .. Len(cache) : cache[j].host # e.host
    BY <1>1, <1>6 DEF DNS!Position
  <2>3. Len(cache) < dnsCacheMaxEntries
    BY <1>2, <1>6
  <2>4. CacheOK(Append(cache, e), expired)
    BY <1>1, <2>2, <2>3, AppendedOK, Zenon
  <2> QED BY <2>1, <2>4, Zenon
<1>7. CacheOK(cache', expired')
  BY <1>4, <1>5, <1>6, Zenon
<1> QED BY <1>7 DEF CacheOK

Flight ==
  [pc : {"none", "query", "system", "return"}, server : 0 .. Len(DNS!Chain),
   sawNoData : BOOLEAN, denied : BOOLEAN,
   result : {"none", "tunnel", "system", "error", "nodata"}]

(* What a resolution knows: sawNoData says whether one of the servers      *)
(* asked so far has denied the host.                                       *)
FlightOK(f) ==
  /\ f \in Flight
  /\ f.pc = "query" => f.server > 0
  /\ f.pc \in {"query", "system"} => f.result = "none" /\ (f.sawNoData <=> f.denied)
  /\ f.pc = "system" => ~f.sawNoData
  /\ f.result = "nodata" => f.denied

FlightsInv == DOMAIN flight = Hosts /\ \A h \in Hosts : FlightOK(flight[h])

ResolverInv == CacheOK(cache, expired) /\ FlightsInv

(* The flights of a step that changes one of them. *)
LEMMA OneFlight ==
  ASSUME FlightsInv, NEW h, NEW f, FlightOK(f), flight' = [flight EXCEPT ![h] = f]
  PROVE  FlightsInv'
<1>1. DOMAIN flight' = Hosts /\ \A g \in Hosts : flight'[g] = IF g = h THEN f ELSE flight[g]
  BY Zenon DEF FlightsInv
<1>2. ASSUME NEW g \in Hosts PROVE FlightOK(flight'[g])
  BY <1>1, Zenon DEF FlightsInv
<1>3. ASSUME NEW g \in Hosts PROVE FlightOK(flight[g])'
  BY <1>2 DEF FlightOK
<1> QED BY <1>1, <1>3 DEF FlightsInv

Fields(p, s, n, d, r) ==
  [pc |-> p, server |-> s, sawNoData |-> n, denied |-> d, result |-> r]

(* A resolution that begins, and one that returns. *)
LEMMA FlightForms ==
  /\ FlightOK(DNS!NoFlight)
  /\ FlightOK([DNS!NoFlight EXCEPT !.pc = "query", !.server = 1])
  /\ \A r \in {"tunnel", "system", "error"} :
       FlightOK([DNS!NoFlight EXCEPT !.pc = "return", !.result = r])
<1> DEFINE no == FALSE
<1>1. Len(DNS!Chain) \in Nat \ {0}
  BY ChainFacts
<1>2. 0 \in 0 .. Len(DNS!Chain) /\ 1 \in 0 .. Len(DNS!Chain) /\ 1 > 0
  BY <1>1
<1>3. DNS!NoFlight = Fields("none", 0, no, no, "none")
  BY DEF DNS!NoFlight, Fields
<1>0. no \in BOOLEAN /\ ~no
  OBVIOUS
<1> HIDE DEF no
<1>4. ASSUME NEW r \in {"tunnel", "system", "error"}
      PROVE  FlightOK([DNS!NoFlight EXCEPT !.pc = "return", !.result = r])
  <2>1. [DNS!NoFlight EXCEPT !.pc = "return", !.result = r]
          = [[DNS!NoFlight EXCEPT !.pc = "return"] EXCEPT !.result = r]
    OBVIOUS
  <2>2. [DNS!NoFlight EXCEPT !.pc = "return"] = Fields("return", 0, no, no, "none")
    BY <1>3 DEF Fields
  <2>3. [Fields("return", 0, no, no, "none") EXCEPT !.result = r]
          = Fields("return", 0, no, no, r)
    BY DEF Fields
  <2>4. FlightOK(Fields("return", 0, no, no, r))
    BY <1>0, <1>2 DEF FlightOK, Flight, Fields
  <2> QED BY <2>1, <2>2, <2>3, <2>4, Zenon
<1>5. FlightOK(DNS!NoFlight)
  BY <1>0, <1>2, <1>3 DEF FlightOK, Flight, Fields
<1>6. FlightOK([DNS!NoFlight EXCEPT !.pc = "query", !.server = 1])
  <2>1. [DNS!NoFlight EXCEPT !.pc = "query", !.server = 1]
          = [[DNS!NoFlight EXCEPT !.pc = "query"] EXCEPT !.server = 1]
    OBVIOUS
  <2>2. [DNS!NoFlight EXCEPT !.pc = "query"] = Fields("query", 0, no, no, "none")
    BY <1>3 DEF Fields
  <2>3. [Fields("query", 0, no, no, "none") EXCEPT !.server = 1]
          = Fields("query", 1, no, no, "none")
    BY DEF Fields
  <2>4. FlightOK(Fields("query", 1, no, no, "none"))
    BY <1>0, <1>2 DEF FlightOK, Flight, Fields
  <2> QED BY <2>1, <2>2, <2>3, <2>4, Zenon
<1> QED BY <1>4, <1>5, <1>6, Zenon

(* After a server that had no records: the next one, or the end of the     *)
(* chain.                                                                  *)
LEMMA NextServerOK ==
  ASSUME NEW f, FlightOK(f), f.pc = "query", NEW denied \in BOOLEAN, NEW outcome,
         denied <=> outcome = "negative"
  PROVE  FlightOK([DNS!NextServer(f, outcome) EXCEPT !.denied = @ \/ denied])
<1> DEFINE saw == f.sawNoData \/ outcome = "negative"
           den == f.denied \/ denied
           s == f.server
           g == [f EXCEPT !.sawNoData = @ \/ outcome = "negative"]
           next == DNS!NextServer(f, outcome)
           new == [next EXCEPT !.denied = @ \/ denied]
<1>1. /\ f \in Flight /\ s > 0 /\ f.result = "none" /\ (f.sawNoData <=> f.denied)
      /\ s \in 0 .. Len(DNS!Chain) /\ Len(DNS!Chain) \in Nat
  BY ChainFacts DEF FlightOK, Flight
<1>2. saw \in BOOLEAN /\ den \in BOOLEAN /\ (saw <=> den)
  BY <1>1, Zenon DEF Flight
<1>3. f = Fields("query", s, f.sawNoData, f.denied, "none")
  BY <1>1 DEF Flight, Fields
<1>4. g = [f EXCEPT !.sawNoData = saw]
  OBVIOUS
<1>5. g = Fields("query", s, saw, f.denied, "none")
  <2> HIDE DEF saw, s, g
  <2>1. [Fields("query", s, f.sawNoData, f.denied, "none") EXCEPT !.sawNoData = saw]
          = Fields("query", s, saw, f.denied, "none")
    BY DEF Fields
  <2> QED BY <1>3, <1>4, <2>1, Zenon
<1>6. ASSUME NEW p, NEW t, NEW r, next = Fields(p, t, saw, f.denied, r)
      PROVE  new = Fields(p, t, saw, den, r)
  <2>1. next.denied = f.denied
    BY <1>6 DEF Fields
  <2>2. new = [next EXCEPT !.denied = den]
    BY <2>1
  <2> HIDE DEF next, saw, den, new
  <2> QED BY <1>6, <2>2 DEF Fields
<1>7. CASE s < Len(DNS!Chain)
  <2>1. next = [g EXCEPT !.server = g.server + 1]
    BY <1>7 DEF DNS!NextServer
  <2> HIDE DEF saw, den, new, next, g
  <2>2. g.server = s
    BY <1>5 DEF Fields
  <2>3. next = Fields("query", s + 1, saw, f.denied, "none")
    BY <1>5, <2>1, <2>2 DEF Fields
  <2>4. s + 1 \in 0 .. Len(DNS!Chain) /\ s + 1 > 0
    BY <1>1, <1>7
  <2>5. FlightOK(Fields("query", s + 1, saw, den, "none"))
    BY <1>2, <2>4 DEF FlightOK, Flight, Fields
  <2>6. new = Fields("query", s + 1, saw, den, "none")
    BY <1>6, <2>3
  <2> QED BY <2>5, <2>6, Zenon DEF new, next
<1>8. CASE ~(s < Len(DNS!Chain)) /\ saw
  <2>1. g.sawNoData = saw
    BY <1>5 DEF Fields
  <2>2. next = [g EXCEPT !.pc = "return", !.result = "nodata"]
    BY <1>8, <2>1, Zenon DEF DNS!NextServer
  <2> HIDE DEF saw, den, new, next, g
  <2>3. next = [[g EXCEPT !.pc = "return"] EXCEPT !.result = "nodata"]
    BY <2>2
  <2>4. [g EXCEPT !.pc = "return"] = Fields("return", s, saw, f.denied, "none")
    BY <1>5 DEF Fields
  <2>5. next = Fields("return", s, saw, f.denied, "nodata")
    BY <2>3, <2>4, Zenon DEF Fields
  <2>6. FlightOK(Fields("return", s, saw, den, "nodata"))
    BY <1>1, <1>2, <1>8 DEF FlightOK, Flight, Fields
  <2>7. new = Fields("return", s, saw, den, "nodata")
    BY <1>6, <2>5
  <2> QED BY <2>6, <2>7, Zenon DEF new, next
<1>9. CASE ~(s < Len(DNS!Chain)) /\ ~saw
  <2>1. g.sawNoData = saw
    BY <1>5 DEF Fields
  <2>2. next = [g EXCEPT !.pc = "system"]
    BY <1>9, <2>1, Zenon DEF DNS!NextServer
  <2> HIDE DEF saw, den, new, next, g
  <2>3. next = Fields("system", s, saw, f.denied, "none")
    BY <1>5, <2>2 DEF Fields
  <2>4. FlightOK(Fields("system", s, saw, den, "none"))
    BY <1>1, <1>2, <1>9 DEF FlightOK, Flight, Fields
  <2>5. new = Fields("system", s, saw, den, "none")
    BY <1>6, <2>3
  <2> QED BY <2>4, <2>5, Zenon DEF new, next
<1> QED BY <1>7, <1>8, <1>9

(* A query that finds no records: denied exactly if Merge says negative. *)
LEMMA DeniedIsNegative ==
  ASSUME NEW ans, DNS!Merge(ans) # "records"
  PROVE  (QTypes # {} /\ \A q \in QTypes : ans[q] = "negative")
           <=> DNS!Merge(ans) = "negative"
BY DEF DNS!Merge

(* Every step of the resolver keeps the cache and the resolutions sound. *)
LEMMA ResolverStep == ResolverInv /\ [DNS!Next]_DNS!vars => ResolverInv'
<1> SUFFICES ASSUME ResolverInv, [DNS!Next]_DNS!vars PROVE ResolverInv'
  OBVIOUS
<1>0. CacheOK(cache, expired) /\ FlightsInv
  BY DEF ResolverInv
<1>1. ASSUME UNCHANGED <<cache, expired>> PROVE CacheOK(cache, expired)'
  BY <1>0, <1>1 DEF CacheOK
<1>2. ASSUME UNCHANGED flight PROVE FlightsInv'
  BY <1>0, <1>2 DEF FlightsInv, FlightOK
<1>3. ASSUME NEW c \in Callers, DNS!DoChan(c) PROVE ResolverInv'
  <2> DEFINE h == lookup[c].host
             new == [DNS!NoFlight EXCEPT !.pc = "query", !.server = 1]
  <2>1. flight' = flight \/ flight' = [flight EXCEPT ![h] = new]
    BY <1>3, Zenon DEF DNS!DoChan
  <2> HIDE DEF h, new
  <2>2. FlightOK(new)
    BY FlightForms, Zenon DEF new
  <2>3. ASSUME flight' = [flight EXCEPT ![h] = new] PROVE FlightsInv'
    BY <1>0, <2>2, <2>3, OneFlight, Zenon
  <2>4. FlightsInv'
    BY <1>2, <2>1, <2>3, Zenon
  <2> QED BY <1>1, <1>3, <2>4, Zenon DEF DNS!DoChan, ResolverInv
<1>4. ASSUME NEW c \in Callers, DNS!Receive(c) \/ DNS!GiveUp(c) PROVE ResolverInv'
  BY <1>1, <1>2, <1>4, Zenon DEF DNS!Receive, DNS!GiveUp, ResolverInv
<1>5. ASSUME NEW c \in Callers, NEW h \in Hosts, DNS!LookupIP(c, h) PROVE ResolverInv'
  <2>1. CASE UNCHANGED <<cache, expired>>
    BY <1>1, <1>2, <1>5, <2>1, Zenon DEF DNS!LookupIP, ResolverInv
  <2>2. ASSUME NEW i \in DNS!Position(h), DNS!Delete(i) PROVE CacheOK(cache', expired')
    <3>1. i \in 1 .. Len(cache)
      BY DEF DNS!Position
    <3>2. CacheOK(DNS!RemoveAt(cache, i), IF i <= expired THEN expired - 1 ELSE expired)
      BY <1>0, <3>1, RemovedOK
    <3> QED BY <2>2, <3>2, Zenon DEF DNS!Delete
  <2>3. UNCHANGED <<cache, expired>> \/ \E i \in DNS!Position(h) : DNS!Delete(i)
    BY <1>5, Zenon DEF DNS!LookupIP
  <2>4. UNCHANGED <<cache, expired>> \/ CacheOK(cache, expired)'
    BY <2>2, <2>3 DEF CacheOK
  <2> QED BY <1>2, <1>5, <2>1, <2>4, Zenon DEF DNS!LookupIP, ResolverInv
<1>6. ASSUME NEW h \in Hosts, DNS!Query(h) PROVE ResolverInv'
  <2>1. PICK ans \in [QTypes -> {"records", "negative", "error"}] :
          LET outcome == DNS!Merge(ans)
              denied == QTypes # {} /\ \A q \in QTypes : ans[q] = "negative"
          IN IF outcome = "records"
             THEN DNS!cacheSet(h, DNS!Chain[flight[h].server]) /\ DNS!Returns(h, "tunnel")
             ELSE /\ flight' = [flight EXCEPT ![h] =
                       [DNS!NextServer(flight[h], outcome) EXCEPT !.denied = @ \/ denied]]
                  /\ UNCHANGED <<cache, expired>>
    BY <1>6, Zenon DEF DNS!Query
  <2>2. /\ FlightOK(flight[h]) /\ flight[h].pc = "query"
        /\ flight[h].server \in 1 .. Len(DNS!Chain)
    <3>1. FlightOK(flight[h]) /\ flight[h].pc = "query"
      BY <1>0, <1>6, Zenon DEF DNS!Query, FlightsInv
    <3>2. flight[h].server \in 0 .. Len(DNS!Chain) /\ flight[h].server > 0
      BY <3>1 DEF FlightOK, Flight
    <3> QED BY <3>1, <3>2
  <2>3. CASE DNS!Merge(ans) = "records"
    <3>1. DNS!cacheSet(h, DNS!Chain[flight[h].server]) /\ DNS!Returns(h, "tunnel")
      BY <2>1, <2>3, Zenon
    <3>2. CacheOK(cache, expired)'
      BY <1>0, <2>2, <3>1, CacheSetStep, Zenon
    <3>3. FlightsInv'
      BY <1>0, <3>1, FlightForms, OneFlight, Zenon DEF DNS!Returns
    <3> QED BY <3>2, <3>3 DEF ResolverInv
  <2>4. CASE DNS!Merge(ans) # "records"
    <3> DEFINE outcome == DNS!Merge(ans)
               denied == QTypes # {} /\ \A q \in QTypes : ans[q] = "negative"
               new == [DNS!NextServer(flight[h], outcome) EXCEPT !.denied = @ \/ denied]
    <3>1. flight' = [flight EXCEPT ![h] = new] /\ UNCHANGED <<cache, expired>>
      BY <2>1, <2>4, Zenon
    <3>2. denied \in BOOLEAN /\ (denied <=> outcome = "negative")
      BY <2>4, DeniedIsNegative, Zenon
    <3> HIDE DEF denied, outcome
    <3>3. FlightOK(new)
      BY <2>2, <3>2, NextServerOK, Zenon
    <3> HIDE DEF new
    <3>4. FlightsInv'
      BY <1>0, <3>1, <3>3, OneFlight, Zenon
    <3> QED BY <1>1, <3>1, <3>4, Zenon DEF ResolverInv
  <2> QED BY <2>3, <2>4
<1>7. ASSUME NEW h \in Hosts, DNS!System(h) PROVE ResolverInv'
  <2>1. FlightsInv'
    BY <1>0, <1>7, FlightForms, OneFlight, Zenon DEF DNS!System, DNS!Returns
  <2> QED BY <1>1, <1>7, <2>1, Zenon DEF DNS!System, ResolverInv
<1>8. ASSUME NEW h \in Hosts, DNS!Finish(h) PROVE ResolverInv'
  <2>1. FlightsInv'
    BY <1>0, <1>8, FlightForms, OneFlight, Zenon DEF DNS!Finish
  <2> QED BY <1>1, <1>8, <2>1, Zenon DEF DNS!Finish, ResolverInv
<1>9. CASE DNS!Expire
  <2>1. Len(cache) \in Nat
    BY <1>0, LenProperties, Zenon DEF CacheOK
  <2>2. CacheOK(cache, expired)'
    BY <1>0, <1>9, <2>1 DEF DNS!Expire, CacheOK
  <2> QED BY <1>2, <1>9, <2>2, Zenon DEF DNS!Expire, ResolverInv
<1>10. CASE DNS!cacheSweep
  <2> DEFINE d == SubSeq(cache, expired + 1, Len(cache))
             n == Len(cache) - expired
  <2>1. /\ Len(cache) \in Nat /\ cache \in Seq(CacheEntry) /\ expired \in 0 .. Len(cache)
        /\ Len(cache) <= dnsCacheMaxEntries /\ dnsCacheMaxEntries \in Nat
        /\ \A i, j \in 1 .. Len(cache) : i # j => cache[i].host # cache[j].host
    BY <1>0, LenProperties, Socks5Assumption DEF CacheOK
  <2>2. /\ expired + 1 \in 1 .. Len(cache) + 1
        /\ Len(cache) \in expired + 1 - 1 .. Len(cache)
        /\ Len(cache) - (expired + 1) + 1 = n
        /\ \A j \in 1 .. n : expired + 1 + j - 1 = expired + j
    BY <2>1
  <2>3. /\ d \in Seq(CacheEntry) /\ Len(d) = n /\ \A j \in 1 .. n : d[j] = cache[expired + j]
    <3>1. /\ d \in Seq(CacheEntry)
          /\ Len(d) = Len(cache) - (expired + 1) + 1
          /\ \A j \in 1 .. Len(cache) - (expired + 1) + 1 : d[j] = cache[expired + 1 + j - 1]
      <4> DEFINE m == expired + 1
      <4>1. m \in 1 .. Len(cache) + 1 /\ Len(cache) \in m - 1 .. Len(cache)
        BY <2>2
      <4> HIDE DEF m
      <4>2. /\ SubSeq(cache, m, Len(cache)) \in Seq(CacheEntry)
            /\ Len(SubSeq(cache, m, Len(cache))) = Len(cache) - m + 1
            /\ \A j \in 1 .. Len(cache) - m + 1 :
                 SubSeq(cache, m, Len(cache))[j] = cache[m + j - 1]
        BY <2>1, <4>1, Part
      <4> QED BY <4>2, Zenon DEF m
    <3> QED BY <2>2, <3>1, Zenon
  <2> HIDE DEF d
  <2>4. /\ \A j \in 1 .. n : expired + j \in 1 .. Len(cache)
        /\ \A j, k \in 1 .. n : j # k => expired + j # expired + k
        /\ n <= dnsCacheMaxEntries /\ 0 \in 0 .. n
    BY <2>1
  <2>5. ASSUME NEW j \in 1 .. Len(d), NEW k \in 1 .. Len(d), j # k
        PROVE  d[j].host # d[k].host
    <3>1. /\ j \in 1 .. n /\ k \in 1 .. n
          /\ d[j] = cache[expired + j] /\ d[k] = cache[expired + k]
      BY <2>3, Zenon
    <3>2. /\ expired + j \in 1 .. Len(cache) /\ expired + k \in 1 .. Len(cache)
          /\ expired + j # expired + k
      BY <2>4, <2>5, <3>1, Zenon
    <3> QED BY <2>1, <3>1, <3>2, Zenon
  <2>6. CacheOK(d, 0)
    BY <2>3, <2>4, <2>5, Zenon DEF CacheOK
  <2>7. cache' = d /\ expired' = 0 /\ flight' = flight
    BY <1>10 DEF DNS!cacheSweep, d
  <2>8. CacheOK(cache', expired')
    BY <2>6, <2>7, Zenon
  <2>9. CacheOK(cache, expired)'
    BY <2>8 DEF CacheOK
  <2> QED BY <1>2, <2>7, <2>9 DEF ResolverInv
<1>11. CASE UNCHANGED DNS!vars
  BY <1>1, <1>2, <1>11 DEF DNS!vars, ResolverInv
<1> QED BY <1>3, <1>4, <1>5, <1>6, <1>7, <1>8, <1>9, <1>10, <1>11, Zenon
        DEF DNS!Next, DNS!CallerSteps, DNS!FlightSteps

(* A new resolver knows nothing. *)
LEMMA ResolverInit == DNS!Init => ResolverInv
<1> SUFFICES ASSUME DNS!Init PROVE ResolverInv
  OBVIOUS
<1>1. FlightsInv
  BY FlightForms, Zenon DEF DNS!Init, FlightsInv
<1>2. cache = <<>> /\ expired = 0
  BY DEF DNS!Init
<1>3. cache \in Seq(CacheEntry) /\ Len(cache) = 0
  BY <1>2
<1>4. CacheOK(cache, expired)
  BY <1>2, <1>3, Socks5Assumption DEF CacheOK
<1> QED BY <1>1, <1>4 DEF ResolverInv

(* A definitive negative of any tunneled server is final: the system       *)
(* resolver is asked only about hosts that none of them has denied, for    *)
(* every chain of servers and every set of query types (lookupIPUncached,  *)
(* queryOverTunnel).                                                       *)
THEOREM FinalDenial == DNS!Spec => []DenialIsFinal
<1>1. ResolverInv => DenialIsFinal
  <2> SUFFICES ASSUME ResolverInv, NEW h \in Hosts
               PROVE  /\ flight[h].pc = "system" => ~flight[h].denied
                      /\ flight[h].result = "nodata" => flight[h].denied
    BY DEF DenialIsFinal, DNS!DenialIsFinal
  <2>1. FlightOK(flight[h])
    BY DEF ResolverInv, FlightsInv
  <2> QED BY <2>1, Zenon DEF FlightOK
<1> QED BY <1>1, ResolverInit, ResolverStep, PTL DEF DNS!Spec

(* The cache keeps to its bound, holds a host once and only what was       *)
(* learnt through the tunnel, whatever is looked up, expires, is swept and *)
(* is evicted in between (cacheGet, cacheSet, cacheSweep).                 *)
THEOREM SoundCache == DNS!Spec => []CacheSound
<1>1. ResolverInv => CacheSound
  <2> SUFFICES ASSUME ResolverInv PROVE CacheSound
    OBVIOUS
  <2>1. CacheOK(cache, expired)
    BY DEF ResolverInv
  <2>2. Len(cache) \in Nat /\ Len(cache) <= dnsCacheMaxEntries
    BY <2>1, LenProperties, Zenon DEF CacheOK
  <2>3. ASSUME NEW i \in 1 .. Len(cache)
        PROVE  \E n \in 1 .. Len(DNS!Chain) : cache[i].via = DNS!Chain[n]
    <3>1. cache[i] \in CacheEntry
      BY <2>1, LenProperties DEF CacheOK
    <3> QED BY <3>1 DEF CacheEntry
  <2>4. ASSUME NEW i \in 1 .. Len(cache), NEW j \in 1 .. i - 1
        PROVE  cache[j].host # cache[i].host
    <3>1. j \in 1 .. Len(cache) /\ j # i
      BY <2>2
    <3> QED BY <2>1, <3>1, Zenon DEF CacheOK
  <2> QED BY <2>2, <2>3, <2>4, Zenon DEF CacheSound, DNS!CacheSound
<1> QED BY <1>1, ResolverInit, ResolverStep, PTL DEF DNS!Spec

-----------------------------------------------------------------------------
(* The SOCKS5 server.  First each handler by itself. *)

Ends == {"none", "open", "eof", "closed"}

Labels ==
  {"none", "greet", "request", "leaving", "done", "lookup", "dial", "reply", "proxy",
   "bind", "relaying", "closeAll", "closeTargets", "wait"}

HandlersInv ==
  /\ pc \in [Conns -> Labels]
  /\ conn \in [Conns -> Ends] /\ remote \in [Conns -> Ends]
  /\ up \in [Conns -> BOOLEAN] /\ down \in [Conns -> BOOLEAN]
  /\ \A h \in Conns : /\ pc[h] = "done" => conn[h] = "closed" /\ remote[h] \in {"none", "closed"}
                      /\ up[h] \/ down[h] => pc[h] = "proxy"

(* The association is there while pc[Associator] is one of these. *)
Active == pc[Associator] \in {"relaying", "closeAll", "closeTargets", "wait"}
After == pc[Associator] \in {"leaving", "done"}

(* The manager's map and the goroutines agree: whoever runs is registered  *)
(* under its key, whatever is registered runs, the reader dials only for a *)
(* key that has no relay, and an open target belongs to a goroutine or to  *)
(* the reader that has just dialled it.                                    *)
FlowsInv ==
  /\ relays \in [Keys -> 0 .. MaxRelays] \/ (relays = <<>> /\ After)
  /\ fresh \in 0 .. MaxRelays
  /\ target \in [1 .. MaxRelays -> {"none", "open", "closed"}]
  /\ relayKey \in [1 .. MaxRelays -> Keys \cup {"none"}]
  /\ pump \in [1 .. MaxRelays -> {"off", "check", "read", "remove"}]
  /\ udp = "open" => Active
  /\ reader # "off" => Active
  /\ \A r \in 1 .. MaxRelays : pump[r] # "off" =>
       Active /\ target[r] # "none" /\ relayKey[r] \in Keys /\ relays[relayKey[r]] = r
  /\ relays # <<>> => \A k \in Keys : relays[k] # 0 =>
       pump[relays[k]] # "off" /\ relayKey[relays[k]] = k
  /\ reader \in {"create", "get", "dial", "install", "write"} => key \in Keys
  /\ reader \in {"dial", "install"} => relays[key] = 0
  /\ reader = "install" => fresh # 0 /\ pump[fresh] = "off" /\ target[fresh] # "none"
  /\ \A r \in 1 .. MaxRelays : target[r] = "open" =>
       pump[r] # "off" \/ (reader = "install" /\ fresh = r)

(* A step that sets what belongs to one handler. *)
Moves(h, p, c, m, u, d) ==
  /\ pc' = [pc EXCEPT ![h] = p] /\ conn' = [conn EXCEPT ![h] = c]
  /\ remote' = [remote EXCEPT ![h] = m]
  /\ up' = [up EXCEPT ![h] = u] /\ down' = [down EXCEPT ![h] = d]

LEMMA OneHandler ==
  ASSUME HandlersInv, NEW h \in Conns, NEW p \in Labels, NEW c \in Ends, NEW m \in Ends,
         NEW u \in BOOLEAN, NEW d \in BOOLEAN, Moves(h, p, c, m, u, d),
         p = "done" => c = "closed" /\ m \in {"none", "closed"},
         u \/ d => p = "proxy"
  PROVE  HandlersInv'
<1>1. /\ pc' \in [Conns -> Labels]
      /\ conn' \in [Conns -> Ends] /\ remote' \in [Conns -> Ends]
      /\ up' \in [Conns -> BOOLEAN] /\ down' \in [Conns -> BOOLEAN]
  BY Zenon DEF HandlersInv, Moves
<1>2. ASSUME NEW g \in Conns
      PROVE  /\ pc'[g] = "done" => conn'[g] = "closed" /\ remote'[g] \in {"none", "closed"}
             /\ up'[g] \/ down'[g] => pc'[g] = "proxy"
  <2>1. CASE g = h
    <3>1. pc'[g] = p /\ conn'[g] = c /\ remote'[g] = m /\ up'[g] = u /\ down'[g] = d
      BY <2>1, Zenon DEF HandlersInv, Moves
    <3> QED BY <3>1, Zenon
  <2>2. CASE g # h
    <3>1. /\ pc'[g] = pc[g] /\ conn'[g] = conn[g] /\ remote'[g] = remote[g]
          /\ up'[g] = up[g] /\ down'[g] = down[g]
      BY <2>2, Zenon DEF HandlersInv, Moves
    <3> QED BY <3>1, Zenon DEF HandlersInv
  <2> QED BY <2>1, <2>2
<1> QED BY <1>1, <1>2, Zenon DEF HandlersInv

(* What belongs to a handler, and how a step leaves it alone. *)
LEMMA OfHandler ==
  ASSUME HandlersInv, NEW h \in Conns
  PROVE  /\ pc = [pc EXCEPT ![h] = pc[h]] /\ conn = [conn EXCEPT ![h] = conn[h]]
         /\ remote = [remote EXCEPT ![h] = remote[h]]
         /\ up = [up EXCEPT ![h] = up[h]] /\ down = [down EXCEPT ![h] = down[h]]
         /\ pc[h] \in Labels /\ conn[h] \in Ends /\ remote[h] \in Ends
         /\ up[h] \in BOOLEAN /\ down[h] \in BOOLEAN
         /\ pc[h] = "done" => conn[h] = "closed" /\ remote[h] \in {"none", "closed"}
         /\ up[h] \/ down[h] => pc[h] = "proxy"
BY Zenon DEF HandlersInv

(* A handler that goes on, and only that. *)
LEMMA GotoStep ==
  ASSUME HandlersInv, NEW h \in Conns, NEW p \in Labels, p # "done", Server!Goto(h, p),
         pc[h] # "proxy" \/ (~up[h] /\ ~down[h]), UNCHANGED <<conn, remote, up, down>>
  PROVE  HandlersInv'
<1>1. ~up[h] /\ ~down[h]
  BY OfHandler, Zenon
<1>2. Moves(h, p, conn[h], remote[h], up[h], down[h])
  BY OfHandler, Zenon DEF Moves, Server!Goto
<1>3. conn[h] \in Ends /\ remote[h] \in Ends /\ up[h] \in BOOLEAN /\ down[h] \in BOOLEAN
  BY OfHandler, Zenon
<1> QED BY <1>1, <1>2, <1>3, OneHandler, Zenon

(* Every step of the server keeps the handlers sound. *)
LEMMA HandlersStep == HandlersInv /\ [Server!Next]_Server!vars => HandlersInv'
<1> SUFFICES ASSUME HandlersInv, [Server!Next]_Server!vars PROVE HandlersInv'
  OBVIOUS
<1> DEFINE Same == UNCHANGED <<pc, conn, remote, up, down>>
<1>1. ASSUME Same PROVE HandlersInv'
  BY <1>1 DEF HandlersInv
<1>2. CASE \/ Server!Cancel \/ Server!CloseListener \/ Server!AcceptFails
           \/ Server!ServeDone \/ Server!Finished \/ Server!SetReadDeadline
           \/ UNCHANGED Server!vars
  <2>1. Same
    BY <1>2, Zenon DEF Server!Cancel, Server!CloseListener, Server!AcceptFails,
       Server!ServeDone, Server!Finished, Server!SetReadDeadline, Server!vars,
       Server!connect
  <2> QED BY <1>1, <2>1
<1>3. ASSUME NEW r \in Server!Relays, Server!PumpSteps(r) PROVE Same
  BY <1>3, Zenon DEF Server!PumpSteps, Server!PumpCheck, Server!PumpRead,
     Server!removeRelay, Server!PumpKeeps, Server!ReaderKeeps, Server!connect
<1>4. ASSUME NEW src \in Sources, NEW k \in Keys, Server!Datagram(src, k) PROVE Same
  BY <1>4, Zenon DEF Server!Datagram, Server!ReaderKeeps, Server!connect
<1>5. ASSUME Server!ReaderSteps PROVE Same
  BY <1>5, Zenon DEF Server!ReaderSteps, Server!ReaderCheck, Server!ReadTimesOut,
     Server!createRelay, Server!getOrCreate, Server!DialTarget, Server!Install,
     Server!WriteTarget, Server!ReaderKeeps, Server!connect
<1>0. /\ {"greet", "request", "leaving", "done", "lookup", "dial", "reply", "proxy", "bind",
          "relaying", "closeAll", "closeTargets", "wait"} \subseteq Labels
      /\ "open" \in Ends /\ "eof" \in Ends /\ "closed" \in Ends /\ "none" \in Ends
  BY DEF Labels, Ends
<1>6. CASE Server!AssociateSteps
  <2>0. Associator \in Conns /\ Server!a = Associator
    BY Socks5Assumption DEF Server!a
  <2>1. /\ UNCHANGED <<conn, remote, up, down>> /\ pc[Associator] # "proxy"
        /\ \E p \in {"relaying", "leaving", "closeAll", "closeTargets", "wait"} :
             Server!Goto(Associator, p)
    BY <1>6, <2>0, Zenon DEF Server!AssociateSteps, Server!Bind, Server!ControlEnds,
       Server!closeAll, Server!CloseTargets, Server!WaitPumps, Server!connect
  <2>2. PICK p \in {"relaying", "leaving", "closeAll", "closeTargets", "wait"} :
          Server!Goto(Associator, p)
    BY <2>1
  <2>3. p \in Labels /\ p # "done"
    BY <1>0, <2>2
  <2> QED BY <2>0, <2>1, <2>2, <2>3, GotoStep, Zenon
<1>7. ASSUME NEW h \in Conns,
             \/ Server!Greet(h) \/ Server!ReadRequest(h) \/ Server!Lookup(h)
             \/ Server!ProxyEnds(h)
      PROVE  HandlersInv'
  <2>1. /\ UNCHANGED <<conn, remote, up, down>> /\ (pc[h] # "proxy" \/ (~up[h] /\ ~down[h]))
        /\ \E p \in {"request", "leaving", "lookup", "bind", "dial"} : Server!Goto(h, p)
    BY <1>7, Zenon DEF Server!Greet, Server!ReadRequest, Server!Lookup, Server!ProxyEnds,
       Server!connect
  <2>2. PICK p \in {"request", "leaving", "lookup", "bind", "dial"} : Server!Goto(h, p)
    BY <2>1
  <2>3. p \in Labels /\ p # "done"
    BY <1>0, <2>2
  <2> QED BY <2>1, <2>2, <2>3, GotoStep, Zenon
<1>8. ASSUME NEW h \in Conns,
             \/ Server!Accept(h) \/ Server!CloseConn(h) \/ Server!ClientLeaves(h)
             \/ Server!Leave(h) \/ Server!Dial(h) \/ Server!Reply(h)
             \/ Server!RemoteLeaves(h) \/ Server!CopyEnds(h) \/ Server!ForceClose(h)
      PROVE  HandlersInv'
  <2>0. /\ "greet" \in Labels /\ "done" \in Labels /\ "reply" \in Labels
        /\ "leaving" \in Labels /\ "proxy" \in Labels
        /\ "open" \in Ends /\ "eof" \in Ends /\ "closed" \in Ends
    BY <1>0
  <2>a. /\ pc[h] \in Labels /\ conn[h] \in Ends /\ remote[h] \in Ends
        /\ up[h] \in BOOLEAN /\ down[h] \in BOOLEAN
        /\ TRUE \in BOOLEAN /\ FALSE \in BOOLEAN
        /\ pc[h] = "done" => conn[h] = "closed" /\ remote[h] \in {"none", "closed"}
        /\ up[h] \/ down[h] => pc[h] = "proxy"
    BY OfHandler, Zenon
  <2>1. CASE Server!Accept(h)
    <3>1. Moves(h, "greet", "open", remote[h], up[h], down[h]) /\ ~up[h] /\ ~down[h]
      BY <2>1, OfHandler, Zenon DEF Server!Accept, Server!connect, Moves
    <3> QED BY <2>0, <2>a, <3>1, OneHandler
  <2>2. CASE Server!CloseConn(h)
    <3>1. Moves(h, pc[h], "closed", remote[h], up[h], down[h])
      BY <2>2, OfHandler, Zenon DEF Server!CloseConn, Server!connect, Moves
    <3> QED BY <2>0, <2>a, <3>1, OneHandler
  <2>3. CASE Server!ClientLeaves(h)
    <3>1. Moves(h, pc[h], "eof", remote[h], up[h], down[h]) /\ pc[h] # "done"
      BY <2>3, OfHandler, Zenon DEF Server!ClientLeaves, Server!connect, Moves
    <3> QED BY <2>0, <2>a, <3>1, OneHandler
  <2>4. CASE Server!Leave(h)
    <3> DEFINE m == IF remote[h] = "none" THEN remote[h] ELSE "closed"
    <3>1. m \in Ends /\ m \in {"none", "closed"}
      BY <1>0
    <3>2. /\ Moves(h, "done", "closed", m, up[h], down[h]) /\ ~up[h] /\ ~down[h]
          /\ up[h] \in BOOLEAN /\ down[h] \in BOOLEAN
      BY <2>4, OfHandler, Zenon DEF Server!Leave, Server!Goto, Moves
    <3> HIDE DEF m
    <3> QED BY <2>0, <3>1, <3>2, OneHandler
  <2>5. CASE Server!Dial(h)
    <3>1. /\ ~up[h] /\ ~down[h]
          /\ \/ Moves(h, "reply", conn[h], "open", up[h], down[h])
             \/ Moves(h, "leaving", conn[h], remote[h], up[h], down[h])
      BY <2>5, OfHandler, Zenon DEF Server!Dial, Server!Goto, Moves
    <3>2. CASE Moves(h, "reply", conn[h], "open", up[h], down[h])
      BY <2>0, <2>a, <3>1, <3>2, OneHandler
    <3>3. CASE Moves(h, "leaving", conn[h], remote[h], up[h], down[h])
      BY <2>0, <2>a, <3>1, <3>3, OneHandler
    <3> QED BY <3>1, <3>2, <3>3
  <2>6. CASE Server!Reply(h)
    <3>1. \/ Moves(h, "proxy", conn[h], remote[h], TRUE, TRUE)
          \/ ~up[h] /\ ~down[h] /\ Moves(h, "leaving", conn[h], remote[h], up[h], down[h])
      BY <2>6, OfHandler, Zenon DEF Server!Reply, Server!Goto, Moves
    <3> QED BY <2>0, <2>a, <3>1, OneHandler, Zenon
  <2>7. CASE Server!RemoteLeaves(h)
    <3>1. Moves(h, pc[h], conn[h], "eof", up[h], down[h]) /\ pc[h] # "done"
      BY <2>7, OfHandler, Zenon DEF Server!RemoteLeaves, Moves
    <3> QED BY <2>0, <2>a, <3>1, OneHandler
  <2>8. CASE Server!CopyEnds(h)
    <3>1. /\ pc[h] = "proxy"
          /\ \/ Moves(h, pc[h], conn[h], remote[h], FALSE, down[h])
             \/ Moves(h, pc[h], conn[h], remote[h], up[h], FALSE)
      BY <2>8, OfHandler, Zenon DEF Server!CopyEnds, Moves
    <3> QED BY <2>a, <3>1, OneHandler, Zenon
  <2>9. CASE Server!ForceClose(h)
    <3>1. Moves(h, pc[h], "closed", "closed", up[h], down[h])
      BY <2>9, OfHandler, Zenon DEF Server!ForceClose, Moves
    <3> QED BY <2>0, <2>a, <3>1, OneHandler
  <2> QED BY <1>8, <2>1, <2>2, <2>3, <2>4, <2>5, <2>6, <2>7, <2>8, <2>9, Zenon
<1> QED BY <1>1, <1>2, <1>3, <1>4, <1>5, <1>6, <1>7, <1>8, Zenon
        DEF Server!Next, Server!HandlerSteps

-----------------------------------------------------------------------------
(* Then the association. *)

(* While the association is there, so is its map. *)
LEMMA RelaysMap ==
  ASSUME FlowsInv, Active
  PROVE  relays \in [Keys -> 0 .. MaxRelays] /\ relays # <<>>
<1>1. relays \in [Keys -> 0 .. MaxRelays]
  BY DEF FlowsInv, Active, After
<1>2. PICK k \in Keys : TRUE
  BY Socks5Assumption
<1>3. k \in DOMAIN relays /\ DOMAIN <<>> = {}
  BY <1>1
<1> QED BY <1>1, <1>3

(* Steps that leave the association alone. *)
LEMMA KeepsFlows ==
  ASSUME FlowsInv, UNCHANGED <<udp, relays, reader, key, fresh, target, relayKey, pump>>,
         Active => Active', After => After'
  PROVE  FlowsInv'
BY Zenon DEF FlowsInv

(* A handler that is not in the association does not enter it. *)
LEMMA PhaseKept ==
  ASSUME HandlersInv, NEW h \in Conns, NEW p, Server!Goto(h, p),
         pc[h] \in {"none", "greet", "request", "lookup", "dial", "reply", "proxy"}
           \/ (pc[h] = "leaving" /\ p = "done")
  PROVE  (Active => Active') /\ (After => After')
<1>1. CASE h = Associator
  <2>1. pc'[Associator] = p
    BY <1>1, Socks5Assumption, Zenon DEF HandlersInv, Server!Goto
  <2> QED BY <1>1, <2>1 DEF Active, After
<1>2. CASE h # Associator
  <2>1. pc'[Associator] = pc[Associator]
    BY <1>2, Socks5Assumption, Zenon DEF HandlersInv, Server!Goto
  <2> QED BY <2>1 DEF Active, After
<1> QED BY <1>1, <1>2

(* Serve, the handlers of other requests and CONNECT. *)
LEMMA OtherSteps ==
  ASSUME HandlersInv, FlowsInv,
         \/ Server!Cancel \/ Server!CloseListener \/ Server!AcceptFails \/ Server!ServeDone
         \/ Server!Finished \/ Server!SetReadDeadline \/ UNCHANGED Server!vars
         \/ \E h \in Conns :
              \/ Server!Accept(h) \/ Server!CloseConn(h) \/ Server!ClientLeaves(h)
              \/ Server!HandlerSteps(h) \/ Server!RemoteLeaves(h) \/ Server!CopyEnds(h)
              \/ Server!ForceClose(h)
  PROVE  FlowsInv'
<1> DEFINE Same == UNCHANGED <<udp, relays, reader, key, fresh, target, relayKey, pump>>
<1>1. ASSUME UNCHANGED pc, Same PROVE FlowsInv'
  BY <1>1, KeepsFlows DEF Active, After
<1>2. CASE \/ Server!Cancel \/ Server!CloseListener \/ Server!AcceptFails
           \/ Server!ServeDone \/ Server!Finished \/ Server!SetReadDeadline
           \/ UNCHANGED Server!vars
  <2>1. UNCHANGED pc /\ Same
    BY <1>2, Zenon DEF Server!Cancel, Server!CloseListener, Server!AcceptFails,
       Server!ServeDone, Server!Finished, Server!SetReadDeadline, Server!vars,
       Server!manager, Server!flows
  <2> QED BY <1>1, <2>1
<1>3. ASSUME NEW h \in Conns,
             \/ Server!CloseConn(h) \/ Server!ClientLeaves(h)
             \/ Server!RemoteLeaves(h) \/ Server!CopyEnds(h) \/ Server!ForceClose(h)
      PROVE  FlowsInv'
  <2>1. UNCHANGED pc /\ Same
    BY <1>3, Zenon DEF Server!CloseConn, Server!ClientLeaves, Server!RemoteLeaves,
       Server!CopyEnds, Server!ForceClose, Server!manager, Server!flows
  <2> QED BY <1>1, <2>1
<1>4. ASSUME NEW h \in Conns, Server!Accept(h) \/ Server!HandlerSteps(h) PROVE FlowsInv'
  <2>1. Same
    BY <1>4, Zenon DEF Server!Accept, Server!HandlerSteps, Server!Greet,
       Server!ReadRequest, Server!Lookup, Server!Dial, Server!Reply, Server!ProxyEnds,
       Server!Leave, Server!manager, Server!flows
  <2>2. /\ pc[h] \in {"none", "greet", "request", "lookup", "dial", "reply", "proxy"}
             \/ (pc[h] = "leaving" /\ Server!Goto(h, "done"))
        /\ \E p : Server!Goto(h, p)
    BY <1>4, Zenon DEF Server!Accept, Server!HandlerSteps, Server!Greet,
       Server!ReadRequest, Server!Lookup, Server!Dial, Server!Reply, Server!ProxyEnds,
       Server!Leave, Server!Goto
  <2>3. (Active => Active') /\ (After => After')
    BY <2>2, PhaseKept, Zenon
  <2> QED BY <2>1, <2>3, KeepsFlows, Zenon
<1> QED BY <1>2, <1>3, <1>4, Zenon

(* handleAssociate: what closeAll closes and waits for is all there is. *)
LEMMA AssociateFlows ==
  ASSUME HandlersInv, FlowsInv, Server!AssociateSteps
  PROVE  FlowsInv'
<1>0. /\ Associator \in Conns /\ Server!a = Associator /\ Server!Relays = 1 .. MaxRelays
      /\ \A p : Server!Goto(Associator, p) => pc'[Associator] = p
  BY Socks5Assumption DEF Server!a, Server!Relays, Server!Goto, HandlersInv
<1>1. CASE Server!Bind
  <2>1. /\ pc[Associator] = "bind"
        /\ UNCHANGED <<relays, key, fresh, target, relayKey, pump>>
        /\ \/ pc'[Associator] = "relaying" /\ reader' = "check"
           \/ pc'[Associator] = "leaving" /\ UNCHANGED <<udp, reader>>
    BY <1>0, <1>1, Zenon DEF Server!Bind
  <2>2. ~Active /\ ~After
    BY <2>1 DEF Active, After
  <2>3. reader = "off" /\ udp # "open" /\ \A r \in 1 .. MaxRelays : pump[r] = "off"
    BY <2>2, Zenon DEF FlowsInv
  <2>4. CASE pc'[Associator] = "relaying" /\ reader' = "check"
    <3>1. Active'
      BY <2>4 DEF Active
    <3> QED BY <2>1, <2>2, <2>3, <2>4, <3>1 DEF FlowsInv
  <2>5. CASE pc'[Associator] = "leaving" /\ UNCHANGED <<udp, reader>>
    BY <2>1, <2>2, <2>5, KeepsFlows, Zenon
  <2> QED BY <2>1, <2>4, <2>5
<1>2. CASE Server!ControlEnds \/ Server!closeAll
  <2>1. /\ pc[Associator] \in {"relaying", "closeAll"}
        /\ pc'[Associator] \in {"closeAll", "closeTargets"}
        /\ UNCHANGED <<udp, relays, reader, key, fresh, target, relayKey, pump>>
    BY <1>0, <1>2, Zenon DEF Server!ControlEnds, Server!closeAll, Server!flows
  <2>2. Active' /\ ~After
    BY <2>1 DEF Active, After
  <2> QED BY <2>1, <2>2, KeepsFlows, Zenon
<1>3. CASE Server!CloseTargets
  <2>1. /\ pc[Associator] = "closeTargets" /\ pc'[Associator] = "wait"
        /\ target' = [r \in 1 .. MaxRelays |->
                        IF r \in snapshot THEN "closed" ELSE target[r]]
        /\ UNCHANGED <<udp, relays, reader, key, fresh, relayKey, pump>>
    BY <1>0, <1>3, Zenon DEF Server!CloseTargets
  <2>2. Active /\ Active' /\ ~After
    BY <2>1 DEF Active, After
  <2>3. /\ target' \in [1 .. MaxRelays -> {"none", "open", "closed"}]
        /\ \A r \in 1 .. MaxRelays : /\ target[r] # "none" => target'[r] # "none"
                                     /\ target'[r] = "open" => target[r] = "open"
    BY <2>1 DEF FlowsInv
  <2>4. reader = "install" => fresh \in 1 .. MaxRelays
    BY DEF FlowsInv
  <2>5. \A r \in 1 .. MaxRelays : pump[r] # "off" =>
          target'[r] # "none" /\ relayKey[r] \in Keys /\ relays[relayKey[r]] = r
    BY <2>3, Zenon DEF FlowsInv
  <2>6. \A r \in 1 .. MaxRelays : target'[r] = "open" =>
          pump[r] # "off" \/ (reader = "install" /\ fresh = r)
    BY <2>3, Zenon DEF FlowsInv
  <2>7. reader = "install" => fresh # 0 /\ pump[fresh] = "off" /\ target'[fresh] # "none"
    BY <2>3, <2>4, Zenon DEF FlowsInv
  <2>8. /\ relays' \in [Keys -> 0 .. MaxRelays] /\ (udp' = "open" => Active')
        /\ (reader' # "off" => Active')
    BY <2>1, <2>2, RelaysMap, Zenon
  <2> QED BY <2>1, <2>2, <2>3, <2>5, <2>6, <2>7, <2>8, Zenon DEF FlowsInv
<1>4. CASE Server!WaitPumps
  <2>1. /\ pc[Associator] = "wait" /\ pc'[Associator] = "leaving" /\ reader = "off"
        /\ \A r \in 1 .. MaxRelays : pump[r] = "off"
        /\ relays' = <<>> /\ udp' = "closed"
        /\ UNCHANGED <<reader, key, fresh, target, relayKey, pump>>
    BY <1>0, <1>4, Zenon DEF Server!WaitPumps, Server!flows
  <2>2. After'
    BY <2>1 DEF After
  <2> QED BY <2>1, <2>2 DEF FlowsInv
<1> QED BY <1>1, <1>2, <1>3, <1>4, Zenon DEF Server!AssociateSteps

(* pumpClientToTunnel *)
LEMMA ReaderFlows ==
  ASSUME FlowsInv,
         Server!ReaderSteps \/ \E src \in Sources, k \in Keys : Server!Datagram(src, k)
  PROVE  FlowsInv'
<1>0. UNCHANGED <<pc, udp>> /\ reader # "off"
  BY Zenon DEF Server!ReaderSteps, Server!ReaderCheck, Server!ReadTimesOut,
     Server!createRelay, Server!getOrCreate, Server!DialTarget, Server!Install,
     Server!WriteTarget, Server!Datagram, Server!ReaderKeeps
<1>1. Active /\ Active' /\ ~After
  <2>1. Active
    BY <1>0, Zenon DEF FlowsInv
  <2> QED BY <1>0, <2>1 DEF Active, After
<1>2. relays \in [Keys -> 0 .. MaxRelays] /\ relays # <<>>
  BY <1>1, RelaysMap
<1>3. ASSUME UNCHANGED <<relays, fresh, target, relayKey, pump>>,
             reader # "install",
             \/ reader' \in {"off", "check", "read"}
             \/ reader' \in {"create", "get", "write"} /\ key' \in Keys
             \/ reader' = "dial" /\ key' \in Keys /\ relays[key'] = 0
      PROVE  FlowsInv'
  <2>1. reader' # "install"
    BY <1>3
  <2> QED BY <1>0, <1>1, <1>2, <1>3, <2>1 DEF FlowsInv
<1>4. CASE Server!ReaderCheck \/ Server!ReadTimesOut \/ Server!createRelay \/ Server!WriteTarget
  <2>1. /\ UNCHANGED <<relays, fresh, target, relayKey, pump>> /\ reader # "install"
        /\ \/ reader' \in {"off", "check", "read"}
           \/ reader = "create" /\ reader' = "get" /\ key' = key
    BY <1>4, Zenon DEF Server!ReaderCheck, Server!ReadTimesOut, Server!createRelay,
       Server!WriteTarget, Server!ReaderGoto
  <2>2. reader = "create" => key \in Keys
    BY DEF FlowsInv
  <2> QED BY <1>3, <2>1, <2>2
<1>5. ASSUME NEW src \in Sources, NEW k \in Keys, Server!Datagram(src, k) PROVE FlowsInv'
  <2>1. /\ UNCHANGED <<relays, fresh, target, relayKey, pump>> /\ reader # "install"
        /\ reader' = "check" \/ (reader' \in {"write", "create"} /\ key' = k)
    BY <1>5, Zenon DEF Server!Datagram
  <2> QED BY <1>3, <2>1
<1>6. CASE Server!getOrCreate
  <2>1. /\ UNCHANGED <<relays, fresh, target, relayKey, pump>> /\ reader = "get"
        /\ \/ reader' = "off"
           \/ reader' = "write" /\ key' = key
           \/ reader' = "dial" /\ key' = key /\ relays[key] = 0
    BY <1>6, Zenon DEF Server!getOrCreate, Server!ReaderGoto
  <2>2. key \in Keys
    BY <2>1 DEF FlowsInv
  <2> QED BY <1>3, <2>1, <2>2
<1>7. CASE Server!DialTarget
  <2>0. reader = "dial" /\ UNCHANGED <<relays, relayKey, pump>> /\ key \in Keys /\ relays[key] = 0
    BY <1>7 DEF Server!DialTarget, FlowsInv
  <2>1. CASE reader' = "check" /\ UNCHANGED <<fresh, target>>
    <3>1. reader' \in {"off", "check", "read"} /\ reader # "install"
      BY <2>0, <2>1
    <3> QED BY <1>3, <2>0, <2>1, <3>1, Zenon
  <2>2. ASSUME NEW r \in 1 .. MaxRelays, target[r] = "none", fresh' = r,
               target' = [target EXCEPT ![r] = "open"], reader' = "install", key' = key
        PROVE  FlowsInv'
    <3>1. pump[r] = "off"
      BY <2>2, Zenon DEF FlowsInv
    <3>2. /\ target' \in [1 .. MaxRelays -> {"none", "open", "closed"}]
          /\ \A q \in 1 .. MaxRelays : target'[q] = IF q = r THEN "open" ELSE target[q]
      BY <2>2 DEF FlowsInv
    <3>3. r \in 0 .. MaxRelays /\ r # 0
      OBVIOUS
    <3>4. ASSUME NEW q \in 1 .. MaxRelays, target'[q] = "open"
          PROVE  pump[q] # "off" \/ q = r
      BY <2>0, <3>2, <3>4 DEF FlowsInv
    <3>5. ASSUME NEW q \in 1 .. MaxRelays, target[q] # "none" PROVE target'[q] # "none"
      BY <3>2, <3>5
    <3> QED BY <1>0, <1>1, <1>2, <2>0, <2>2, <3>1, <3>2, <3>3, <3>4, <3>5, Zenon DEF FlowsInv
  <2>3. \/ reader' = "check" /\ UNCHANGED <<fresh, target>>
        \/ \E r \in Server!Relays :
             /\ \A q \in Server!Relays : q < r <=> target[q] # "none"
             /\ fresh' = r /\ target' = [target EXCEPT ![r] = "open"]
             /\ reader' = "install" /\ key' = key
    BY <1>7, Zenon DEF Server!DialTarget, Server!ReaderGoto
  <2>4. ASSUME NEW r \in Server!Relays,
               \A q \in Server!Relays : q < r <=> target[q] # "none"
        PROVE  target[r] = "none" /\ r \in 1 .. MaxRelays
    BY <2>4, Socks5Assumption DEF Server!Relays
  <2> QED BY <2>1, <2>2, <2>3, <2>4, Zenon
<1>8. CASE Server!Install
  <2>0. /\ reader = "install" /\ key \in Keys /\ relays[key] = 0 /\ fresh \in 1 .. MaxRelays
        /\ pump[fresh] = "off" /\ target[fresh] # "none"
    BY <1>8 DEF Server!Install, FlowsInv
  <2>1. CASE closed
    <3>1. /\ target' = [target EXCEPT ![fresh] = "closed"] /\ reader' = "off" /\ fresh' = 0
          /\ UNCHANGED <<relays, relayKey, pump>>
      BY <1>8, <2>1, Zenon DEF Server!Install, Server!ReaderGoto
    <3>2. /\ target' \in [1 .. MaxRelays -> {"none", "open", "closed"}]
          /\ \A q \in 1 .. MaxRelays : target'[q] = IF q = fresh THEN "closed" ELSE target[q]
      BY <3>1, Zenon DEF FlowsInv
    <3>3. ASSUME NEW q \in 1 .. MaxRelays, target'[q] = "open" PROVE pump[q] # "off"
      BY <3>2, <3>3 DEF FlowsInv
    <3>4. ASSUME NEW q \in 1 .. MaxRelays, target[q] # "none" PROVE target'[q] # "none"
      BY <3>2, <3>4
    <3>5. 0 \in 0 .. MaxRelays
      BY Socks5Assumption
    <3> QED BY <1>0, <1>1, <1>2, <3>1, <3>2, <3>3, <3>4, <3>5, Zenon DEF FlowsInv
  <2>2. CASE ~closed
    <3>1. /\ relays' = [relays EXCEPT ![key] = fresh]
          /\ relayKey' = [relayKey EXCEPT ![fresh] = key]
          /\ pump' = [pump EXCEPT ![fresh] = "check"]
          /\ reader' = "write" /\ key' = key /\ fresh' = 0 /\ UNCHANGED target
      BY <1>8, <2>2, Zenon DEF Server!Install, Server!ReaderGoto
    <3>2. /\ relays' \in [Keys -> 0 .. MaxRelays] /\ relays' # <<>>
          /\ \A k \in Keys : relays'[k] = IF k = key THEN fresh ELSE relays[k]
      BY <1>2, <2>0, <3>1
    <3>3. /\ relayKey' \in [1 .. MaxRelays -> Keys \cup {"none"}]
          /\ pump' \in [1 .. MaxRelays -> {"off", "check", "read", "remove"}]
          /\ \A r \in 1 .. MaxRelays :
               /\ relayKey'[r] = IF r = fresh THEN key ELSE relayKey[r]
               /\ pump'[r] = IF r = fresh THEN "check" ELSE pump[r]
      BY <2>0, <3>1 DEF FlowsInv
    <3>4. ASSUME NEW r \in 1 .. MaxRelays, pump'[r] # "off"
          PROVE  target[r] # "none" /\ relayKey'[r] \in Keys /\ relays'[relayKey'[r]] = r
      <4>1. CASE r = fresh
        BY <2>0, <3>2, <3>3, <4>1, Zenon
      <4>2. CASE r # fresh
        <5>1. pump[r] # "off" /\ relayKey'[r] = relayKey[r]
          BY <3>3, <3>4, <4>2
        <5>2. target[r] # "none" /\ relayKey[r] \in Keys /\ relays[relayKey[r]] = r
          BY <5>1 DEF FlowsInv
        <5>3. relayKey[r] # key
          BY <2>0, <5>2
        <5> QED BY <3>2, <5>1, <5>2, <5>3
      <4> QED BY <4>1, <4>2
    <3>5. ASSUME NEW k \in Keys, relays'[k] # 0
          PROVE  pump'[relays'[k]] # "off" /\ relayKey'[relays'[k]] = k
      <4>1. CASE k = key
        BY <2>0, <3>2, <3>3, <4>1
      <4>2. CASE k # key
        <5>1. relays'[k] = relays[k] /\ relays[k] \in 1 .. MaxRelays
          BY <1>2, <3>2, <3>5, <4>2
        <5>2. pump[relays[k]] # "off" /\ relayKey[relays[k]] = k
          BY <1>2, <5>1 DEF FlowsInv
        <5>3. relays[k] # fresh
          BY <2>0, <5>2
        <5> QED BY <3>3, <5>1, <5>2, <5>3
      <4> QED BY <4>1, <4>2
    <3>6. ASSUME NEW r \in 1 .. MaxRelays, target[r] = "open" PROVE pump'[r] # "off"
      BY <3>3, <3>6 DEF FlowsInv
    <3>7. 0 \in 0 .. MaxRelays
      BY Socks5Assumption
    <3> QED BY <1>0, <1>1, <2>0, <3>1, <3>2, <3>3, <3>4, <3>5, <3>6, <3>7, Zenon DEF FlowsInv
  <2> QED BY <2>1, <2>2
<1> QED BY <1>4, <1>5, <1>6, <1>7, <1>8, Zenon DEF Server!ReaderSteps

(* pumpTunnelToClient: removeRelay closes the target of its caller. *)
LEMMA PumpFlows ==
  ASSUME FlowsInv, NEW r \in 1 .. MaxRelays, Server!PumpSteps(r)
  PROVE  FlowsInv'
<1>0. UNCHANGED <<pc, udp, reader, key, fresh>> /\ pump[r] # "off"
  BY Zenon DEF Server!PumpSteps, Server!PumpCheck, Server!PumpRead, Server!removeRelay,
     Server!PumpKeeps, Server!ReaderKeeps
<1>1. Active /\ Active' /\ ~After
  <2>1. Active
    BY <1>0, Zenon DEF FlowsInv
  <2> QED BY <1>0, <2>1 DEF Active, After
<1>2. relays \in [Keys -> 0 .. MaxRelays] /\ relays # <<>>
  BY <1>1, RelaysMap
<1>3. CASE Server!PumpCheck(r) \/ Server!PumpRead(r)
  <2>1. /\ UNCHANGED <<relays, target, relayKey>>
        /\ \E p \in {"check", "read", "remove"} : pump' = [pump EXCEPT ![r] = p]
    BY <1>3, Zenon DEF Server!PumpCheck, Server!PumpRead
  <2>2. /\ pump' \in [1 .. MaxRelays -> {"off", "check", "read", "remove"}]
        /\ \A q \in 1 .. MaxRelays : pump'[q] # "off" <=> pump[q] # "off"
    BY <1>0, <2>1 DEF FlowsInv
  <2>3. reader = "install" => fresh \in 1 .. MaxRelays
    BY DEF FlowsInv
  <2>4. \A k \in Keys : relays[k] # 0 => relays[k] \in 1 .. MaxRelays
    BY <1>2
  <2> QED BY <1>0, <1>1, <1>2, <2>1, <2>2, <2>3, <2>4, Zenon DEF FlowsInv
<1>4. CASE Server!removeRelay(r)
  <2> DEFINE k == relayKey[r]
  <2>0. k \in Keys /\ relays[k] = r /\ r # 0
    BY <1>0 DEF FlowsInv
  <2>1. /\ pump' = [pump EXCEPT ![r] = "off"] /\ relays' = [relays EXCEPT ![k] = 0]
        /\ relayKey' = [relayKey EXCEPT ![r] = "none"]
        /\ target' = [target EXCEPT ![r] = "closed"]
    BY <1>4, <2>0, Zenon DEF Server!removeRelay, Server!None
  <2> HIDE DEF k
  <2>2. /\ relays' \in [Keys -> 0 .. MaxRelays] /\ relays' # <<>>
        /\ \A j \in Keys : relays'[j] = IF j = k THEN 0 ELSE relays[j]
    <3>1. 0 \in 0 .. MaxRelays
      BY Socks5Assumption
    <3> QED BY <1>2, <2>0, <2>1, <3>1
  <2>3. /\ relayKey' \in [1 .. MaxRelays -> Keys \cup {"none"}]
        /\ pump' \in [1 .. MaxRelays -> {"off", "check", "read", "remove"}]
        /\ target' \in [1 .. MaxRelays -> {"none", "open", "closed"}]
        /\ \A q \in 1 .. MaxRelays :
             /\ relayKey'[q] = IF q = r THEN "none" ELSE relayKey[q]
             /\ pump'[q] = IF q = r THEN "off" ELSE pump[q]
             /\ target'[q] = IF q = r THEN "closed" ELSE target[q]
    BY <2>1 DEF FlowsInv
  <2>4. ASSUME NEW q \in 1 .. MaxRelays, pump'[q] # "off"
        PROVE  target'[q] # "none" /\ relayKey'[q] \in Keys /\ relays'[relayKey'[q]] = q
    <3>1. q # r /\ pump[q] # "off" /\ relayKey'[q] = relayKey[q] /\ target'[q] = target[q]
      BY <2>3, <2>4
    <3>2. target[q] # "none" /\ relayKey[q] \in Keys /\ relays[relayKey[q]] = q
      BY <3>1 DEF FlowsInv
    <3>3. relayKey[q] # k
      BY <2>0, <3>1, <3>2
    <3> QED BY <2>2, <3>1, <3>2, <3>3
  <2>5. ASSUME NEW j \in Keys, relays'[j] # 0
        PROVE  pump'[relays'[j]] # "off" /\ relayKey'[relays'[j]] = j
    <3>1. j # k /\ relays'[j] = relays[j] /\ relays[j] \in 1 .. MaxRelays
      BY <1>2, <2>2, <2>5
    <3>2. pump[relays[j]] # "off" /\ relayKey[relays[j]] = j
      BY <1>2, <3>1 DEF FlowsInv
    <3>3. relays[j] # r
      BY <3>1, <3>2 DEF k
    <3> QED BY <2>3, <3>1, <3>2, <3>3
  <2>6. ASSUME NEW q \in 1 .. MaxRelays, target'[q] = "open"
        PROVE  pump'[q] # "off" \/ (reader = "install" /\ fresh = q)
    BY <2>3, <2>6 DEF FlowsInv
  <2>7. reader = "install" => fresh \in 1 .. MaxRelays /\ pump'[fresh] = "off" /\ target'[fresh] # "none"
    BY <2>3 DEF FlowsInv
  <2>8. reader \in {"dial", "install"} => key \in Keys /\ relays'[key] = 0
    BY <2>2 DEF FlowsInv
  <2>9. (udp' = "open" => Active') /\ (reader' # "off" => Active')
    BY <1>1
  <2>10. /\ fresh' \in 0 .. MaxRelays
         /\ reader' \in {"create", "get", "dial", "install", "write"} => key' \in Keys
         /\ reader' = "install" => fresh' # 0
    BY <1>0, Zenon DEF FlowsInv
  <2> QED BY <1>0, <1>1, <2>2, <2>3, <2>4, <2>5, <2>6, <2>7, <2>8, <2>9, <2>10, Zenon
          DEF FlowsInv
<1> QED BY <1>3, <1>4, Zenon DEF Server!PumpSteps

(* Both parts of the invariant hold of every state of the server. *)
LEMMA ServerAlways == Server!Spec => [](HandlersInv /\ FlowsInv)
<1>1. Server!Init => HandlersInv /\ FlowsInv
  <2> SUFFICES ASSUME Server!Init PROVE HandlersInv /\ FlowsInv
    OBVIOUS
  <2>1. HandlersInv
    BY DEF Server!Init, HandlersInv, Labels, Ends
  <2>2. 0 \in 0 .. MaxRelays
    BY Socks5Assumption
  <2>3. FlowsInv
    BY <2>2 DEF Server!Init, FlowsInv, Server!Relays, Server!None
  <2> QED BY <2>1, <2>3
<1>2. HandlersInv /\ FlowsInv /\ [Server!Next]_Server!vars => FlowsInv'
  <2> SUFFICES ASSUME HandlersInv, FlowsInv, [Server!Next]_Server!vars PROVE FlowsInv'
    OBVIOUS
  <2>1. ASSUME NEW r \in Server!Relays, Server!PumpSteps(r) PROVE FlowsInv'
    BY <2>1, PumpFlows, Zenon DEF Server!Relays
  <2> QED BY <2>1, OtherSteps, AssociateFlows, ReaderFlows, Zenon DEF Server!Next
<1> QED BY <1>1, <1>2, HandlersStep, PTL DEF Server!Spec

(* For any number of connections, destinations and targets: a relay is     *)
(* registered exactly as long as its goroutine runs, so that removeRelay,  *)
(* which goes by the destination's name, closes the target of its caller,  *)
(* and nobody uses the map once closeAll has dropped it (getOrCreate,      *)
(* removeRelay, closeAll).                                                 *)
THEOREM RelaysRegistered == Server!Spec => []RegisteredWhilePumping
<1>1. FlowsInv => RegisteredWhilePumping
  <2> SUFFICES ASSUME FlowsInv PROVE RegisteredWhilePumping
    OBVIOUS
  <2>1. CASE relays = <<>>
    <3>1. ~Active
      BY <2>1, RelaysMap
    <3> QED BY <2>1, <3>1, Zenon
            DEF FlowsInv, RegisteredWhilePumping, Server!RegisteredWhilePumping
  <2>2. CASE relays # <<>>
    BY <2>2, Zenon DEF FlowsInv, RegisteredWhilePumping, Server!RegisteredWhilePumping,
       Server!Relays
  <2> QED BY <2>1, <2>2
<1> QED BY <1>1, ServerAlways, PTL

(* And a handler that has returned leaves nothing behind: no connection,   *)
(* no socket, no goroutine, and no target, also not one whose dial ended   *)
(* while closeAll was under way (handleConnect, handleAssociate,           *)
(* getOrCreate).                                                           *)
THEOREM NothingLeft == Server!Spec => []HandlerLeavesNothing
<1>1. HandlersInv /\ FlowsInv => HandlerLeavesNothing
  <2> SUFFICES ASSUME HandlersInv, FlowsInv, NEW h \in Conns, pc[h] = "done"
               PROVE  /\ conn[h] = "closed" /\ remote[h] \in {"none", "closed"}
                      /\ ~up[h] /\ ~down[h]
                      /\ h = Associator =>
                           /\ udp # "open" /\ reader = "off"
                           /\ \A r \in 1 .. MaxRelays : pump[r] = "off" /\ target[r] # "open"
    BY DEF HandlerLeavesNothing, Server!HandlerLeavesNothing, Server!Relays, Server!a
  <2>1. /\ conn[h] = "closed" /\ remote[h] \in {"none", "closed"} /\ ~up[h] /\ ~down[h]
    BY OfHandler, Zenon
  <2>2. ASSUME h = Associator
        PROVE  /\ udp # "open" /\ reader = "off"
               /\ \A r \in 1 .. MaxRelays : pump[r] = "off" /\ target[r] # "open"
    <3>1. ~Active
      BY <2>2 DEF Active
    <3> QED BY <3>1, Zenon DEF FlowsInv
  <2> QED BY <2>1, <2>2
<1> QED BY <1>1, ServerAlways, PTL

=============================================================================
