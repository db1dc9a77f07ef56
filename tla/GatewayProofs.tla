---------------------------- MODULE GatewayProofs ----------------------------
(***************************************************************************)
(* Machine-checked proofs about Gateway: the renewal of the certificate    *)
(* and the session cache of the model router, for any number of requests,  *)
(* any profiles, any cache size and any lifetime of a certificate.         *)
(***************************************************************************)
EXTENDS Gateway, SequenceTheorems, FiniteSetTheorems, WellFoundedInduction, TLAPS

-----------------------------------------------------------------------------
(* The certificate.                                                         *)

(* How often a renewal must have failed by now: once for each check since  *)
(* the certificate came within Threshold of its end.                        *)
DueFailures ==
    /\ renew \in {"idle", "stopped"} => failures >= Threshold - remaining + 1
    /\ renew \in {"check", "generate"} => failures >= Threshold - remaining

(* Only between GenerateAndLoad and WriteCACertFile may the file of the    *)
(* manager hold another certificate than the served one; then the new one  *)
(* is whole.                                                               *)
CertInv ==
    /\ remaining \in Int /\ cert \in Nat \ {0} /\ failures \in Nat
    /\ caFilePath \in {"first", "later", "none"} /\ DOMAIN caFile = {"first", "later"}
    /\ renew \in {"idle", "check", "generate", "write", "stopped"}
    /\ renew = "write" => remaining = Lifetime
    /\ renew # "write" /\ caFilePath # "none" => caFile[caFilePath] \in {cert, 0}
    /\ DueFailures

LEMMA CertInitially == Init => CertInv
BY TLSAssumption DEF Init, TLSInit, CertInv, DueFailures

LEMMA CertStep == CertInv /\ [Next]_vars => CertInv'
<1> SUFFICES ASSUME CertInv, [Next]_vars PROVE CertInv'
  OBVIOUS
<1> USE TLSAssumption
<1>1. CASE UNCHANGED tlsVars
  BY <1>1 DEF CertInv, DueFailures, tlsVars, caVars
<1>2. CASE Tick
  BY <1>2 DEF CertInv, DueFailures, Tick, caVars
<1>3. CASE Check
  BY <1>3 DEF CertInv, DueFailures, Check, caVars
<1>4. ASSUME NEW ok \in BOOLEAN, GenerateAndLoad(ok) PROVE CertInv'
  BY <1>4 DEF CertInv, DueFailures, GenerateAndLoad, caVars
<1>5. ASSUME NEW opened \in BOOLEAN, NEW made \in BOOLEAN, NEW written \in BOOLEAN,
             WriteCACertFile(opened, made, written)
      PROVE  CertInv'
  BY <1>5 DEF CertInv, DueFailures, WriteCACertFile
<1>6. CASE Stop
  BY <1>6 DEF CertInv, DueFailures, Stop, caVars
<1> QED
  BY <1>1, <1>2, <1>3, <1>4, <1>5, <1>6 DEF Next, TLSNext, vars

LEMMA CertHolds == CertInv => CertCurrent
BY TLSAssumption
   DEF CertInv, DueFailures, CertCurrent, ExpiredOnlyAfterFailures, FileMatchesServed, IsExpired

(* The certificate that is served has expired only if every renewal of the *)
(* last Threshold intervals failed, and the CA file that the manager names *)
(* is never one of an older certificate, whichever of opening, making and  *)
(* writing it fails (GenerateAndLoad, tryAutoRenew, WriteCACertFile), for  *)
(* every lifetime and threshold.                                           *)
THEOREM CertificateIsCurrent == Spec => []CertCurrent
<1>1. Spec => []CertInv
  BY CertInitially, CertStep, PTL DEF Spec
<1> QED
  BY <1>1, CertHolds, PTL

-----------------------------------------------------------------------------
(* The access order of the cache: what it is made of.                       *)

LEMMA Elements ==
    ASSUME NEW S, NEW o \in Seq(S), NEW s
    PROVE  s \in ToSet(o) <=> \E i \in 1..Len(o) : o[i] = s
BY DEF ToSet

LEMMA TailElements ==
    ASSUME NEW S, NEW o \in Seq(S), o # <<>>
    PROVE  /\ Tail(o) \in Seq(S) /\ Len(Tail(o)) = Len(o) - 1 /\ Head(o) \in S
           /\ \A s \in ToSet(o) : s # Head(o) => s \in ToSet(Tail(o))
<1>1. Tail(o) \in Seq(S) /\ Len(Tail(o)) = Len(o) - 1 /\ Head(o) = o[1] /\ Head(o) \in S
  OBVIOUS
<1>2. ASSUME NEW s \in ToSet(o), s # Head(o) PROVE s \in ToSet(Tail(o))
  <2>1. PICK i \in 1..Len(o) : o[i] = s
    BY <1>2, Elements
  <2>2. i # 1
    BY <2>1, <1>1, <1>2
  <2>3. i - 1 \in 1..Len(Tail(o)) /\ Tail(o)[i - 1] = s
    BY <2>1, <2>2, <1>1
  <2> QED
    BY <2>3, <1>1, Elements
<1> QED
  BY <1>1, <1>2

LEMMA AppendElements ==
    ASSUME NEW S, NEW o \in Seq(S), NEW s \in S
    PROVE  /\ Append(o, s) \in Seq(S) /\ Len(Append(o, s)) = Len(o) + 1
           /\ s \in ToSet(Append(o, s))
           /\ \A x \in ToSet(o) : x \in ToSet(Append(o, s))
<1> DEFINE a == Append(o, s)
<1>1. a \in Seq(S) /\ Len(a) = Len(o) + 1 /\ a[Len(o) + 1] = s
         /\ Len(o) + 1 \in 1..Len(a) /\ \A i \in 1..Len(o) : a[i] = o[i]
  OBVIOUS
<1> HIDE DEF a
<1>2. s \in ToSet(a)
  BY <1>1, Elements
<1>3. ASSUME NEW x \in ToSet(o) PROVE x \in ToSet(a)
  <2>1. PICK i \in 1..Len(o) : o[i] = x
    BY Elements
  <2>2. i \in 1..Len(a) /\ a[i] = x
    BY <2>1, <1>1
  <2> QED
    BY <2>2, <1>1, Elements
<1> QED
  BY <1>1, <1>2, <1>3 DEF a

(* A set of indices has a least one. *)
LEMMA LeastIndex ==
    ASSUME NEW T, T \subseteq Nat, T # {}
    PROVE  \E i \in T : \A j \in T : ~ (j < i)
<1>1. \E i \in T : \A j \in T : ~ (<<j, i>> \in OpToRel(<, Nat))
  BY NatLessThanWellFounded, WFMin
<1>2. \A i, j \in T : j < i => <<j, i>> \in OpToRel(<, Nat)
  BY DEF OpToRel
<1> QED
  BY <1>1, <1>2

(* removeFromAccessOrder takes out one place of a session and keeps the    *)
(* places of all others.                                                   *)
LEMMA RemoveFromElements ==
    ASSUME NEW S, NEW o \in Seq(S), NEW s
    PROVE  /\ RemoveFrom(o, s) \in Seq(S)
           /\ Len(RemoveFrom(o, s)) = IF s \in ToSet(o) THEN Len(o) - 1 ELSE Len(o)
           /\ \A x \in ToSet(o) : x # s => x \in ToSet(RemoveFrom(o, s))
<1>1. CASE s \notin ToSet(o)
  BY <1>1 DEF RemoveFrom
<1>2. CASE s \in ToSet(o)
  <2> DEFINE first(i) == o[i] = s /\ \A j \in 1..(i - 1) : o[j] # s
             k == CHOOSE i \in DOMAIN o : first(i)
             before == SubSeq(o, 1, k - 1)
             after == SubSeq(o, k + 1, Len(o))
             rest == before \o after
  <2>1. \E i \in DOMAIN o : first(i)
    <3> DEFINE T == {i \in 1..Len(o) : o[i] = s}
    <3>1. T \subseteq Nat /\ T # {}
      BY <1>2, Elements
    <3>2. PICK i \in T : \A j \in T : ~ (j < i)
      BY <3>1, LeastIndex
    <3> QED
      BY <3>2
  <2>2. k \in 1..Len(o) /\ o[k] = s
    BY <2>1
  <2> HIDE DEF k
  <2>3. /\ before \in Seq(S) /\ Len(before) = k - 1
        /\ \A i \in 1..(k - 1) : before[i] = o[i]
    BY <2>2
  <2>4. /\ after \in Seq(S) /\ Len(after) = Len(o) - k
        /\ \A i \in 1..(Len(o) - k) : after[i] = o[k + i]
    BY <2>2
  <2> HIDE DEF before, after
  <2>5. /\ rest \in Seq(S) /\ Len(rest) = Len(o) - 1
        /\ \A i \in 1..(k - 1) : rest[i] = o[i]
        /\ \A i \in k..(Len(o) - 1) : rest[i] = o[i + 1]
    <3>1. rest \in Seq(S) /\ Len(rest) = Len(o) - 1
      <4>1. rest \in Seq(S) /\ Len(rest) = Len(before) + Len(after)
        BY <2>3, <2>4, ConcatProperties
      <4>3. Len(o) \in Nat /\ k \in Nat
        BY <2>2
      <4> QED
        BY <4>1, <4>3, <2>3, <2>4
    <3>2. ASSUME NEW i \in 1..(k - 1) PROVE rest[i] = o[i]
      BY <2>2, <2>3, <2>4
    <3>3. ASSUME NEW i \in k..(Len(o) - 1) PROVE rest[i] = o[i + 1]
      <4>1. rest[i] = after[i - (k - 1)]
        BY <2>2, <2>3, <2>4
      <4>2. i - (k - 1) \in 1..(Len(o) - k) /\ k + (i - (k - 1)) = i + 1
        BY <2>2
      <4> QED
        BY <4>1, <4>2, <2>4
    <3> QED
      BY <3>1, <3>2, <3>3
  <2>6. RemoveFrom(o, s) = rest
    BY <1>2 DEF RemoveFrom, RemoveAt, k, before, after
  <2> HIDE DEF rest
  <2>7. ASSUME NEW x \in ToSet(o), x # s PROVE x \in ToSet(rest)
    <3>1. PICK i \in 1..Len(o) : o[i] = x
      BY Elements
    <3>2. CASE i < k
      <4>1. i \in 1..Len(rest) /\ rest[i] = x
        BY <3>1, <3>2, <2>2, <2>5
      <4> QED
        BY <4>1, <2>5, Elements
    <3>3. CASE i > k
      <4>1. i - 1 \in 1..Len(rest) /\ rest[i - 1] = x
        BY <3>1, <3>3, <2>2, <2>5
      <4> QED
        BY <4>1, <2>5, Elements
    <3> QED
      BY <3>1, <3>2, <3>3, <2>2, <2>7
  <2> QED
    BY <1>2, <2>5, <2>6, <2>7
<1> QED
  BY <1>1, <1>2

-----------------------------------------------------------------------------
(* One router's cache, of sessions S and routed models R.                   *)

Entry(R) == [obj : R, stale : BOOLEAN]
Entries(S, R) == UNION {[T -> Entry(R)] : T \in SUBSET S}
Cache(S, R) == [entries : Entries(S, R), order : Seq(S), lost : Nat]

(* Every session of the cache can be evicted, and the access order has no  *)
(* more than one spare place for each session lost between the two locks   *)
(* of a lookup: neither beyond the sessions nor beyond the limit.          *)
Fits(rt) ==
    /\ Sessions(rt) \subseteq ToSet(rt.order)
    /\ Len(rt.order) <= Cardinality(Sessions(rt)) + rt.lost
    /\ Len(rt.order) <= MaxSessions + rt.lost

LEMMA LimitType == MaxSessions \in Nat \ {0}
BY GatewayAssumption DEF GatewayAssumption

LEMMA EntriesFacts ==
    ASSUME NEW S, NEW R, NEW e
    PROVE  e \in Entries(S, R)
             <=> /\ DOMAIN e \subseteq S /\ e = [s \in DOMAIN e |-> e[s]]
                 /\ \A s \in DOMAIN e : e[s] \in Entry(R)
BY DEF Entries

LEMMA CacheFacts ==
    ASSUME NEW S, NEW R, NEW rt \in Cache(S, R)
    PROVE  /\ rt.entries \in Entries(S, R) /\ rt.order \in Seq(S) /\ rt.lost \in Nat
           /\ Sessions(rt) = DOMAIN rt.entries /\ Sessions(rt) \subseteq S
           /\ Len(rt.order) \in Nat
           /\ \A s \in Sessions(rt) : rt.entries[s].obj \in R /\ rt.entries[s].stale \in BOOLEAN
<1>1. rt.entries \in Entries(S, R) /\ rt.order \in Seq(S) /\ rt.lost \in Nat
  BY DEF Cache
<1>2. Sessions(rt) = DOMAIN rt.entries
  BY DEF Sessions
<1>3. Sessions(rt) \subseteq S /\ \A s \in Sessions(rt) : rt.entries[s] \in Entry(R)
  BY <1>1, <1>2, EntriesFacts
<1>4. \A x \in Entry(R) : x.obj \in R /\ x.stale \in BOOLEAN
  BY DEF Entry
<1> QED
  BY <1>1, <1>2, <1>3, <1>4

(* The sessions of an order are no more than its places. *)
LEMMA OrderCardinality ==
    ASSUME NEW S, NEW o \in Seq(S)
    PROVE  IsFiniteSet(ToSet(o)) /\ Cardinality(ToSet(o)) <= Len(o)
           /\ Cardinality(ToSet(o)) \in Nat
<1>1. [i \in 1..Len(o) |-> o[i]] \in Surjection(1..Len(o), ToSet(o))
  BY DEF Surjection, ToSet
<1>2. IsFiniteSet(1..Len(o)) /\ Cardinality(1..Len(o)) = Len(o)
  <2>1. Len(o) \in Nat /\ Len(o) \in Int /\ 1 \in Int
    OBVIOUS
  <2> QED
    BY <2>1, FS_Interval
<1>3. IsFiniteSet(ToSet(o)) /\ Cardinality(ToSet(o)) <= Len(o)
  BY <1>1, <1>2, FS_Surjection
<1> QED
  BY <1>3, FS_CardinalityType

LEMMA SessionsFinite ==
    ASSUME NEW S, NEW R, NEW rt \in Cache(S, R), Fits(rt)
    PROVE  /\ IsFiniteSet(Sessions(rt)) /\ Cardinality(Sessions(rt)) \in Nat
           /\ Cardinality(Sessions(rt)) <= Len(rt.order)
<1>1. rt.order \in Seq(S) /\ Len(rt.order) \in Nat
  BY CacheFacts
<1>2. Sessions(rt) \in SUBSET ToSet(rt.order)
  BY DEF Fits
<1>3. IsFiniteSet(Sessions(rt)) /\ Cardinality(Sessions(rt)) <= Cardinality(ToSet(rt.order))
  BY <1>1, <1>2, OrderCardinality, FS_Subset
<1> QED
  BY <1>1, <1>3, OrderCardinality, FS_CardinalityType

(* A cache that fits is what SessionsTracked and SessionsBounded promise. *)
LEMMA FitsTracked ==
    ASSUME NEW S, NEW R, NEW rt \in Cache(S, R), Fits(rt)
    PROVE  /\ \A s \in Sessions(rt) : Places(rt, s) >= 1
           /\ Len(rt.order) <= Cardinality(Sessions(rt)) + rt.lost
           /\ Cardinality(Sessions(rt)) <= MaxSessions + rt.lost
<1>0. rt.order \in Seq(S) /\ Len(rt.order) \in Nat /\ rt.lost \in Nat
  BY CacheFacts
<1>1. ASSUME NEW s \in Sessions(rt) PROVE Places(rt, s) >= 1
  <2> DEFINE P == {i \in DOMAIN rt.order : rt.order[i] = s}
  <2>1. DOMAIN rt.order = 1..Len(rt.order)
    BY <1>0
  <2>2. IsFiniteSet(1..Len(rt.order))
    BY <1>0, FS_Interval
  <2>3. P \in SUBSET (1..Len(rt.order)) /\ P # {}
    BY <2>1, <1>0, Elements DEF Fits
  <2> HIDE DEF P
  <2>4. IsFiniteSet(P)
    BY <2>2, <2>3, FS_Subset
  <2>5. Cardinality(P) \in Nat /\ Cardinality(P) # 0
    BY <2>3, <2>4, FS_CardinalityType, FS_EmptySet
  <2> QED
    BY <2>5 DEF Places, P
<1>2. /\ Len(rt.order) <= Cardinality(Sessions(rt)) + rt.lost
      /\ Len(rt.order) <= MaxSessions + rt.lost
  BY DEF Fits
<1>3. Cardinality(Sessions(rt)) \in Nat /\ Cardinality(Sessions(rt)) <= Len(rt.order)
  BY SessionsFinite
<1> QED
  BY <1>0, <1>1, <1>2, <1>3, LimitType

LEMMA TouchAccessOrderElements ==
    ASSUME NEW S, NEW o \in Seq(S), NEW s \in S
    PROVE  /\ TouchAccessOrder(o, s) \in Seq(S)
           /\ Len(TouchAccessOrder(o, s)) = IF s \in ToSet(o) THEN Len(o) ELSE Len(o) + 1
           /\ ToSet(o) \cup {s} \subseteq ToSet(TouchAccessOrder(o, s))
<1> DEFINE rest == RemoveFrom(o, s)
<1>1. /\ rest \in Seq(S) /\ Len(o) \in Nat /\ Len(rest) \in Nat
      /\ Len(rest) = IF s \in ToSet(o) THEN Len(o) - 1 ELSE Len(o)
      /\ \A x \in ToSet(o) : x # s => x \in ToSet(rest)
  BY RemoveFromElements
<1> HIDE DEF rest
<1>2. /\ Append(rest, s) \in Seq(S) /\ Len(Append(rest, s)) = Len(rest) + 1
      /\ s \in ToSet(Append(rest, s))
      /\ \A x \in ToSet(rest) : x \in ToSet(Append(rest, s))
  BY <1>1, AppendElements
<1>3. TouchAccessOrder(o, s) = Append(rest, s)
  BY DEF TouchAccessOrder, rest
<1> QED
  BY <1>1, <1>2, <1>3

(* The writes of the entries keep their type. *)
LEMMA DropEntryType ==
    ASSUME NEW S, NEW R, NEW e \in Entries(S, R), NEW s
    PROVE  DropEntry(e, s) \in Entries(S, R)
<1>1. /\ DOMAIN e \subseteq S /\ \A x \in DOMAIN e : e[x] \in Entry(R)
  BY EntriesFacts
<1>2. /\ DOMAIN DropEntry(e, s) = DOMAIN e \ {s}
      /\ \A x \in DOMAIN e \ {s} : DropEntry(e, s)[x] = e[x]
      /\ DropEntry(e, s) = [x \in DOMAIN DropEntry(e, s) |-> DropEntry(e, s)[x]]
  BY DEF DropEntry
<1> QED
  BY <1>1, <1>2, EntriesFacts

Fresh(e, s) == [e EXCEPT ![s].stale = FALSE]
Aged(e, s) == [e EXCEPT ![s].stale = TRUE]

LEMMA FreshFacts ==
    ASSUME NEW S, NEW R, NEW e \in Entries(S, R), NEW s \in DOMAIN e
    PROVE  /\ Fresh(e, s) \in Entries(S, R) /\ DOMAIN Fresh(e, s) = DOMAIN e
           /\ \A x \in DOMAIN e : Fresh(e, s)[x].obj = e[x].obj
<1> DEFINE f == Fresh(e, s)
<1>1. /\ DOMAIN e \subseteq S /\ \A x \in DOMAIN e : e[x] \in Entry(R)
  BY EntriesFacts
<1>2. /\ DOMAIN f = DOMAIN e /\ f = [x \in DOMAIN f |-> f[x]]
      /\ \A x \in DOMAIN e : f[x] = IF x = s THEN [e[s] EXCEPT !.stale = FALSE] ELSE e[x]
  BY DEF Fresh
<1>3. [e[s] EXCEPT !.stale = FALSE] \in Entry(R) /\ [e[s] EXCEPT !.stale = FALSE].obj = e[s].obj
  BY <1>1 DEF Entry
<1> HIDE DEF f
<1>4. \A x \in DOMAIN f : f[x] \in Entry(R)
  BY <1>1, <1>2, <1>3
<1>5. f \in Entries(S, R)
  BY <1>1, <1>2, <1>4, EntriesFacts
<1>6. \A x \in DOMAIN e : f[x].obj = e[x].obj
  BY <1>2, <1>3
<1> QED
  BY <1>2, <1>5, <1>6 DEF f

LEMMA AgedFacts ==
    ASSUME NEW S, NEW R, NEW e \in Entries(S, R), NEW s \in DOMAIN e
    PROVE  /\ Aged(e, s) \in Entries(S, R) /\ DOMAIN Aged(e, s) = DOMAIN e
           /\ \A x \in DOMAIN e : Aged(e, s)[x].obj = e[x].obj
<1> DEFINE f == Aged(e, s)
<1>1. /\ DOMAIN e \subseteq S /\ \A x \in DOMAIN e : e[x] \in Entry(R)
  BY EntriesFacts
<1>2. /\ DOMAIN f = DOMAIN e /\ f = [x \in DOMAIN f |-> f[x]]
      /\ \A x \in DOMAIN e : f[x] = IF x = s THEN [e[s] EXCEPT !.stale = TRUE] ELSE e[x]
  BY DEF Aged
<1>3. [e[s] EXCEPT !.stale = TRUE] \in Entry(R) /\ [e[s] EXCEPT !.stale = TRUE].obj = e[s].obj
  BY <1>1 DEF Entry
<1> HIDE DEF f
<1>4. \A x \in DOMAIN f : f[x] \in Entry(R)
  BY <1>1, <1>2, <1>3
<1>5. f \in Entries(S, R)
  BY <1>1, <1>2, <1>4, EntriesFacts
<1>6. \A x \in DOMAIN e : f[x].obj = e[x].obj
  BY <1>2, <1>3
<1> QED
  BY <1>2, <1>5, <1>6 DEF f

LEMMA AddEntryType ==
    ASSUME NEW S, NEW R, NEW e \in Entries(S, R), NEW s \in S, NEW r \in R
    PROVE  AddEntry(e, s, r) \in Entries(S, R)
<1> DEFINE f == AddEntry(e, s, r)
<1>1. /\ DOMAIN e \subseteq S /\ \A x \in DOMAIN e : e[x] \in Entry(R)
  BY EntriesFacts
<1>2. /\ DOMAIN f = DOMAIN e \cup {s} /\ f = [x \in DOMAIN f |-> f[x]]
      /\ f[s] = [obj |-> r, stale |-> FALSE] /\ \A x \in DOMAIN e \ {s} : f[x] = e[x]
  BY DEF AddEntry
<1>3. [obj |-> r, stale |-> FALSE] \in Entry(R)
  BY DEF Entry
<1> HIDE DEF f
<1>4. DOMAIN f \subseteq S /\ \A x \in DOMAIN f : f[x] \in Entry(R)
  BY <1>1, <1>2, <1>3
<1>5. f \in Entries(S, R)
  BY <1>2, <1>4, EntriesFacts
<1> QED
  BY <1>5 DEF f

-----------------------------------------------------------------------------
(* The operations of the cache.                                             *)

(* No session is added, and none gets another model. *)
Keeps(rt, w) ==
    \A s \in Sessions(w) : s \in Sessions(rt) /\ w.entries[s].obj = rt.entries[s].obj

(* What TouchSession makes of a cache, with entries e. *)
Touched(rt, s, e) ==
    [rt EXCEPT !.entries = e, !.order = TouchAccessOrder(rt.order, s),
               !.lost = IF s \in Sessions(rt) THEN rt.lost ELSE rt.lost + 1]

(* A session that was lost gets one place too many. *)
LEMMA TouchFits ==
    ASSUME NEW S, NEW R, NEW rt \in Cache(S, R), Fits(rt), NEW s \in S,
           NEW e \in Entries(S, R), DOMAIN e = Sessions(rt)
    PROVE  LET w == Touched(rt, s, e) IN w \in Cache(S, R) /\ Fits(w) /\ w.entries = e
<1> DEFINE o == TouchAccessOrder(rt.order, s)
           n == IF s \in Sessions(rt) THEN rt.lost ELSE rt.lost + 1
           w == [rt EXCEPT !.entries = e, !.order = o, !.lost = n]
<1>1. rt.order \in Seq(S) /\ Len(rt.order) \in Nat /\ rt.lost \in Nat
  BY CacheFacts
<1>2. n \in Nat /\ (s \in Sessions(rt) => n = rt.lost) /\ (s \notin Sessions(rt) => n = rt.lost + 1)
  BY <1>1
<1>3. /\ o \in Seq(S) /\ Len(o) = IF s \in ToSet(rt.order) THEN Len(rt.order) ELSE Len(rt.order) + 1
      /\ ToSet(rt.order) \cup {s} \subseteq ToSet(o)
  BY <1>1, TouchAccessOrderElements
<1> HIDE DEF o, n
<1>4. w \in Cache(S, R) /\ w.entries = e /\ w.order = o /\ w.lost = n
  BY <1>2, <1>3 DEF Cache
<1> HIDE DEF w
<1>5. Sessions(w) = Sessions(rt)
  BY <1>4 DEF Sessions
<1>6. Cardinality(Sessions(rt)) \in Nat
  BY SessionsFinite
<1>7. /\ Sessions(rt) \subseteq ToSet(rt.order)
      /\ Len(rt.order) <= Cardinality(Sessions(rt)) + rt.lost
      /\ Len(rt.order) <= MaxSessions + rt.lost
  BY DEF Fits
<1>8. Len(o) <= Len(rt.order) + (n - rt.lost)
  BY <1>1, <1>2, <1>3, <1>7
<1>9. Sessions(w) \subseteq ToSet(w.order)
  BY <1>3, <1>4, <1>5, <1>7
<1>10. /\ Len(w.order) <= Cardinality(Sessions(w)) + w.lost
       /\ Len(w.order) <= MaxSessions + w.lost
  <2>1. Len(o) \in Nat
    BY <1>3
  <2>2. w.lost = n /\ w.order = o /\ Sessions(w) = Sessions(rt)
    BY <1>4, <1>5
  <2>3. n \in Nat /\ n >= rt.lost
    BY <1>1, <1>2
  <2>4. Len(o) <= Cardinality(Sessions(rt)) + n
    BY <2>1, <2>3, <1>1, <1>6, <1>7, <1>8
  <2>5. Len(o) <= MaxSessions + n
    BY <2>1, <2>3, <1>1, <1>7, <1>8, LimitType
  <2> QED
    BY <2>2, <2>4, <2>5
<1> QED
  BY <1>4, <1>9, <1>10 DEF Fits, Touched, w, o, n

(* ExpireSession *)
LEMMA ExpireFits ==
    ASSUME NEW S, NEW R, NEW rt \in Cache(S, R), Fits(rt), NEW s
    PROVE  LET w == Expired(rt, s) IN w \in Cache(S, R) /\ Fits(w) /\ Keeps(rt, w)
<1> DEFINE e == DropEntry(rt.entries, s)
           o == RemoveFrom(rt.order, s)
           w == [rt EXCEPT !.entries = e, !.order = o]
<1>1. /\ rt.order \in Seq(S) /\ Len(rt.order) \in Nat /\ rt.lost \in Nat
      /\ rt.entries \in Entries(S, R) /\ Sessions(rt) = DOMAIN rt.entries
  BY CacheFacts
<1>2. /\ e \in Entries(S, R) /\ DOMAIN e = Sessions(rt) \ {s}
      /\ \A x \in DOMAIN e : e[x] = rt.entries[x]
  <2>1. e \in Entries(S, R)
    BY <1>1, DropEntryType
  <2> QED
    BY <2>1, <1>1 DEF DropEntry
<1>3. /\ o \in Seq(S) /\ Len(o) = IF s \in ToSet(rt.order) THEN Len(rt.order) - 1 ELSE Len(rt.order)
      /\ \A x \in ToSet(rt.order) : x # s => x \in ToSet(o)
  BY <1>1, RemoveFromElements
<1> HIDE DEF e, o
<1>4. /\ w \in Cache(S, R) /\ w.entries = e /\ w.order = o /\ w.lost = rt.lost
      /\ Sessions(w) = Sessions(rt) \ {s}
  BY <1>2, <1>3 DEF Cache, Sessions
<1> HIDE DEF w
<1>5. /\ Sessions(rt) \subseteq ToSet(rt.order)
      /\ Len(rt.order) <= Cardinality(Sessions(rt)) + rt.lost
      /\ Len(rt.order) <= MaxSessions + rt.lost
  BY DEF Fits
<1>6. /\ IsFiniteSet(Sessions(rt)) /\ Cardinality(Sessions(rt)) \in Nat
  BY SessionsFinite
<1>7. Cardinality(Sessions(w)) = IF s \in Sessions(rt) THEN Cardinality(Sessions(rt)) - 1
                                 ELSE Cardinality(Sessions(rt))
  BY <1>4, <1>6, FS_RemoveElement
<1>8. Sessions(w) \subseteq ToSet(w.order) /\ Keeps(rt, w)
  BY <1>2, <1>3, <1>4, <1>5 DEF Keeps
<1>9. /\ Len(w.order) <= Cardinality(Sessions(w)) + w.lost
      /\ Len(w.order) <= MaxSessions + w.lost
  <2>1. Len(o) \in Nat
    BY <1>3
  <2>2. CASE s \in Sessions(rt)
    BY <2>1, <2>2, <1>1, <1>3, <1>4, <1>5, <1>6, <1>7, LimitType
  <2>3. CASE s \notin Sessions(rt)
    BY <2>1, <2>3, <1>1, <1>3, <1>4, <1>5, <1>6, <1>7, LimitType
  <2> QED
    BY <2>2, <2>3
<1> QED
  BY <1>4, <1>8, <1>9 DEF Fits, Expired, w, e, o

(* MakeRoom: afterwards one session more fits, whether or not the oldest   *)
(* place was one of a session still there.                                 *)
LEMMA MakeRoomFits ==
    ASSUME NEW S, NEW R, NEW rt \in Cache(S, R), Fits(rt)
    PROVE  LET w == MakeRoom(rt)
           IN  /\ w \in Cache(S, R) /\ Fits(w) /\ Keeps(rt, w) /\ w.lost = rt.lost
               /\ Len(w.order) + 1 <= MaxSessions + w.lost
<1> DEFINE w == MakeRoom(rt)
           h == Head(rt.order)
           e == DropEntry(rt.entries, h)
           o == Tail(rt.order)
           v == [rt EXCEPT !.entries = e, !.order = o]
<1>1. /\ rt.order \in Seq(S) /\ Len(rt.order) \in Nat /\ rt.lost \in Nat
      /\ rt.entries \in Entries(S, R) /\ Sessions(rt) = DOMAIN rt.entries
  BY CacheFacts
<1>2. /\ Sessions(rt) \subseteq ToSet(rt.order)
      /\ Len(rt.order) <= Cardinality(Sessions(rt)) + rt.lost
      /\ Len(rt.order) <= MaxSessions + rt.lost
  BY DEF Fits
<1>3. /\ IsFiniteSet(Sessions(rt)) /\ Cardinality(Sessions(rt)) \in Nat
      /\ Cardinality(Sessions(rt)) <= Len(rt.order)
  BY SessionsFinite
<1>4. CASE Cardinality(Sessions(rt)) < MaxSessions
  <2>1. w = rt
    BY <1>3, <1>4, LimitType DEF MakeRoom
  <2> QED
    BY <2>1, <1>1, <1>2, <1>3, <1>4, LimitType DEF Keeps
<1>5. CASE Cardinality(Sessions(rt)) >= MaxSessions
  <2>1. rt.order # <<>>
    BY <1>1, <1>3, <1>5, LimitType
  <2>2. w = v
    BY <2>1, <1>5 DEF MakeRoom, EvictOldest
  <2>3. /\ o \in Seq(S) /\ Len(o) = Len(rt.order) - 1 /\ h \in S
        /\ \A x \in ToSet(rt.order) : x # h => x \in ToSet(o)
    BY <2>1, <1>1, TailElements
  <2> HIDE DEF o, h, w
  <2>4. /\ e \in Entries(S, R) /\ DOMAIN e = Sessions(rt) \ {h}
        /\ \A x \in DOMAIN e : e[x] = rt.entries[x]
    <3>1. e \in Entries(S, R)
      BY <1>1, DropEntryType
    <3> QED
      BY <3>1, <1>1 DEF DropEntry
  <2> HIDE DEF e
  <2>5. /\ v \in Cache(S, R) /\ v.entries = e /\ v.order = o /\ v.lost = rt.lost
        /\ Sessions(v) = Sessions(rt) \ {h}
    BY <2>3, <2>4 DEF Cache, Sessions
  <2> HIDE DEF v
  <2>6. /\ Cardinality(Sessions(v)) \in Nat
        /\ Cardinality(Sessions(v)) >= Cardinality(Sessions(rt)) - 1
    <3>1. IsFiniteSet(Sessions(v))
      <4>1. Sessions(v) \in SUBSET Sessions(rt)
        BY <2>5
      <4> QED
        BY <4>1, <1>3, FS_Subset
    <3>2. Cardinality(Sessions(v)) = IF h \in Sessions(rt) THEN Cardinality(Sessions(rt)) - 1
                                     ELSE Cardinality(Sessions(rt))
      BY <2>5, <1>3, FS_RemoveElement
    <3>3. Cardinality(Sessions(v)) \in Nat
      BY <3>1, FS_CardinalityType
    <3> QED
      BY <3>2, <3>3, <1>3
  <2>7. Sessions(v) \subseteq ToSet(v.order) /\ Keeps(rt, v)
    BY <2>3, <2>4, <2>5, <1>2 DEF Keeps
  <2>8. /\ Len(v.order) <= Cardinality(Sessions(v)) + v.lost
        /\ Len(v.order) + 1 <= MaxSessions + v.lost
        /\ Len(v.order) <= MaxSessions + v.lost
    BY <2>3, <2>5, <2>6, <1>1, <1>2, <1>3, LimitType
  <2> QED
    BY <2>2, <2>5, <2>7, <2>8 DEF Fits, w
<1> QED
  BY <1>3, <1>4, <1>5, LimitType

(* Remember: a session keeps its model, or is new with the one resolved.   *)
LEMMA RememberFits ==
    ASSUME NEW S, NEW R, NEW rt \in Cache(S, R), Fits(rt), NEW s \in S, NEW r \in R
    PROVE  LET w == Remember(rt, s, r)
           IN  /\ w \in Cache(S, R) /\ Fits(w)
               /\ \A x \in Sessions(w) :
                    \/ x \in Sessions(rt) /\ w.entries[x].obj = rt.entries[x].obj
                    \/ x = s /\ w.entries[x].obj = r
<1> DEFINE w == Remember(rt, s, r)
<1>1. /\ rt.order \in Seq(S) /\ Len(rt.order) \in Nat /\ rt.lost \in Nat
      /\ rt.entries \in Entries(S, R) /\ Sessions(rt) = DOMAIN rt.entries
  BY CacheFacts
<1>2. CASE s \in Sessions(rt)
  <2> DEFINE e == Fresh(rt.entries, s)
  <2>1. /\ e \in Entries(S, R) /\ DOMAIN e = Sessions(rt)
        /\ \A x \in Sessions(rt) : e[x].obj = rt.entries[x].obj
    BY <1>1, <1>2, FreshFacts
  <2> HIDE DEF e
  <2>2. Touched(rt, s, e) \in Cache(S, R) /\ Fits(Touched(rt, s, e))
        /\ Touched(rt, s, e).entries = e
    BY <2>1, TouchFits
  <2>3. w = Touched(rt, s, e)
    BY <1>2 DEF Remember, Cache, Touched, Fresh, e
  <2> HIDE DEF w
  <2>4. w \in Cache(S, R) /\ Fits(w) /\ w.entries = e
    BY <2>2, <2>3
  <2> QED
    BY <2>1, <2>4 DEF Sessions, w
<1>3. CASE s \notin Sessions(rt)
  <2> DEFINE m == MakeRoom(rt)
             e == AddEntry(m.entries, s, r)
             o == Append(m.order, s)
             v == [m EXCEPT !.entries = e, !.order = o]
  <2>1. /\ m \in Cache(S, R) /\ Fits(m) /\ Keeps(rt, m)
        /\ Len(m.order) + 1 <= MaxSessions + m.lost
    BY MakeRoomFits
  <2>2. w = v
    BY <1>3 DEF Remember
  <2> HIDE DEF m, w
  <2>3. /\ m.order \in Seq(S) /\ Len(m.order) \in Nat /\ m.lost \in Nat
        /\ m.entries \in Entries(S, R) /\ Sessions(m) = DOMAIN m.entries
    BY <2>1, CacheFacts
  <2>4. s \notin DOMAIN m.entries
    BY <1>3, <2>1, <2>3 DEF Keeps
  <2>5. /\ e \in Entries(S, R) /\ DOMAIN e = Sessions(m) \cup {s} /\ e[s].obj = r
        /\ \A x \in Sessions(m) : e[x] = m.entries[x]
    <3>1. e \in Entries(S, R)
      BY <2>3, AddEntryType
    <3>2. /\ DOMAIN e = DOMAIN m.entries \cup {s} /\ e[s] = [obj |-> r, stale |-> FALSE]
          /\ \A x \in DOMAIN m.entries : e[x] = m.entries[x]
      BY <2>4 DEF AddEntry
    <3> QED
      BY <3>1, <3>2, <2>3
  <2>6. /\ o \in Seq(S) /\ Len(o) = Len(m.order) + 1 /\ s \in ToSet(o)
        /\ \A x \in ToSet(m.order) : x \in ToSet(o)
    BY <2>3, AppendElements
  <2> HIDE DEF e, o
  <2>7. /\ v \in Cache(S, R) /\ v.entries = e /\ v.order = o /\ v.lost = m.lost
        /\ Sessions(v) = Sessions(m) \cup {s}
    BY <2>1, <2>5, <2>6 DEF Cache, Sessions
  <2> HIDE DEF v
  <2>8. IsFiniteSet(Sessions(m)) /\ Cardinality(Sessions(m)) \in Nat
    BY <2>1, SessionsFinite
  <2>9. Cardinality(Sessions(v)) = Cardinality(Sessions(m)) + 1
    BY <2>3, <2>4, <2>7, <2>8, FS_AddElement
  <2>10. Sessions(m) \subseteq ToSet(m.order) /\ Len(m.order) <= Cardinality(Sessions(m)) + m.lost
    BY <2>1 DEF Fits
  <2>11. /\ Sessions(v) \subseteq ToSet(v.order)
         /\ Len(v.order) <= Cardinality(Sessions(v)) + v.lost
         /\ Len(v.order) <= MaxSessions + v.lost
    BY <2>1, <2>3, <2>6, <2>7, <2>8, <2>9, <2>10, LimitType
  <2>12. \A x \in Sessions(v) :
            \/ x \in Sessions(rt) /\ v.entries[x].obj = rt.entries[x].obj
            \/ x = s /\ v.entries[x].obj = r
    BY <2>1, <2>5, <2>7 DEF Keeps
  <2> QED
    BY <2>2, <2>7, <2>11, <2>12 DEF Fits, w
<1> QED
  BY <1>2, <1>3

-----------------------------------------------------------------------------
(* The requests and the routers together.                                   *)

Sids == {in[r].sid : r \in Requests} \ {NoSid}
HandlerFields == DOMAIN NewRequest
Settled == {"prepare", "open", "stream", "done"}

(* The router of generation g lets session s have what request x resolved: *)
(* x asked for the session itself, and its model is one of the profiles.   *)
Holds(x, s, g) ==
    /\ x \in Requests /\ in[x].sid = s
    /\ q[x].obj = x /\ q[x].gen = g /\ q[x].pc \in Settled
    /\ q[x].model # {} /\ q[x].model \subseteq cfg.profiles[g]

(* A handler works with a router there is, and what it read of a session   *)
(* under the read lock is still so when it takes the write lock.           *)
HandlerOK(r) ==
    /\ DOMAIN q[r] = HandlerFields
    /\ q[r].pc \in Settled \cup {"new", "route", "touch", "expire"}
    /\ q[r].pc \notin {"new", "done"} => q[r].gen \in 1..Len(router)
    /\ q[r].pc \in {"touch", "expire"} =>
         in[r].sid # NoSid /\ Holds(q[r].obj, in[r].sid, q[r].gen)
    /\ q[r].obj \notin {0, r} => in[r].sid # NoSid /\ in[q[r].obj].sid = in[r].sid
    /\ q[r].pc \in {"prepare", "open", "stream"} =>
         q[r].model # {} /\ q[r].model \subseteq cfg.profiles[q[r].gen]

RouterOK(g) ==
    /\ Fits(router[g])
    /\ \A s \in Sessions(router[g]) : Holds(router[g].entries[s].obj, s, g)

SessionInv ==
    /\ q = [r \in Requests |-> q[r]]
    /\ router \in Seq(Cache(Sids, Requests)) /\ router # <<>>
    /\ \A r \in Requests : HandlerOK(r)
    /\ \A g \in 1..Len(router) : RouterOK(g)

LEMMA SessionHolds == SessionInv => SessionsSound
<1> SUFFICES ASSUME SessionInv PROVE SessionsSound
  OBVIOUS
<1>1. RewrittenWithinSession
  BY DEF SessionInv, HandlerOK, RewrittenWithinSession
<1>2. RoutedInProfiles
  BY DEF SessionInv, HandlerOK, RoutedInProfiles
<1>3. ASSUME NEW g \in DOMAIN router
      PROVE  /\ \A s \in Sessions(router[g]) : Places(router[g], s) >= 1
             /\ Len(router[g].order) <= Cardinality(Sessions(router[g])) + router[g].lost
             /\ Cardinality(Sessions(router[g])) <= MaxSessions + router[g].lost
  <2>1. router[g] \in Cache(Sids, Requests) /\ Fits(router[g])
    BY DEF SessionInv, RouterOK
  <2> QED
    BY <2>1, FitsTracked
<1>4. SessionsTracked /\ SessionsBounded
  BY <1>3 DEF SessionsTracked, SessionsBounded
<1> QED
  BY <1>1, <1>2, <1>4 DEF SessionsSound

LEMMA NewCacheFits ==
    ASSUME NEW S, NEW R
    PROVE  /\ NewModelRouter \in Cache(S, R) /\ Fits(NewModelRouter)
           /\ Sessions(NewModelRouter) = {}
<1>1. NewModelRouter = [entries |-> <<>>, order |-> <<>>, lost |-> 0]
  BY DEF NewModelRouter
<1>2. <<>> \in Entries(S, R) /\ <<>> \in Seq(S) /\ DOMAIN <<>> = {} /\ Len(<<>>) = 0
  <2>1. <<>> \in [{} -> Entry(R)] /\ {} \in SUBSET S
    OBVIOUS
  <2>2. <<>> \in Entries(S, R)
    BY <2>1 DEF Entries
  <2> QED
    BY <2>2
<1>3. Sessions(NewModelRouter) = {}
  BY <1>1, <1>2 DEF Sessions
<1>4. NewModelRouter \in Cache(S, R)
  BY <1>1, <1>2 DEF Cache
<1>5. Fits(NewModelRouter)
  <2>1. Len(NewModelRouter.order) = 0 /\ NewModelRouter.lost = 0
    BY <1>1, <1>2
  <2>2. Cardinality(Sessions(NewModelRouter)) = 0
    BY <1>3, FS_EmptySet
  <2> QED
    BY <2>1, <2>2, <1>3, LimitType DEF Fits
<1> QED
  BY <1>3, <1>4, <1>5

LEMMA SessionsInitially == Init => SessionInv
<1> SUFFICES ASSUME Init PROVE SessionInv
  OBVIOUS
<1>1. q = [r \in Requests |-> NewRequest] /\ router = <<NewModelRouter>>
  BY DEF Init, Requests
<1>2. router \in Seq(Cache(Sids, Requests)) /\ Len(router) = 1 /\ router[1] = NewModelRouter
  BY <1>1, NewCacheFits
<1>3. ASSUME NEW r \in Requests PROVE HandlerOK(r)
  <2>1. q[r] = NewRequest /\ NewRequest.pc = "new" /\ NewRequest.obj = 0
    BY <1>1 DEF NewRequest
  <2> QED
    BY <2>1 DEF HandlerOK, HandlerFields, Settled
<1>4. RouterOK(1)
  BY <1>2, NewCacheFits DEF RouterOK
<1> QED
  BY <1>1, <1>2, <1>3, <1>4 DEF SessionInv

-----------------------------------------------------------------------------
(* Steps that leave the cache alone.                                        *)

Same(x) == q'[x].obj = q[x].obj /\ q'[x].gen = q[x].gen /\ q'[x].model = q[x].model

(* What the handler and its upstream do with a request whose model is      *)
(* known: nobody's model is changed.                                       *)
LateStep(r) ==
    /\ UNCHANGED <<cfg, in, router>>
    /\ q' = [x \in Requests |-> q'[x]]
    /\ \A x \in Requests : DOMAIN q'[x] = HandlerFields /\ Same(x)
    /\ \A x \in Requests \ {r} : q'[x].pc = q[x].pc
    /\ q[r].pc \in {"prepare", "open", "stream"} /\ q'[r].pc \in Settled

LEMMA LateStepKeeps ==
    ASSUME SessionInv, NEW r \in Requests, LateStep(r)
    PROVE  SessionInv'
<1>1. /\ cfg' = cfg /\ in' = in /\ router' = router /\ Requests' = Requests /\ Sids' = Sids
      /\ HandlerFields' = HandlerFields
  BY DEF LateStep, Requests, Sids, HandlerFields
<1>2. ASSUME NEW x, NEW s, NEW g, Holds(x, s, g) PROVE Holds(x, s, g)'
  BY <1>1, <1>2 DEF Holds, LateStep, Same, Settled
<1>3. ASSUME NEW x \in Requests PROVE HandlerOK(x)'
  <2>1. HandlerOK(x)
    BY DEF SessionInv
  <2>2. Same(x) /\ DOMAIN q'[x] = HandlerFields
    BY DEF LateStep
  <2>3. CASE x # r
    <3>1. q'[x].pc = q[x].pc
      BY <2>3 DEF LateStep
    <3> QED
      BY <1>1, <1>2, <2>1, <2>2, <3>1 DEF HandlerOK, Same
  <2>4. CASE x = r
    <3>1. q[x].pc \in {"prepare", "open", "stream"} /\ q'[x].pc \in Settled
      BY <2>4 DEF LateStep
    <3> QED
      BY <1>1, <2>1, <2>2, <3>1 DEF HandlerOK, Same, Settled
  <2> QED
    BY <2>3, <2>4
<1>4. ASSUME NEW g \in 1..Len(router) PROVE RouterOK(g)'
  BY <1>1, <1>2 DEF RouterOK, SessionInv, Fits, Sessions
<1> QED
  BY <1>1, <1>3, <1>4 DEF SessionInv, LateStep

LEMMA Shape ==
    ASSUME SessionInv
    PROVE  /\ HandlerFields = {"pc", "gen", "obj", "model", "flag", "fails", "opens", "phase",
                               "t", "status", "out", "sent", "gone"}
           /\ q = [x \in Requests |-> q[x]]
           /\ \A x \in Requests : DOMAIN q[x] = HandlerFields
BY DEF SessionInv, HandlerOK, HandlerFields, NewRequest

LEMMA PrepareLate ==
    ASSUME SessionInv, NEW r \in Requests, NEW v, Prepare(r, v)
    PROVE  LateStep(r)
<1> USE Shape DEF Settled
<1> DEFINE fl == q[q[r].obj].flag \/ (in[r].api = "messages" /\ in[r].fallback)
           f == [q EXCEPT ![q[r].obj].flag = fl]
<1>1. q[r].pc = "prepare" /\ UNCHANGED <<cfg, in, router>>
  BY DEF Prepare
<1>2. \/ \E s : q' = [f EXCEPT ![r].pc = "done", ![r].status = s]
      \/ \E s : q' = [f EXCEPT ![r].pc = "open", ![r].sent = s]
  BY DEF Prepare
<1> HIDE DEF fl
<1>3. /\ f = [x \in Requests |-> f[x]]
      /\ \A x \in Requests : /\ DOMAIN f[x] = HandlerFields /\ f[x].pc = q[x].pc
                             /\ f[x].obj = q[x].obj /\ f[x].gen = q[x].gen /\ f[x].model = q[x].model
  OBVIOUS
<1> HIDE DEF f
<1>4. ASSUME NEW s, q' = [f EXCEPT ![r].pc = "done", ![r].status = s] PROVE LateStep(r)
  BY <1>1, <1>3, <1>4 DEF LateStep, Same
<1>5. ASSUME NEW s, q' = [f EXCEPT ![r].pc = "open", ![r].sent = s] PROVE LateStep(r)
  BY <1>1, <1>3, <1>5 DEF LateStep, Same
<1> QED
  BY <1>2, <1>4, <1>5

LEMMA OpenStreamLate ==
    ASSUME SessionInv, NEW r \in Requests, OpenStream(r)
    PROVE  LateStep(r)
<1> DEFINE n == q[r].opens + 1
           s == 200
           o == IF q[r].out = <<>> /\ in[r].api = "messages"
                THEN <<Event("message_start", 0, "", 0)>> ELSE q[r].out
<1>1. q[r].pc \in {"open", "stream"} /\ UNCHANGED <<cfg, in, router>>
  BY DEF OpenStream
<1>2. q' = [q EXCEPT ![r].pc = "stream", ![r].opens = n, ![r].phase = "between",
                        ![r].status = s, ![r].out = o]
  BY DEF OpenStream
<1> HIDE DEF n, s, o
<1> QED
  BY <1>1, <1>2, Shape DEF LateStep, Same, Settled

LEMMA AnswerLate ==
    ASSUME SessionInv, NEW r \in Requests, NEW resp, Answer(r, resp)
    PROVE  LateStep(r)
<1> DEFINE n == q[r].opens + 1
           s == 200
           o == <<Event("json", 0, IF in[r].api = "messages" THEN AnswerMessages(r, resp)
                                ELSE AnswerResponses(r, resp), resp)>>
<1>1. q[r].pc \in {"open", "stream"} /\ UNCHANGED <<cfg, in, router>>
  BY DEF Answer
<1>2. q' = [q EXCEPT ![r].pc = "done", ![r].opens = n, ![r].status = s, ![r].out = o]
  BY DEF Answer
<1> HIDE DEF n, s, o
<1> QED
  BY <1>1, <1>2, Shape DEF LateStep, Same, Settled

LEMMA OpenFailsLate ==
    ASSUME SessionInv, NEW r \in Requests, NEW kind, OpenFails(r, kind)
    PROVE  LateStep(r)
<1> DEFINE m == q[r].fails + 1
           n == q[r].opens + 1
           s == 502
           o == Append(q[r].out, Event("error", 0, "", 0))
<1>1. q[r].pc \in {"open", "stream"} /\ UNCHANGED <<cfg, in, router>>
  BY DEF OpenFails
<1>2. \/ q' = [q EXCEPT ![r].fails = m, ![r].opens = n]
      \/ q' = [q EXCEPT ![r].pc = "done", ![r].opens = n, ![r].out = o]
      \/ q' = [q EXCEPT ![r].pc = "done", ![r].opens = n, ![r].status = s]
  BY DEF OpenFails, FailRequest
<1> HIDE DEF m, n, s, o
<1>3. CASE q' = [q EXCEPT ![r].fails = m, ![r].opens = n]
  BY <1>1, <1>3, Shape DEF LateStep, Same, Settled
<1>4. CASE q' = [q EXCEPT ![r].pc = "done", ![r].opens = n, ![r].out = o]
  BY <1>1, <1>4, Shape DEF LateStep, Same, Settled
<1>5. CASE q' = [q EXCEPT ![r].pc = "done", ![r].opens = n, ![r].status = s]
  BY <1>1, <1>5, Shape DEF LateStep, Same, Settled
<1> QED
  BY <1>2, <1>3, <1>4, <1>5

LEMMA OpenCancelledLate ==
    ASSUME SessionInv, NEW r \in Requests, OpenCancelled(r)
    PROVE  LateStep(r)
<1> DEFINE s == IF q[r].status = 200 THEN 200 ELSE 502
           o == IF q[r].status = 200 THEN Append(q[r].out, Event("error", 0, "", 0)) ELSE q[r].out
<1>1. q[r].pc \in {"open", "stream"} /\ UNCHANGED <<cfg, in, router>>
  BY DEF OpenCancelled
<1>2. q' = [q EXCEPT ![r].pc = "done", ![r].status = s, ![r].out = o]
  BY DEF OpenCancelled
<1> HIDE DEF s, o
<1> QED
  BY <1>1, <1>2, Shape DEF LateStep, Same, Settled

LEMMA ChunkLate ==
    ASSUME SessionInv, NEW r \in Requests, NEW c, Chunk(r, c)
    PROVE  LateStep(r)
BY Shape DEF Chunk, LateStep, Same, Settled

LEMMA ErrorChunkLate ==
    ASSUME SessionInv, NEW r \in Requests, NEW kind, ErrorChunk(r, kind)
    PROVE  LateStep(r)
<1>1. q[r].pc \in {"open", "stream"} /\ UNCHANGED <<cfg, in, router>>
  BY DEF ErrorChunk
<1>2. \/ \E n : q' = [q EXCEPT ![r].pc = "open", ![r].fails = n]
      \/ \E o : q' = [q EXCEPT ![r].pc = "done", ![r].out = o]
  BY DEF ErrorChunk
<1>3. ASSUME NEW n,
             q' = [q EXCEPT ![r].pc = "open", ![r].fails = n]
      PROVE  LateStep(r)
  BY <1>1, <1>3, Shape DEF LateStep, Same, Settled
<1>4. ASSUME NEW o,
             q' = [q EXCEPT ![r].pc = "done", ![r].out = o]
      PROVE  LateStep(r)
  BY <1>1, <1>4, Shape DEF LateStep, Same, Settled
<1> QED
  BY <1>2, <1>3, <1>4

LEMMA StreamEndsLate ==
    ASSUME SessionInv, NEW r \in Requests, StreamEnds(r)
    PROVE  LateStep(r)
BY Shape DEF StreamEnds, LateStep, Same, Settled

LEMMA ClientGoneLate ==
    ASSUME SessionInv, NEW r \in Requests, ClientGone(r)
    PROVE  LateStep(r)
BY Shape DEF ClientGone, LateStep, Same, Settled

-----------------------------------------------------------------------------
(* Steps of a handler before its model is known.                            *)

EarlyStep(r) ==
    /\ UNCHANGED <<cfg, in>>
    /\ q' = [x \in Requests |-> q'[x]]
    /\ \A x \in Requests : DOMAIN q'[x] = HandlerFields
    /\ \A x \in Requests \ {r} : q'[x] = q[x]
    /\ q[r].pc \notin Settled

LEMMA EarlyConstants ==
    ASSUME NEW r, EarlyStep(r)
    PROVE  /\ cfg' = cfg /\ in' = in /\ Requests' = Requests /\ Sids' = Sids
           /\ HandlerFields' = HandlerFields
BY DEF EarlyStep, Requests, Sids, HandlerFields

(* What a session was resolved to stays so: r is not among the resolved.   *)
LEMMA EarlyHolds ==
    ASSUME NEW r \in Requests, EarlyStep(r), NEW x, NEW s, NEW g, Holds(x, s, g)
    PROVE  Holds(x, s, g)'
BY EarlyConstants DEF EarlyStep, Holds

LEMMA EarlyStepKeeps ==
    ASSUME SessionInv, NEW r \in Requests, EarlyStep(r), HandlerOK(r)',
           router' \in Seq(Cache(Sids, Requests)), Len(router') = Len(router),
           \A g \in 1..Len(router) : RouterOK(g)'
    PROVE  SessionInv'
<1>1. ASSUME NEW x \in Requests, x # r PROVE HandlerOK(x)'
  <2>1. HandlerOK(x) /\ q'[x] = q[x]
    BY <1>1 DEF SessionInv, EarlyStep
  <2>2. PICK y, s, g : y = q[x].obj /\ s = in[x].sid /\ g = q[x].gen
    OBVIOUS
  <2>3. q[x].pc \in {"touch", "expire"} => Holds(y, s, g)'
    BY <2>1, <2>2, EarlyHolds DEF HandlerOK
  <2> QED
    BY <2>1, <2>2, <2>3, EarlyConstants DEF HandlerOK, Holds
<1>2. router # <<>> /\ Len(router) \in Nat /\ router' # <<>>
  BY DEF SessionInv
<1> QED
  BY <1>1, <1>2, EarlyConstants DEF SessionInv, EarlyStep

LEMMA RouterKept ==
    ASSUME SessionInv, NEW r \in Requests, EarlyStep(r), router' = router
    PROVE  /\ router' \in Seq(Cache(Sids, Requests)) /\ Len(router') = Len(router)
           /\ \A g \in 1..Len(router) : RouterOK(g)'
<1>1. ASSUME NEW g \in 1..Len(router) PROVE RouterOK(g)'
  <2>1. RouterOK(g)
    BY DEF SessionInv
  <2> QED
    BY <2>1, EarlyHolds DEF RouterOK, Fits, Sessions
<1> QED
  BY <1>1 DEF SessionInv

(* One router is written: its cache still fits, and its sessions keep what *)
(* they were resolved to, or one of them has what holds after the step.    *)
LEMMA RouterWritten ==
    ASSUME SessionInv, NEW r \in Requests, EarlyStep(r), NEW k \in 1..Len(router),
           NEW w \in Cache(Sids, Requests), Fits(w), router' = [router EXCEPT ![k] = w],
           \A s \in Sessions(w) : \/ s \in Sessions(router[k])
                                     /\ w.entries[s].obj = router[k].entries[s].obj
                                  \/ Holds(w.entries[s].obj, s, k)'
    PROVE  /\ router' \in Seq(Cache(Sids, Requests)) /\ Len(router') = Len(router)
           /\ \A g \in 1..Len(router) : RouterOK(g)'
<1>0. router \in Seq(Cache(Sids, Requests))
  BY DEF SessionInv
<1>1. /\ router' \in Seq(Cache(Sids, Requests)) /\ Len(router') = Len(router)
      /\ router'[k] = w /\ \A g \in 1..Len(router) : g # k => router'[g] = router[g]
  BY <1>0
<1>2. ASSUME NEW g \in 1..Len(router) PROVE RouterOK(g)'
  <2>1. RouterOK(g) /\ RouterOK(k)
    BY DEF SessionInv
  <2>2. CASE g # k
    <3>1. router'[g] = router[g]
      BY <1>1, <2>2
    <3> QED
      BY <2>1, <3>1, EarlyHolds DEF RouterOK, Fits, Sessions
  <2>3. CASE g = k
    <3>1. ASSUME NEW s \in Sessions(w) PROVE Holds(w.entries[s].obj, s, k)'
      <4>1. CASE Holds(w.entries[s].obj, s, k)'
        BY <4>1
      <4>2. CASE s \in Sessions(router[k]) /\ w.entries[s].obj = router[k].entries[s].obj
        <5>1. PICK y : y = router[k].entries[s].obj
          OBVIOUS
        <5>2. Holds(y, s, k)
          BY <2>1, <4>2, <5>1 DEF RouterOK
        <5>3. Holds(y, s, k)'
          BY <5>2, EarlyHolds
        <5> QED
          BY <4>2, <5>1, <5>3 DEF Holds
      <4> QED
        BY <4>1, <4>2
    <3> QED
      BY <1>1, <2>3, <3>1, EarlyConstants DEF RouterOK, Fits, Sessions, Holds
  <2> QED
    BY <2>2, <2>3
<1> QED
  BY <1>1, <1>2

LEMMA ArriveKeeps ==
    ASSUME SessionInv, NEW r \in Requests, Arrive(r)
    PROVE  SessionInv'
<1>1. q[r].pc = "new" /\ UNCHANGED <<cfg, in, router>>
  BY DEF Arrive
<1>2. \/ \E s : q' = [q EXCEPT ![r].pc = "done", ![r].status = s]
      \/ q' = [q EXCEPT ![r].pc = "route", ![r].gen = Len(router)]
  BY DEF Arrive, Respond
<1>3. HandlerOK(r)
  BY DEF SessionInv
<1>4. Len(router) \in 1..Len(router)
  BY DEF SessionInv
<1>5. ASSUME NEW s, q' = [q EXCEPT ![r].pc = "done", ![r].status = s]
      PROVE  EarlyStep(r) /\ HandlerOK(r)'
  <2>1. EarlyStep(r) /\ q'[r].pc = "done" /\ Same(r)
    BY <1>1, <1>5, Shape DEF EarlyStep, Same, Settled
  <2> QED
    BY <1>3, <2>1, EarlyConstants DEF HandlerOK, Same, Settled, EarlyStep
<1>6. ASSUME q' = [q EXCEPT ![r].pc = "route", ![r].gen = Len(router)]
      PROVE  EarlyStep(r) /\ HandlerOK(r)'
  <2> DEFINE n == Len(router)
  <2>1. q' = [q EXCEPT ![r].pc = "route", ![r].gen = n]
    BY <1>6
  <2> HIDE DEF n
  <2>2. EarlyStep(r) /\ q'[r].pc = "route" /\ q'[r].gen = n /\ q'[r].obj = q[r].obj
    BY <1>1, <2>1, Shape DEF EarlyStep, Settled
  <2> QED
    BY <1>1, <1>3, <1>4, <2>2, EarlyConstants DEF HandlerOK, Settled, EarlyStep, n
<1> QED
  BY <1>1, <1>2, <1>5, <1>6, RouterKept, EarlyStepKeeps

LEMMA SidFacts ==
    ASSUME NEW r \in Requests, in[r].sid # NoSid
    PROVE  in[r].sid \in Sids
BY DEF Sids

LEMMA ResolveModelKeeps ==
    ASSUME SessionInv, NEW r \in Requests, ResolveModel(r)
    PROVE  SessionInv'
<1>1. q[r].pc = "route" /\ UNCHANGED <<cfg, in>>
  BY DEF ResolveModel
<1>2. PICK m \in Known(r) : q' = [q EXCEPT ![r].pc = "prepare", ![r].obj = r, ![r].model = {m}]
  BY DEF ResolveModel
<1>3. HandlerOK(r)
  BY DEF SessionInv
<1> DEFINE one == {m}
<1>4. q' = [q EXCEPT ![r].pc = "prepare", ![r].obj = r, ![r].model = one]
  BY <1>2
<1>5. m \in cfg.profiles[q[r].gen]
  BY DEF Known
<1>6. one # {} /\ one \subseteq cfg.profiles[q[r].gen]
  BY <1>5
<1> HIDE DEF one
<1>7. /\ EarlyStep(r) /\ q'[r].pc = "prepare" /\ q'[r].obj = r /\ q'[r].gen = q[r].gen
      /\ q'[r].model = one
  BY <1>1, <1>4, Shape DEF EarlyStep, Settled
<1>8. PICK s, k : s = in[r].sid /\ k = q[r].gen
  OBVIOUS
<1>9. k \in 1..Len(router)
  BY <1>1, <1>3, <1>8 DEF HandlerOK
<1>10. Holds(r, s, k)'
  BY <1>1, <1>6, <1>7, <1>8, EarlyConstants DEF Holds, Settled
<1>11. Len(router') = Len(router) => HandlerOK(r)'
  BY <1>1, <1>6, <1>7, <1>8, <1>9, EarlyConstants DEF HandlerOK, Settled, EarlyStep
<1>12. CASE s = NoSid
  <2>1. router' = router
    BY <1>8, <1>12 DEF ResolveModel
  <2> QED
    BY <2>1, <1>7, <1>11, RouterKept, EarlyStepKeeps
<1>13. CASE s # NoSid
  <2> DEFINE rt == router[k]
             w == Remember(rt, s, r)
  <2>1. s \in Sids
    BY <1>8, <1>13, SidFacts
  <2>2. rt \in Cache(Sids, Requests) /\ Fits(rt)
    BY <1>9 DEF SessionInv, RouterOK
  <2>3. router' = [router EXCEPT ![k] = w]
    BY <1>8, <1>13 DEF ResolveModel
  <2> HIDE DEF w, rt
  <2>4. /\ w \in Cache(Sids, Requests) /\ Fits(w)
        /\ \A x \in Sessions(w) :
             \/ x \in Sessions(rt) /\ w.entries[x].obj = rt.entries[x].obj
             \/ x = s /\ w.entries[x].obj = r
    BY <2>1, <2>2, RememberFits DEF w
  <2>5. \A x \in Sessions(w) :
             \/ x \in Sessions(router[k]) /\ w.entries[x].obj = router[k].entries[x].obj
             \/ x = s /\ w.entries[x].obj = r
    BY <2>4 DEF rt
  <2>6. PICK v : v = w
    OBVIOUS
  <2>7. \A x \in Sessions(v) :
             \/ x \in Sessions(router[k]) /\ v.entries[x].obj = router[k].entries[x].obj
             \/ Holds(v.entries[x].obj, x, k)'
    BY <1>10, <2>5, <2>6
  <2> QED
    BY <2>3, <2>4, <2>6, <2>7, <1>7, <1>9, <1>11, RouterWritten, EarlyStepKeeps
<1> QED
  BY <1>12, <1>13

LEMMA LookupSessionKeeps ==
    ASSUME SessionInv, NEW r \in Requests, LookupSession(r)
    PROVE  SessionInv'
<1>1. q[r].pc = "route" /\ UNCHANGED <<cfg, in, router>>
  BY DEF LookupSession
<1>2. PICK s, k : s = in[r].sid /\ k = q[r].gen
  OBVIOUS
<1>3. HandlerOK(r) /\ k \in 1..Len(router)
  BY <1>1, <1>2 DEF SessionInv, HandlerOK, Settled
<1>4. CASE s \notin DOMAIN router[k].entries
  <2>1. q' = [q EXCEPT ![r].pc = "done", ![r].status = 404]
    BY <1>2, <1>4 DEF LookupSession, Respond
  <2> DEFINE n == 404
  <2>2. q' = [q EXCEPT ![r].pc = "done", ![r].status = n]
    BY <2>1
  <2> HIDE DEF n
  <2>3. EarlyStep(r) /\ q'[r].pc = "done" /\ Same(r)
    BY <1>1, <2>2, Shape DEF EarlyStep, Same, Settled
  <2>4. HandlerOK(r)'
    BY <1>3, <2>3, EarlyConstants DEF HandlerOK, Same, Settled, EarlyStep
  <2> QED
    BY <1>1, <2>3, <2>4, RouterKept, EarlyStepKeeps
<1>5. CASE s \in DOMAIN router[k].entries
  <2>1. PICK x, p : /\ x = router[k].entries[s].obj
                    /\ p = IF router[k].entries[s].stale THEN "expire" ELSE "touch"
    OBVIOUS
  <2>2. q' = [q EXCEPT ![r].pc = p, ![r].obj = x]
    BY <1>2, <1>5, <2>1 DEF LookupSession
  <2>3. p \in {"touch", "expire"}
    BY <2>1
  <2>4. EarlyStep(r) /\ q'[r].pc = p /\ q'[r].obj = x /\ q'[r].gen = k
    BY <1>1, <1>2, <2>2, <2>3, Shape DEF EarlyStep, Settled
  <2>5. s \in Sessions(router[k]) /\ router[k] \in Cache(Sids, Requests) /\ RouterOK(k)
    BY <1>3, <1>5 DEF Sessions, SessionInv
  <2>6. Holds(x, s, k)
    BY <2>1, <2>5 DEF RouterOK
  <2>7. s \in Sids
    BY <2>5, CacheFacts
  <2>8. Holds(x, s, k)'
    BY <2>4, <2>6, EarlyHolds
  <2>9. HandlerOK(r)'
    BY <1>1, <1>2, <1>3, <2>3, <2>4, <2>7, <2>8, EarlyConstants
       DEF HandlerOK, Holds, Settled, EarlyStep, Sids
  <2> QED
    BY <1>1, <2>4, <2>9, RouterKept, EarlyStepKeeps
<1> QED
  BY <1>4, <1>5

LEMMA TouchSessionKeeps ==
    ASSUME SessionInv, NEW r \in Requests, TouchSession(r)
    PROVE  SessionInv'
<1>1. q[r].pc = "touch" /\ UNCHANGED <<cfg, in>>
  BY DEF TouchSession
<1>2. PICK s, k, x, m : s = in[r].sid /\ k = q[r].gen /\ x = q[r].obj /\ m = q[x].model
  OBVIOUS
<1>3. /\ HandlerOK(r) /\ k \in 1..Len(router) /\ s \in Sids /\ Holds(x, s, k)
      /\ router[k] \in Cache(Sids, Requests) /\ RouterOK(k)
  BY <1>1, <1>2 DEF SessionInv, HandlerOK, Settled, Sids
<1>4. q' = [q EXCEPT ![r].pc = "prepare", ![r].model = m]
  BY <1>2 DEF TouchSession
<1>5. /\ EarlyStep(r) /\ q'[r].pc = "prepare" /\ q'[r].obj = x /\ q'[r].gen = k
      /\ q'[r].model = m
  BY <1>1, <1>2, <1>4, Shape DEF EarlyStep, Settled
<1>6. m # {} /\ m \subseteq cfg.profiles[k]
  BY <1>2, <1>3 DEF Holds
<1>7. Len(router') = Len(router) => HandlerOK(r)'
  BY <1>1, <1>2, <1>3, <1>5, <1>6, EarlyConstants DEF HandlerOK, Settled, EarlyStep
<1> DEFINE rt == router[k]
           live == s \in Sessions(rt) /\ rt.entries[s].obj = x
           e == IF live THEN Fresh(rt.entries, s) ELSE rt.entries
<1>8. router' = [router EXCEPT ![k] = Touched(rt, s, e)]
  BY <1>2 DEF TouchSession, Touched, Fresh
<1>9. /\ e \in Entries(Sids, Requests) /\ DOMAIN e = Sessions(rt)
      /\ \A y \in Sessions(rt) : e[y].obj = rt.entries[y].obj
  <2>1. rt.entries \in Entries(Sids, Requests) /\ Sessions(rt) = DOMAIN rt.entries
    BY <1>3, CacheFacts
  <2>2. CASE live
    <3> DEFINE f == rt.entries
               g == Fresh(f, s)
    <3>1. f \in Entries(Sids, Requests) /\ s \in DOMAIN f /\ e = g
      BY <2>1, <2>2
    <3> HIDE DEF f
    <3>2. g \in Entries(Sids, Requests) /\ DOMAIN g = DOMAIN f /\ \A y \in DOMAIN f : g[y].obj = f[y].obj
      BY <3>1, FreshFacts
    <3> HIDE DEF g, e
    <3> QED
      BY <2>1, <3>1, <3>2 DEF f
  <2>3. CASE ~live
    BY <2>1, <2>3
  <2> QED
    BY <2>2, <2>3
<1> HIDE DEF e
<1>10. Fits(rt) /\ rt \in Cache(Sids, Requests)
  BY <1>3 DEF RouterOK
<1> HIDE DEF rt
<1>11. PICK w : w = Touched(rt, s, e)
  OBVIOUS
<1>12. w \in Cache(Sids, Requests) /\ Fits(w) /\ w.entries = e
  BY <1>3, <1>9, <1>10, <1>11, TouchFits
<1>13. \A y \in Sessions(w) : y \in Sessions(router[k]) /\ w.entries[y].obj = router[k].entries[y].obj
  BY <1>9, <1>12 DEF Sessions, rt
<1> QED
  BY <1>3, <1>5, <1>7, <1>8, <1>11, <1>12, <1>13, RouterWritten, EarlyStepKeeps

LEMMA ExpireSessionKeeps ==
    ASSUME SessionInv, NEW r \in Requests, ExpireSession(r)
    PROVE  SessionInv'
<1>1. q[r].pc = "expire" /\ UNCHANGED <<cfg, in>>
  BY DEF ExpireSession
<1>2. PICK s, k : s = in[r].sid /\ k = q[r].gen
  OBVIOUS
<1>3. /\ HandlerOK(r) /\ k \in 1..Len(router) /\ router[k] \in Cache(Sids, Requests) /\ RouterOK(k)
  BY <1>1, <1>2 DEF SessionInv, HandlerOK, Settled
<1> DEFINE n == 404
<1>4. q' = [q EXCEPT ![r].pc = "done", ![r].status = n]
  BY DEF ExpireSession, Respond
<1> HIDE DEF n
<1>5. EarlyStep(r) /\ q'[r].pc = "done" /\ Same(r)
  BY <1>1, <1>4, Shape DEF EarlyStep, Same, Settled
<1>6. Len(router') = Len(router) => HandlerOK(r)'
  BY <1>3, <1>5, EarlyConstants DEF HandlerOK, Same, Settled, EarlyStep
<1> DEFINE rt == router[k]
           expired == Expired(rt, s)
<1>7. router' = [router EXCEPT ![k] = expired]
  BY <1>2 DEF ExpireSession
<1>8. rt \in Cache(Sids, Requests) /\ Fits(rt)
  BY <1>3 DEF RouterOK
<1> HIDE DEF rt
<1>9. expired \in Cache(Sids, Requests) /\ Fits(expired) /\ Keeps(rt, expired)
  BY <1>8, ExpireFits
<1> HIDE DEF expired
<1>10. PICK w : w = expired
  OBVIOUS
<1>11. \A y \in Sessions(w) : y \in Sessions(router[k]) /\ w.entries[y].obj = router[k].entries[y].obj
  BY <1>9, <1>10 DEF Keeps, rt
<1> QED
  BY <1>3, <1>5, <1>6, <1>7, <1>9, <1>10, <1>11, RouterWritten, EarlyStepKeeps

-----------------------------------------------------------------------------
(* Steps of no request: a session ages, the profiles are reloaded.          *)

LEMMA QuietStepKeeps ==
    ASSUME SessionInv, UNCHANGED <<cfg, in, q>>,
           router' \in Seq(Cache(Sids, Requests)), Len(router') >= Len(router),
           \A g \in 1..Len(router') : Fits(router'[g]),
           \A g \in 1..Len(router) : \A s \in Sessions(router'[g]) :
                s \in Sessions(router[g]) /\ router'[g].entries[s].obj = router[g].entries[s].obj,
           \A g \in 1..Len(router') : g > Len(router) => Sessions(router'[g]) = {}
    PROVE  SessionInv'
<1>1. /\ cfg' = cfg /\ in' = in /\ q' = q /\ Requests' = Requests /\ Sids' = Sids
      /\ HandlerFields' = HandlerFields
  BY DEF Requests, Sids, HandlerFields
<1>2. /\ Len(router) \in Nat /\ Len(router') \in Nat /\ router # <<>> /\ Len(router) > 0
  BY DEF SessionInv
<1>3. ASSUME NEW x \in Requests PROVE HandlerOK(x)'
  <2>1. HandlerOK(x)
    BY DEF SessionInv
  <2> QED
    BY <1>1, <1>2, <2>1 DEF HandlerOK, Holds
<1>4. ASSUME NEW g \in 1..Len(router') PROVE RouterOK(g)'
  <2>1. CASE g \in 1..Len(router)
    <3>1. RouterOK(g)
      BY <2>1 DEF SessionInv
    <3>2. ASSUME NEW s \in Sessions(router'[g]) PROVE Holds(router[g].entries[s].obj, s, g)
      BY <2>1, <3>1 DEF RouterOK
    <3> QED
      BY <1>1, <2>1, <3>2 DEF RouterOK, Holds, Fits, Sessions
  <2>2. CASE g \notin 1..Len(router)
    <3>1. g > Len(router)
      BY <1>2, <2>2
    <3>2. Sessions(router'[g]) = {} /\ Fits(router'[g])
      BY <3>1
    <3> QED
      BY <3>2 DEF RouterOK, Fits, Sessions
  <2> QED
    BY <2>1, <2>2
<1>5. router' # <<>>
  BY <1>2
<1> QED
  BY <1>1, <1>3, <1>4, <1>5 DEF SessionInv

LEMMA AgeKeeps ==
    ASSUME SessionInv, NEW s, Age(s)
    PROVE  SessionInv'
<1>1. UNCHANGED <<cfg, in, q>>
  BY DEF Age
<1>2. PICK k : k = Len(router)
  OBVIOUS
<1>3. /\ k \in 1..Len(router) /\ router \in Seq(Cache(Sids, Requests)) /\ Fits(router[k])
      /\ router[k] \in Cache(Sids, Requests) /\ \A g \in 1..Len(router) : Fits(router[g])
  BY <1>2 DEF SessionInv, RouterOK
<1> DEFINE rt == router[k]
           f == rt.entries
           e == Aged(f, s)
           w == [rt EXCEPT !.entries = e]
<1>4. router' = [router EXCEPT ![k] = w]
  BY <1>2 DEF Age, Aged
<1>5. f \in Entries(Sids, Requests) /\ s \in DOMAIN f /\ Sessions(rt) = DOMAIN f /\ rt \in Cache(Sids, Requests)
  BY <1>2, <1>3, CacheFacts DEF Age
<1> HIDE DEF f, w
<1>6. e \in Entries(Sids, Requests) /\ DOMAIN e = DOMAIN f /\ \A y \in DOMAIN f : e[y].obj = f[y].obj
  BY <1>5, AgedFacts
<1> HIDE DEF e, rt
<1>7. w \in Cache(Sids, Requests) /\ w.entries = e /\ w.order = rt.order /\ w.lost = rt.lost
  BY <1>5, <1>6 DEF Cache, w
<1>8. Sessions(w) = Sessions(rt) /\ Fits(w)
  BY <1>3, <1>5, <1>6, <1>7 DEF Sessions, Fits, rt
<1>9. /\ router' \in Seq(Cache(Sids, Requests)) /\ Len(router') = Len(router)
      /\ router'[k] = w /\ \A g \in 1..Len(router) : g # k => router'[g] = router[g]
  BY <1>3, <1>4, <1>7
<1>10. \A g \in 1..Len(router') : Fits(router'[g])
  BY <1>3, <1>8, <1>9
<1>11. ASSUME NEW g \in 1..Len(router), NEW y \in Sessions(router'[g])
       PROVE  y \in Sessions(router[g]) /\ router'[g].entries[y].obj = router[g].entries[y].obj
  <2>1. CASE g # k
    BY <1>9, <2>1
  <2>2. CASE g = k
    BY <1>5, <1>6, <1>7, <1>8, <1>9, <2>2 DEF rt, f
  <2> QED
    BY <2>1, <2>2
<1> QED
  BY <1>1, <1>3, <1>9, <1>10, <1>11, QuietStepKeeps

LEMMA ReloadProfilesKeeps == SessionInv /\ ReloadProfiles => SessionInv'
<1> SUFFICES ASSUME SessionInv, ReloadProfiles PROVE SessionInv'
  OBVIOUS
<1>1. UNCHANGED <<cfg, in, q>>
  BY DEF ReloadProfiles
<1>2. router \in Seq(Cache(Sids, Requests)) /\ \A g \in 1..Len(router) : Fits(router[g])
  BY DEF SessionInv, RouterOK
<1> DEFINE w == NewModelRouter
<1>3. router' = Append(router, w)
  BY DEF ReloadProfiles
<1>4. w \in Cache(Sids, Requests) /\ Fits(w) /\ Sessions(w) = {}
  BY NewCacheFits
<1> HIDE DEF w
<1>5. /\ router' \in Seq(Cache(Sids, Requests)) /\ Len(router') = Len(router) + 1
      /\ router'[Len(router) + 1] = w /\ \A g \in 1..Len(router) : router'[g] = router[g]
      /\ Len(router) \in Nat
  BY <1>2, <1>3, <1>4
<1>6. \A g \in 1..Len(router') : Fits(router'[g])
  BY <1>2, <1>4, <1>5
<1>7. \A g \in 1..Len(router') : g > Len(router) => Sessions(router'[g]) = {}
  BY <1>4, <1>5
<1> QED
  BY <1>1, <1>5, <1>6, <1>7, QuietStepKeeps

LEMMA StutterKeeps == SessionInv /\ UNCHANGED <<cfg, in, q, router>> => SessionInv'
<1> SUFFICES ASSUME SessionInv, UNCHANGED <<cfg, in, q, router>> PROVE SessionInv'
  OBVIOUS
<1>1. router \in Seq(Cache(Sids, Requests)) /\ Len(router) \in Nat
      /\ \A g \in 1..Len(router) : Fits(router[g])
  BY DEF SessionInv, RouterOK
<1> QED
  BY <1>1, QuietStepKeeps

LEMMA SessionStep == SessionInv /\ [Next]_vars => SessionInv'
<1> SUFFICES ASSUME SessionInv, [Next]_vars PROVE SessionInv'
  OBVIOUS
<1>1. ASSUME NEW r \in Requests, Serve(r) \/ ClientGone(r) PROVE SessionInv'
  <2>1. CASE Arrive(r)
    BY <2>1, ArriveKeeps
  <2>2. CASE ResolveModel(r)
    BY <2>2, ResolveModelKeeps
  <2>3. CASE LookupSession(r)
    BY <2>3, LookupSessionKeeps
  <2>4. CASE TouchSession(r)
    BY <2>4, TouchSessionKeeps
  <2>5. CASE ExpireSession(r)
    BY <2>5, ExpireSessionKeeps
  <2>6. CASE \E v \in cfg.vault : Prepare(r, v)
    BY <2>6, PrepareLate, LateStepKeeps
  <2>7. CASE OpenStream(r)
    BY <2>7, OpenStreamLate, LateStepKeeps
  <2>8. CASE OpenCancelled(r)
    BY <2>8, OpenCancelledLate, LateStepKeeps
  <2>9. CASE StreamEnds(r)
    BY <2>9, StreamEndsLate, LateStepKeeps
  <2>10. CASE \E resp \in cfg.resps : Answer(r, resp)
    BY <2>10, AnswerLate, LateStepKeeps
  <2>11. CASE \E kind \in {"retry", "fatal"} : OpenFails(r, kind) \/ ErrorChunk(r, kind)
    BY <2>11, OpenFailsLate, ErrorChunkLate, LateStepKeeps
  <2>12. CASE \E c \in UpstreamNext(q[r].phase) : Chunk(r, c)
    BY <2>12, ChunkLate, LateStepKeeps
  <2>13. CASE ClientGone(r)
    BY <2>13, ClientGoneLate, LateStepKeeps
  <2> QED
    BY <1>1, <2>1, <2>2, <2>3, <2>4, <2>5, <2>6, <2>7, <2>8, <2>9, <2>10, <2>11, <2>12, <2>13
       DEF Serve
<1>2. ASSUME NEW s, Age(s) PROVE SessionInv'
  BY <1>2, AgeKeeps
<1>3. CASE ReloadProfiles
  BY <1>3, ReloadProfilesKeeps
<1>4. CASE ReloadShutdown
  BY <1>4, StutterKeeps DEF ReloadShutdown
<1>5. CASE \E ok \in BOOLEAN : ReloadInit(ok)
  BY <1>5, StutterKeeps DEF ReloadInit
<1>6. CASE UNCHANGED gwVars
  BY <1>6, StutterKeeps DEF gwVars
<1>7. Next \/ UNCHANGED vars
  OBVIOUS
<1> QED
  BY <1>1, <1>2, <1>3, <1>4, <1>5, <1>6, <1>7 DEF Next, GatewayNext, vars

(* However requests of a session interleave between the two locks of a     *)
(* lookup, sessions expire and are evicted, and the profiles are reloaded, *)
(* a request is only rewritten to a model its own session resolved among   *)
(* the profiles of the router it found; every session can be evicted, and  *)
(* the cache outgrows its limit by no more than the lookups that were      *)
(* overtaken (ModelRouter in routing.go).                                  *)
THEOREM SessionCacheIsSound == Spec => []SessionsSound
<1>1. Spec => []SessionInv
  BY SessionsInitially, SessionStep, PTL DEF Spec
<1> QED
  BY <1>1, SessionHolds, PTL
=============================================================================
