--------------------------- MODULE MediaPathProofs ---------------------------
(***************************************************************************)
(* Proofs about the media endpoints and what the kernel lets through, for   *)
(* every finite set of calls and of hosts, any ports, interfaces, and       *)
(* descriptions of media, and for frames of every form and length.          *)
(***************************************************************************)
EXTENDS MediaPath, FiniteSetTheorems, WellFoundedInduction, TLAPS

(***************************************************************************)
(* The inductive invariant.                                                *)
(***************************************************************************)

\* The operations a handler can have left to make.
Job == [op : {"retain", "release"}, key : Endpoint]
       \cup [op : {"learned", "registerRTCP"}, call : Calls, key : Endpoint]
       \cup [op : {"register"}, call : Calls, medium : Medium]
       \cup [op : {"replace"}, call : Calls]
       \cup [op : {"dropAliases"}, call : Calls, keys : SUBSET Endpoint,
             by : {"consumer", "ticker"}]

\* TypeOK but for the gauge, which is a number only because it is accounted for.
Typed ==
    /\ owners \in [Endpoint -> Seq(Calls)] /\ order \in [Calls -> Seq(Endpoint)]
    /\ media \in [Endpoint -> Calls \cup {Nobody}]
    /\ sourceAliases \in [Calls -> [Endpoint -> Endpoint \cup {Nobody}]]
    /\ mediaAliases \in [Endpoint -> Calls \cup {Nobody}]
    /\ callRTCP \in [Calls -> SUBSET Endpoint]
    /\ streams \in [Endpoint -> Calls \cup {Nobody}]
    /\ observed \subseteq Calls /\ heard \subseteq Calls
    /\ refs \in [Endpoint -> Nat]
    /\ dirty \in [Endpoint -> {"clean", "present", "absent"}]
    /\ present \in [Interfaces -> SUBSET Endpoint]
    /\ aliasLabels \subseteq [call : Calls, key : Endpoint]
    /\ owed \in [Calls -> Nat]
    /\ todo \in Seq(Job)

IndexesAgree ==
    /\ \A k \in Endpoint : /\ IsInjective(owners[k])
                           /\ \A c \in Calls : c \in ToSet(owners[k]) <=> Owns(c, k)
    /\ \A c \in Calls : IsInjective(order[c])

\* The one endpoint of call c whose learned source k is.
AliasesSingle ==
    \A k \in Endpoint, c \in Calls :
        IF mediaAliases[k] = c
        THEN /\ media[k] = Nobody
             /\ \E p \in Endpoint : /\ Owns(c, p) /\ sourceAliases[c][p] = k
                                    /\ \A q \in Endpoint : sourceAliases[c][q] = k => q = p
        ELSE \A p \in Endpoint : sourceAliases[c][p] # k

\* References are taken before anything else is done, so that a release never
\* waits behind one.
RetainsFirst ==
    \A m, n \in DOMAIN todo :
        m < n /\ todo[n].op = "retain" => todo[m].op = "retain"

\* The account of the references.
Counted ==
    \A k \in Endpoint :
        refs[k] + Pending("retain", k) = Ownerships(k) + Pending("release", k)

\* A learned port gets its label after its reference, and before all else.
LearnedIsLast ==
    \A n \in DOMAIN todo : todo[n].op = "learned" =>
        /\ mediaAliases[todo[n].key] = todo[n].call
        /\ [call |-> todo[n].call, key |-> todo[n].key] \notin aliasLabels
        /\ \A m \in DOMAIN todo : m # n => todo[m].op = "retain"

\* The labels a handler drops are those of ports that are lost.
DropsAreStale ==
    \A n \in DOMAIN todo : todo[n].op = "dropAliases" =>
        \A k \in todo[n].keys : mediaAliases[k] # todo[n].call

DropPending(a) ==
    \E n \in DOMAIN todo : /\ todo[n].op = "dropAliases"
                           /\ todo[n].call = a.call /\ a.key \in todo[n].keys
LearnedPending(a) ==
    \E n \in DOMAIN todo : /\ todo[n].op = "learned"
                           /\ todo[n].call = a.call /\ todo[n].key = a.key

LabelsLive == \A a \in aliasLabels : mediaAliases[a.key] = a.call \/ DropPending(a)

AliasesLabelled ==
    \A a \in [call : Calls, key : Endpoint] :
        mediaAliases[a.key] = a.call => a \in aliasLabels \/ LearnedPending(a)

\* What is owed, one pair for each release: its cardinality is the sum.
Debts == {d \in Calls \X Nat : 1 <= d[2] /\ d[2] <= owed[d[1]]}
GaugeAccounted ==
    /\ IsFiniteSet(Debts)
    /\ gauge = Cardinality(aliasLabels) + Cardinality(Debts)

\* Until the old revision is replaced, only its references are taken, and each
\* will be released after the replacement.
ReplaceCovered ==
    \A n \in DOMAIN todo : todo[n].op = "replace" =>
        /\ \A m \in DOMAIN todo : m < n => todo[m].op = "retain"
        /\ \A k \in ToSet(Owned(todo[n].call)) :
              \E l \in DOMAIN todo : n < l /\ todo[l].op = "release" /\ todo[l].key = k

\* A release that comes before a registration of the same endpoint is not the last
\* one: the endpoint has an owner, or will have by then, or another release follows.
ReleasesEndpoint(n, k) == n \in DOMAIN todo /\ todo[n].op = "release" /\ todo[n].key = k
RegistersEndpoint(n, k) ==
    n \in DOMAIN todo /\ todo[n].op = "register" /\ todo[n].medium.rtp = k
KeptCovered ==
    \A k \in Endpoint, n, m \in DOMAIN todo :
        n < m /\ ReleasesEndpoint(n, k) /\ RegistersEndpoint(m, k) =>
            \/ owners[k] # <<>> /\ \A r \in DOMAIN todo : todo[r].op # "replace"
            \/ \E l \in DOMAIN todo : l < n /\ RegistersEndpoint(l, k)
            \/ \E l \in DOMAIN todo : n < l /\ ReleasesEndpoint(l, k)

IInv == /\ Typed /\ IndexesAgree
        /\ LabelsAreOwners /\ AliasesSingle /\ StreamsOwned
        /\ RetainsFirst /\ Counted /\ MapsFollowRefs
        /\ LearnedIsLast /\ DropsAreStale /\ LabelsLive /\ AliasesLabelled
        /\ GaugeAccounted
        /\ ReplaceCovered /\ KeptCovered

-----------------------------------------------------------------------------
(* Sequences.                                                              *)

LEMMA Concat ==
    ASSUME NEW S, NEW s \in Seq(S), NEW t \in Seq(S)
    PROVE  /\ s \o t \in Seq(S) /\ Len(s \o t) = Len(s) + Len(t)
           /\ \A p \in 1..Len(s) : (s \o t)[p] = s[p]
           /\ \A p \in (Len(s) + 1)..(Len(s) + Len(t)) : (s \o t)[p] = t[p - Len(s)]
OBVIOUS

LEMMA SameElements ==
    ASSUME NEW S, NEW s \in Seq(S), NEW t \in Seq(S), Len(s) = Len(t),
           \A n \in 1..Len(s) : s[n] = t[n]
    PROVE  s = t
OBVIOUS

LEMMA TwoElements == \A x, y : <<x>> \o <<y>> = <<x, y>>
<1> TAKE x, y
<1> DEFINE S == {x, y}
<1>1. <<x>> \in Seq(S) /\ <<y>> \in Seq(S) /\ <<x, y>> \in Seq(S)  OBVIOUS
<1>2. <<x>> \o <<y>> \in Seq(S) /\ Len(<<x>> \o <<y>>) = 2  BY <1>1
<1>3. (<<x>> \o <<y>>)[1] = x /\ (<<x>> \o <<y>>)[2] = y  BY <1>1
<1> DEFINE s == <<x>> \o <<y>>
           t == <<x, y>>
<1>4. s \in Seq(S) /\ t \in Seq(S) /\ Len(s) = 2 /\ Len(t) = 2  BY <1>1, <1>2
<1>5. s[1] = t[1] /\ s[2] = t[2]  BY <1>3
<1> HIDE DEF s, t, S
<1>6. \A n \in 1..Len(s) : s[n] = t[n]  BY <1>4, <1>5
<1>7. s = t  BY <1>4, <1>6, SameElements
<1> QED BY <1>7 DEF s, t

LEMMA ToSetConcat ==
    ASSUME NEW S, NEW v \in Seq(S), NEW w \in Seq(S), NEW k
    PROVE  k \in ToSet(v \o w) <=> k \in ToSet(v) \/ k \in ToSet(w)
<1>1. DOMAIN (v \o w) = 1..(Len(v) + Len(w))  BY Concat
<1>2. ASSUME k \in ToSet(v \o w) PROVE k \in ToSet(v) \/ k \in ToSet(w)
    <2>1. PICK n \in 1..(Len(v) + Len(w)) : (v \o w)[n] = k
        BY <1>1, <1>2 DEF ToSet
    <2>2. CASE n \in 1..Len(v)  BY <2>1, <2>2, Concat DEF ToSet
    <2>3. CASE n \notin 1..Len(v)
        <3>1. w[n - Len(v)] = k /\ n - Len(v) \in DOMAIN w  BY <2>1, <2>3, Concat
        <3> QED BY <3>1 DEF ToSet
    <2> QED BY <2>2, <2>3
<1>3. ASSUME k \in ToSet(v) PROVE k \in ToSet(v \o w)
    <2>1. PICK n \in 1..Len(v) : v[n] = k  BY <1>3 DEF ToSet
    <2>2. n \in DOMAIN (v \o w) /\ (v \o w)[n] = k  BY <1>1, <2>1, Concat
    <2> QED BY <2>2 DEF ToSet
<1>4. ASSUME k \in ToSet(w) PROVE k \in ToSet(v \o w)
    <2>1. PICK n \in 1..Len(w) : w[n] = k  BY <1>4 DEF ToSet
    <2>2. n + Len(v) \in DOMAIN (v \o w) /\ n + Len(v) - Len(v) = n  BY <1>1, <2>1
    <2>3. (v \o w)[n + Len(v)] = k  BY <1>1, <2>1, <2>2, Concat
    <2> QED BY <2>2, <2>3 DEF ToSet
<1> QED BY <1>2, <1>3, <1>4

LEMMA ConcatAt ==
    ASSUME NEW S, NEW s \in Seq(S), NEW t \in Seq(S), NEW a, NEW b, Len(s) = a, Len(t) = b
    PROVE  /\ s \o t \in Seq(S) /\ Len(s \o t) = a + b
           /\ \A p \in 1..a : (s \o t)[p] = s[p]
           /\ \A p \in 1..b : (s \o t)[a + p] = t[p]
OBVIOUS

LEMMA ConcatTail ==
    ASSUME NEW S, NEW s \in Seq(S), NEW t \in Seq(S), t # <<>>
    PROVE  /\ s \o Tail(t) \in Seq(S) /\ Len(s \o Tail(t)) = Len(s) + Len(t) - 1
           /\ \A p \in 1..Len(s) : (s \o Tail(t))[p] = s[p]
           /\ \A p \in 2..Len(t) : (s \o Tail(t))[Len(s) + p - 1] = t[p]
OBVIOUS

\* A sequence without repetitions in which e is somewhere, or nowhere.
LEMMA FirstOf ==
    ASSUME NEW S, NEW s \in Seq(S), NEW e, NEW p \in 1..Len(s), s[p] = e, IsInjective(s)
    PROVE  RemoveFirst(s, e) = SubSeq(s, 1, p - 1) \o SubSeq(s, p + 1, Len(s))
<1>1. {i \in 1..Len(s) : s[i] = e} = {p}  BY DEF IsInjective
<1>2. Min({p}) = p  BY DEF Min
<1> QED BY <1>1, <1>2 DEF RemoveFirst, SelectInSeq, RemoveAt

LEMMA Removed ==
    ASSUME NEW S, NEW s \in Seq(S), NEW e, IsInjective(s)
    PROVE  LET t == RemoveFirst(s, e)
           IN /\ t \in Seq(S) /\ IsInjective(t) /\ ToSet(t) = ToSet(s) \ {e}
              /\ Len(s) = Len(t) + (IF e \in ToSet(s) THEN 1 ELSE 0)
              /\ e \notin ToSet(s) => t = s
<1> DEFINE t == RemoveFirst(s, e)
<1>1. CASE e \notin ToSet(s)
    <2>1. t = s  BY <1>1 DEF RemoveFirst, ToSet
    <2> QED BY <1>1, <2>1
<1>2. CASE e \in ToSet(s)
    <2>1. PICK p \in 1..Len(s) : s[p] = e  BY <1>2 DEF ToSet
    <2>2. t = SubSeq(s, 1, p - 1) \o SubSeq(s, p + 1, Len(s))  BY <2>1, FirstOf
    <2>3. /\ t \in Seq(S) /\ Len(t) = Len(s) - 1
          /\ \A i \in 1..(p - 1) : t[i] = s[i]
          /\ \A i \in p..(Len(s) - 1) : t[i] = s[i + 1]
        <3> DEFINE u == SubSeq(s, 1, p - 1)
                   v == SubSeq(s, p + 1, Len(s))
        <3>1. /\ u \in Seq(S) /\ Len(u) = p - 1
              /\ \A i \in 1..(p - 1) : u[i] = s[i]
            OBVIOUS
        <3>2. /\ v \in Seq(S) /\ Len(v) = Len(s) - p
              /\ \A i \in 1..(Len(s) - p) : v[i] = s[p + i]
            OBVIOUS
        <3> HIDE DEF u, v
        <3>3. /\ u \o v \in Seq(S) /\ Len(u \o v) = Len(s) - 1
              /\ \A i \in 1..(p - 1) : (u \o v)[i] = u[i]
              /\ \A i \in p..(Len(s) - 1) : (u \o v)[i] = v[i - (p - 1)]
            <4>1. p - 1 + 1 = p /\ p - 1 + (Len(s) - p) = Len(s) - 1  OBVIOUS
            <4> QED BY <3>1, <3>2, <4>1, Concat
        <3>4. ASSUME NEW i \in p..(Len(s) - 1) PROVE v[i - (p - 1)] = s[i + 1]
            <4>1. i - (p - 1) \in 1..(Len(s) - p) /\ p + (i - (p - 1)) = i + 1  OBVIOUS
            <4> QED BY <3>2, <4>1
        <3>5. t = u \o v  BY <2>2 DEF u, v
        <3> QED BY <3>1, <3>3, <3>4, <3>5
    <2>4. IsInjective(t)
        <3> SUFFICES ASSUME NEW i \in 1..Len(t), NEW j \in 1..Len(t), t[i] = t[j]
                     PROVE  i = j
            BY <2>3 DEF IsInjective
        <3> DEFINE at(n) == IF n < p THEN n ELSE n + 1
        <3>1. at(i) \in DOMAIN s /\ at(j) \in DOMAIN s /\ s[at(i)] = s[at(j)]  BY <2>3
        <3> QED BY <3>1 DEF IsInjective
    <2>5. ToSet(t) \subseteq ToSet(s) \ {e}
        <3> SUFFICES ASSUME NEW i \in 1..Len(t) PROVE t[i] \in ToSet(s) \ {e}
            BY <2>3 DEF ToSet
        <3> DEFINE n == IF i < p THEN i ELSE i + 1
        <3>1. n \in DOMAIN s /\ t[i] = s[n] /\ n # p  BY <2>3
        <3> QED BY <3>1, <2>1 DEF ToSet, IsInjective
    <2>6. ToSet(s) \ {e} \subseteq ToSet(t)
        <3> SUFFICES ASSUME NEW i \in 1..Len(s), s[i] # e PROVE s[i] \in ToSet(t)
            BY DEF ToSet
        <3> DEFINE n == IF i < p THEN i ELSE i - 1
        <3>1. n \in 1..Len(t) /\ t[n] = s[i]  BY <2>1, <2>3
        <3> QED BY <3>1, <2>3 DEF ToSet
    <2> QED BY <1>2, <2>3, <2>4, <2>5, <2>6
<1> QED BY <1>1, <1>2

LEMMA SeqOfSet ==
    ASSUME NEW S, IsFiniteSet(S)
    PROVE  /\ SetToSeq(S) \in Seq(S) /\ ToSet(SetToSeq(S)) = S
           /\ IsInjective(SetToSeq(S))
<1>1. PICK n \in Nat : ExistsBijection(1..n, S)  BY FS_NatBijection
<1>2. Cardinality(S) = n  BY <1>1, FS_CountingElements
<1>3. PICK f \in [1..n -> S] : IsInjective(f)
    BY <1>1 DEF ExistsBijection, Bijection, Injection
<1>4. SetToSeq(S) \in [1..n -> S] /\ IsInjective(SetToSeq(S))
    BY <1>2, <1>3 DEF SetToSeq
<1> DEFINE g == SetToSeq(S)
<1>5. Cardinality(1..n) = n  BY FS_Interval
<1>6. g \in Surjection(1..n, S)
    BY <1>2, <1>4, <1>5, FS_Injection DEF Injection
<1>7. g \in Seq(S) /\ DOMAIN g = 1..n  BY <1>4
<1>8. ToSet(g) = S  BY <1>4, <1>6, <1>7 DEF Surjection, ToSet
<1> QED BY <1>4, <1>7, <1>8

-----------------------------------------------------------------------------
(* How often the operations of a sequence take or release an endpoint.     *)

Places(op, k, s) == {n \in DOMAIN s : s[n].op = op /\ s[n].key = k}
Count(op, k, s) == Cardinality(Places(op, k, s))

LEMMA CountType ==
    ASSUME NEW S, NEW s \in Seq(S), NEW op, NEW k
    PROVE  IsFiniteSet(Places(op, k, s)) /\ Count(op, k, s) \in Nat
<1>1. IsFiniteSet(1..Len(s))  BY FS_Interval
<1>2. Places(op, k, s) \subseteq 1..Len(s)  BY DEF Places
<1> QED BY <1>1, <1>2, FS_Subset, FS_CardinalityType DEF Count

LEMMA CountConcat ==
    ASSUME NEW S, NEW s \in Seq(S), NEW t \in Seq(S), NEW op, NEW k
    PROVE  Count(op, k, s \o t) = Count(op, k, s) + Count(op, k, t)
<1> DEFINE A == Places(op, k, s)
           T == Places(op, k, t)
           B == {n \in (Len(s) + 1)..(Len(s) + Len(t)) :
                    t[n - Len(s)].op = op /\ t[n - Len(s)].key = k}
           f == [n \in T |-> n + Len(s)]
<1>1. Places(op, k, s \o t) = A \cup B
    <2>1. DOMAIN (s \o t) = 1..(Len(s) + Len(t))  BY Concat
    <2> QED BY <2>1, Concat DEF Places
<1>2. f \in Bijection(T, B)
    <2>1. f \in [T -> B]  BY DEF Places
    <2>2. \A n \in B : n - Len(s) \in T /\ f[n - Len(s)] = n  BY DEF Places
    <2>3. IsInjective(f)  BY DEF IsInjective, Places
    <2> QED BY <2>1, <2>2, <2>3 DEF Bijection, Injection, Surjection
<1>3. IsFiniteSet(A) /\ IsFiniteSet(T)  BY CountType
<1>4. IsFiniteSet(B) /\ Cardinality(B) = Cardinality(T)
    BY <1>2, <1>3, FS_Bijection DEF ExistsBijection
<1>5. A \cap B = {}  BY DEF Places
<1>6. Cardinality(A \cup B) = Cardinality(A) + Cardinality(B)
    <2> HIDE DEF A, B
    <2>1. Cardinality(A \cap B) = 0  BY <1>5, FS_EmptySet, Zenon
    <2>2. Cardinality(A) \in Nat /\ Cardinality(B) \in Nat
        BY <1>3, <1>4, FS_CardinalityType
    <2>3. Cardinality(A \cup B)
              = Cardinality(A) + Cardinality(B) - Cardinality(A \cap B)
        BY <1>3, <1>4, FS_Union
    <2> QED BY <2>1, <2>2, <2>3
<1> QED BY <1>1, <1>4, <1>6 DEF Count

LEMMA CountNone ==
    ASSUME NEW S, NEW s \in Seq(S), NEW op, NEW k,
           \A n \in DOMAIN s : ~(s[n].op = op /\ s[n].key = k)
    PROVE  Count(op, k, s) = 0
BY FS_EmptySet DEF Count, Places

LEMMA CountEmpty == \A op, k : Count(op, k, <<>>) = 0
BY FS_EmptySet DEF Count, Places

LEMMA CountOne ==
    ASSUME NEW j, NEW op, NEW k
    PROVE  Count(op, k, <<j>>) = IF j.op = op /\ j.key = k THEN 1 ELSE 0
<1> DEFINE here == Places(op, k, <<j>>)
<1>1. CASE j.op = op /\ j.key = k
    <2>1. here = {1}  BY <1>1 DEF Places
    <2> QED BY <1>1, <2>1, FS_Singleton DEF Count
<1>2. CASE ~(j.op = op /\ j.key = k)
    <2>1. here = {}  BY <1>2 DEF Places
    <2> QED BY <1>2, <2>1, FS_EmptySet DEF Count
<1> QED BY <1>1, <1>2

LEMMA CountEach ==
    ASSUME NEW S, NEW s \in Seq(S), IsInjective(s), NEW op, NEW k
    PROVE  Count(op, k, Each(op, s)) = IF k \in ToSet(s) THEN 1 ELSE 0
<1> DEFINE here == Places(op, k, Each(op, s))
<1>1. here = {n \in DOMAIN s : s[n] = k}  BY DEF Places, Each
<1>2. CASE k \in ToSet(s)
    <2>1. PICK n \in DOMAIN s : s[n] = k  BY <1>2 DEF ToSet
    <2>2. here = {n}  BY <1>1, <2>1 DEF IsInjective
    <2> QED BY <1>2, <2>2, FS_Singleton DEF Count
<1>3. CASE k \notin ToSet(s)
    <2>1. here = {}  BY <1>1, <1>3 DEF ToSet
    <2> QED BY <1>3, <2>1, FS_EmptySet DEF Count
<1> QED BY <1>2, <1>3

\* The first operation done, those of s before the others.
LEMMA CountStep ==
    ASSUME NEW S, NEW s \in Seq(S), NEW t \in Seq(S), t # <<>>, NEW op, NEW k
    PROVE  Count(op, k, s \o Tail(t)) + Count(op, k, <<Head(t)>>)
               = Count(op, k, s) + Count(op, k, t)
<1> DEFINE h == <<Head(t)>>
           r == Tail(t)
<1>1. t = h \o r /\ h \in Seq(S) /\ r \in Seq(S)  OBVIOUS
<1> HIDE DEF h, r
<1>2. Count(op, k, h \o r) = Count(op, k, h) + Count(op, k, r)
    BY <1>1, CountConcat
<1>3. Count(op, k, s \o r) = Count(op, k, s) + Count(op, k, r)
    BY <1>1, CountConcat
<1>4. /\ Count(op, k, s) \in Nat /\ Count(op, k, r) \in Nat
      /\ Count(op, k, h) \in Nat
    BY <1>1, CountType
<1>5. Count(op, k, s \o r) + Count(op, k, h) = Count(op, k, s) + Count(op, k, t)
    BY <1>1, <1>2, <1>3, <1>4
<1> QED BY <1>5 DEF h, r

LEMMA PendingIs == \A op, k : Pending(op, k) = Count(op, k, todo)
BY DEF Pending, Count, Places

-----------------------------------------------------------------------------
(* The operations that a handler lists.                                    *)

LEMMA NobodyIsNone == Nobody \notin Calls /\ Nobody \notin Endpoint
BY ConstantsAssumption DEF ConstantsAssumption

LEMMA CallsFinite == IsFiniteSet(Calls)
BY FiniteAssumption DEF FiniteAssumption

LEMMA EndpointsFinite == \A K \in SUBSET Endpoint : IsFiniteSet(K)
<1> DEFINE D == Hosts \X (1..MaxPort)
           f == [d \in D |-> [ip |-> d[1], port |-> d[2]]]
<1>1. IsFiniteSet(D)
    <2>1. IsFiniteSet(1..MaxPort)
        BY ConstantsAssumption, FS_Interval DEF ConstantsAssumption
    <2> QED BY <2>1, FiniteAssumption, FS_Product DEF FiniteAssumption
<1>2. f \in Surjection(D, Endpoint)
    <2>1. f \in [D -> Endpoint]  BY DEF Endpoint
    <2>2. ASSUME NEW e \in Endpoint PROVE \E d \in D : f[d] = e
        <3>1. <<e.ip, e.port>> \in D /\ f[<<e.ip, e.port>>] = e  BY DEF Endpoint
        <3> QED BY <3>1
    <2> QED BY <2>1, <2>2 DEF Surjection
<1> QED BY <1>1, <1>2, FS_Surjection, FS_Subset

LEMMA EachType ==
    ASSUME NEW s \in Seq(Endpoint), NEW op \in {"retain", "release"}
    PROVE  /\ Each(op, s) \in Seq(Job) /\ DOMAIN Each(op, s) = DOMAIN s
           /\ Len(Each(op, s)) = Len(s)
           /\ \A n \in DOMAIN s : Each(op, s)[n] = [op |-> op, key |-> s[n]]
BY DEF Each, Job

LEMMA EachConcat ==
    ASSUME NEW v \in Seq(Endpoint), NEW w \in Seq(Endpoint), NEW op \in {"retain", "release"}
    PROVE  Each(op, v \o w) = Each(op, v) \o Each(op, w)
<1> DEFINE p == Each(op, v)
           q == Each(op, w)
           r == Each(op, v \o w)
<1>1. /\ v \o w \in Seq(Endpoint) /\ Len(v \o w) = Len(v) + Len(w)
      /\ \A n \in 1..Len(v) : (v \o w)[n] = v[n]
      /\ \A n \in 1..(Len(v) + Len(w)) : n \notin 1..Len(v) => (v \o w)[n] = w[n - Len(v)]
    OBVIOUS
<1>2. /\ p \in Seq(Job) /\ Len(p) = Len(v)
      /\ \A n \in 1..Len(v) : p[n] = [op |-> op, key |-> v[n]]
    BY EachType
<1>3. /\ q \in Seq(Job) /\ Len(q) = Len(w)
      /\ \A n \in 1..Len(w) : q[n] = [op |-> op, key |-> w[n]]
    BY EachType
<1>4. /\ r \in Seq(Job) /\ Len(r) = Len(v) + Len(w)
      /\ \A n \in 1..(Len(v) + Len(w)) : r[n] = [op |-> op, key |-> (v \o w)[n]]
    <2> DEFINE x == v \o w
    <2>1. x \in Seq(Endpoint) /\ Len(x) = Len(v) + Len(w)  BY <1>1
    <2>2. DOMAIN x = 1..(Len(v) + Len(w))  BY <2>1
    <2> HIDE DEF x
    <2>3. /\ Each(op, x) \in Seq(Job) /\ Len(Each(op, x)) = Len(v) + Len(w)
          /\ \A n \in 1..(Len(v) + Len(w)) : Each(op, x)[n] = [op |-> op, key |-> x[n]]
        BY <2>1, <2>2, EachType
    <2> QED BY <2>3 DEF x
<1> HIDE DEF p, q, r
<1>5. /\ p \o q \in Seq(Job) /\ Len(p \o q) = Len(v) + Len(w)
      /\ \A n \in 1..Len(v) : (p \o q)[n] = p[n]
      /\ \A n \in 1..(Len(v) + Len(w)) : n \notin 1..Len(v) => (p \o q)[n] = q[n - Len(v)]
    <2>1. p \in Seq(Job) /\ q \in Seq(Job)  BY <1>2, <1>3
    <2>2. /\ p \o q \in Seq(Job) /\ Len(p \o q) = Len(p) + Len(q)
          /\ \A n \in 1..Len(p) : (p \o q)[n] = p[n]
          /\ \A n \in (Len(p) + 1)..(Len(p) + Len(q)) : (p \o q)[n] = q[n - Len(p)]
        BY <2>1, Concat
    <2>3. Len(p) = Len(v) /\ Len(q) = Len(w)  BY <1>2, <1>3
    <2> QED BY <2>2, <2>3
<1>6. ASSUME NEW n \in 1..(Len(v) + Len(w)) PROVE r[n] = (p \o q)[n]
    <2>1. CASE n \in 1..Len(v)  BY <1>1, <1>2, <1>4, <1>5, <2>1
    <2>2. CASE n \notin 1..Len(v)
        <3>1. n - Len(v) \in 1..Len(w)  BY <2>2
        <3> QED BY <1>1, <1>3, <1>4, <1>5, <2>2, <3>1
    <2> QED BY <2>1, <2>2
<1>7. r = p \o q
    <2>1. \A n \in 1..Len(r) : r[n] = (p \o q)[n]  BY <1>4, <1>6
    <2>2. r \in Seq(Job) /\ p \o q \in Seq(Job) /\ Len(r) = Len(p \o q)  BY <1>4, <1>5
    <2> QED BY <2>1, <2>2, SameElements
<1> QED BY <1>7 DEF p, q, r

LEMMA EachOne ==
    ASSUME NEW k \in Endpoint, NEW op \in {"retain", "release"}
    PROVE  /\ Each(op, <<k>>) = <<[op |-> op, key |-> k]>>
           /\ [op |-> op, key |-> k] \in Job
BY DEF Each, Job

LEMMA RegistrationsType ==
    ASSUME NEW c \in Calls, NEW sdp \in Descriptions
    PROVE  /\ Registrations(c, sdp) \in Seq(Job)
           /\ DOMAIN Registrations(c, sdp) = DOMAIN sdp
           /\ \A n \in DOMAIN sdp : /\ sdp[n] \in Medium
                                    /\ Registrations(c, sdp)[n]
                                          = [op |-> "register", call |-> c, medium |-> sdp[n]]
BY DescriptionsAssumption DEF DescriptionsAssumption, Registrations, Job

LEMMA AliasesType ==
    ASSUME Typed, NEW c \in Calls
    PROVE  AliasesOf(c) \subseteq Endpoint
BY DEF Typed, AliasesOf

LEMMA OwnedIs ==
    ASSUME Typed, IndexesAgree, NEW c \in Calls
    PROVE  /\ Owned(c) \in Seq(Endpoint)
           /\ \A k : Count("release", k, Each("release", Owned(c)))
                        = (IF Owns(c, k) THEN 1 ELSE 0) + (IF k \in AliasesOf(c) THEN 1 ELSE 0)
                          + (IF k \in callRTCP[c] THEN 1 ELSE 0)
           /\ Each("retain", Owned(c)) \in Seq(Job)
           /\ \A k : Count("retain", k, Each("retain", Owned(c)))
                        = Count("release", k, Each("release", Owned(c)))
           /\ \A k : k \in ToSet(Owned(c)) <=> Owns(c, k) \/ k \in AliasesOf(c) \/ k \in callRTCP[c]
<1> DEFINE s == order[c]
           t == SetToSeq(AliasesOf(c))
           u == SetToSeq(callRTCP[c])
<1>1. s \in Seq(Endpoint) /\ IsInjective(s)  BY DEF Typed, IndexesAgree
<1>2. t \in Seq(Endpoint) /\ IsInjective(t) /\ ToSet(t) = AliasesOf(c)
    BY AliasesType, EndpointsFinite, SeqOfSet
<1>3. u \in Seq(Endpoint) /\ IsInjective(u) /\ ToSet(u) = callRTCP[c]
    <2>1. callRTCP[c] \in SUBSET Endpoint  BY DEF Typed
    <2> QED BY <2>1, EndpointsFinite, SeqOfSet
<1>4. Owned(c) = (s \o t) \o u  BY DEF Owned
<1> HIDE DEF s, t, u
<1>5. s \o t \in Seq(Endpoint) /\ (s \o t) \o u \in Seq(Endpoint)  BY <1>1, <1>2, <1>3
<1>6. ASSUME NEW op \in {"retain", "release"}, NEW k
      PROVE  Count(op, k, Each(op, (s \o t) \o u))
                = (IF k \in ToSet(s) THEN 1 ELSE 0) + (IF k \in ToSet(t) THEN 1 ELSE 0)
                  + (IF k \in ToSet(u) THEN 1 ELSE 0)
    <2>1. Each(op, s \o t) = Each(op, s) \o Each(op, t)  BY <1>1, <1>2, EachConcat
    <2>2. Each(op, (s \o t) \o u) = (Each(op, s) \o Each(op, t)) \o Each(op, u)
        <3>1. Each(op, (s \o t) \o u) = Each(op, s \o t) \o Each(op, u)
            BY <1>3, <1>5, EachConcat
        <3> QED BY <2>1, <3>1
    <2>3. /\ Each(op, s) \in Seq(Job) /\ Each(op, t) \in Seq(Job) /\ Each(op, u) \in Seq(Job)
          /\ Each(op, s) \o Each(op, t) \in Seq(Job)
        BY <1>1, <1>2, <1>3, EachType
    <2>4. Count(op, k, (Each(op, s) \o Each(op, t)) \o Each(op, u))
             = Count(op, k, Each(op, s) \o Each(op, t)) + Count(op, k, Each(op, u))
        BY <2>3, CountConcat
    <2>5. Count(op, k, Each(op, s) \o Each(op, t))
             = Count(op, k, Each(op, s)) + Count(op, k, Each(op, t))
        BY <2>3, CountConcat
    <2>6. /\ Count(op, k, Each(op, s)) = (IF k \in ToSet(s) THEN 1 ELSE 0)
          /\ Count(op, k, Each(op, t)) = (IF k \in ToSet(t) THEN 1 ELSE 0)
          /\ Count(op, k, Each(op, u)) = (IF k \in ToSet(u) THEN 1 ELSE 0)
        BY <1>1, <1>2, <1>3, CountEach
    <2> QED BY <2>2, <2>4, <2>5, <2>6
<1>7. \A k : k \in ToSet((s \o t) \o u) <=> k \in ToSet(s) \/ k \in ToSet(t) \/ k \in ToSet(u)
    BY <1>1, <1>2, <1>3, <1>5, ToSetConcat
<1>8. \A k : k \in ToSet(s) <=> Owns(c, k)  BY DEF s, Owns
<1>9. /\ \A k : Count("release", k, Each("release", (s \o t) \o u))
                 = (IF Owns(c, k) THEN 1 ELSE 0) + (IF k \in AliasesOf(c) THEN 1 ELSE 0)
                   + (IF k \in callRTCP[c] THEN 1 ELSE 0)
      /\ \A k : Count("retain", k, Each("retain", (s \o t) \o u))
                 = Count("release", k, Each("release", (s \o t) \o u))
    BY <1>2, <1>3, <1>6, <1>8
<1>10. Each("retain", (s \o t) \o u) \in Seq(Job)  BY <1>5, EachType
<1>11. \A k : k \in ToSet((s \o t) \o u)
                  <=> Owns(c, k) \/ k \in AliasesOf(c) \/ k \in callRTCP[c]
    BY <1>2, <1>3, <1>7, <1>8
<1> QED BY <1>4, <1>5, <1>9, <1>10, <1>11

\* The first operation makes way for those of nx.
LEMMA AfterHead ==
    ASSUME NEW t \in Seq(Job), t # <<>>, NEW nx \in Seq(Job), NEW u, u = nx \o Tail(t)
    PROVE  /\ u \in Seq(Job) /\ Len(u) = Len(nx) + Len(t) - 1
           /\ \A i \in 1..Len(nx) : i \in DOMAIN u /\ u[i] = nx[i]
           /\ \A i \in DOMAIN u : i > Len(nx) =>
                i - Len(nx) + 1 \in 2..Len(t) /\ u[i] = t[i - Len(nx) + 1]
           /\ \A j \in 2..Len(t) : j + Len(nx) - 1 \in DOMAIN u /\ u[j + Len(nx) - 1] = t[j]
<1>1. /\ u \in Seq(Job) /\ Len(u) = Len(nx) + Len(t) - 1
      /\ \A i \in 1..Len(nx) : u[i] = nx[i]
      /\ \A p \in 2..Len(t) : u[Len(nx) + p - 1] = t[p]
    BY ConcatTail
<1>2. DOMAIN u = 1..(Len(nx) + Len(t) - 1) /\ Len(t) >= 1 /\ Len(nx) \in Nat  BY <1>1
<1>3. ASSUME NEW i \in DOMAIN u, i > Len(nx)
      PROVE  i - Len(nx) + 1 \in 2..Len(t) /\ u[i] = t[i - Len(nx) + 1]
    <2>1. i - Len(nx) + 1 \in 2..Len(t) /\ Len(nx) + (i - Len(nx) + 1) - 1 = i
        BY <1>2, <1>3
    <2> QED BY <1>1, <2>1
<1>4. ASSUME NEW j \in 2..Len(t)
      PROVE  j + Len(nx) - 1 \in DOMAIN u /\ u[j + Len(nx) - 1] = t[j]
    <2>1. j + Len(nx) - 1 \in DOMAIN u /\ j + Len(nx) - 1 = Len(nx) + j - 1  BY <1>2
    <2> QED BY <1>1, <2>1
<1> QED BY <1>1, <1>2, <1>3, <1>4

LEMMA HeadIs ==
    ASSUME Typed, todo # <<>>
    PROVE  LET j == Head(todo)
           IN /\ j \in Job /\ j = todo[1] /\ 1 \in DOMAIN todo
              /\ j.op \in {"retain", "release"} => j.key \in Endpoint
              /\ j.op \in {"learned", "registerRTCP"} => j.call \in Calls /\ j.key \in Endpoint
              /\ j.op = "register" =>
                    /\ j.call \in Calls /\ j.medium \in Medium
                    /\ j = [op |-> "register", call |-> j.call, medium |-> j.medium]
              /\ j.op = "replace" => j.call \in Calls
              /\ j.op = "dropAliases" =>
                    /\ j.call \in Calls /\ j.keys \in SUBSET Endpoint
                    /\ j.by \in {"consumer", "ticker"}
<1>1. Head(todo) \in Job /\ Head(todo) = todo[1] /\ 1 \in DOMAIN todo  BY DEF Typed
<1> QED BY <1>1 DEF Job

\* What a removal of the call's media leaves to do.
Removal(c, by) ==
    Each("release", Owned(c)) \o <<DropAliases(c, ToSet(Owned(c)), by)>>

LEMMA RemovalShape ==
    ASSUME Typed, IndexesAgree, NEW c \in Calls, NEW by \in {"consumer", "ticker"}
    PROVE  /\ Removal(c, by) \in Seq(Job)
           /\ Len(Removal(c, by)) = Len(Owned(c)) + 1
           /\ Len(Owned(c)) \in Nat
           /\ \A i \in 1..Len(Owned(c)) :
                 Owned(c)[i] \in Endpoint /\ Removal(c, by)[i] = [op |-> "release", key |-> Owned(c)[i]]
           /\ Removal(c, by)[Len(Owned(c)) + 1] = DropAliases(c, ToSet(Owned(c)), by)
           /\ ToSet(Owned(c)) \subseteq Endpoint
           /\ \A k : Count("retain", k, Removal(c, by)) = 0
           /\ \A k : Count("release", k, Removal(c, by)) = Count("release", k, Each("release", Owned(c)))
<1> DEFINE s == Owned(c)
           d == DropAliases(c, ToSet(s), by)
           e == Each("release", s)
<1>1. s \in Seq(Endpoint)  BY OwnedIs
<1>2. ToSet(s) \subseteq Endpoint  BY <1>1 DEF ToSet
<1>3. d \in Job /\ d.op = "dropAliases"  BY <1>2 DEF DropAliases, Job
<1>4. e \in Seq(Job) /\ Len(e) = Len(s) /\ DOMAIN e = 1..Len(s)
      /\ \A n \in 1..Len(s) : e[n] = [op |-> "release", key |-> s[n]]
    BY <1>1, EachType
<1>5. Removal(c, by) = e \o <<d>>  BY DEF Removal
<1> HIDE DEF d, e
<1>6. /\ e \o <<d>> \in Seq(Job) /\ Len(e \o <<d>>) = Len(s) + 1
      /\ \A i \in 1..Len(s) : (e \o <<d>>)[i] = e[i]
      /\ (e \o <<d>>)[Len(s) + 1] = d
    <2>1. <<d>> \in Seq(Job) /\ Len(<<d>>) = 1 /\ <<d>>[1] = d  BY <1>3
    <2>2. e \in Seq(Job) /\ Len(e) = Len(s)  BY <1>4
    <2> HIDE DEF s
    <2> QED BY <2>1, <2>2
<1>7. ASSUME NEW k
      PROVE  /\ Count("retain", k, e \o <<d>>) = 0
             /\ Count("release", k, e \o <<d>>) = Count("release", k, e)
    <2>1. <<d>> \in Seq(Job) /\ e \in Seq(Job)  BY <1>3, <1>4
    <2>2. /\ Count("retain", k, e \o <<d>>) = Count("retain", k, e) + Count("retain", k, <<d>>)
          /\ Count("release", k, e \o <<d>>) = Count("release", k, e) + Count("release", k, <<d>>)
        BY <2>1, CountConcat
    <2>3. Count("retain", k, <<d>>) = 0 /\ Count("release", k, <<d>>) = 0
        BY <1>3, CountOne
    <2>4. Count("retain", k, e) = 0
        <3>1. \A n \in DOMAIN e : ~(e[n].op = "retain" /\ e[n].key = k)  BY <1>4
        <3> QED BY <2>1, <3>1, CountNone
    <2>5. Count("release", k, e) \in Nat  BY <2>1, CountType
    <2> QED BY <2>2, <2>3, <2>4, <2>5
<1>8. \A i \in 1..Len(s) : s[i] \in Endpoint  BY <1>1
<1>9. Len(s) \in Nat  BY <1>1
<1> QED BY <1>2, <1>4, <1>5, <1>6, <1>7, <1>8, <1>9 DEF d, e

\* What a registration of the medium m for call c leaves to do.
RetainJob(k) == [op |-> "retain", key |-> k]
ReleaseJob(k) == [op |-> "release", key |-> k]
RTCPJob(c, k) == [op |-> "registerRTCP", call |-> c, key |-> k]
Followups(c, m) ==
    (IF Added(c, m.rtp) THEN Each("retain", <<m.rtp>>) ELSE <<>>)
    \o (IF Displaced(m.rtp) = Nobody THEN <<>>
        ELSE <<DropAliases(Displaced(m.rtp), {m.rtp}, "consumer")>> \o Each("release", <<m.rtp>>))
    \o [n \in DOMAIN RTCPOf(m) |->
            [op |-> "registerRTCP", call |-> c, key |-> RTCPOf(m)[n]]]

LEMMA RTCPOfType ==
    ASSUME NEW m \in Medium
    PROVE  RTCPOf(m) = <<>> \/ \E k \in Endpoint : RTCPOf(m) = <<k>>
<1>1. CASE m.rtcp # Nobody  BY <1>1 DEF RTCPOf, Medium
<1>2. CASE m.rtcp = Nobody /\ (m.mux \/ m.rtp.port = MaxPort)  BY <1>2 DEF RTCPOf
<1>3. CASE m.rtcp = Nobody /\ ~(m.mux \/ m.rtp.port = MaxPort)
    <2>1. RTCPOf(m) = <<[m.rtp EXCEPT !.port = @ + 1]>>  BY <1>3 DEF RTCPOf
    <2>2. m.rtp \in Endpoint  BY DEF Medium
    <2>3. [m.rtp EXCEPT !.port = @ + 1] \in Endpoint
        BY <1>3, <2>2, ConstantsAssumption DEF ConstantsAssumption, Endpoint
    <2> QED BY <2>1, <2>3
<1> QED BY <1>1, <1>2, <1>3

\* An endpoint that is a learned port has no owner.
LEMMA DisplacedIsUnowned ==
    ASSUME Typed, IndexesAgree, LabelsAreOwners, AliasesSingle, NEW k \in Endpoint,
           mediaAliases[k] # Nobody
    PROVE  /\ mediaAliases[k] \in Calls /\ media[k] = Nobody /\ owners[k] = <<>>
           /\ \A c \in Calls : ~Owns(c, k)
<1>1. mediaAliases[k] \in Calls  BY DEF Typed
<1>2. media[k] = Nobody  BY <1>1 DEF AliasesSingle
<1>3. owners[k] \in Seq(Calls)  BY DEF Typed
<1>4. owners[k] = <<>>
    <2>1. ToSet(owners[k]) \subseteq Calls  BY <1>3 DEF ToSet
    <2> QED BY <1>2, <2>1, NobodyIsNone DEF LabelsAreOwners
<1>5. ToSet(owners[k]) = {}  BY <1>4 DEF ToSet
<1> QED BY <1>1, <1>2, <1>4, <1>5 DEF IndexesAgree

LEMMA FollowupsAre ==
    ASSUME Typed, IndexesAgree, LabelsAreOwners, AliasesSingle,
           NEW c \in Calls, NEW m \in Medium
    PROVE  LET nx == Followups(c, m)
               k == m.rtp
               d == Displaced(k)
           IN /\ nx \in Seq(Job)
              /\ \A i \in DOMAIN nx :
                    \/ i = 1 /\ nx[i] = RetainJob(k) /\ Added(c, k)
                    \/ nx[i] = DropAliases(d, {k}, "consumer") /\ d \in Calls
                    \/ nx[i] = ReleaseJob(k) /\ d \in Calls
                    \/ \E e \in Endpoint : nx[i] = RTCPJob(c, e)
              /\ d # Nobody => \E i \in DOMAIN nx : nx[i] = DropAliases(d, {k}, "consumer")
              /\ \A l : Count("retain", l, nx) = IF l = k /\ Added(c, k) THEN 1 ELSE 0
              /\ \A l : Count("release", l, nx) = IF l = k /\ d # Nobody THEN 1 ELSE 0
<1> DEFINE k == m.rtp
           d == Displaced(k)
           A == IF Added(c, k) THEN Each("retain", <<k>>) ELSE <<>>
           D == DropAliases(d, {k}, "consumer")
           B == IF d = Nobody THEN <<>> ELSE <<D>> \o Each("release", <<k>>)
           R == [n \in DOMAIN RTCPOf(m) |-> RTCPJob(c, RTCPOf(m)[n])]
<1>1. k \in Endpoint  BY DEF Medium
<1>2. d \in Calls \/ d = Nobody  BY <1>1 DEF Displaced, Typed
<1>3. d # Nobody => Added(c, k)
    BY <1>1, DisplacedIsUnowned DEF Displaced, Added
<1>4. /\ Added(c, k) => A = <<RetainJob(k)>>
      /\ ~Added(c, k) => A = <<>>
    BY <1>1, EachOne DEF RetainJob
<1>5. /\ d # Nobody => B = <<D, ReleaseJob(k)>>
      /\ d = Nobody => B = <<>>
    <2>1. Each("release", <<k>>) = <<ReleaseJob(k)>>  BY <1>1, EachOne DEF ReleaseJob
    <2> HIDE DEF D
    <2>2. d # Nobody => B = <<D>> \o <<ReleaseJob(k)>>  BY <2>1
    <2> QED BY <2>2, TwoElements
<1>6. R = <<>> \/ \E e \in Endpoint : R = <<RTCPJob(c, e)>>
    <2>1. CASE RTCPOf(m) = <<>>  BY <2>1
    <2>2. CASE \E e \in Endpoint : RTCPOf(m) = <<e>>
        <3>1. PICK e \in Endpoint : RTCPOf(m) = <<e>>  BY <2>2
        <3>2. R = <<RTCPJob(c, e)>>  BY <3>1
        <3> QED BY <3>2
    <2> QED BY <2>1, <2>2, RTCPOfType
<1>7. Followups(c, m) = (A \o B) \o R  BY DEF Followups, RTCPJob
<1>8. /\ RetainJob(k) \in Job /\ RetainJob(k).op = "retain" /\ RetainJob(k).key = k
      /\ ReleaseJob(k) \in Job /\ ReleaseJob(k).op = "release" /\ ReleaseJob(k).key = k
      /\ d # Nobody => D \in Job /\ D.op = "dropAliases"
      /\ \A e \in Endpoint : RTCPJob(c, e) \in Job /\ RTCPJob(c, e).op = "registerRTCP"
    BY <1>1, <1>2 DEF RetainJob, ReleaseJob, RTCPJob, DropAliases, Job
<1> HIDE DEF A, B, R, D, k, d
<1>9. A \in Seq(Job) /\ B \in Seq(Job) /\ R \in Seq(Job)
    <2>1. \A x, y \in Job : <<>> \in Seq(Job) /\ <<x>> \in Seq(Job) /\ <<x, y>> \in Seq(Job)
        OBVIOUS
    <2>2. A \in Seq(Job)  BY <1>4, <1>8, <2>1
    <2>3. B \in Seq(Job)  BY <1>5, <1>8, <2>1
    <2>4. R \in Seq(Job)  BY <1>6, <1>8, <2>1
    <2> QED BY <2>2, <2>3, <2>4
<1>10. A \o B \in Seq(Job) /\ (A \o B) \o R \in Seq(Job)  BY <1>9
<1>11. ASSUME NEW l, NEW op
       PROVE  Count(op, l, (A \o B) \o R) = Count(op, l, A) + Count(op, l, B) + Count(op, l, R)
    <2>1. Count(op, l, (A \o B) \o R) = Count(op, l, A \o B) + Count(op, l, R)
        BY <1>9, <1>10, CountConcat
    <2>2. Count(op, l, A \o B) = Count(op, l, A) + Count(op, l, B)  BY <1>9, CountConcat
    <2> QED BY <2>1, <2>2
<1>12. ASSUME NEW op \in {"retain", "release"}, NEW l PROVE Count(op, l, R) = 0
    <2>1. \A n \in DOMAIN R : ~(R[n].op = op /\ R[n].key = l)  BY <1>6, <1>8
    <2> QED BY <1>9, <2>1, CountNone
<1>13. ASSUME NEW l
       PROVE  /\ Count("retain", l, A) = IF l = k /\ Added(c, k) THEN 1 ELSE 0
              /\ Count("release", l, A) = 0
    <2>1. CASE Added(c, k)  BY <1>4, <1>8, <2>1, CountOne
    <2>2. CASE ~Added(c, k)
        <3>1. \A op : Count(op, l, A) = 0  BY <1>4, <2>2, CountEmpty
        <3> QED BY <2>2, <3>1
    <2> QED BY <2>1, <2>2
<1>14. ASSUME NEW l
       PROVE  /\ Count("retain", l, B) = 0
              /\ Count("release", l, B) = IF l = k /\ d # Nobody THEN 1 ELSE 0
    <2>1. CASE d # Nobody
        <3>1. B = <<D>> \o <<ReleaseJob(k)>> /\ <<D>> \in Seq(Job) /\ <<ReleaseJob(k)>> \in Seq(Job)
            BY <1>5, <1>8, <2>1
        <3>2. \A op : Count(op, l, B) = Count(op, l, <<D>>) + Count(op, l, <<ReleaseJob(k)>>)
            BY <3>1, CountConcat
        <3>3. Count("retain", l, <<D>>) = 0 /\ Count("release", l, <<D>>) = 0
            BY <1>8, <2>1, CountOne
        <3>4. /\ Count("retain", l, <<ReleaseJob(k)>>) = 0
              /\ Count("release", l, <<ReleaseJob(k)>>) = IF l = k THEN 1 ELSE 0
            BY <1>8, CountOne
        <3> QED BY <2>1, <3>2, <3>3, <3>4
    <2>2. CASE d = Nobody
        <3>1. \A op : Count(op, l, B) = 0  BY <1>5, <2>2, CountEmpty
        <3> QED BY <2>2, <3>1
    <2> QED BY <2>1, <2>2
<1>15. ASSUME NEW i \in DOMAIN ((A \o B) \o R)
       PROVE  \/ i = 1 /\ ((A \o B) \o R)[i] = RetainJob(k) /\ Added(c, k)
              \/ ((A \o B) \o R)[i] = D /\ d \in Calls
              \/ ((A \o B) \o R)[i] = ReleaseJob(k) /\ d \in Calls
              \/ \E e \in Endpoint : ((A \o B) \o R)[i] = RTCPJob(c, e)
    <2>1. CASE i \in 1..Len(A)  BY <1>4, <1>9, <1>10, <2>1
    <2>2. CASE i \in (Len(A) + 1)..(Len(A) + Len(B))
        <3>1. ((A \o B) \o R)[i] = B[i - Len(A)] /\ i - Len(A) \in 1..Len(B)
            BY <1>9, <1>10, <2>2
        <3>2. d # Nobody  BY <1>5, <3>1
        <3>3. i - Len(A) \in 1..2  BY <1>5, <3>1, <3>2
        <3> QED BY <1>2, <1>5, <3>1, <3>2, <3>3
    <2>3. CASE i \in (Len(A) + Len(B) + 1)..(Len(A) + Len(B) + Len(R))
        <3>1. /\ ((A \o B) \o R)[i] = R[i - (Len(A) + Len(B))]
              /\ i - (Len(A) + Len(B)) \in 1..Len(R)
            BY <1>9, <1>10, <2>3
        <3> QED BY <1>6, <3>1
    <2>4. DOMAIN ((A \o B) \o R) = 1..(Len(A) + Len(B) + Len(R))  BY <1>9, <1>10
    <2> QED BY <1>9, <2>1, <2>2, <2>3, <2>4
<1>16. d # Nobody => \E i \in DOMAIN ((A \o B) \o R) : ((A \o B) \o R)[i] = D
    <2> SUFFICES ASSUME d # Nobody PROVE \E i \in DOMAIN ((A \o B) \o R) : ((A \o B) \o R)[i] = D
        OBVIOUS
    <2>1. Len(A) = 1 /\ Len(B) = 2 /\ B[1] = D  BY <1>3, <1>4, <1>5
    <2>2. Len(A \o B) = 3 /\ (A \o B)[2] = D
        <3>1. 2 \in (Len(A) + 1)..(Len(A) + Len(B)) /\ 2 - Len(A) = 1  BY <2>1
        <3>2. /\ Len(A \o B) = Len(A) + Len(B)
              /\ \A p \in (Len(A) + 1)..(Len(A) + Len(B)) : (A \o B)[p] = B[p - Len(A)]
            BY <1>9, Concat
        <3>3. (A \o B)[2] = B[2 - Len(A)]  BY <3>1, <3>2
        <3> QED BY <2>1, <3>1, <3>2, <3>3
    <2>3. Len((A \o B) \o R) = 3 + Len(R) /\ Len(R) \in Nat  BY <1>9, <1>10, <2>2
    <2>4. ((A \o B) \o R)[2] = (A \o B)[2]  BY <1>9, <1>10, <2>2
    <2>5. 2 \in DOMAIN ((A \o B) \o R)  BY <1>10, <2>3
    <2> QED BY <2>2, <2>4, <2>5
<1>17. /\ \A l : Count("retain", l, (A \o B) \o R) = IF l = k /\ Added(c, k) THEN 1 ELSE 0
       /\ \A l : Count("release", l, (A \o B) \o R) = IF l = k /\ d # Nobody THEN 1 ELSE 0
    BY <1>11, <1>12, <1>13, <1>14
<1> QED BY <1>7, <1>10, <1>15, <1>16, <1>17 DEF k, d, D

-----------------------------------------------------------------------------
(* The steps of the tracker.                                               *)

Registers(c, m) ==
    LET k == m.rtp
        d == Displaced(k)
    IN /\ todo # <<>> /\ Head(todo) = [op |-> "register", call |-> c, medium |-> m]
       /\ todo' = Followups(c, m) \o Tail(todo)
       /\ IF d = Nobody
          THEN UNCHANGED <<sourceAliases, mediaAliases, streams>>
          ELSE /\ sourceAliases' = [sourceAliases EXCEPT ![d] =
                      [p \in Endpoint |-> IF @[p] = k THEN Nobody ELSE @[p]]]
               /\ mediaAliases' = [mediaAliases EXCEPT ![k] = Nobody]
               /\ streams' = ForgetsStream(k, d)
       /\ IF Added(c, k)
          THEN /\ owners' = [owners EXCEPT ![k] = Append(@, c)]
               /\ order' = [order EXCEPT ![c] = Append(@, k)]
          ELSE UNCHANGED <<owners, order>>
       /\ media' = [media EXCEPT ![k] = c]
       /\ UNCHANGED <<callRTCP, observed, heard, filterVars, aliasVars>>

LEMMA RegisterIs ==
    ASSUME Typed, Register
    PROVE  \E c \in Calls, m \in Medium : Registers(c, m)
<1> DEFINE c == Head(todo).call
           m == Head(todo).medium
<1>1. todo # <<>> /\ Head(todo).op = "register"  BY DEF Register, Doing
<1>2. /\ c \in Calls /\ m \in Medium
      /\ Head(todo) = [op |-> "register", call |-> c, medium |-> m]
    BY <1>1, HeadIs
<1>3. todo' = Followups(c, m) \o Tail(todo)  BY DEF Register, Rest, Followups
<1>4. Registers(c, m)  BY <1>1, <1>2, <1>3 DEF Register, Registers
<1> QED BY <1>2, <1>4

Learns(c, k, src) ==
    /\ todo = <<>> /\ c = LabelsOf(k) /\ Learnable(c, k, src)
    /\ sourceAliases' = [sourceAliases EXCEPT ![c][PeerOf(c, k)] = src]
    /\ mediaAliases' = [mediaAliases EXCEPT ![src] = c]
    /\ todo' = <<RetainJob(src), [op |-> "learned", call |-> c, key |-> src]>>
    /\ UNCHANGED <<owners, order, media, callRTCP, filterVars, aliasVars>>

SameTracker == UNCHANGED <<owners, order, media, sourceAliases, mediaAliases>>

\* A stream stays, goes, or begins under the labels of its endpoint.
StreamsFollow ==
    \A k \in Endpoint : \/ streams'[k] = streams[k] \/ streams'[k] = Nobody
                        \/ streams'[k] = LabelsOf(k)

LEMMA PacketIs ==
    ASSUME Typed, NEW src \in Endpoint, NEW dst \in Endpoint, NEW counted \in BOOLEAN,
           RTPPacket(src, dst, counted)
    PROVE  /\ StreamsFollow
           /\ \/ \E c \in Calls, k \in Endpoint : Learns(c, k, src)
              \/ /\ todo' = todo
                 /\ UNCHANGED <<owners, order, media, sourceAliases, mediaAliases, callRTCP,
                                filterVars, aliasVars>>
<1> DEFINE byDst == LabelsOf(dst) # Nobody
           k == IF byDst THEN dst ELSE src
           c == LabelsOf(k)
<1>1. c # Nobody /\ c \in Calls /\ k \in Endpoint  BY DEF RTPPacket, LabelsOf, Typed
<1>2. StreamsFollow  BY <1>1 DEF RTPPacket, StreamsFollow, Typed
<1>3. CASE counted /\ byDst /\ Learnable(c, k, src)
    <2>1. todo' = Each("retain", <<src>>) \o <<[op |-> "learned", call |-> c, key |-> src]>>
        BY <1>3 DEF RTPPacket
    <2>2. todo' = <<RetainJob(src), [op |-> "learned", call |-> c, key |-> src]>>
        BY <2>1, EachOne, TwoElements DEF RetainJob
    <2>3. Learns(c, k, src)  BY <1>3, <2>2 DEF RTPPacket, Learns
    <2> QED BY <1>1, <1>2, <2>3
<1>4. CASE ~(counted /\ byDst /\ Learnable(c, k, src))
    BY <1>2, <1>4 DEF RTPPacket
<1> QED BY <1>3, <1>4

\* What the steps do to the tracker.
LEMMA TrackerSteps ==
    ASSUME Typed, [Next]_vars
    PROVE  \/ \E c \in Calls, m \in Medium : Registers(c, m)
           \/ \E c \in Calls : RemoveCallMedia(c)
           \/ \E c \in Calls, k, src \in Endpoint : Learns(c, k, src) /\ StreamsFollow
           \/ SameTracker /\ StreamsFollow
<1> DEFINE Same == SameTracker /\ StreamsFollow
<1>0. UNCHANGED <<trackerVars, streams>> => Same
    BY DEF trackerVars, SameTracker, StreamsFollow
<1>1. CASE UNCHANGED vars  BY <1>0, <1>1 DEF vars, rtpVars
<1>2. CASE \E c \in Calls, sdp \in Descriptions : Answer(c, sdp) \/ Reinvite(c, sdp)
    BY <1>0, <1>2 DEF Answer, Reinvite, rtpVars
<1>3. CASE \E c \in Calls, by \in {"consumer", "ticker"} : Unregister(c, by)
    BY <1>3 DEF Unregister
<1>4. CASE \E src, dst \in Endpoint, counted \in BOOLEAN : RTPPacket(src, dst, counted)
    BY <1>4, PacketIs DEF SameTracker
<1>5. CASE Retain  BY <1>0, <1>5 DEF Retain, rtpVars
<1>6. CASE Release  BY <1>0, <1>6 DEF Release, rtpVars
<1>7. CASE Register  BY <1>7, RegisterIs
<1>8. CASE RegisterRTCP
    BY <1>8 DEF RegisterRTCP, rtpVars, SameTracker, StreamsFollow
<1>9. CASE Replace
    <2>1. Head(todo).call \in Calls  BY <1>9, HeadIs DEF Replace, Doing
    <2> QED BY <1>9, <2>1 DEF Replace
<1>10. CASE ReleaseAliases  BY <1>0, <1>10 DEF ReleaseAliases, rtpVars
<1>11. CASE Learned  BY <1>0, <1>11 DEF Learned, rtpVars
<1>12. CASE \E k \in Endpoint, failing \in SUBSET Interfaces : Reconcile(k, failing)
    BY <1>0, <1>12 DEF Reconcile, rtpVars
<1>13. CASE \E k \in Endpoint : Cleanup(k)
    BY <1>13 DEF Cleanup, trackerVars, SameTracker, StreamsFollow, Typed
<1>14. CASE \E c \in Calls : ReportReleased(c)
    BY <1>0, <1>14 DEF ReportReleased, rtpVars
<1> QED BY <1>1, <1>2, <1>3, <1>4, <1>5, <1>6, <1>7, <1>8, <1>9, <1>10, <1>11, <1>12,
           <1>13, <1>14 DEF Next, Handler

TrackerInv == IndexesAgree /\ LabelsAreOwners /\ AliasesSingle /\ StreamsOwned

TrackerTyped ==
    /\ owners \in [Endpoint -> Seq(Calls)] /\ order \in [Calls -> Seq(Endpoint)]
    /\ media \in [Endpoint -> Calls \cup {Nobody}]
    /\ sourceAliases \in [Calls -> [Endpoint -> Endpoint \cup {Nobody}]]
    /\ mediaAliases \in [Endpoint -> Calls \cup {Nobody}]

LEMMA Appended ==
    ASSUME NEW S, NEW s \in Seq(S), NEW e \in S, e \notin ToSet(s), IsInjective(s)
    PROVE  /\ Append(s, e) \in Seq(S) /\ IsInjective(Append(s, e))
           /\ ToSet(Append(s, e)) = ToSet(s) \cup {e} /\ Len(Append(s, e)) = Len(s) + 1
<1> DEFINE t == Append(s, e)
<1>1. /\ t \in Seq(S) /\ Len(t) = Len(s) + 1 /\ t[Len(s) + 1] = e
      /\ \A i \in 1..Len(s) : t[i] = s[i]
    OBVIOUS
<1> HIDE DEF t
<1>2. DOMAIN t = 1..(Len(s) + 1) /\ DOMAIN s = 1..Len(s)  BY <1>1
<1>3. \A i \in 1..Len(s) : s[i] # e  BY DEF ToSet
<1>4. IsInjective(t)  BY <1>1, <1>2, <1>3 DEF IsInjective
<1>5. ToSet(t) \subseteq ToSet(s) \cup {e}  BY <1>1, <1>2 DEF ToSet
<1>6. ToSet(s) \cup {e} \subseteq ToSet(t)  BY <1>1, <1>2 DEF ToSet
<1> QED BY <1>1, <1>4, <1>5, <1>6 DEF t

LEMMA RegisterTracker ==
    ASSUME Typed, TrackerInv, NEW c \in Calls, NEW m \in Medium, Registers(c, m)
    PROVE  TrackerTyped' /\ TrackerInv'
<1> DEFINE k == m.rtp
           d == mediaAliases[k]
<1>1. k \in Endpoint  BY DEF Medium
<1>2. d \in Calls \/ d = Nobody  BY <1>1 DEF Typed
<1>3. /\ d # Nobody => media[k] = Nobody /\ owners[k] = <<>> /\ \A b \in Calls : ~Owns(b, k)
    BY <1>1, DisplacedIsUnowned DEF TrackerInv
<1>4. /\ \A p \in Endpoint : owners[p] \in Seq(Calls) /\ IsInjective(owners[p])
      /\ \A b \in Calls : order[b] \in Seq(Endpoint) /\ IsInjective(order[b])
      /\ \A p \in Endpoint, b \in Calls : b \in ToSet(owners[p]) <=> p \in ToSet(order[b])
    BY DEF Typed, TrackerInv, IndexesAgree, Owns
<1>5. /\ \A p \in Endpoint : owners'[p] \in Seq(Calls) /\ IsInjective(owners'[p])
      /\ \A b \in Calls : order'[b] \in Seq(Endpoint) /\ IsInjective(order'[b])
      /\ \A p \in Endpoint : ToSet(owners'[p]) = ToSet(owners[p]) \cup (IF p = k THEN {c} ELSE {})
      /\ \A b \in Calls : ToSet(order'[b]) = ToSet(order[b]) \cup (IF b = c THEN {k} ELSE {})
      /\ owners' \in [Endpoint -> Seq(Calls)] /\ order' \in [Calls -> Seq(Endpoint)]
    <2>1. CASE Added(c, k)
        <3>1. /\ owners' = [owners EXCEPT ![k] = Append(@, c)]
              /\ order' = [order EXCEPT ![c] = Append(@, k)]
            BY <2>1 DEF Registers
        <3>2. c \notin ToSet(owners[k]) /\ k \notin ToSet(order[c])
            BY <1>1, <1>4, <2>1 DEF Added, Owns
        <3>3. /\ Append(owners[k], c) \in Seq(Calls) /\ IsInjective(Append(owners[k], c))
              /\ ToSet(Append(owners[k], c)) = ToSet(owners[k]) \cup {c}
            BY <1>1, <1>4, <3>2, Appended
        <3>4. /\ Append(order[c], k) \in Seq(Endpoint) /\ IsInjective(Append(order[c], k))
              /\ ToSet(Append(order[c], k)) = ToSet(order[c]) \cup {k}
            BY <1>1, <1>4, <3>2, Appended
        <3>5. owners \in [Endpoint -> Seq(Calls)] /\ order \in [Calls -> Seq(Endpoint)]
            BY DEF Typed
        <3>6. /\ owners'[k] = Append(owners[k], c) /\ order'[c] = Append(order[c], k)
              /\ \A p \in Endpoint : p # k => owners'[p] = owners[p]
              /\ \A b \in Calls : b # c => order'[b] = order[b]
              /\ owners' \in [Endpoint -> Seq(Calls)] /\ order' \in [Calls -> Seq(Endpoint)]
            BY <1>1, <3>1, <3>3, <3>4, <3>5
        <3> QED BY <1>4, <3>3, <3>4, <3>6
    <2>2. CASE ~Added(c, k)
        <3>1. owners' = owners /\ order' = order  BY <2>2 DEF Registers
        <3>2. c \in ToSet(owners[k]) /\ k \in ToSet(order[c])
            BY <1>1, <1>4, <2>2 DEF Added, Owns
        <3> QED BY <1>4, <3>1, <3>2 DEF Typed
    <2> QED BY <2>1, <2>2
<1>6. /\ media' \in [Endpoint -> Calls \cup {Nobody}]
      /\ media'[k] = c /\ \A p \in Endpoint : p # k => media'[p] = media[p]
    BY <1>1 DEF Registers, Typed
<1>7. /\ mediaAliases' \in [Endpoint -> Calls \cup {Nobody}] /\ mediaAliases'[k] = Nobody
      /\ \A p \in Endpoint : p # k => mediaAliases'[p] = mediaAliases[p]
    BY <1>1, <1>2 DEF Registers, Typed, Displaced
<1>8. /\ sourceAliases' \in [Calls -> [Endpoint -> Endpoint \cup {Nobody}]]
      /\ \A b \in Calls, p \in Endpoint :
            sourceAliases'[b][p] = IF sourceAliases[b][p] = k THEN Nobody ELSE sourceAliases[b][p]
    <2>1. CASE d = Nobody
        <3>1. sourceAliases' = sourceAliases  BY <2>1 DEF Registers, Displaced
        <3>2. \A b \in Calls, p \in Endpoint : sourceAliases[b][p] # k
            BY <1>1, <2>1, NobodyIsNone DEF TrackerInv, AliasesSingle
        <3> QED BY <3>1, <3>2 DEF Typed
    <2>2. CASE d # Nobody
        <3>1. sourceAliases' = [sourceAliases EXCEPT ![d] =
                      [p \in Endpoint |-> IF @[p] = k THEN Nobody ELSE @[p]]]
            BY <2>2 DEF Registers, Displaced
        <3>2. \A b \in Calls, p \in Endpoint : b # d => sourceAliases[b][p] # k
            BY <1>1 DEF TrackerInv, AliasesSingle
        <3> QED BY <1>1, <1>2, <2>2, <3>1, <3>2 DEF Typed
    <2> QED BY <2>1, <2>2
<1>9. \A b \in Calls : AliasesOf(b)' = AliasesOf(b) \ {k}
    <2> TAKE b \in Calls
    <2>1. AliasesOf(b)' = {sourceAliases'[b][p] : p \in Endpoint} \ {Nobody}  BY DEF AliasesOf
    <2>2. AliasesOf(b) = {sourceAliases[b][p] : p \in Endpoint} \ {Nobody}  BY DEF AliasesOf
    <2> QED BY <1>8, <2>1, <2>2
<1>10. /\ streams' \in [Endpoint -> Calls \cup {Nobody}]
       /\ \A p \in Endpoint : streams'[p] = streams[p] \/ streams'[p] = Nobody
       /\ d # Nobody => streams'[k] # d
    BY <1>1, <1>2, NobodyIsNone DEF Registers, Typed, ForgetsStream, Displaced
<1>11. IndexesAgree'  BY <1>4, <1>5 DEF IndexesAgree, Owns
<1>12. LabelsAreOwners'
    <2> SUFFICES ASSUME NEW p \in Endpoint
                 PROVE  IF owners'[p] = <<>> THEN media'[p] = Nobody
                        ELSE media'[p] \in ToSet(owners'[p])
        BY DEF LabelsAreOwners
    <2>1. CASE p = k
        <3>1. c \in ToSet(owners'[k])  BY <1>1, <1>5
        <3>2. owners'[k] # <<>>  BY <3>1 DEF ToSet
        <3> QED BY <1>6, <2>1, <3>1, <3>2
    <2>2. CASE p # k
        <3>1. owners'[p] = owners[p]
            BY <1>1, <2>2 DEF Registers, Typed
        <3> QED BY <1>6, <2>2, <3>1 DEF TrackerInv, LabelsAreOwners
    <2> QED BY <2>1, <2>2
<1>13. AliasesSingle'
    <2> SUFFICES ASSUME NEW p \in Endpoint, NEW b \in Calls
                 PROVE  IF mediaAliases'[p] = b
                        THEN /\ media'[p] = Nobody
                             /\ \E q \in Endpoint :
                                   /\ q \in ToSet(order'[b]) /\ sourceAliases'[b][q] = p
                                   /\ \A r \in Endpoint : sourceAliases'[b][r] = p => r = q
                        ELSE \A q \in Endpoint : sourceAliases'[b][q] # p
        BY DEF AliasesSingle, Owns
    <2>1. CASE p = k
        <3>1. mediaAliases'[p] # b  BY <1>7, <2>1, NobodyIsNone
        <3>2. \A q \in Endpoint : sourceAliases'[b][q] # k  BY <1>1, <1>8, NobodyIsNone
        <3> QED BY <2>1, <3>1, <3>2
    <2>2. CASE p # k /\ mediaAliases[p] = b
        <3>1. PICK q \in Endpoint : /\ Owns(b, q) /\ sourceAliases[b][q] = p
                                    /\ \A r \in Endpoint : sourceAliases[b][r] = p => r = q
            BY <2>2 DEF TrackerInv, AliasesSingle
        <3>2. media[p] = Nobody  BY <2>2 DEF TrackerInv, AliasesSingle
        <3>3. q \in ToSet(order'[b])  BY <1>5, <3>1 DEF Owns
        <3>4. sourceAliases'[b][q] = p  BY <1>8, <2>2, <3>1
        <3>5. \A r \in Endpoint : sourceAliases'[b][r] = p => r = q  BY <1>8, <3>1, NobodyIsNone
        <3> QED BY <1>6, <1>7, <2>2, <3>2, <3>3, <3>4, <3>5
    <2>3. CASE p # k /\ mediaAliases[p] # b
        <3>1. \A q \in Endpoint : sourceAliases[b][q] # p  BY <2>3 DEF TrackerInv, AliasesSingle
        <3> QED BY <1>7, <1>8, <2>3, <3>1, NobodyIsNone
    <2> QED BY <2>1, <2>2, <2>3
<1>14. StreamsOwned'
    <2> SUFFICES ASSUME NEW p \in Endpoint, streams'[p] # Nobody
                 PROVE  \/ p \in ToSet(order'[streams'[p]])
                        \/ p \in {sourceAliases'[streams'[p]][q] : q \in Endpoint} \ {Nobody}
        BY DEF StreamsOwned, Owns, AliasesOf
    <2>1. streams'[p] = streams[p] /\ streams[p] \in Calls  BY <1>10 DEF Typed
    <2>2. p \in ToSet(order[streams[p]]) \/ p \in AliasesOf(streams[p])
        BY <2>1 DEF TrackerInv, StreamsOwned, Owns
    <2>3. CASE p \in ToSet(order[streams[p]])  BY <1>5, <2>1, <2>3
    <2>4. CASE p \in AliasesOf(streams[p]) /\ p # k
        <3>1. PICK b \in Calls : b = streams[p]  BY <2>1
        <3>2. p \in AliasesOf(b)'  BY <1>9, <2>4, <3>1
        <3> QED BY <2>1, <3>1, <3>2 DEF AliasesOf
    <2>5. CASE p \in AliasesOf(streams[p]) /\ p = k
        <3>1. PICK q \in Endpoint : sourceAliases[streams[p]][q] = k
            BY <2>5 DEF AliasesOf
        <3>2. mediaAliases[k] = streams[p]
            BY <1>1, <2>1, <3>1 DEF TrackerInv, AliasesSingle
        <3> QED BY <1>10, <2>1, <2>5, <3>2, NobodyIsNone
    <2> QED BY <2>2, <2>3, <2>4, <2>5
<1>15. TrackerTyped'  BY <1>5, <1>6, <1>7, <1>8 DEF TrackerTyped
<1> QED BY <1>11, <1>12, <1>13, <1>14, <1>15 DEF TrackerInv

LEMMA RemoveTracker ==
    ASSUME Typed, TrackerInv, NEW c \in Calls, RemoveCallMedia(c)
    PROVE  TrackerTyped' /\ TrackerInv'
<1>1. /\ \A p \in Endpoint : owners[p] \in Seq(Calls) /\ IsInjective(owners[p])
      /\ \A b \in Calls : order[b] \in Seq(Endpoint) /\ IsInjective(order[b])
      /\ \A p \in Endpoint, b \in Calls : b \in ToSet(owners[p]) <=> p \in ToSet(order[b])
    BY DEF Typed, TrackerInv, IndexesAgree, Owns
<1>2. /\ owners' \in [Endpoint -> Seq(Calls)]
      /\ \A p \in Endpoint : /\ IsInjective(owners'[p])
                             /\ ToSet(owners'[p]) = ToSet(owners[p]) \ {c}
                             /\ c \notin ToSet(owners[p]) => owners'[p] = owners[p]
    <2>1. owners' = [p \in Endpoint |-> RemoveFirst(owners[p], c)]  BY DEF RemoveCallMedia
    <2>2. ASSUME NEW p \in Endpoint
          PROVE  /\ RemoveFirst(owners[p], c) \in Seq(Calls)
                 /\ IsInjective(RemoveFirst(owners[p], c))
                 /\ ToSet(RemoveFirst(owners[p], c)) = ToSet(owners[p]) \ {c}
                 /\ c \notin ToSet(owners[p]) => RemoveFirst(owners[p], c) = owners[p]
        BY <1>1, Removed
    <2> QED BY <2>1, <2>2
<1>3. /\ order' \in [Calls -> Seq(Endpoint)] /\ order'[c] = <<>>
      /\ \A b \in Calls : b # c => order'[b] = order[b]
    BY DEF RemoveCallMedia, Typed
<1>4. ToSet(order'[c]) = {} /\ IsInjective(order'[c])  BY <1>3 DEF ToSet, IsInjective
<1>5. ASSUME NEW p \in Endpoint, NEW b \in Calls
      PROVE  p \in AliasesOf(b) <=> mediaAliases[p] = b
    <2>1. CASE mediaAliases[p] = b
        <3>1. \E q \in Endpoint : sourceAliases[b][q] = p  BY <2>1 DEF TrackerInv, AliasesSingle
        <3> QED BY <2>1, <3>1, NobodyIsNone DEF AliasesOf
    <2>2. CASE mediaAliases[p] # b
        <3>1. \A q \in Endpoint : sourceAliases[b][q] # p  BY <2>2 DEF TrackerInv, AliasesSingle
        <3> QED BY <2>2, <3>1 DEF AliasesOf
    <2> QED BY <2>1, <2>2
<1>6. /\ sourceAliases' \in [Calls -> [Endpoint -> Endpoint \cup {Nobody}]]
      /\ \A q \in Endpoint : sourceAliases'[c][q] = Nobody
      /\ \A b \in Calls : b # c => sourceAliases'[b] = sourceAliases[b]
    BY DEF RemoveCallMedia, Typed
<1>7. /\ mediaAliases' \in [Endpoint -> Calls \cup {Nobody}]
      /\ \A p \in Endpoint : mediaAliases'[p] = IF mediaAliases[p] = c THEN Nobody ELSE mediaAliases[p]
    BY <1>5 DEF RemoveCallMedia, Typed
<1>8. /\ \A p \in Endpoint : Owns(c, p) <=> c \in ToSet(owners[p])
      /\ \A p \in Endpoint : Owns(c, p) =>
            media'[p] = IF owners'[p] = <<>> THEN Nobody ELSE Last(owners'[p])
      /\ \A p \in Endpoint : ~Owns(c, p) => media'[p] = media[p]
    BY <1>1 DEF RemoveCallMedia, Heir, Owns
<1>9. ASSUME NEW p \in Endpoint
      PROVE  /\ owners'[p] # <<>> => Last(owners'[p]) \in ToSet(owners'[p])
             /\ ToSet(owners'[p]) \subseteq Calls
    <2>1. owners'[p] \in Seq(Calls)  BY <1>2
    <2> QED BY <2>1 DEF Last, ToSet
<1>10. media' \in [Endpoint -> Calls \cup {Nobody}]
    <2>1. media' = [p \in Endpoint |-> IF Owns(c, p) THEN Heir(c, p) ELSE media[p]]
        BY DEF RemoveCallMedia
    <2>2. \A p \in Endpoint : media'[p] \in Calls \cup {Nobody}
        BY <1>8, <1>9 DEF Typed
    <2> QED BY <2>1, <2>2
<1>11. IndexesAgree'
    <2>1. \A p \in Endpoint, b \in Calls : b \in ToSet(owners'[p]) <=> p \in ToSet(order'[b])
        BY <1>1, <1>2, <1>3, <1>4
    <2> QED BY <1>1, <1>2, <1>3, <1>4, <2>1 DEF IndexesAgree, Owns
<1>12. LabelsAreOwners'
    <2> SUFFICES ASSUME NEW p \in Endpoint
                 PROVE  IF owners'[p] = <<>> THEN media'[p] = Nobody
                        ELSE media'[p] \in ToSet(owners'[p])
        BY DEF LabelsAreOwners
    <2>1. CASE Owns(c, p)  BY <1>8, <1>9, <2>1
    <2>2. CASE ~Owns(c, p)
        <3>1. owners'[p] = owners[p] /\ media'[p] = media[p]  BY <1>2, <1>8, <2>2
        <3> QED BY <3>1 DEF TrackerInv, LabelsAreOwners
    <2> QED BY <2>1, <2>2
<1>13. AliasesSingle'
    <2> SUFFICES ASSUME NEW p \in Endpoint, NEW b \in Calls
                 PROVE  IF mediaAliases'[p] = b
                        THEN /\ media'[p] = Nobody
                             /\ \E q \in Endpoint :
                                   /\ q \in ToSet(order'[b]) /\ sourceAliases'[b][q] = p
                                   /\ \A r \in Endpoint : sourceAliases'[b][r] = p => r = q
                        ELSE \A q \in Endpoint : sourceAliases'[b][q] # p
        BY DEF AliasesSingle, Owns
    <2>1. CASE b = c  BY <1>6, <1>7, <2>1, NobodyIsNone
    <2>2. CASE b # c /\ mediaAliases[p] = b
        <3>1. PICK q \in Endpoint : /\ Owns(b, q) /\ sourceAliases[b][q] = p
                                    /\ \A r \in Endpoint : sourceAliases[b][r] = p => r = q
            BY <2>2 DEF TrackerInv, AliasesSingle
        <3>2. ~Owns(c, p)
            BY <2>2, NobodyIsNone, DisplacedIsUnowned DEF TrackerInv
        <3>3. media'[p] = Nobody  BY <1>8, <2>2, <3>2 DEF TrackerInv, AliasesSingle
        <3>4. q \in ToSet(order'[b])  BY <1>3, <2>2, <3>1 DEF Owns
        <3> QED BY <1>6, <1>7, <2>2, <3>1, <3>3, <3>4
    <2>3. CASE b # c /\ mediaAliases[p] # b
        BY <1>6, <1>7, <2>3, NobodyIsNone DEF TrackerInv, AliasesSingle
    <2> QED BY <2>1, <2>2, <2>3
<1>14. StreamsOwned'
    <2> SUFFICES ASSUME NEW p \in Endpoint, streams'[p] # Nobody
                 PROVE  \/ p \in ToSet(order'[streams'[p]])
                        \/ p \in {sourceAliases'[streams'[p]][q] : q \in Endpoint} \ {Nobody}
        BY DEF StreamsOwned, Owns, AliasesOf
    <2>1. streams'[p] = streams[p] /\ streams[p] \in Calls /\ streams[p] # c
        BY DEF RemoveCallMedia, Typed
    <2>2. p \in ToSet(order[streams[p]]) \/ p \in AliasesOf(streams[p])
        BY <2>1, NobodyIsNone DEF TrackerInv, StreamsOwned, Owns
    <2> QED BY <1>3, <1>6, <2>1, <2>2 DEF AliasesOf
<1>15. TrackerTyped'  BY <1>2, <1>3, <1>6, <1>7, <1>10 DEF TrackerTyped
<1> QED BY <1>11, <1>12, <1>13, <1>14, <1>15 DEF TrackerInv

\* A call whose labels an endpoint has owns it or learned it.
LEMMA LabelledIsOwned ==
    ASSUME Typed, TrackerInv, NEW k \in Endpoint, LabelsOf(k) # Nobody
    PROVE  /\ LabelsOf(k) \in Calls
           /\ Owns(LabelsOf(k), k) \/ k \in AliasesOf(LabelsOf(k))
<1>1. CASE media[k] # Nobody
    <2>1. media[k] \in Calls /\ LabelsOf(k) = media[k]  BY <1>1 DEF Typed, LabelsOf
    <2>2. media[k] \in ToSet(owners[k])  BY <1>1 DEF TrackerInv, LabelsAreOwners
    <2> QED BY <2>1, <2>2 DEF TrackerInv, IndexesAgree
<1>2. CASE media[k] = Nobody
    <2>1. mediaAliases[k] \in Calls /\ LabelsOf(k) = mediaAliases[k]
        BY <1>2 DEF Typed, LabelsOf
    <2>2. \E p \in Endpoint : sourceAliases[mediaAliases[k]][p] = k
        BY <2>1 DEF TrackerInv, AliasesSingle
    <2> QED BY <2>1, <2>2, NobodyIsNone DEF AliasesOf
<1> QED BY <1>1, <1>2

LEMMA LearnTracker ==
    ASSUME Typed, TrackerInv, NEW c \in Calls, NEW k \in Endpoint, NEW src \in Endpoint,
           Learns(c, k, src), StreamsFollow
    PROVE  /\ TrackerTyped' /\ TrackerInv'
           /\ mediaAliases[src] = Nobody /\ mediaAliases'[src] = c
           /\ \A p \in Endpoint : p # src => mediaAliases'[p] = mediaAliases[p]
           /\ \A b \in Calls : AliasesOf(b)' = AliasesOf(b) \cup (IF b = c THEN {src} ELSE {})
           /\ src \notin AliasesOf(c)
<1> DEFINE peer == PeerOf(c, k)
<1>1. /\ peer \in Endpoint /\ Owns(c, peer)
    <2>1. Len(order[c]) = 2 /\ order[c] \in Seq(Endpoint)
        BY DEF Learns, Learnable, Typed
    <2> QED BY <2>1 DEF PeerOf, Owns, ToSet
<1>2. /\ media[src] = Nobody /\ mediaAliases[src] = Nobody /\ sourceAliases[c][peer] = Nobody
    BY DEF Learns, Learnable
<1>3. /\ sourceAliases' \in [Calls -> [Endpoint -> Endpoint \cup {Nobody}]]
      /\ sourceAliases'[c][peer] = src
      /\ \A q \in Endpoint : q # peer => sourceAliases'[c][q] = sourceAliases[c][q]
      /\ \A b \in Calls : b # c => sourceAliases'[b] = sourceAliases[b]
    BY <1>1 DEF Learns, Typed
<1>4. /\ mediaAliases' \in [Endpoint -> Calls \cup {Nobody}] /\ mediaAliases'[src] = c
      /\ \A p \in Endpoint : p # src => mediaAliases'[p] = mediaAliases[p]
    BY DEF Learns, Typed
<1>5. UNCHANGED <<owners, order, media>>  BY DEF Learns
<1>6. ASSUME NEW b \in Calls
      PROVE  AliasesOf(b)' = AliasesOf(b) \cup (IF b = c THEN {src} ELSE {})
    <2>1. AliasesOf(b)' = {sourceAliases'[b][p] : p \in Endpoint} \ {Nobody}  BY DEF AliasesOf
    <2>2. AliasesOf(b) = {sourceAliases[b][p] : p \in Endpoint} \ {Nobody}  BY DEF AliasesOf
    <2>3. CASE b # c  BY <1>3, <2>1, <2>2, <2>3
    <2>4. CASE b = c
        <3>1. AliasesOf(c)' \subseteq AliasesOf(c) \cup {src}  BY <1>3, <2>1, <2>2, <2>4
        <3>2. src \in AliasesOf(c)'  BY <1>1, <1>3, <2>1, <2>4, NobodyIsNone
        <3>3. AliasesOf(c) \subseteq AliasesOf(c)'  BY <1>1, <1>2, <1>3, <2>1, <2>2, <2>4
        <3> QED BY <2>4, <3>1, <3>2, <3>3
    <2> QED BY <2>3, <2>4
<1>7. \A b \in Calls, q \in Endpoint : sourceAliases[b][q] # src
    BY <1>2, NobodyIsNone DEF TrackerInv, AliasesSingle
<1>8. src \notin AliasesOf(c)  BY <1>7 DEF AliasesOf
<1>9. IndexesAgree' /\ LabelsAreOwners'
    BY <1>5 DEF TrackerInv, IndexesAgree, LabelsAreOwners, Owns
<1>10. AliasesSingle'
    <2> SUFFICES ASSUME NEW p \in Endpoint, NEW b \in Calls
                 PROVE  IF mediaAliases'[p] = b
                        THEN /\ media'[p] = Nobody
                             /\ \E q \in Endpoint :
                                   /\ q \in ToSet(order[b]) /\ sourceAliases'[b][q] = p
                                   /\ \A r \in Endpoint : sourceAliases'[b][r] = p => r = q
                        ELSE \A q \in Endpoint : sourceAliases'[b][q] # p
        BY <1>5 DEF AliasesSingle, Owns
    <2>1. CASE p = src /\ b = c
        <3>1. \A r \in Endpoint : sourceAliases'[c][r] = src => r = peer  BY <1>3, <1>7
        <3> QED BY <1>1, <1>2, <1>3, <1>4, <1>5, <2>1, <3>1 DEF Owns
    <2>2. CASE p = src /\ b # c
        BY <1>3, <1>4, <1>7, <2>2
    <2>3. CASE p # src /\ mediaAliases[p] = b
        <3>1. PICK q \in Endpoint : /\ Owns(b, q) /\ sourceAliases[b][q] = p
                                    /\ \A r \in Endpoint : sourceAliases[b][r] = p => r = q
            BY <2>3 DEF TrackerInv, AliasesSingle
        <3>2. sourceAliases'[b][q] = p  BY <1>2, <1>3, <3>1, NobodyIsNone
        <3>3. \A r \in Endpoint : sourceAliases'[b][r] = p => r = q  BY <1>3, <2>3, <3>1
        <3>4. media'[p] = Nobody  BY <1>5, <2>3 DEF TrackerInv, AliasesSingle
        <3> QED BY <1>4, <2>3, <3>1, <3>2, <3>3, <3>4 DEF Owns
    <2>4. CASE p # src /\ mediaAliases[p] # b
        <3>1. \A q \in Endpoint : sourceAliases[b][q] # p  BY <2>4 DEF TrackerInv, AliasesSingle
        <3> QED BY <1>3, <1>4, <2>4, <3>1
    <2> QED BY <2>1, <2>2, <2>3, <2>4
<1>11. StreamsOwned'
    <2> SUFFICES ASSUME NEW p \in Endpoint, streams'[p] # Nobody
                 PROVE  \/ p \in ToSet(order[streams'[p]])
                        \/ p \in {sourceAliases'[streams'[p]][q] : q \in Endpoint} \ {Nobody}
        BY <1>5 DEF StreamsOwned, Owns, AliasesOf
    <2>1. PICK b \in Calls : b = streams'[p] /\ (Owns(b, p) \/ p \in AliasesOf(b))
        <3>1. CASE streams'[p] = streams[p]
            BY <3>1 DEF Typed, TrackerInv, StreamsOwned
        <3>2. CASE streams'[p] = LabelsOf(p)  BY <3>2, LabelledIsOwned
        <3> QED BY <3>1, <3>2 DEF StreamsFollow
    <2>2. CASE Owns(b, p)  BY <2>1, <2>2 DEF Owns
    <2>3. CASE p \in AliasesOf(b)
        <3>1. p \in AliasesOf(b)'  BY <1>6, <2>3
        <3> QED BY <2>1, <3>1 DEF AliasesOf
    <2> QED BY <2>1, <2>2, <2>3
<1>12. TrackerTyped'  BY <1>3, <1>4, <1>5 DEF TrackerTyped, Typed
<1> QED BY <1>2, <1>4, <1>6, <1>8, <1>9, <1>10, <1>11, <1>12 DEF TrackerInv

LEMMA TrackerStep ==
    ASSUME Typed, TrackerInv, [Next]_vars
    PROVE  TrackerTyped' /\ TrackerInv'
<1>1. CASE SameTracker /\ StreamsFollow
    <2>1. UNCHANGED <<owners, order, media, sourceAliases, mediaAliases>>
        BY <1>1 DEF SameTracker
    <2>2. StreamsOwned'
        <3> SUFFICES ASSUME NEW p \in Endpoint, streams'[p] # Nobody
                     PROVE  \/ p \in ToSet(order[streams'[p]])
                            \/ p \in {sourceAliases[streams'[p]][q] : q \in Endpoint} \ {Nobody}
            BY <2>1 DEF StreamsOwned, Owns, AliasesOf
        <3>1. CASE streams'[p] = streams[p]
            BY <3>1 DEF TrackerInv, StreamsOwned, Owns, AliasesOf
        <3>2. CASE streams'[p] = LabelsOf(p)
            BY <3>2, LabelledIsOwned DEF Owns, AliasesOf
        <3> QED BY <1>1, <3>1, <3>2 DEF StreamsFollow
    <2> QED BY <2>1, <2>2 DEF TrackerTyped, Typed, TrackerInv, IndexesAgree, LabelsAreOwners,
                              AliasesSingle, Owns
<1>2. CASE \E c \in Calls, m \in Medium : Registers(c, m)  BY <1>2, RegisterTracker
<1>3. CASE \E c \in Calls : RemoveCallMedia(c)  BY <1>3, RemoveTracker
<1>4. CASE \E c \in Calls, k, src \in Endpoint : Learns(c, k, src) /\ StreamsFollow
    BY <1>4, LearnTracker
<1> QED BY <1>1, <1>2, <1>3, <1>4, TrackerSteps

-----------------------------------------------------------------------------
(* The steps of the list of operations.                                    *)

SameOwnership == UNCHANGED <<owners, order, media, sourceAliases, mediaAliases, callRTCP>>
SameCounts == UNCHANGED <<refs, aliasLabels>>

\* Nothing is started, done or counted.
Quiet == todo' = todo /\ SameOwnership /\ SameCounts

Answers(c, sdp) ==
    /\ todo = <<>> /\ todo' = Registrations(c, sdp) /\ SameOwnership /\ SameCounts

\* The list of a re-INVITE.
Revision(c, sdp) ==
    (((Each("retain", Owned(c)) \o <<[op |-> "replace", call |-> c]>>)
       \o Registrations(c, sdp)) \o Each("release", Owned(c))) \o Registrations(c, sdp)
Reinvites(c, sdp) ==
    /\ todo = <<>> /\ todo' = Revision(c, sdp) /\ SameOwnership /\ SameCounts
Unregisters(c, by) ==
    /\ todo = <<>> /\ todo' = Removal(c, by) /\ RemoveCallMedia(c) /\ SameCounts

\* The first operation is done and asks for no other.
Finishes ==
    /\ todo # <<>> /\ Head(todo).op \in {"retain", "release", "dropAliases", "learned"}
    /\ todo' = <<>> \o Tail(todo)
    /\ SameOwnership
    /\ Head(todo).op = "dropAliases" =>
          aliasLabels' = aliasLabels \ Released(Head(todo).call, Head(todo).keys)
    /\ Head(todo).op = "learned" =>
          aliasLabels' = aliasLabels \cup {[call |-> Head(todo).call, key |-> Head(todo).key]}
    /\ Head(todo).op \in {"retain", "release"} => aliasLabels' = aliasLabels
    /\ refs' = IF Head(todo).op = "retain" THEN [refs EXCEPT ![Head(todo).key] = @ + 1]
               ELSE IF Head(todo).op = "release"
               THEN [refs EXCEPT ![Head(todo).key] = IF @ > 0 THEN @ - 1 ELSE 0]
               ELSE refs

RegistersRTCP(c, k) ==
    /\ todo # <<>> /\ Head(todo).op = "registerRTCP"
    /\ todo' = (IF k \in callRTCP[c] THEN <<>> ELSE <<RetainJob(k)>>) \o Tail(todo)
    /\ callRTCP' = [callRTCP EXCEPT ![c] = @ \cup {k}]
    /\ UNCHANGED <<owners, order, media, sourceAliases, mediaAliases>> /\ SameCounts

Replaces(c) ==
    /\ todo # <<>> /\ Head(todo).op = "replace" /\ Head(todo).call = c
    /\ todo' = Removal(c, "consumer") \o Tail(todo)
    /\ RemoveCallMedia(c) /\ SameCounts

JobMoves ==
    \/ Quiet
    \/ \E c \in Calls, sdp \in Descriptions : Answers(c, sdp) \/ Reinvites(c, sdp)
    \/ \E c \in Calls, by \in {"consumer", "ticker"} : Unregisters(c, by)
    \/ \E c \in Calls, k, src \in Endpoint : Learns(c, k, src) /\ StreamsFollow
    \/ Finishes
    \/ \E c \in Calls, m \in Medium : Registers(c, m)
    \/ \E c \in Calls, k \in Endpoint : RegistersRTCP(c, k)
    \/ \E c \in Calls : Replaces(c)

LEMMA JobSteps ==
    ASSUME Typed, [Next]_vars
    PROVE  JobMoves
<1> USE DEF SameOwnership, SameCounts
<1>1. CASE UNCHANGED vars
    BY <1>1 DEF vars, trackerVars, rtpVars, filterVars, aliasVars, Quiet, JobMoves
<1>2. CASE \E c \in Calls, sdp \in Descriptions : Answer(c, sdp)
    BY <1>2 DEF Answer, Answers, JobMoves, trackerVars, filterVars, aliasVars
<1>3. CASE \E c \in Calls, sdp \in Descriptions : Reinvite(c, sdp)
    <2>1. PICK c \in Calls, sdp \in Descriptions : Reinvite(c, sdp)  BY <1>3
    <2>2. todo' = Revision(c, sdp)  BY <2>1 DEF Reinvite, Revision
    <2>3. Reinvites(c, sdp)
        BY <2>1, <2>2 DEF Reinvite, Reinvites, trackerVars, filterVars, aliasVars
    <2> QED BY <2>3 DEF JobMoves
<1>4. CASE \E c \in Calls, by \in {"consumer", "ticker"} : Unregister(c, by)
    <2>1. PICK c \in Calls, by \in {"consumer", "ticker"} : Unregister(c, by)  BY <1>4
    <2>2. todo' = Removal(c, by)  BY <2>1 DEF Unregister, Removal
    <2>3. Unregisters(c, by)
        BY <2>1, <2>2 DEF Unregister, Unregisters, filterVars, aliasVars
    <2> QED BY <2>3 DEF JobMoves
<1>5. CASE \E src, dst \in Endpoint, counted \in BOOLEAN : RTPPacket(src, dst, counted)
    BY <1>5, PacketIs DEF JobMoves, Quiet, filterVars, aliasVars
<1>6. CASE Retain
    BY <1>6 DEF Retain, Doing, Rest, Finishes, JobMoves, trackerVars, aliasVars
<1>7. CASE Release
    BY <1>7 DEF Release, Doing, Rest, Finishes, JobMoves, trackerVars, aliasVars
<1>8. CASE Register  BY <1>8, RegisterIs DEF JobMoves
<1>9. CASE RegisterRTCP
    <2> DEFINE c == Head(todo).call
               k == Head(todo).key
    <2>1. c \in Calls /\ k \in Endpoint /\ todo # <<>> /\ Head(todo).op = "registerRTCP"
        BY <1>9, HeadIs DEF RegisterRTCP, Doing
    <2>2. k \notin callRTCP[c] => Each("retain", <<k>>) = <<RetainJob(k)>>
        BY <2>1, EachOne DEF RetainJob
    <2>3. todo' = (IF k \in callRTCP[c] THEN <<>> ELSE <<RetainJob(k)>>) \o Tail(todo)
        BY <1>9, <2>2 DEF RegisterRTCP, NewRTCP, Rest
    <2>4. RegistersRTCP(c, k)
        BY <1>9, <2>1, <2>3 DEF RegisterRTCP, RegistersRTCP, filterVars, aliasVars
    <2> QED BY <2>1, <2>4 DEF JobMoves
<1>10. CASE Replace
    <2>1. Head(todo).call \in Calls /\ todo # <<>> /\ Head(todo).op = "replace"
        BY <1>10, HeadIs DEF Replace, Doing
    <2>2. PICK c \in Calls : c = Head(todo).call  BY <2>1
    <2>3. todo' = Removal(c, "consumer") \o Tail(todo)
        BY <1>10, <2>2 DEF Replace, Rest, Removal
    <2>4. Replaces(c)
        BY <1>10, <2>1, <2>2, <2>3 DEF Replace, Replaces, filterVars, aliasVars
    <2> QED BY <2>4 DEF JobMoves
<1>11. CASE ReleaseAliases
    BY <1>11 DEF ReleaseAliases, Doing, Rest, Finishes, JobMoves, trackerVars, filterVars
<1>12. CASE Learned
    BY <1>12 DEF Learned, Doing, Rest, Finishes, JobMoves, trackerVars, filterVars
<1>13. CASE \E k \in Endpoint, failing \in SUBSET Interfaces : Reconcile(k, failing)
    BY <1>13 DEF Reconcile, JobMoves, Quiet, trackerVars, aliasVars
<1>14. CASE \E k \in Endpoint : Cleanup(k)
    BY <1>14 DEF Cleanup, JobMoves, Quiet, trackerVars, filterVars, aliasVars
<1>15. CASE \E c \in Calls : ReportReleased(c)
    BY <1>15 DEF ReportReleased, JobMoves, Quiet, trackerVars, filterVars
<1> QED BY <1>1, <1>2, <1>3, <1>4, <1>5, <1>6, <1>7, <1>8, <1>9, <1>10, <1>11, <1>12,
           <1>13, <1>14, <1>15 DEF Next, Handler

\* Where the operations of a re-INVITE are.
RevisionAt(u, c, sdp, a, b) ==
    /\ Len(u) = 2 * a + 2 * b + 1
    /\ \A n \in 1..a : u[n] = RetainJob(Owned(c)[n])
    /\ u[a + 1] = [op |-> "replace", call |-> c]
    /\ \A n \in 1..b : /\ u[a + 1 + n] = Registrations(c, sdp)[n]
                       /\ u[2 * a + b + 1 + n] = Registrations(c, sdp)[n]
    /\ \A n \in 1..a : u[a + b + 1 + n] = ReleaseJob(Owned(c)[n])

LEMMA RevisionShape ==
    ASSUME Typed, IndexesAgree, NEW c \in Calls, NEW sdp \in Descriptions
    PROVE  /\ Revision(c, sdp) \in Seq(Job)
           /\ Len(Owned(c)) \in Nat /\ Len(sdp) \in Nat
           /\ RevisionAt(Revision(c, sdp), c, sdp, Len(Owned(c)), Len(sdp))
<1> DEFINE A == Each("retain", Owned(c))
           r == [op |-> "replace", call |-> c]
           B == Registrations(c, sdp)
           C == Each("release", Owned(c))
           a == Len(Owned(c))
           b == Len(sdp)
<1>1. /\ A \in Seq(Job) /\ Len(A) = a /\ C \in Seq(Job) /\ Len(C) = a /\ a \in Nat
      /\ \A n \in 1..a : A[n] = RetainJob(Owned(c)[n]) /\ C[n] = ReleaseJob(Owned(c)[n])
    <2>1. Owned(c) \in Seq(Endpoint)  BY OwnedIs
    <2>2. DOMAIN Owned(c) = 1..a  BY <2>1
    <2> QED BY <2>1, <2>2, EachType DEF RetainJob, ReleaseJob
<1>2. B \in Seq(Job) /\ Len(B) = b /\ b \in Nat
    <2>1. sdp \in Seq(Medium)  BY DescriptionsAssumption DEF DescriptionsAssumption
    <2>2. DOMAIN B = 1..b /\ B \in Seq(Job)  BY <2>1, RegistrationsType
    <2>3. b \in Nat  BY <2>1
    <2> QED BY <2>2, <2>3 DEF Registrations
<1>3. <<r>> \in Seq(Job) /\ Len(<<r>>) = 1 /\ <<r>>[1] = r  BY DEF Job
<1> DEFINE D == A \o <<r>>
           E == D \o B
           F == E \o C
           G == F \o B
<1>4. Revision(c, sdp) = G  BY DEF Revision
<1> HIDE DEF A, r, B, C, a, b
<1>5. /\ D \in Seq(Job) /\ Len(D) = a + 1 /\ D[a + 1] = r
      /\ \A n \in 1..a : D[n] = A[n]
    BY <1>1, <1>3
<1> HIDE DEF D
<1>6. /\ E \in Seq(Job) /\ Len(E) = a + 1 + b
      /\ \A n \in 1..(a + 1) : E[n] = D[n]
      /\ \A n \in 1..b : E[a + 1 + n] = B[n]
    <2>1. D \in Seq(Job) /\ B \in Seq(Job) /\ Len(D) = a + 1 /\ Len(B) = b
        BY <1>2, <1>5
    <2>2. E = D \o B  BY DEF E
    <2> HIDE DEF E
    <2> QED BY <2>1, <2>2, ConcatAt
<1> HIDE DEF E
<1>7. /\ F \in Seq(Job) /\ Len(F) = a + 1 + b + a
      /\ \A n \in 1..(a + 1 + b) : F[n] = E[n]
      /\ \A n \in 1..a : F[a + 1 + b + n] = C[n]
    <2>1. E \in Seq(Job) /\ C \in Seq(Job) /\ Len(E) = a + 1 + b /\ Len(C) = a
        BY <1>1, <1>6
    <2>2. F = E \o C  BY DEF F
    <2> HIDE DEF F
    <2> QED BY <2>1, <2>2, ConcatAt
<1> HIDE DEF F
<1>8. /\ G \in Seq(Job) /\ Len(G) = a + 1 + b + a + b
      /\ \A n \in 1..(a + 1 + b + a) : G[n] = F[n]
      /\ \A n \in 1..b : G[a + 1 + b + a + n] = B[n]
    <2>1. F \in Seq(Job) /\ B \in Seq(Job) /\ Len(F) = a + 1 + b + a /\ Len(B) = b
        BY <1>2, <1>7
    <2>2. G = F \o B  BY DEF G
    <2> HIDE DEF G
    <2> QED BY <2>1, <2>2, ConcatAt
<1> HIDE DEF G
<1>9. Len(G) = 2 * a + 2 * b + 1  BY <1>1, <1>2, <1>8
<1>10. ASSUME NEW n \in 1..a
       PROVE  G[n] = RetainJob(Owned(c)[n]) /\ G[a + b + 1 + n] = ReleaseJob(Owned(c)[n])
    <2>1. n \in 1..(a + 1) /\ n \in 1..(a + 1 + b) /\ n \in 1..(a + 1 + b + a)  BY <1>1, <1>2
    <2>2. G[n] = A[n]  BY <1>5, <1>6, <1>7, <1>8, <2>1
    <2>3. a + 1 + b + n \in 1..(a + 1 + b + a) /\ a + b + 1 + n = a + 1 + b + n  BY <1>1, <1>2
    <2>4. G[a + b + 1 + n] = C[n]  BY <1>7, <1>8, <2>3
    <2> QED BY <1>1, <2>2, <2>4
<1>11. G[a + 1] = r
    <2>1. a + 1 \in 1..(a + 1) /\ a + 1 \in 1..(a + 1 + b) /\ a + 1 \in 1..(a + 1 + b + a)
        BY <1>1, <1>2
    <2> QED BY <1>5, <1>6, <1>7, <1>8, <2>1
<1>12. ASSUME NEW n \in 1..b
       PROVE  G[a + 1 + n] = B[n] /\ G[2 * a + b + 1 + n] = B[n]
    <2>1. a + 1 + n \in 1..(a + 1 + b) /\ a + 1 + n \in 1..(a + 1 + b + a)  BY <1>1, <1>2
    <2>2. 2 * a + b + 1 + n = a + 1 + b + a + n  BY <1>1, <1>2
    <2> QED BY <1>6, <1>7, <1>8, <2>1, <2>2
<1>13. RevisionAt(G, c, sdp, a, b)
    BY <1>9, <1>10, <1>11, <1>12 DEF RevisionAt, r, B
<1> QED BY <1>1, <1>2, <1>4, <1>8, <1>13 DEF a, b

\* What takes the place of the first operation.
Successors(nx) ==
    /\ nx \in Seq(Job)
    /\ \A i \in DOMAIN nx :
          /\ nx[i].op \in {"retain", "release", "dropAliases", "registerRTCP"}
          /\ nx[i].op = "retain" => i = 1
    /\ nx # <<>> => Head(todo).op \in {"register", "registerRTCP", "replace"}

LEMMA SuccessorsOfNone == Successors(<<>>)
BY DEF Successors

LEMMA SuccessorsOfRegister ==
    ASSUME Typed, TrackerInv, NEW c \in Calls, NEW m \in Medium, Registers(c, m)
    PROVE  Successors(Followups(c, m)) /\ Head(todo).op = "register"
<1>1. Head(todo).op = "register"  BY DEF Registers
<1> DEFINE nx == Followups(c, m)
           d == Displaced(m.rtp)
<1>2. /\ nx \in Seq(Job)
      /\ \A i \in DOMAIN nx :
            \/ i = 1 /\ nx[i] = RetainJob(m.rtp)
            \/ nx[i] = DropAliases(d, {m.rtp}, "consumer")
            \/ nx[i] = ReleaseJob(m.rtp)
            \/ \E e \in Endpoint : nx[i] = RTCPJob(c, e)
    BY FollowupsAre DEF TrackerInv
<1> HIDE DEF nx
<1>3. Successors(nx)
    BY <1>1, <1>2 DEF Successors, RetainJob, ReleaseJob, RTCPJob, DropAliases
<1> QED BY <1>1, <1>3 DEF nx

LEMMA SuccessorsOfRTCP ==
    ASSUME Typed, NEW c \in Calls, NEW k \in Endpoint, RegistersRTCP(c, k)
    PROVE  Successors(IF k \in callRTCP[c] THEN <<>> ELSE <<RetainJob(k)>>)
<1>1. RetainJob(k) \in Job  BY DEF RetainJob, Job
<1> QED BY <1>1 DEF Successors, RegistersRTCP, RetainJob

LEMMA SuccessorsOfReplace ==
    ASSUME Typed, TrackerInv, NEW c \in Calls, Replaces(c)
    PROVE  Successors(Removal(c, "consumer"))
<1> DEFINE nx == Removal(c, "consumer")
           a == Len(Owned(c))
<1>1. /\ nx \in Seq(Job) /\ Len(nx) = a + 1 /\ a \in Nat
      /\ \A i \in 1..a : nx[i] = [op |-> "release", key |-> Owned(c)[i]]
      /\ nx[a + 1] = DropAliases(c, ToSet(Owned(c)), "consumer")
    BY RemovalShape DEF TrackerInv
<1> HIDE DEF nx, a
<1>2. \A i \in DOMAIN nx : nx[i].op \in {"release", "dropAliases"}
    <2>1. DOMAIN nx = 1..(a + 1)  BY <1>1
    <2>2. ASSUME NEW i \in 1..a PROVE nx[i].op = "release"
        <3>1. nx[i] = [op |-> "release", key |-> Owned(c)[i]]  BY <1>1
        <3> QED BY <3>1
    <2>3. nx[a + 1].op = "dropAliases"  BY <1>1 DEF DropAliases
    <2> QED BY <1>1, <2>1, <2>2, <2>3
<1>3. Successors(nx)  BY <1>1, <1>2 DEF Successors, Replaces
<1> QED BY <1>3 DEF nx

\* What the steps that do the first operation have in common.
Drops(j, a) == j.op = "dropAliases" /\ j.call = a.call /\ a.key \in j.keys
AliasAt(k) == [call |-> mediaAliases[k], key |-> k]
LabelsFollow ==
    /\ Head(todo).op = "learned" =>
          /\ aliasLabels' = aliasLabels \cup {[call |-> Head(todo).call, key |-> Head(todo).key]}
          /\ mediaAliases' = mediaAliases
    /\ Head(todo).op = "dropAliases" =>
          aliasLabels' = aliasLabels \ Released(Head(todo).call, Head(todo).keys)
    /\ Head(todo).op \notin {"learned", "dropAliases"} => aliasLabels' = aliasLabels
AliasesFollow(nx) ==
    /\ \A k \in Endpoint :
          \/ mediaAliases'[k] = mediaAliases[k]
          \/ mediaAliases'[k] = Nobody /\ \E i \in DOMAIN nx : Drops(nx[i], AliasAt(k))
    /\ \A i \in DOMAIN nx : nx[i].op = "dropAliases" =>
          \A k \in nx[i].keys : mediaAliases'[k] # nx[i].call
OwnersFollow(nx) ==
    /\ Head(todo).op = "register" => owners'[Head(todo).medium.rtp] # <<>>
    /\ Head(todo).op # "replace" => \A k \in Endpoint : owners[k] # <<>> => owners'[k] # <<>>
    /\ \A i \in DOMAIN nx : nx[i].op = "release" =>
          \/ Head(todo).op = "register" /\ nx[i].key = Head(todo).medium.rtp
          \/ Head(todo).op = "replace" /\ nx[i].key \in ToSet(Owned(Head(todo).call))

HeadMove(nx) ==
    /\ todo # <<>> /\ todo' = nx \o Tail(todo) /\ Successors(nx)
    /\ Head(todo).op = "retain" => SameOwnership
    /\ LabelsFollow /\ AliasesFollow(nx) /\ OwnersFollow(nx)

LEMMA FinishesIs == Typed /\ Finishes => HeadMove(<<>>)
<1> SUFFICES ASSUME Typed, Finishes PROVE HeadMove(<<>>)
    OBVIOUS
<1>1. LabelsFollow  BY DEF Finishes, LabelsFollow, SameOwnership
<1>2. AliasesFollow(<<>>) /\ OwnersFollow(<<>>)
    BY DEF Finishes, AliasesFollow, OwnersFollow, SameOwnership
<1> QED BY <1>1, <1>2, SuccessorsOfNone DEF HeadMove, Finishes

LEMMA RegistersIs ==
    ASSUME Typed, TrackerInv, NEW c \in Calls, NEW m \in Medium, Registers(c, m)
    PROVE  HeadMove(Followups(c, m))
<1> DEFINE k == m.rtp
           d == Displaced(k)
           nx == Followups(c, m)
           D == DropAliases(d, {k}, "consumer")
<1>0. k \in Endpoint /\ d = mediaAliases[k] /\ (d = Nobody \/ d \in Calls)
    BY DEF Medium, Displaced, Typed
<1>1. /\ Successors(nx)
      /\ Head(todo).op = "register" /\ Head(todo).medium = m /\ todo # <<>>
    <2>1. Successors(nx)  BY SuccessorsOfRegister
    <2>2. todo # <<>> /\ Head(todo) = [op |-> "register", call |-> c, medium |-> m]
        BY DEF Registers
    <2> QED BY <2>1, <2>2
<1>2. /\ \A i \in DOMAIN nx :
            \/ nx[i] = RetainJob(k)
            \/ nx[i] = D /\ d \in Calls
            \/ nx[i] = ReleaseJob(k)
            \/ \E e \in Endpoint : nx[i] = RTCPJob(c, e)
      /\ d # Nobody => \E i \in DOMAIN nx : nx[i] = D
    BY FollowupsAre DEF TrackerInv
<1>3. D.op = "dropAliases" /\ D.call = d /\ D.keys = {k}  BY DEF DropAliases
<1>4. /\ mediaAliases'[k] = Nobody
      /\ \A p \in Endpoint : p # k => mediaAliases'[p] = mediaAliases[p]
    BY <1>0 DEF Registers, Typed
<1> HIDE DEF nx, D, d
<1>5. AliasesFollow(nx)
    <2>1. ASSUME NEW p \in Endpoint
          PROVE  \/ mediaAliases'[p] = mediaAliases[p]
                 \/ mediaAliases'[p] = Nobody /\ \E i \in DOMAIN nx : Drops(nx[i], AliasAt(p))
        <3>1. CASE p = k /\ d # Nobody
            <4>1. Drops(D, AliasAt(k))  BY <1>0, <1>3 DEF Drops, AliasAt
            <4> QED BY <1>2, <1>4, <3>1, <4>1
        <3>2. CASE p # k \/ d = Nobody  BY <1>0, <1>4, <3>2
        <3> QED BY <3>1, <3>2
    <2>2. ASSUME NEW i \in DOMAIN nx, nx[i].op = "dropAliases", NEW p \in nx[i].keys
          PROVE  mediaAliases'[p] # nx[i].call
        <3>1. nx[i] = D /\ d \in Calls
            BY <1>2, <2>2 DEF RetainJob, ReleaseJob, RTCPJob
        <3> QED BY <1>3, <1>4, <2>2, <3>1, NobodyIsNone
    <2> QED BY <2>1, <2>2 DEF AliasesFollow
<1>6. OwnersFollow(nx)
    <2>1. c \in ToSet(owners'[k])
        <3>1. CASE Added(c, k)
            <4>1. owners'[k] = Append(owners[k], c) /\ owners[k] \in Seq(Calls)
                BY <1>0, <3>1 DEF Registers, Typed
            <4>2. Len(owners'[k]) = Len(owners[k]) + 1 /\ owners'[k][Len(owners[k]) + 1] = c
                BY <4>1
            <4>3. Len(owners[k]) + 1 \in DOMAIN owners'[k]  BY <4>1
            <4> QED BY <4>2, <4>3 DEF ToSet
        <3>2. CASE ~Added(c, k)
            BY <1>0, <3>2 DEF Registers, Added, TrackerInv, IndexesAgree
        <3> QED BY <3>1, <3>2
    <2>2. owners'[k] # <<>>  BY <2>1 DEF ToSet
    <2>3. \A p \in Endpoint : p # k => owners'[p] = owners[p]
        BY <1>0 DEF Registers, Typed
    <2>4. ASSUME NEW i \in DOMAIN nx, nx[i].op = "release" PROVE nx[i].key = k
        BY <1>2, <1>3, <2>4 DEF RetainJob, ReleaseJob, RTCPJob
    <2> QED BY <1>1, <2>2, <2>3, <2>4 DEF OwnersFollow
<1>7. LabelsFollow  BY <1>1 DEF LabelsFollow, Registers, aliasVars
<1>8. todo' = nx \o Tail(todo)  BY DEF Registers, nx
<1>9. HeadMove(nx)  BY <1>1, <1>5, <1>6, <1>7, <1>8 DEF HeadMove
<1> QED BY <1>9 DEF nx

LEMMA RegistersRTCPIs ==
    ASSUME Typed, NEW c \in Calls, NEW k \in Endpoint, RegistersRTCP(c, k)
    PROVE  HeadMove(IF k \in callRTCP[c] THEN <<>> ELSE <<RetainJob(k)>>)
<1> DEFINE nx == IF k \in callRTCP[c] THEN <<>> ELSE <<RetainJob(k)>>
<1>1. Successors(nx) /\ todo' = nx \o Tail(todo)  BY SuccessorsOfRTCP DEF RegistersRTCP
<1>2. \A i \in DOMAIN nx : nx[i].op = "retain"  BY DEF RetainJob
<1> HIDE DEF nx
<1>3. LabelsFollow  BY DEF RegistersRTCP, LabelsFollow, SameCounts
<1>4. AliasesFollow(nx)  BY <1>2 DEF RegistersRTCP, AliasesFollow
<1>5. OwnersFollow(nx)  BY <1>2 DEF RegistersRTCP, OwnersFollow
<1>6. HeadMove(nx)  BY <1>1, <1>3, <1>4, <1>5 DEF RegistersRTCP, HeadMove
<1> QED BY <1>6 DEF nx

\* The aliases of a call are the endpoints that are its learned sources.
LEMMA AliasesAre ==
    ASSUME AliasesSingle, NEW p \in Endpoint, NEW b \in Calls
    PROVE  p \in AliasesOf(b) <=> mediaAliases[p] = b
<1>1. CASE mediaAliases[p] = b
    <2>1. \E q \in Endpoint : sourceAliases[b][q] = p  BY <1>1 DEF AliasesSingle
    <2> QED BY <1>1, <2>1, NobodyIsNone DEF AliasesOf
<1>2. CASE mediaAliases[p] # b
    <2>1. \A q \in Endpoint : sourceAliases[b][q] # p  BY <1>2 DEF AliasesSingle
    <2> QED BY <1>2, <2>1 DEF AliasesOf
<1> QED BY <1>1, <1>2

\* What the removal of a call's media does to the aliases.
LEMMA RemovalFollows ==
    ASSUME Typed, TrackerInv, NEW c \in Calls, NEW by \in {"consumer", "ticker"},
           RemoveCallMedia(c), NEW nx, nx = Removal(c, by)
    PROVE  AliasesFollow(nx)
<1> DEFINE a == Len(Owned(c))
           D == DropAliases(c, ToSet(Owned(c)), by)
<1>1. /\ nx \in Seq(Job) /\ Len(nx) = a + 1 /\ a \in Nat
      /\ \A i \in 1..a : nx[i] = [op |-> "release", key |-> Owned(c)[i]]
      /\ nx[a + 1] = D /\ ToSet(Owned(c)) \subseteq Endpoint
    BY RemovalShape DEF TrackerInv
<1>2. D.op = "dropAliases" /\ D.call = c /\ D.keys = ToSet(Owned(c))  BY DEF DropAliases
<1> HIDE DEF a, D
<1>3. DOMAIN nx = 1..(a + 1)  BY <1>1
<1>4. \A k \in Endpoint : mediaAliases'[k] = IF mediaAliases[k] = c THEN Nobody ELSE mediaAliases[k]
    BY AliasesAre DEF TrackerInv, RemoveCallMedia
<1>5. ASSUME NEW k \in Endpoint, mediaAliases[k] = c
      PROVE  \E i \in DOMAIN nx : Drops(nx[i], AliasAt(k))
    <2>1. k \in ToSet(Owned(c))  BY <1>5, AliasesAre, OwnedIs DEF TrackerInv
    <2>2. Drops(nx[a + 1], AliasAt(k))  BY <1>1, <1>2, <1>5, <2>1 DEF Drops, AliasAt
    <2> QED BY <1>1, <1>3, <2>2
<1>6. ASSUME NEW i \in DOMAIN nx, nx[i].op = "dropAliases", NEW k \in nx[i].keys
      PROVE  mediaAliases'[k] # nx[i].call
    <2>1. i = a + 1
        <3>1. CASE i \in 1..a
            <4>1. nx[i] = [op |-> "release", key |-> Owned(c)[i]]  BY <1>1, <3>1
            <4> QED BY <1>6, <4>1
        <3> QED BY <1>1, <1>3, <3>1
    <2> QED BY <1>1, <1>2, <1>4, <1>6, <2>1, NobodyIsNone
<1> QED BY <1>4, <1>5, <1>6 DEF AliasesFollow

LEMMA ReplacesIs ==
    ASSUME Typed, TrackerInv, NEW c \in Calls, Replaces(c)
    PROVE  HeadMove(Removal(c, "consumer"))
<1>0. PICK nx : nx = Removal(c, "consumer")  OBVIOUS
<1>1. Successors(nx) /\ todo' = nx \o Tail(todo) /\ Head(todo).op = "replace"
    BY <1>0, SuccessorsOfReplace DEF Replaces
<1>2. AliasesFollow(nx)  BY <1>0, RemovalFollows DEF Replaces
<1>3. OwnersFollow(nx)
    <2> DEFINE a == Len(Owned(c))
    <2>1. /\ nx \in Seq(Job) /\ Len(nx) = a + 1 /\ a \in Nat /\ Owned(c) \in Seq(Endpoint)
          /\ \A i \in 1..a : nx[i] = [op |-> "release", key |-> Owned(c)[i]]
          /\ nx[a + 1] = DropAliases(c, ToSet(Owned(c)), "consumer")
        BY <1>0, RemovalShape, OwnedIs DEF TrackerInv
    <2>2. DOMAIN nx = 1..(a + 1)  BY <2>1
    <2>3. ASSUME NEW i \in DOMAIN nx, nx[i].op = "release"
          PROVE  nx[i].key \in ToSet(Owned(Head(todo).call))
        <3>1. i # a + 1  BY <2>1, <2>3 DEF DropAliases
        <3>2. i \in 1..a  BY <2>1, <2>2, <3>1
        <3>3. nx[i] = [op |-> "release", key |-> Owned(c)[i]]  BY <2>1, <3>2
        <3>4. Head(todo).call = c  BY DEF Replaces
        <3>5. i \in DOMAIN Owned(c)  BY <2>1, <3>2
        <3> QED BY <3>3, <3>4, <3>5 DEF ToSet
    <2> QED BY <1>1, <2>3 DEF OwnersFollow
<1>4. LabelsFollow  BY <1>1 DEF Replaces, LabelsFollow, SameCounts
<1>5. HeadMove(nx)  BY <1>1, <1>2, <1>3, <1>4 DEF HeadMove, Replaces
<1> QED BY <1>0, <1>5

\* Nothing changes, the work of a handler begins, or its first operation is done.
LEMMA JobKinds ==
    ASSUME Typed, TrackerInv, [Next]_vars
    PROVE  \/ Quiet
           \/ \E c \in Calls, sdp \in Descriptions : Answers(c, sdp) \/ Reinvites(c, sdp)
           \/ \E c \in Calls, by \in {"consumer", "ticker"} : Unregisters(c, by)
           \/ \E c \in Calls, k, src \in Endpoint : Learns(c, k, src) /\ StreamsFollow
           \/ \E nx : HeadMove(nx)
<1>1. JobMoves  BY JobSteps
<1>2. CASE Finishes  BY <1>2, FinishesIs
<1>3. CASE \E c \in Calls, m \in Medium : Registers(c, m)  BY <1>3, RegistersIs
<1>4. CASE \E c \in Calls, k \in Endpoint : RegistersRTCP(c, k)  BY <1>4, RegistersRTCPIs
<1>5. CASE \E c \in Calls : Replaces(c)  BY <1>5, ReplacesIs
<1> QED BY <1>1, <1>2, <1>3, <1>4, <1>5 DEF JobMoves

-----------------------------------------------------------------------------
(* The lists stay in order, and the labels follow the aliases.             *)

JobInv == /\ RetainsFirst /\ LearnedIsLast /\ DropsAreStale
          /\ LabelsLive /\ AliasesLabelled /\ ReplaceCovered /\ KeptCovered

LEMMA JobIs ==
    ASSUME NEW j \in Job
    PROVE  /\ j.op \in {"retain", "release"} => j.key \in Endpoint
           /\ j.op \in {"learned", "registerRTCP"} => j.call \in Calls /\ j.key \in Endpoint
           /\ j.op = "register" => j.call \in Calls /\ j.medium \in Medium
           /\ j.op = "replace" => j.call \in Calls
           /\ j.op = "dropAliases" => j.call \in Calls /\ j.keys \in SUBSET Endpoint
                                      /\ j.by \in {"consumer", "ticker"}
BY DEF Job

LEMMA QuietJobs ==
    ASSUME Typed, JobInv, Quiet
    PROVE  todo' \in Seq(Job) /\ JobInv'
<1>1. /\ todo' = todo /\ mediaAliases' = mediaAliases /\ aliasLabels' = aliasLabels
      /\ owners' = owners /\ order' = order /\ sourceAliases' = sourceAliases
      /\ callRTCP' = callRTCP
    BY DEF Quiet, SameOwnership, SameCounts
<1>2. \A c : Owned(c)' = Owned(c)  BY <1>1 DEF Owned, AliasesOf
<1>3. RetainsFirst' /\ LearnedIsLast' /\ DropsAreStale'
    BY <1>1 DEF JobInv, RetainsFirst, LearnedIsLast, DropsAreStale
<1>4. LabelsLive' /\ AliasesLabelled'
    BY <1>1 DEF JobInv, LabelsLive, AliasesLabelled, DropPending, LearnedPending
<1>5. ReplaceCovered'
    <2> SUFFICES ASSUME NEW n \in DOMAIN todo, todo[n].op = "replace"
                 PROVE  /\ \A m \in DOMAIN todo : m < n => todo[m].op = "retain"
                        /\ \A k \in ToSet(Owned(todo[n].call)) :
                              \E l \in DOMAIN todo :
                                  n < l /\ todo[l].op = "release" /\ todo[l].key = k
        BY <1>1, <1>2 DEF ReplaceCovered
    <2> QED BY DEF JobInv, ReplaceCovered
<1>6. KeptCovered'
    BY <1>1 DEF JobInv, KeptCovered, ReleasesEndpoint, RegistersEndpoint
<1> QED BY <1>1, <1>3, <1>4, <1>5, <1>6 DEF JobInv, Typed

\* With nothing left to do, the labels are those of the aliases.
LEMMA LabelsAtRest ==
    ASSUME LabelsLive, AliasesLabelled, todo = <<>>
    PROVE  /\ \A a \in aliasLabels : mediaAliases[a.key] = a.call
           /\ \A a \in [call : Calls, key : Endpoint] :
                 mediaAliases[a.key] = a.call => a \in aliasLabels
BY DEF LabelsLive, AliasesLabelled, DropPending, LearnedPending

LEMMA AnswerJobs ==
    ASSUME Typed, JobInv, NEW c \in Calls, NEW sdp \in Descriptions, Answers(c, sdp)
    PROVE  todo' \in Seq(Job) /\ JobInv'
<1>1. /\ mediaAliases' = mediaAliases /\ aliasLabels' = aliasLabels
      /\ todo = <<>> /\ todo' = Registrations(c, sdp)
    BY DEF Answers, SameOwnership, SameCounts
<1>2. todo' \in Seq(Job) /\ \A n \in DOMAIN todo' : todo'[n].op = "register"
    <2> DEFINE r == Registrations(c, sdp)
    <2>1. /\ r \in Seq(Job) /\ DOMAIN r = DOMAIN sdp
          /\ \A n \in DOMAIN sdp :
                r[n] = [op |-> "register", call |-> c, medium |-> sdp[n]]
        BY RegistrationsType
    <2> HIDE DEF r
    <2>2. todo' = r  BY <1>1 DEF r
    <2>3. \A n \in DOMAIN r : r[n].op = "register"  BY <2>1
    <2> QED BY <2>1, <2>2, <2>3
<1>3. RetainsFirst' /\ LearnedIsLast' /\ DropsAreStale' /\ ReplaceCovered' /\ KeptCovered'
    BY <1>2 DEF RetainsFirst, LearnedIsLast, DropsAreStale, ReplaceCovered, KeptCovered,
                ReleasesEndpoint
<1>4. LabelsLive' /\ AliasesLabelled'
    BY <1>1, LabelsAtRest DEF JobInv, LabelsLive, AliasesLabelled
<1> QED BY <1>2, <1>3, <1>4 DEF JobInv

LEMMA ReinviteJobs ==
    ASSUME Typed, IndexesAgree, JobInv, NEW c \in Calls, NEW sdp \in Descriptions,
           Reinvites(c, sdp)
    PROVE  todo' \in Seq(Job) /\ JobInv'
<1> DEFINE a == Len(Owned(c))
           b == Len(sdp)
<1>1. /\ mediaAliases' = mediaAliases /\ aliasLabels' = aliasLabels
      /\ todo = <<>> /\ todo' = Revision(c, sdp)
    BY DEF Reinvites, SameOwnership, SameCounts
<1>2. /\ todo' \in Seq(Job) /\ a \in Nat /\ b \in Nat
      /\ RevisionAt(todo', c, sdp, a, b)
    BY <1>1, RevisionShape
<1>3. Owned(c)' = Owned(c)  BY DEF Reinvites, SameOwnership, Owned, AliasesOf
<1>4. Owned(c) \in Seq(Endpoint) /\ DOMAIN Owned(c) = 1..a  BY OwnedIs
<1>5. /\ DOMAIN sdp = 1..b
      /\ \A n \in 1..b : Registrations(c, sdp)[n]
                            = [op |-> "register", call |-> c, medium |-> sdp[n]]
    <2>1. sdp \in Seq(Medium)  BY DescriptionsAssumption DEF DescriptionsAssumption
    <2> QED BY <2>1, RegistrationsType
<1> HIDE DEF a, b
<1>6. PICK u : u = todo'  OBVIOUS
<1>7. u \in Seq(Job) /\ RevisionAt(u, c, sdp, a, b)  BY <1>2, <1>6
<1>8. DOMAIN u = 1..(2 * a + 2 * b + 1)  BY <1>7 DEF RevisionAt
<1>9. ASSUME NEW n \in 1..a PROVE u[n].op = "retain"
    <2>1. u[n] = RetainJob(Owned(c)[n])  BY <1>7 DEF RevisionAt
    <2> QED BY <2>1 DEF RetainJob
<1>10. u[a + 1].op = "replace" /\ u[a + 1].call = c
    <2>1. u[a + 1] = [op |-> "replace", call |-> c]  BY <1>7 DEF RevisionAt
    <2> QED BY <2>1
<1>11. ASSUME NEW i \in 1..a
       PROVE  u[a + b + 1 + i].op = "release" /\ u[a + b + 1 + i].key = Owned(c)[i]
    <2>1. u[a + b + 1 + i] = ReleaseJob(Owned(c)[i])  BY <1>7 DEF RevisionAt
    <2> QED BY <2>1 DEF ReleaseJob
<1>12. ASSUME NEW i \in 1..b
       PROVE  /\ u[a + 1 + i].op = "register" /\ u[a + 1 + i].medium = sdp[i]
              /\ u[2 * a + b + 1 + i].op = "register" /\ u[2 * a + b + 1 + i].medium = sdp[i]
    <2>1. /\ u[a + 1 + i] = Registrations(c, sdp)[i]
          /\ u[2 * a + b + 1 + i] = Registrations(c, sdp)[i]
        BY <1>7 DEF RevisionAt
    <2>2. Registrations(c, sdp)[i] = [op |-> "register", call |-> c, medium |-> sdp[i]]
        BY <1>5
    <2> QED BY <2>1, <2>2
<1>13. ASSUME NEW n \in DOMAIN u
       PROVE  \/ n \in 1..a /\ u[n].op = "retain"
              \/ n = a + 1 /\ u[n].op = "replace" /\ u[n].call = c
              \/ \E i \in 1..b : /\ n = a + 1 + i
                                 /\ u[n].op = "register" /\ u[n].medium = sdp[i]
              \/ \E i \in 1..a : /\ n = a + b + 1 + i
                                 /\ u[n].op = "release" /\ u[n].key = Owned(c)[i]
              \/ \E i \in 1..b : /\ n = 2 * a + b + 1 + i
                                 /\ u[n].op = "register" /\ u[n].medium = sdp[i]
    <2>0. n \in 1..(2 * a + 2 * b + 1)  BY <1>8
    <2>1. CASE n \in 1..a  BY <1>9, <2>1
    <2>2. CASE n = a + 1  BY <1>10, <2>2
    <2>3. CASE n \in (a + 2)..(a + 1 + b)
        <3>1. n - (a + 1) \in 1..b /\ n = a + 1 + (n - (a + 1))  BY <1>2, <2>3
        <3>2. PICK i \in 1..b : n = a + 1 + i  BY <3>1
        <3> QED BY <1>12, <3>2
    <2>4. CASE n \in (a + b + 2)..(2 * a + b + 1)
        <3>1. n - (a + b + 1) \in 1..a /\ n = a + b + 1 + (n - (a + b + 1))  BY <1>2, <2>4
        <3>2. PICK i \in 1..a : n = a + b + 1 + i  BY <3>1
        <3> QED BY <1>11, <3>2
    <2>5. CASE n \in (2 * a + b + 2)..(2 * a + 2 * b + 1)
        <3>1. n - (2 * a + b + 1) \in 1..b /\ n = 2 * a + b + 1 + (n - (2 * a + b + 1))
            BY <1>2, <2>5
        <3>2. PICK i \in 1..b : n = 2 * a + b + 1 + i  BY <3>1
        <3> QED BY <1>12, <3>2
    <2> QED BY <1>2, <2>0, <2>1, <2>2, <2>3, <2>4, <2>5
<1>14. ASSUME NEW m \in DOMAIN u, NEW n \in DOMAIN u, m < n, u[n].op = "retain"
       PROVE  u[m].op = "retain"
    <2>1. n \in 1..a  BY <1>13, <1>14
    <2>2. m \in 1..a  BY <1>2, <1>8, <1>14, <2>1
    <2> QED BY <1>9, <2>2
<1>15. RetainsFirst'  BY <1>6, <1>14 DEF RetainsFirst
<1>16. LearnedIsLast' /\ DropsAreStale'
    <2>1. \A n \in DOMAIN u : u[n].op \notin {"learned", "dropAliases"}  BY <1>13
    <2> QED BY <1>6, <2>1 DEF LearnedIsLast, DropsAreStale
<1>17. LabelsLive' /\ AliasesLabelled'
    BY <1>1, LabelsAtRest DEF JobInv, LabelsLive, AliasesLabelled
<1>18. ASSUME NEW n \in DOMAIN u, u[n].op = "replace"
       PROVE  /\ u[n].call = c
              /\ \A m \in DOMAIN u : m < n => u[m].op = "retain"
              /\ \A k \in ToSet(Owned(c)) :
                    \E l \in DOMAIN u : n < l /\ u[l].op = "release" /\ u[l].key = k
    <2>1. n = a + 1 /\ u[n].call = c  BY <1>13, <1>18
    <2>2. ASSUME NEW m \in DOMAIN u, m < n PROVE u[m].op = "retain"
        <3>1. m \in 1..a  BY <1>2, <1>8, <2>1, <2>2
        <3> QED BY <1>9, <3>1
    <2>3. ASSUME NEW k \in ToSet(Owned(c))
          PROVE  \E l \in DOMAIN u : n < l /\ u[l].op = "release" /\ u[l].key = k
        <3>1. PICK i \in 1..a : Owned(c)[i] = k  BY <1>4 DEF ToSet
        <3>2. a + b + 1 + i \in DOMAIN u /\ n < a + b + 1 + i  BY <1>2, <1>8, <2>1
        <3> QED BY <1>11, <3>1, <3>2
    <2> QED BY <2>1, <2>2, <2>3
<1>19. ReplaceCovered'
    <2> SUFFICES ASSUME NEW n \in DOMAIN u, u[n].op = "replace"
                 PROVE  /\ \A m \in DOMAIN u : m < n => u[m].op = "retain"
                        /\ \A k \in ToSet(Owned(u[n].call)') :
                              \E l \in DOMAIN u : n < l /\ u[l].op = "release" /\ u[l].key = k
        BY <1>6 DEF ReplaceCovered
    <2> QED BY <1>3, <1>18
<1>20. ASSUME NEW k \in Endpoint, NEW n \in DOMAIN u, NEW m \in DOMAIN u, n < m,
              u[n].op = "release", u[n].key = k, u[m].op = "register", u[m].medium.rtp = k
       PROVE  \E l \in DOMAIN u : l < n /\ u[l].op = "register" /\ u[l].medium.rtp = k
    <2>1. PICK i \in 1..a : n = a + b + 1 + i  BY <1>13, <1>20
    <2>2. PICK j \in 1..b : m = 2 * a + b + 1 + j /\ u[m].medium = sdp[j]
        <3>1. CASE \E j \in 1..b : m = a + 1 + j  BY <1>2, <1>20, <2>1, <3>1
        <3> QED BY <1>13, <1>20, <3>1
    <2>3. a + 1 + j \in DOMAIN u /\ a + 1 + j < n  BY <1>2, <1>8, <2>1
    <2>4. u[a + 1 + j].op = "register" /\ u[a + 1 + j].medium = sdp[j]  BY <1>12
    <2> QED BY <1>20, <2>2, <2>3, <2>4
<1>21. KeptCovered'
    BY <1>6, <1>20 DEF KeptCovered, ReleasesEndpoint, RegistersEndpoint
<1> QED BY <1>2, <1>15, <1>16, <1>17, <1>19, <1>21 DEF JobInv

LEMMA UnregisterJobs ==
    ASSUME Typed, TrackerInv, JobInv, NEW c \in Calls, NEW by \in {"consumer", "ticker"},
           Unregisters(c, by)
    PROVE  todo' \in Seq(Job) /\ JobInv'
<1> DEFINE a == Len(Owned(c))
<1>1. PICK nx : nx = Removal(c, by)  OBVIOUS
<1>2. /\ nx \in Seq(Job) /\ Len(nx) = a + 1 /\ a \in Nat
      /\ \A i \in 1..a : nx[i] = [op |-> "release", key |-> Owned(c)[i]]
      /\ nx[a + 1] = DropAliases(c, ToSet(Owned(c)), by)
    BY <1>1, RemovalShape DEF TrackerInv
<1> HIDE DEF a
<1>3. todo' = nx /\ todo = <<>> /\ RemoveCallMedia(c) /\ aliasLabels' = aliasLabels
    BY <1>1 DEF Unregisters, SameCounts
<1>4. AliasesFollow(nx)  BY <1>1, <1>3, RemovalFollows
<1>5. \A n \in DOMAIN nx : nx[n].op \in {"release", "dropAliases"}
    <2>1. DOMAIN nx = 1..(a + 1)  BY <1>2
    <2>2. ASSUME NEW i \in 1..a PROVE nx[i].op = "release"
        <3>1. nx[i] = [op |-> "release", key |-> Owned(c)[i]]  BY <1>2
        <3> QED BY <3>1
    <2>3. nx[a + 1].op = "dropAliases"  BY <1>2 DEF DropAliases
    <2> QED BY <1>2, <2>1, <2>2, <2>3
<1>6. RetainsFirst' /\ LearnedIsLast' /\ ReplaceCovered' /\ KeptCovered'
    BY <1>3, <1>5 DEF RetainsFirst, LearnedIsLast, ReplaceCovered, KeptCovered,
                      RegistersEndpoint
<1>7. DropsAreStale'  BY <1>3, <1>4 DEF DropsAreStale, AliasesFollow
<1>8. LabelsLive'
    <2> SUFFICES ASSUME NEW l \in aliasLabels, mediaAliases'[l.key] # l.call
                 PROVE  \E n \in DOMAIN nx : Drops(nx[n], l)
        BY <1>3 DEF LabelsLive, DropPending, Drops
    <2>1. l \in [call : Calls, key : Endpoint] /\ mediaAliases[l.key] = l.call
        BY <1>3, LabelsAtRest DEF JobInv, Typed
    <2>2. AliasAt(l.key).call = l.call /\ AliasAt(l.key).key = l.key  BY <2>1 DEF AliasAt
    <2>3. \E i \in DOMAIN nx : Drops(nx[i], AliasAt(l.key))
        BY <1>4, <2>1 DEF AliasesFollow
    <2> QED BY <2>2, <2>3 DEF Drops
<1>9. AliasesLabelled'
    <2> SUFFICES ASSUME NEW l \in [call : Calls, key : Endpoint],
                        mediaAliases'[l.key] = l.call
                 PROVE  l \in aliasLabels
        BY <1>3 DEF AliasesLabelled
    <2>1. mediaAliases[l.key] = l.call  BY <1>4, NobodyIsNone DEF AliasesFollow
    <2> QED BY <1>3, <2>1, LabelsAtRest DEF JobInv
<1> QED BY <1>2, <1>3, <1>6, <1>7, <1>8, <1>9 DEF JobInv

LEMMA LearnJobs ==
    ASSUME Typed, TrackerInv, JobInv, NEW c \in Calls, NEW k \in Endpoint, NEW src \in Endpoint,
           Learns(c, k, src), StreamsFollow
    PROVE  todo' \in Seq(Job) /\ JobInv'
<1> DEFINE r == RetainJob(src)
           j == [op |-> "learned", call |-> c, key |-> src]
<1>1. /\ todo = <<>> /\ todo' = <<r, j>> /\ aliasLabels' = aliasLabels
    BY DEF Learns, aliasVars
<1>2. /\ mediaAliases[src] = Nobody /\ mediaAliases'[src] = c
      /\ \A p \in Endpoint : p # src => mediaAliases'[p] = mediaAliases[p]
    BY LearnTracker
<1>3. r \in Job /\ r.op = "retain" /\ j \in Job /\ j.op = "learned" /\ j.call = c /\ j.key = src
    BY DEF RetainJob, Job
<1> HIDE DEF r, j
<1>4. PICK u : u = <<r, j>>  OBVIOUS
<1>5. /\ u \in Seq(Job) /\ DOMAIN u = 1..2 /\ u[1] = r /\ u[2] = j /\ todo' = u
    BY <1>1, <1>3, <1>4
<1>6. RetainsFirst' /\ DropsAreStale' /\ ReplaceCovered' /\ KeptCovered'
    BY <1>3, <1>5 DEF RetainsFirst, DropsAreStale, ReplaceCovered, KeptCovered,
                      RegistersEndpoint
<1>7. [call |-> c, key |-> src] \notin aliasLabels
    <2>1. [call |-> c, key |-> src] \in aliasLabels => mediaAliases[src] = c
        BY <1>1, LabelsAtRest DEF JobInv
    <2> QED BY <1>2, <2>1, NobodyIsNone
<1>8. LearnedIsLast'
    <2> SUFFICES ASSUME NEW n \in 1..2, u[n].op = "learned"
                 PROVE  /\ mediaAliases'[u[n].key] = u[n].call
                        /\ [call |-> u[n].call, key |-> u[n].key] \notin aliasLabels
                        /\ \A m \in 1..2 : m # n => u[m].op = "retain"
        BY <1>1, <1>5 DEF LearnedIsLast
    <2>1. n = 2  BY <1>3, <1>5
    <2> QED BY <1>2, <1>3, <1>5, <1>7, <2>1
<1>9. LabelsLive'
    <2> SUFFICES ASSUME NEW l \in aliasLabels PROVE mediaAliases'[l.key] = l.call
        BY <1>1 DEF LabelsLive
    <2>1. l.key \in Endpoint /\ l.call \in Calls /\ mediaAliases[l.key] = l.call
        BY <1>1, LabelsAtRest DEF JobInv, Typed
    <2> QED BY <1>2, <2>1, NobodyIsNone
<1>10. AliasesLabelled'
    <2> SUFFICES ASSUME NEW l \in [call : Calls, key : Endpoint], mediaAliases'[l.key] = l.call,
                        l \notin aliasLabels
                 PROVE  \E n \in 1..2 : /\ u[n].op = "learned"
                                        /\ u[n].call = l.call /\ u[n].key = l.key
        BY <1>1, <1>5 DEF AliasesLabelled, LearnedPending
    <2>1. l.key = src
        <3>1. mediaAliases[l.key] # l.call  BY <1>1, LabelsAtRest DEF JobInv
        <3> QED BY <1>2, <3>1
    <2> QED BY <1>2, <1>3, <1>5, <2>1
<1> QED BY <1>5, <1>6, <1>8, <1>9, <1>10 DEF JobInv

LEMMA HeadJobs ==
    ASSUME Typed, JobInv, NEW nx, HeadMove(nx)
    PROVE  todo' \in Seq(Job) /\ JobInv'
<1> DEFINE N == Len(nx)
<1>1. PICK u : u = todo'  OBVIOUS
<1>2. /\ nx \in Seq(Job) /\ N \in Nat /\ DOMAIN nx = 1..N
      /\ todo \in Seq(Job) /\ todo # <<>> /\ u = nx \o Tail(todo)
    BY <1>1 DEF HeadMove, Successors, Typed
<1>3. /\ Head(todo) = todo[1] /\ 1 \in DOMAIN todo /\ DOMAIN todo = 1..Len(todo)
      /\ Len(todo) \in Nat
    BY <1>2
<1>4. /\ u \in Seq(Job)
      /\ \A i \in DOMAIN nx : i \in DOMAIN u /\ u[i] = nx[i]
      /\ \A i \in DOMAIN u : i > N => i - N + 1 \in 2..Len(todo) /\ u[i] = todo[i - N + 1]
      /\ \A j \in 2..Len(todo) : j + N - 1 \in DOMAIN u /\ u[j + N - 1] = todo[j]
      /\ DOMAIN u \subseteq Nat \ {0}
    <2>1. /\ u \in Seq(Job)
          /\ \A i \in 1..Len(nx) : i \in DOMAIN u /\ u[i] = nx[i]
          /\ \A i \in DOMAIN u : i > Len(nx) =>
               i - Len(nx) + 1 \in 2..Len(todo) /\ u[i] = todo[i - Len(nx) + 1]
          /\ \A j \in 2..Len(todo) : j + Len(nx) - 1 \in DOMAIN u /\ u[j + Len(nx) - 1] = todo[j]
        BY <1>2, AfterHead
    <2> QED BY <1>2, <2>1
<1>5. /\ \A i \in DOMAIN nx : /\ nx[i].op \in {"retain", "release", "dropAliases", "registerRTCP"}
                              /\ nx[i].op = "retain" => i = 1
      /\ nx # <<>> => Head(todo).op \in {"register", "registerRTCP", "replace"}
    BY DEF HeadMove, Successors
<1>6. Head(todo).op \notin {"register", "registerRTCP", "replace"} => N = 0 /\ DOMAIN nx = {}
    BY <1>2, <1>5
<1>7. LabelsFollow /\ AliasesFollow(nx) /\ OwnersFollow(nx)
      /\ (Head(todo).op = "retain" => SameOwnership)
    BY DEF HeadMove
<1> HIDE DEF N
\* Of the new list: an operation of nx, or one that was there.
<1>8. ASSUME NEW n \in DOMAIN u
      PROVE  \/ n \in DOMAIN nx /\ u[n] = nx[n] /\ n <= N
             \/ \E j \in 2..Len(todo) : j \in DOMAIN todo /\ n = j + N - 1 /\ u[n] = todo[j]
    <2>1. CASE n <= N
        <3>1. n \in DOMAIN nx  BY <1>2, <1>4, <2>1
        <3> QED BY <1>4, <2>1, <3>1
    <2>2. CASE n > N
        <3>1. n - N + 1 \in 2..Len(todo) /\ u[n] = todo[n - N + 1]  BY <1>4, <2>2
        <3>2. PICK j \in 2..Len(todo) : j = n - N + 1 /\ u[n] = todo[j]  BY <3>1
        <3>3. n \in Nat  BY <1>4
        <3>4. n = j + N - 1  BY <1>2, <3>2, <3>3
        <3>5. j \in DOMAIN todo  BY <1>3, <3>2
        <3>6. \E i \in 2..Len(todo) : i \in DOMAIN todo /\ n = i + N - 1 /\ u[n] = todo[i]
            BY <3>2, <3>4, <3>5, Zenon
        <3> QED BY <3>6
    <2>3. n \in Nat /\ N \in Nat  BY <1>2, <1>4
    <2> QED BY <2>1, <2>2, <2>3
<1>9. ASSUME NEW j \in DOMAIN todo, j # 1
      PROVE  /\ j \in 2..Len(todo) /\ j + N - 1 \in DOMAIN u /\ u[j + N - 1] = todo[j]
             /\ j + N - 1 > N
    <2>1. j \in 2..Len(todo)  BY <1>3, <1>9
    <2> QED BY <1>2, <1>4, <2>1
<1>10. RetainsFirst'
    <2> SUFFICES ASSUME NEW m \in DOMAIN u, NEW n \in DOMAIN u, m < n, u[n].op = "retain"
                 PROVE  u[m].op = "retain"
        BY <1>1 DEF RetainsFirst
    <2>1. PICK j \in 2..Len(todo) : j \in DOMAIN todo /\ n = j + N - 1 /\ u[n] = todo[j]
        <3>1. CASE n \in DOMAIN nx /\ u[n] = nx[n]  BY <1>4, <1>5, <3>1
        <3> QED BY <1>8, <3>1
    <2>2. Head(todo).op = "retain"  BY <1>3, <2>1 DEF JobInv, RetainsFirst
    <2>3. N = 0 /\ DOMAIN nx = {}  BY <1>6, <2>2
    <2>4. PICK i \in 2..Len(todo) : i \in DOMAIN todo /\ m = i + N - 1 /\ u[m] = todo[i]
        BY <1>8, <2>3
    <2>5. i < j  BY <1>2, <2>1, <2>4
    <2> QED BY <2>1, <2>4, <2>5 DEF JobInv, RetainsFirst
<1>11. LearnedIsLast'
    <2> SUFFICES ASSUME NEW n \in DOMAIN u, u[n].op = "learned"
                 PROVE  /\ mediaAliases'[u[n].key] = u[n].call
                        /\ [call |-> u[n].call, key |-> u[n].key] \notin aliasLabels'
                        /\ \A m \in DOMAIN u : m # n => u[m].op = "retain"
        BY <1>1 DEF LearnedIsLast
    <2>1. PICK j \in 2..Len(todo) : j \in DOMAIN todo /\ n = j + N - 1 /\ u[n] = todo[j]
        <3>1. CASE n \in DOMAIN nx /\ u[n] = nx[n]  BY <1>5, <3>1
        <3> QED BY <1>8, <3>1
    <2>2. /\ mediaAliases[u[n].key] = u[n].call
          /\ [call |-> u[n].call, key |-> u[n].key] \notin aliasLabels
          /\ \A m \in DOMAIN todo : m # j => todo[m].op = "retain"
        BY <2>1 DEF JobInv, LearnedIsLast
    <2>3. Head(todo).op = "retain"  BY <1>3, <2>1, <2>2
    <2>4. N = 0 /\ DOMAIN nx = {}  BY <1>6, <2>3
    <2>5. mediaAliases' = mediaAliases /\ aliasLabels' = aliasLabels
        BY <1>7, <2>3 DEF SameOwnership, LabelsFollow
    <2>6. ASSUME NEW m \in DOMAIN u, m # n PROVE u[m].op = "retain"
        <3>1. PICK i \in 2..Len(todo) : i \in DOMAIN todo /\ m = i + N - 1 /\ u[m] = todo[i]
            BY <1>8, <2>4
        <3> QED BY <2>1, <2>2, <2>6, <3>1
    <2> QED BY <2>2, <2>5, <2>6
<1>12. DropsAreStale'
    <2> SUFFICES ASSUME NEW n \in DOMAIN u, u[n].op = "dropAliases", NEW k \in u[n].keys
                 PROVE  mediaAliases'[k] # u[n].call
        BY <1>1 DEF DropsAreStale
    <2>1. CASE n \in DOMAIN nx /\ u[n] = nx[n]  BY <1>7, <2>1 DEF AliasesFollow
    <2>2. CASE \E j \in DOMAIN todo : u[n] = todo[j]
        <3>1. mediaAliases[k] # u[n].call  BY <2>2 DEF JobInv, DropsAreStale
        <3>2. u[n] \in Job  BY <1>4
        <3>3. u[n].call \in Calls /\ k \in Endpoint  BY <3>2, JobIs
        <3> QED BY <1>7, <3>1, <3>3, NobodyIsNone DEF AliasesFollow
    <2> QED BY <1>8, <2>1, <2>2
<1>13. LabelsLive'
    <2> SUFFICES ASSUME NEW l \in aliasLabels', mediaAliases'[l.key] # l.call
                 PROVE  \E n \in DOMAIN u : Drops(u[n], l)
        BY <1>1 DEF LabelsLive, DropPending, Drops
    <2>1. l \in aliasLabels
        <3>1. CASE Head(todo).op = "learned"
            <4>1. mediaAliases[Head(todo).key] = Head(todo).call /\ mediaAliases' = mediaAliases
                BY <1>3, <1>7, <3>1 DEF JobInv, LearnedIsLast, LabelsFollow
            <4>2. l # [call |-> Head(todo).call, key |-> Head(todo).key]  BY <4>1
            <4> QED BY <1>7, <3>1, <4>2 DEF LabelsFollow
        <3>2. CASE Head(todo).op # "learned"  BY <1>7, <3>2 DEF LabelsFollow
        <3> QED BY <3>1, <3>2
    <2>2. l.key \in Endpoint /\ l.call \in Calls  BY <2>1 DEF Typed
    <2>3. CASE mediaAliases[l.key] = l.call
        <3>1. PICK i \in DOMAIN nx : Drops(nx[i], AliasAt(l.key))
            BY <1>7, <2>2, <2>3 DEF AliasesFollow
        <3>2. Drops(nx[i], l)  BY <2>3, <3>1 DEF Drops, AliasAt
        <3> QED BY <1>4, <3>2
    <2>4. CASE mediaAliases[l.key] # l.call
        <3>1. PICK j \in DOMAIN todo : Drops(todo[j], l)
            BY <2>1, <2>4 DEF JobInv, LabelsLive, DropPending, Drops
        <3>2. j # 1
            <4>1. CASE j = 1
                <5>1. Head(todo).op = "dropAliases" /\ l \in Released(Head(todo).call, Head(todo).keys)
                    BY <1>3, <2>1, <3>1, <4>1 DEF Drops, Released
                <5> QED BY <1>7, <5>1 DEF LabelsFollow
            <4> QED BY <4>1
        <3> QED BY <1>9, <3>1, <3>2
    <2> QED BY <2>3, <2>4
<1>14. AliasesLabelled'
    <2> SUFFICES ASSUME NEW l \in [call : Calls, key : Endpoint], mediaAliases'[l.key] = l.call,
                        l \notin aliasLabels'
                 PROVE  \E n \in DOMAIN u : /\ u[n].op = "learned"
                                            /\ u[n].call = l.call /\ u[n].key = l.key
        BY <1>1 DEF AliasesLabelled, LearnedPending
    <2>1. mediaAliases[l.key] = l.call  BY <1>7, NobodyIsNone DEF AliasesFollow
    <2>2. l \notin aliasLabels
        <3>1. CASE Head(todo).op = "dropAliases"
            <4>1. l \notin Released(Head(todo).call, Head(todo).keys)
                BY <1>3, <2>1, <3>1 DEF JobInv, DropsAreStale, Released
            <4> QED BY <1>7, <3>1, <4>1 DEF LabelsFollow
        <3>2. CASE Head(todo).op # "dropAliases"  BY <1>7, <3>2 DEF LabelsFollow
        <3> QED BY <3>1, <3>2
    <2>3. PICK j \in DOMAIN todo : /\ todo[j].op = "learned"
                                   /\ todo[j].call = l.call /\ todo[j].key = l.key
        BY <2>1, <2>2 DEF JobInv, AliasesLabelled, LearnedPending
    <2>4. j # 1
        <3>1. CASE j = 1
            <4>1. Head(todo).op = "learned" /\ l = [call |-> Head(todo).call, key |-> Head(todo).key]
                BY <1>3, <2>3, <3>1
            <4> QED BY <1>7, <4>1 DEF LabelsFollow
        <3> QED BY <3>1
    <2> QED BY <1>9, <2>3, <2>4
<1>15. ASSUME NEW n \in DOMAIN u, u[n].op = "replace"
       PROVE  Head(todo).op = "retain" /\ \E j \in DOMAIN todo : todo[j] = u[n] /\ n = j + N - 1
    <2>1. PICK j \in 2..Len(todo) : j \in DOMAIN todo /\ n = j + N - 1 /\ u[n] = todo[j]
        <3>1. CASE n \in DOMAIN nx /\ u[n] = nx[n]  BY <1>5, <1>15, <3>1
        <3> QED BY <1>8, <3>1
    <2>2. 1 < j  OBVIOUS
    <2>3. todo[1].op = "retain"  BY <1>3, <1>15, <2>1, <2>2 DEF JobInv, ReplaceCovered
    <2> QED BY <1>3, <2>1, <2>3
<1>16. ReplaceCovered'
    <2> SUFFICES ASSUME NEW n \in DOMAIN u, u[n].op = "replace"
                 PROVE  /\ \A m \in DOMAIN u : m < n => u[m].op = "retain"
                        /\ \A k \in ToSet(Owned(u[n].call)') :
                              \E l \in DOMAIN u : n < l /\ u[l].op = "release" /\ u[l].key = k
        BY <1>1 DEF ReplaceCovered
    <2>1. PICK j \in DOMAIN todo : todo[j] = u[n] /\ n = j + N - 1  BY <1>15
    <2>2. Head(todo).op = "retain" /\ N = 0 /\ DOMAIN nx = {}  BY <1>6, <1>15
    <2>3. Owned(u[n].call)' = Owned(u[n].call)
        BY <1>7, <2>2 DEF SameOwnership, Owned, AliasesOf
    <2>4. ASSUME NEW m \in DOMAIN u, m < n PROVE u[m].op = "retain"
        <3>1. PICK i \in 2..Len(todo) : i \in DOMAIN todo /\ m = i + N - 1 /\ u[m] = todo[i]
            BY <1>8, <2>2
        <3>2. i < j  BY <1>2, <1>3, <2>1, <2>4, <3>1
        <3> QED BY <2>1, <3>1, <3>2 DEF JobInv, ReplaceCovered
    <2>5. ASSUME NEW k \in ToSet(Owned(u[n].call))
          PROVE  \E l \in DOMAIN u : n < l /\ u[l].op = "release" /\ u[l].key = k
        <3>1. PICK l \in DOMAIN todo : j < l /\ todo[l].op = "release" /\ todo[l].key = k
            BY <2>1, <2>5 DEF JobInv, ReplaceCovered
        <3>2. l # 1 /\ n < l + N - 1  BY <1>2, <1>3, <2>1, <3>1
        <3> QED BY <1>9, <3>1, <3>2
    <2> QED BY <2>3, <2>4, <2>5
<1>17. KeptCovered'
    <2> SUFFICES ASSUME NEW k \in Endpoint, NEW n \in DOMAIN u, NEW m \in DOMAIN u, n < m,
                        u[n].op = "release", u[n].key = k,
                        u[m].op = "register", u[m].medium.rtp = k
                 PROVE  \/ owners'[k] # <<>> /\ \A r \in DOMAIN u : u[r].op # "replace"
                        \/ \E l \in DOMAIN u :
                              l < n /\ u[l].op = "register" /\ u[l].medium.rtp = k
                        \/ \E l \in DOMAIN u :
                              n < l /\ u[l].op = "release" /\ u[l].key = k
        BY <1>1 DEF KeptCovered, ReleasesEndpoint, RegistersEndpoint
    <2>1. PICK jm \in 2..Len(todo) : jm \in DOMAIN todo /\ m = jm + N - 1 /\ u[m] = todo[jm]
        <3>1. CASE m \in DOMAIN nx /\ u[m] = nx[m]  BY <1>5, <3>1
        <3> QED BY <1>8, <3>1
    <2>2. ASSUME Head(todo).op = "register", Head(todo).medium.rtp = k
          PROVE  owners'[k] # <<>> /\ \A r \in DOMAIN u : u[r].op # "replace"
        BY <1>7, <1>15, <2>2 DEF OwnersFollow
    <2>3. CASE n \in DOMAIN nx /\ u[n] = nx[n] /\ n <= N
        <3>1. \/ Head(todo).op = "register" /\ Head(todo).medium.rtp = k
              \/ Head(todo).op = "replace" /\ k \in ToSet(Owned(Head(todo).call))
            BY <1>7, <2>3 DEF OwnersFollow
        <3>2. CASE Head(todo).op = "replace" /\ k \in ToSet(Owned(Head(todo).call))
            <4>1. PICK l \in DOMAIN todo : 1 < l /\ todo[l].op = "release" /\ todo[l].key = k
                BY <1>3, <3>2 DEF JobInv, ReplaceCovered
            <4>2. n < l + N - 1  BY <1>2, <1>3, <1>4, <2>3, <4>1
            <4> QED BY <1>9, <4>1, <4>2
        <3> QED BY <2>2, <3>1, <3>2
    <2>4. CASE \E j \in 2..Len(todo) : j \in DOMAIN todo /\ n = j + N - 1 /\ u[n] = todo[j]
        <3>1. PICK j \in 2..Len(todo) : j \in DOMAIN todo /\ n = j + N - 1 /\ u[n] = todo[j]
            BY <2>4
        <3>2. j < jm  BY <1>2, <2>1, <3>1
        <3>3. \/ owners[k] # <<>> /\ \A r \in DOMAIN todo : todo[r].op # "replace"
              \/ \E l \in DOMAIN todo : l < j /\ RegistersEndpoint(l, k)
              \/ \E l \in DOMAIN todo : j < l /\ ReleasesEndpoint(l, k)
            BY <2>1, <3>1, <3>2 DEF JobInv, KeptCovered, ReleasesEndpoint, RegistersEndpoint
        <3>4. CASE owners[k] # <<>> /\ \A r \in DOMAIN todo : todo[r].op # "replace"
            <4>1. owners'[k] # <<>>  BY <1>3, <1>7, <3>4 DEF OwnersFollow
            <4>2. \A r \in DOMAIN u : u[r].op # "replace"  BY <1>15, <3>4
            <4> QED BY <4>1, <4>2
        <3>5. CASE \E l \in DOMAIN todo : l < j /\ RegistersEndpoint(l, k)
            <4>1. PICK l \in DOMAIN todo :
                      l < j /\ todo[l].op = "register" /\ todo[l].medium.rtp = k
                BY <3>5 DEF RegistersEndpoint
            <4>2. CASE l = 1  BY <1>3, <2>2, <4>1, <4>2
            <4>3. CASE l # 1
                <5>1. l + N - 1 < n  BY <1>2, <1>3, <3>1, <4>1
                <5> QED BY <1>9, <4>1, <4>3, <5>1
            <4> QED BY <4>2, <4>3
        <3>6. CASE \E l \in DOMAIN todo : j < l /\ ReleasesEndpoint(l, k)
            <4>1. PICK l \in DOMAIN todo : j < l /\ todo[l].op = "release" /\ todo[l].key = k
                BY <3>6 DEF ReleasesEndpoint
            <4>2. l # 1 /\ n < l + N - 1  BY <1>2, <1>3, <3>1, <4>1
            <4> QED BY <1>9, <4>1, <4>2
        <3> QED BY <3>3, <3>4, <3>5, <3>6
    <2> QED BY <1>8, <2>3, <2>4
<1> QED BY <1>1, <1>4, <1>10, <1>11, <1>12, <1>13, <1>14, <1>16, <1>17 DEF JobInv

LEMMA JobStep ==
    ASSUME Typed, TrackerInv, JobInv, [Next]_vars
    PROVE  todo' \in Seq(Job) /\ JobInv'
BY JobKinds, QuietJobs, AnswerJobs, ReinviteJobs, UnregisterJobs, LearnJobs, HeadJobs
   DEF TrackerInv

-----------------------------------------------------------------------------
(* The account of the references.                                          *)

RTCPs(k) == Cardinality({c \in Calls : k \in callRTCP[c]})
Alias(k) == IF mediaAliases[k] = Nobody THEN 0 ELSE 1

OwnershipSums ==
    \A k \in Endpoint : /\ Ownerships(k) = Len(owners[k]) + Alias(k) + RTCPs(k)
                        /\ Len(owners[k]) \in Nat /\ Alias(k) \in Nat /\ RTCPs(k) \in Nat

\* An endpoint is the learned source of one call at most.
LEMMA OwnershipsAre == TrackerTyped /\ AliasesSingle => OwnershipSums
<1> SUFFICES ASSUME TrackerTyped, AliasesSingle, NEW k \in Endpoint
             PROVE  /\ Ownerships(k) = Len(owners[k]) + Alias(k) + RTCPs(k)
                    /\ Len(owners[k]) \in Nat /\ Alias(k) \in Nat /\ RTCPs(k) \in Nat
    BY DEF OwnershipSums
<1>1. Len(owners[k]) \in Nat  BY DEF TrackerTyped
<1>2. RTCPs(k) \in Nat
    <2>1. {c \in Calls : k \in callRTCP[c]} \subseteq Calls  OBVIOUS
    <2> QED BY <2>1, CallsFinite, FS_Subset, FS_CardinalityType DEF RTCPs
<1>3. Cardinality({c \in Calls : k \in AliasesOf(c)}) = Alias(k)
    <2> DEFINE A == {c \in Calls : k \in AliasesOf(c)}
    <2>1. A = {c \in Calls : mediaAliases[k] = c}  BY AliasesAre
    <2>2. CASE mediaAliases[k] = Nobody
        <3>1. A = {}  BY <2>1, <2>2, NobodyIsNone
        <3> QED BY <2>2, <3>1, FS_EmptySet DEF Alias
    <2>3. CASE mediaAliases[k] # Nobody
        <3>1. A = {mediaAliases[k]}  BY <2>1, <2>3 DEF TrackerTyped
        <3> QED BY <2>3, <3>1, FS_Singleton DEF Alias
    <2> QED BY <2>2, <2>3
<1> QED BY <1>1, <1>2, <1>3 DEF Ownerships, RTCPs, Alias

\* The count, ownerships and operations of an endpoint before and after a step that
\* does the first operation and puts those of nx in its place.
Balance(k, nx, o, r, p) ==
    r + o + Count("retain", k, nx) + Count("release", k, <<Head(todo)>>)
       = refs[k] + p + Count("release", k, nx) + Count("retain", k, <<Head(todo)>>)

LEMMA CountedMove ==
    ASSUME Typed, Counted, NEW nx \in Seq(Job), todo # <<>>, todo' = nx \o Tail(todo),
           NEW k \in Endpoint, NEW o \in Nat, Ownerships(k) = o, NEW r \in Nat, NEW p \in Nat,
           Balance(k, nx, o, r, p)
    PROVE  r + Pending("retain", k)' = p + Pending("release", k)'
<1>1. todo \in Seq(Job) /\ refs[k] \in Nat  BY DEF Typed
<1>2. PICK u : u = todo'  OBVIOUS
<1>3. \A op : Pending(op, k)' = Count(op, k, u)  BY <1>2 DEF Pending, Count, Places
<1>4. ASSUME NEW op
      PROVE  /\ Count(op, k, u) + Count(op, k, <<Head(todo)>>) = Count(op, k, nx) + Count(op, k, todo)
             /\ Count(op, k, u) \in Nat /\ Count(op, k, <<Head(todo)>>) \in Nat
             /\ Count(op, k, nx) \in Nat /\ Count(op, k, todo) \in Nat
    <2>1. <<Head(todo)>> \in Seq(Job) /\ u = nx \o Tail(todo) /\ u \in Seq(Job)  BY <1>1, <1>2
    <2>2. Count(op, k, nx \o Tail(todo)) + Count(op, k, <<Head(todo)>>)
             = Count(op, k, nx) + Count(op, k, todo)
        BY <1>1, CountStep
    <2>3. /\ Count(op, k, u) \in Nat /\ Count(op, k, <<Head(todo)>>) \in Nat
          /\ Count(op, k, nx) \in Nat /\ Count(op, k, todo) \in Nat
        BY <1>1, <2>1, CountType
    <2> QED BY <2>1, <2>2, <2>3
<1>5. refs[k] + Count("retain", k, todo) = o + Count("release", k, todo)
    BY PendingIs DEF Counted
<1> DEFINE R == Count("retain", k, todo)
           S == Count("release", k, todo)
           Rn == Count("retain", k, nx)
           Sn == Count("release", k, nx)
           Rh == Count("retain", k, <<Head(todo)>>)
           Sh == Count("release", k, <<Head(todo)>>)
           Ru == Count("retain", k, u)
           Su == Count("release", k, u)
<1>6. /\ R \in Nat /\ S \in Nat /\ Rn \in Nat /\ Sn \in Nat /\ Rh \in Nat /\ Sh \in Nat
      /\ Ru \in Nat /\ Su \in Nat /\ Ru + Rh = Rn + R /\ Su + Sh = Sn + S
      /\ refs[k] + R = o + S /\ r + o + Rn + Sh = refs[k] + p + Sn + Rh
    BY <1>4, <1>5 DEF Balance
<1> HIDE DEF R, S, Rn, Sn, Rh, Sh, Ru, Su
<1>7. r + Ru = p + Su  BY <1>1, <1>6
<1> QED BY <1>3, <1>7 DEF Ru, Su

\* As many references are taken for the old revision as released.
LEMMA RevisionCounts ==
    ASSUME Typed, IndexesAgree, NEW c \in Calls, NEW sdp \in Descriptions, NEW k
    PROVE  Count("retain", k, Revision(c, sdp)) = Count("release", k, Revision(c, sdp))
<1> DEFINE A == Each("retain", Owned(c))
           r == <<[op |-> "replace", call |-> c]>>
           B == Registrations(c, sdp)
           C == Each("release", Owned(c))
<1>1. A \in Seq(Job) /\ C \in Seq(Job) /\ Count("retain", k, A) = Count("release", k, C)
      /\ DOMAIN A = DOMAIN C
      /\ \A n \in DOMAIN A : A[n].op = "retain" /\ C[n].op = "release"
    <2>1. Owned(c) \in Seq(Endpoint)  BY OwnedIs
    <2>2. A \in Seq(Job) /\ DOMAIN A = DOMAIN Owned(c) /\ C \in Seq(Job)
          /\ DOMAIN C = DOMAIN Owned(c)
        BY <2>1, EachType
    <2>3. \A n \in DOMAIN Owned(c) : A[n].op = "retain" /\ C[n].op = "release"
        BY DEF Each
    <2> QED BY <2>2, <2>3, OwnedIs
<1>2. B \in Seq(Job) /\ \A n \in DOMAIN B : B[n].op = "register"
    BY RegistrationsType DEF Registrations
<1>3. r \in Seq(Job) /\ \A n \in DOMAIN r : r[n].op = "replace"  BY DEF Job
<1>4. Revision(c, sdp) = (((A \o r) \o B) \o C) \o B  BY DEF Revision
<1> HIDE DEF A, r, B, C
<1>5. A \o r \in Seq(Job) /\ (A \o r) \o B \in Seq(Job) /\ ((A \o r) \o B) \o C \in Seq(Job)
    BY <1>1, <1>2, <1>3
<1>6. ASSUME NEW op \in {"retain", "release"}
      PROVE  Count(op, k, (((A \o r) \o B) \o C) \o B) = Count(op, k, A) + Count(op, k, C)
    <2>1. Count(op, k, B) = 0 /\ Count(op, k, r) = 0  BY <1>2, <1>3, CountNone
    <2>2. Count(op, k, (((A \o r) \o B) \o C) \o B)
             = Count(op, k, ((A \o r) \o B) \o C) + Count(op, k, B)
        <3>1. ((A \o r) \o B) \o C \in Seq(Job) /\ B \in Seq(Job)  BY <1>2, <1>5
        <3> QED BY <3>1, CountConcat
    <2>3. Count(op, k, ((A \o r) \o B) \o C) = Count(op, k, (A \o r) \o B) + Count(op, k, C)
        <3>1. (A \o r) \o B \in Seq(Job) /\ C \in Seq(Job)  BY <1>1, <1>5
        <3> QED BY <3>1, CountConcat
    <2>4. Count(op, k, (A \o r) \o B) = Count(op, k, A \o r) + Count(op, k, B)
        <3>1. A \o r \in Seq(Job) /\ B \in Seq(Job)  BY <1>2, <1>5
        <3> QED BY <3>1, CountConcat
    <2>5. Count(op, k, A \o r) = Count(op, k, A) + Count(op, k, r)
        <3>1. A \in Seq(Job) /\ r \in Seq(Job)  BY <1>1, <1>3
        <3> QED BY <3>1, CountConcat
    <2>6. Count(op, k, A) \in Nat /\ Count(op, k, C) \in Nat  BY <1>1, CountType
    <2> QED BY <2>1, <2>2, <2>3, <2>4, <2>5, <2>6
<1>7. Count("release", k, A) = 0 /\ Count("retain", k, C) = 0  BY <1>1, CountNone
<1>8. Count("retain", k, A) \in Nat  BY <1>1, CountType
<1> QED BY <1>1, <1>4, <1>6, <1>7, <1>8

LEMMA OwnershipsAreNext == TrackerTyped' /\ AliasesSingle' => OwnershipSums'
BY OwnershipsAre, PTL

LEMMA OwnershipsNext ==
    ASSUME Typed, TrackerInv, [Next]_vars
    PROVE  /\ \A k \in Endpoint :
                 /\ Ownerships(k) = Len(owners[k]) + Alias(k) + RTCPs(k)
                 /\ Len(owners[k]) \in Nat /\ Alias(k) \in Nat /\ RTCPs(k) \in Nat
                 /\ Ownerships(k) \in Nat
           /\ \A k \in Endpoint :
                 /\ Ownerships(k)' = Len(owners'[k]) + Alias(k)' + RTCPs(k)'
                 /\ Len(owners'[k]) \in Nat /\ Alias(k)' \in Nat /\ RTCPs(k)' \in Nat
                 /\ Ownerships(k)' \in Nat
<1>1. TrackerTyped /\ AliasesSingle  BY DEF Typed, TrackerTyped, TrackerInv
<1>2. TrackerTyped' /\ AliasesSingle'  BY TrackerStep DEF TrackerInv
<1>3. OwnershipSums /\ OwnershipSums'  BY <1>1, <1>2, OwnershipsAre, OwnershipsAreNext
<1>4. \A k \in Endpoint :
         /\ Ownerships(k)' = Len(owners'[k]) + Alias(k)' + RTCPs(k)'
         /\ Len(owners'[k]) \in Nat /\ Alias(k)' \in Nat /\ RTCPs(k)' \in Nat
    BY <1>3 DEF OwnershipSums
<1>5. \A k \in Endpoint :
         /\ Ownerships(k) = Len(owners[k]) + Alias(k) + RTCPs(k)
         /\ Len(owners[k]) \in Nat /\ Alias(k) \in Nat /\ RTCPs(k) \in Nat
    BY <1>3 DEF OwnershipSums
<1> QED BY <1>4, <1>5

\* Ownerships are kept when nobody registers or removes anything.
LEMMA SameOwnerships ==
    ASSUME SameOwnership, NEW k \in Endpoint
    PROVE  Ownerships(k)' = Ownerships(k)
BY DEF SameOwnership, Ownerships, AliasesOf

LEMMA RegisterOwnerships ==
    ASSUME Typed, TrackerInv, [Next]_vars, NEW c \in Calls, NEW m \in Medium, Registers(c, m),
           NEW p \in Endpoint
    PROVE  Ownerships(p)' + (IF p = m.rtp /\ Displaced(m.rtp) # Nobody THEN 1 ELSE 0)
              = Ownerships(p) + (IF p = m.rtp /\ Added(c, m.rtp) THEN 1 ELSE 0)
<1> DEFINE k == m.rtp
           d == Displaced(k)
<1>1. k \in Endpoint /\ d = mediaAliases[k]  BY DEF Medium, Displaced
<1>2. RTCPs(p)' = RTCPs(p)  BY DEF Registers, RTCPs
<1>3. Alias(p)' = (IF p = k THEN 0 ELSE Alias(p)) /\ Alias(k) = (IF d = Nobody THEN 0 ELSE 1)
    <2>1. mediaAliases'[p] = IF p = k THEN Nobody ELSE mediaAliases[p]
        BY <1>1 DEF Registers, Typed
    <2> QED BY <1>1, <2>1 DEF Alias
<1>4. Len(owners'[p]) = Len(owners[p]) + (IF p = k /\ Added(c, k) THEN 1 ELSE 0)
    <2>0. owners \in [Endpoint -> Seq(Calls)]  BY DEF Typed
    <2>1. CASE Added(c, k)
        <3>1. owners' = [owners EXCEPT ![k] = Append(@, c)]  BY <2>1 DEF Registers
        <3> QED BY <1>1, <2>0, <2>1, <3>1
    <2>2. CASE ~Added(c, k)  BY <2>0, <2>2 DEF Registers
    <2> QED BY <2>1, <2>2
<1>5. /\ Ownerships(p) = Len(owners[p]) + Alias(p) + RTCPs(p)
      /\ Ownerships(p)' = Len(owners'[p]) + Alias(p)' + RTCPs(p)'
      /\ Len(owners[p]) \in Nat /\ Alias(p) \in Nat /\ RTCPs(p) \in Nat
    BY OwnershipsNext
<1> DEFINE add == IF p = k /\ Added(c, k) THEN 1 ELSE 0
           off == IF p = k /\ d # Nobody THEN 1 ELSE 0
<1>6. add \in Nat /\ off \in Nat  OBVIOUS
<1>7. Len(owners'[p]) = Len(owners[p]) + add  BY <1>4
<1>8. Alias(p)' + off = Alias(p)  BY <1>3, <1>5
<1> HIDE DEF add, off
<1>9. Ownerships(p)' + off = Ownerships(p) + add
    <2> DEFINE x == Len(owners[p])
               y == Len(owners'[p])
               v == Alias(p)'
    <2>1. x \in Nat /\ y = x + add /\ v \in Nat /\ v + off = Alias(p)
          /\ Ownerships(p) = x + Alias(p) + RTCPs(p) /\ Ownerships(p)' = y + v + RTCPs(p)
        BY <1>2, <1>5, <1>7, <1>8, OwnershipsNext
    <2> HIDE DEF x, y, v
    <2> QED BY <1>5, <1>6, <2>1
<1> QED BY <1>9 DEF add, off

LEMMA RTCPOwnerships ==
    ASSUME Typed, TrackerInv, [Next]_vars, NEW c \in Calls, NEW k \in Endpoint,
           RegistersRTCP(c, k), NEW p \in Endpoint
    PROVE  Ownerships(p)' = Ownerships(p) + (IF p = k /\ k \notin callRTCP[c] THEN 1 ELSE 0)
<1> DEFINE A == {b \in Calls : p \in callRTCP[b]}
           B == {b \in Calls : p \in callRTCP'[b]}
<1>1. Len(owners'[p]) = Len(owners[p]) /\ Alias(p)' = Alias(p)
    BY DEF RegistersRTCP, Alias
<1>2. \A b \in Calls : callRTCP'[b] = callRTCP[b] \cup (IF b = c THEN {k} ELSE {})
    BY DEF RegistersRTCP, Typed
<1>3. Cardinality(B) = Cardinality(A) + (IF p = k /\ k \notin callRTCP[c] THEN 1 ELSE 0)
    <2>1. IsFiniteSet(A) /\ Cardinality(A) \in Nat
        <3>1. A \subseteq Calls  OBVIOUS
        <3> QED BY <3>1, CallsFinite, FS_Subset, FS_CardinalityType
    <2>2. CASE p = k /\ k \notin callRTCP[c]
        <3>1. B = A \cup {c} /\ c \notin A  BY <1>2, <2>2
        <3> HIDE DEF A, B
        <3> QED BY <2>1, <2>2, <3>1, FS_AddElement
    <2>3. CASE ~(p = k /\ k \notin callRTCP[c])
        <3>1. B = A  BY <1>2, <2>3
        <3> HIDE DEF A, B
        <3> QED BY <2>1, <2>3, <3>1
    <2> QED BY <2>2, <2>3
<1>4. RTCPs(p) = Cardinality(A) /\ RTCPs(p)' = Cardinality(B)  BY DEF RTCPs
<1>5. /\ Ownerships(p) = Len(owners[p]) + Alias(p) + RTCPs(p)
      /\ Ownerships(p)' = Len(owners'[p]) + Alias(p)' + RTCPs(p)'
      /\ Len(owners[p]) \in Nat /\ Alias(p) \in Nat /\ RTCPs(p) \in Nat
    BY OwnershipsNext
<1> HIDE DEF A, B
<1> QED BY <1>1, <1>3, <1>4, <1>5

\* A call that goes gives up what OwnedEndpoints lists.
LEMMA RemovalOwnerships ==
    ASSUME Typed, TrackerInv, [Next]_vars, NEW c \in Calls, RemoveCallMedia(c),
           NEW p \in Endpoint
    PROVE  Ownerships(p) = Ownerships(p)' + Count("release", p, Each("release", Owned(c)))
<1> DEFINE A == {b \in Calls : p \in callRTCP[b]}
           B == {b \in Calls : p \in callRTCP'[b]}
<1>1. Len(owners[p]) = Len(owners'[p]) + (IF Owns(c, p) THEN 1 ELSE 0)
    <2>1. owners[p] \in Seq(Calls) /\ IsInjective(owners[p])
        BY DEF Typed, TrackerInv, IndexesAgree
    <2>2. owners'[p] = RemoveFirst(owners[p], c)  BY DEF RemoveCallMedia
    <2>3. Owns(c, p) <=> c \in ToSet(owners[p])  BY DEF TrackerInv, IndexesAgree
    <2> QED BY <2>1, <2>2, <2>3, Removed
<1>2. Alias(p) = Alias(p)' + (IF p \in AliasesOf(c) THEN 1 ELSE 0)
    <2>1. p \in AliasesOf(c) <=> mediaAliases[p] = c  BY AliasesAre DEF TrackerInv
    <2>2. mediaAliases'[p] = IF p \in AliasesOf(c) THEN Nobody ELSE mediaAliases[p]
        BY DEF RemoveCallMedia
    <2> QED BY <2>1, <2>2, NobodyIsNone DEF Alias
<1>3. \A b \in Calls : callRTCP'[b] = IF b = c THEN {} ELSE callRTCP[b]
    BY DEF RemoveCallMedia, Typed
<1>4. Cardinality(A) = Cardinality(B) + (IF p \in callRTCP[c] THEN 1 ELSE 0)
    <2>1. B = A \ {c}  BY <1>3
    <2>2. c \in A <=> p \in callRTCP[c]  OBVIOUS
    <2>3. IsFiniteSet(A) /\ Cardinality(A) \in Nat
        <3>1. A \subseteq Calls  OBVIOUS
        <3> QED BY <3>1, CallsFinite, FS_Subset, FS_CardinalityType
    <2> HIDE DEF A, B
    <2>4. Cardinality(A \ {c}) = IF c \in A THEN Cardinality(A) - 1 ELSE Cardinality(A)
        BY <2>3, FS_RemoveElement
    <2> QED BY <2>1, <2>2, <2>3, <2>4
<1>5. RTCPs(p) = Cardinality(A) /\ RTCPs(p)' = Cardinality(B)  BY DEF RTCPs
<1>6. /\ Ownerships(p) = Len(owners[p]) + Alias(p) + RTCPs(p)
      /\ Ownerships(p)' = Len(owners'[p]) + Alias(p)' + RTCPs(p)'
      /\ Len(owners'[p]) \in Nat /\ Alias(p)' \in Nat /\ RTCPs(p)' \in Nat
    BY OwnershipsNext
<1>7. Count("release", p, Each("release", Owned(c)))
         = (IF Owns(c, p) THEN 1 ELSE 0) + (IF p \in AliasesOf(c) THEN 1 ELSE 0)
           + (IF p \in callRTCP[c] THEN 1 ELSE 0)
    BY OwnedIs DEF TrackerInv
<1> HIDE DEF A, B
<1> DEFINE x == IF Owns(c, p) THEN 1 ELSE 0
           y == IF p \in AliasesOf(c) THEN 1 ELSE 0
           z == IF p \in callRTCP[c] THEN 1 ELSE 0
<1>8. x \in Nat /\ y \in Nat /\ z \in Nat  OBVIOUS
<1>9. /\ Len(owners[p]) = Len(owners'[p]) + x /\ Alias(p) = Alias(p)' + y
      /\ RTCPs(p) = RTCPs(p)' + z /\ Count("release", p, Each("release", Owned(c))) = x + y + z
    BY <1>1, <1>2, <1>4, <1>5, <1>7
<1> HIDE DEF x, y, z
<1> QED BY <1>6, <1>8, <1>9

LEMMA HeadCounts ==
    ASSUME Typed, todo # <<>>, NEW k
    PROVE  /\ Count("retain", k, <<Head(todo)>>)
                 = IF Head(todo).op = "retain" /\ Head(todo).key = k THEN 1 ELSE 0
           /\ Count("release", k, <<Head(todo)>>)
                 = IF Head(todo).op = "release" /\ Head(todo).key = k THEN 1 ELSE 0
BY CountOne

\* A reference is released only after it was taken.
LEMMA ReleasedIsHeld ==
    ASSUME Typed, RetainsFirst, Counted, todo # <<>>, Head(todo).op = "release"
    PROVE  Head(todo).key \in Endpoint /\ refs[Head(todo).key] >= 1
<1> DEFINE k == Head(todo).key
           R == Count("retain", k, todo)
           S == Count("release", k, todo)
<1>1. k \in Endpoint /\ Head(todo) = todo[1] /\ 1 \in DOMAIN todo  BY HeadIs
<1>2. todo \in Seq(Job)  BY DEF Typed
<1>3. R = 0
    <2>1. ASSUME NEW n \in DOMAIN todo PROVE todo[n].op # "retain"
        <3>1. n = 1 \/ 1 < n  BY <1>2
        <3> QED BY <1>1, <3>1 DEF RetainsFirst
    <2> QED BY <1>2, <2>1, CountNone
<1>4. S \in Nat /\ S # 0
    <2>1. S \in Nat /\ IsFiniteSet(Places("release", k, todo))  BY <1>2, CountType
    <2>2. 1 \in Places("release", k, todo)  BY <1>1 DEF Places
    <2>3. Places("release", k, todo) # {}  BY <2>2
    <2> QED BY <2>1, <2>3, FS_EmptySet DEF Count
<1>5. Ownerships(k) \in Nat
    <2>1. /\ IsFiniteSet({c \in Calls : k \in AliasesOf(c)})
          /\ IsFiniteSet({c \in Calls : k \in callRTCP[c]})
        <3>1. /\ {c \in Calls : k \in AliasesOf(c)} \subseteq Calls
              /\ {c \in Calls : k \in callRTCP[c]} \subseteq Calls
            OBVIOUS
        <3> QED BY <3>1, CallsFinite, FS_Subset
    <2>2. /\ Cardinality({c \in Calls : k \in AliasesOf(c)}) \in Nat
          /\ Cardinality({c \in Calls : k \in callRTCP[c]}) \in Nat
        BY <2>1, FS_CardinalityType
    <2>3. Len(owners[k]) \in Nat  BY <1>1 DEF Typed
    <2> QED BY <2>2, <2>3 DEF Ownerships
<1>6. refs[k] + R = Ownerships(k) + S /\ refs[k] \in Nat
    BY <1>1, PendingIs DEF Counted, Typed
<1> HIDE DEF R, S
<1>7. refs[k] >= 1  BY <1>3, <1>4, <1>5, <1>6
<1> QED BY <1>1, <1>7

\* The count of an endpoint at the end of a step.
CountedAt(k) == refs'[k] + Pending("retain", k)' = Ownerships(k)' + Pending("release", k)'

LEMMA FinishesCounted ==
    ASSUME Typed, RetainsFirst, Counted, TrackerInv, [Next]_vars, Finishes, NEW k \in Endpoint
    PROVE  CountedAt(k)
<1> DEFINE h == Head(todo)
           Rh == Count("retain", k, <<h>>)
           Sh == Count("release", k, <<h>>)
<1>1. /\ todo # <<>> /\ todo' = <<>> \o Tail(todo) /\ SameOwnership
      /\ refs' = IF h.op = "retain" THEN [refs EXCEPT ![h.key] = @ + 1]
                 ELSE IF h.op = "release" THEN [refs EXCEPT ![h.key] = IF @ > 0 THEN @ - 1 ELSE 0]
                 ELSE refs
    BY DEF Finishes
<1>2. Rh = (IF h.op = "retain" /\ h.key = k THEN 1 ELSE 0)
      /\ Sh = (IF h.op = "release" /\ h.key = k THEN 1 ELSE 0)
    BY <1>1, HeadCounts
<1>3. h.op \in {"retain", "release"} => h.key \in Endpoint  BY <1>1, HeadIs
<1>4. refs \in [Endpoint -> Nat]  BY DEF Typed
<1>5. refs'[k] \in Nat /\ refs'[k] + Sh = refs[k] + Rh
    <2>1. CASE h.op = "retain"  BY <1>1, <1>2, <1>3, <1>4, <2>1
    <2>2. CASE h.op = "release"
        <3>1. refs[h.key] >= 1  BY <1>1, <2>2, ReleasedIsHeld
        <3> QED BY <1>1, <1>2, <1>3, <1>4, <2>2, <3>1
    <2>3. CASE h.op \notin {"retain", "release"}  BY <1>1, <1>2, <1>4, <2>3
    <2> QED BY <2>1, <2>2, <2>3
<1>6. Ownerships(k) \in Nat /\ Ownerships(k)' = Ownerships(k)
    BY <1>1, OwnershipsNext, SameOwnerships
<1>7. PICK r \in Nat, o \in Nat, p \in Nat, rh \in Nat, sh \in Nat, rk \in Nat :
         /\ r = refs'[k] /\ o = Ownerships(k) /\ p = Ownerships(k)' /\ p = o
         /\ rh = Rh /\ sh = Sh /\ rk = refs[k]
    BY <1>2, <1>4, <1>5, <1>6
<1>8. PICK nx \in Seq(Job) : nx = <<>>  BY SuccessorsOfNone DEF Successors
<1>9. /\ todo # <<>> /\ todo' = nx \o Tail(todo)
      /\ Count("retain", k, nx) = 0 /\ Count("release", k, nx) = 0
    BY <1>1, <1>8, CountEmpty
<1>10. Balance(k, nx, o, r, p)
    <2>1. r + sh = rk + rh  BY <1>5, <1>7
    <2>2. p = o  BY <1>7
    <2>3. r + o + 0 + sh = rk + p + 0 + rh  BY <2>1, <2>2
    <2> QED BY <1>7, <1>9, <2>3 DEF Balance
<1>11. Ownerships(k) = o  BY <1>7
<1>12. r + Pending("retain", k)' = p + Pending("release", k)'
    BY <1>9, <1>10, <1>11, CountedMove
<1> QED BY <1>7, <1>12 DEF CountedAt

\* A step that counts no reference, and lists those to count.
LEMMA ListsCounted ==
    ASSUME Typed, Counted, TrackerInv, [Next]_vars, NEW nx \in Seq(Job),
           todo # <<>>, todo' = nx \o Tail(todo), refs' = refs,
           Head(todo).op \notin {"retain", "release"}, NEW k \in Endpoint,
           Ownerships(k)' + Count("release", k, nx) = Ownerships(k) + Count("retain", k, nx)
    PROVE  CountedAt(k)
<1>1. Count("retain", k, <<Head(todo)>>) = 0 /\ Count("release", k, <<Head(todo)>>) = 0
    BY HeadCounts
<1>2. refs[k] \in Nat /\ Count("retain", k, nx) \in Nat /\ Count("release", k, nx) \in Nat
    BY CountType DEF Typed
<1>3. PICK r \in Nat, o \in Nat, p \in Nat :
         r = refs[k] /\ o = Ownerships(k) /\ p = Ownerships(k)'
    BY <1>2, OwnershipsNext
<1>4. Balance(k, nx, o, r, p)
    <2> DEFINE R == Count("retain", k, nx)
               S == Count("release", k, nx)
    <2>1. R \in Nat /\ S \in Nat /\ p + S = o + R  BY <1>2, <1>3
    <2> HIDE DEF R, S
    <2>2. r + o + R + 0 = r + p + S + 0  BY <2>1
    <2> QED BY <1>1, <1>3, <2>2 DEF R, S, Balance
<1>5. Ownerships(k) = o  BY <1>3
<1>6. r + Pending("retain", k)' = p + Pending("release", k)'
    BY <1>4, <1>5, CountedMove
<1> QED BY <1>3, <1>6 DEF CountedAt

\* A step that begins the work of a handler.
LEMMA BeginsCounted ==
    ASSUME Typed, Counted, TrackerInv, [Next]_vars, NEW u \in Seq(Job),
           todo = <<>>, todo' = u, refs' = refs, NEW k \in Endpoint,
           Ownerships(k)' + Count("release", k, u) = Ownerships(k) + Count("retain", k, u)
    PROVE  CountedAt(k)
<1>1. \A op : Pending(op, k) = 0  BY PendingIs, CountEmpty
<1>2. \A op : Pending(op, k)' = Count(op, k, u)  BY DEF Pending, Count, Places
<1>3. refs[k] \in Nat /\ Ownerships(k) \in Nat /\ Ownerships(k)' \in Nat
    BY OwnershipsNext DEF Typed
<1>4. Count("retain", k, u) \in Nat /\ Count("release", k, u) \in Nat  BY CountType
<1>5. refs[k] = Ownerships(k)  BY <1>1, <1>3 DEF Counted
<1> QED BY <1>2, <1>3, <1>4, <1>5 DEF CountedAt

LEMMA CountedStep ==
    ASSUME Typed, TrackerInv, RetainsFirst, Counted, [Next]_vars
    PROVE  Counted'
<1> SUFFICES ASSUME NEW k \in Endpoint PROVE CountedAt(k)
    BY DEF Counted, CountedAt
<1>0. Ownerships(k) \in Nat /\ Ownerships(k)' \in Nat  BY OwnershipsNext
<1>1. CASE Quiet
    <2>1. todo' = todo /\ refs' = refs /\ SameOwnership  BY <1>1 DEF Quiet, SameCounts
    <2>2. \A op : Pending(op, k)' = Pending(op, k)  BY <2>1 DEF Pending
    <2>3. Ownerships(k)' = Ownerships(k)  BY <2>1, SameOwnerships
    <2> QED BY <2>1, <2>2, <2>3 DEF Counted, CountedAt
<1>2. ASSUME NEW c \in Calls, NEW sdp \in Descriptions, Answers(c, sdp) PROVE CountedAt(k)
    <2>1. PICK u : u = Registrations(c, sdp)  OBVIOUS
    <2>2. u \in Seq(Job) /\ todo = <<>> /\ todo' = u /\ refs' = refs /\ SameOwnership
        BY <1>2, <2>1, RegistrationsType DEF Answers, SameCounts
    <2>3. \A n \in DOMAIN u : u[n].op = "register"  BY <2>1 DEF Registrations
    <2>4. Count("retain", k, u) = 0 /\ Count("release", k, u) = 0  BY <2>2, <2>3, CountNone
    <2>5. Ownerships(k)' = Ownerships(k)  BY <2>2, SameOwnerships
    <2> QED BY <1>0, <2>2, <2>4, <2>5, BeginsCounted
<1>3. ASSUME NEW c \in Calls, NEW sdp \in Descriptions, Reinvites(c, sdp) PROVE CountedAt(k)
    <2>1. PICK u : u = Revision(c, sdp)  OBVIOUS
    <2>2. u \in Seq(Job) /\ todo = <<>> /\ todo' = u /\ refs' = refs /\ SameOwnership
        BY <1>3, <2>1, RevisionShape DEF Reinvites, SameCounts, TrackerInv
    <2>3. Count("retain", k, u) = Count("release", k, u)
        BY <2>1, RevisionCounts DEF TrackerInv
    <2>4. Ownerships(k)' = Ownerships(k)  BY <2>2, SameOwnerships
    <2> QED BY <2>2, <2>3, <2>4, BeginsCounted
<1>4. ASSUME NEW c \in Calls, NEW by \in {"consumer", "ticker"}, Unregisters(c, by)
      PROVE  CountedAt(k)
    <2>1. PICK u : u = Removal(c, by)  OBVIOUS
    <2>2. /\ u \in Seq(Job) /\ Count("retain", k, u) = 0
          /\ Count("release", k, u) = Count("release", k, Each("release", Owned(c)))
        BY <2>1, RemovalShape DEF TrackerInv
    <2>3. todo = <<>> /\ todo' = u /\ refs' = refs /\ RemoveCallMedia(c)
        BY <1>4, <2>1 DEF Unregisters, SameCounts
    <2>4. Ownerships(k) = Ownerships(k)' + Count("release", k, u)
        BY <2>2, <2>3, RemovalOwnerships
    <2>5. Ownerships(k)' + Count("release", k, u) = Ownerships(k) + Count("retain", k, u)
        BY <1>0, <2>2, <2>4
    <2> QED BY <2>2, <2>3, <2>5, BeginsCounted
<1>5. ASSUME NEW c \in Calls, NEW e \in Endpoint, NEW src \in Endpoint,
             Learns(c, e, src), StreamsFollow
      PROVE  CountedAt(k)
    <2> DEFINE j == [op |-> "learned", call |-> c, key |-> src]
    <2>1. PICK u : u = <<RetainJob(src), j>>  OBVIOUS
    <2>2. todo = <<>> /\ todo' = u /\ refs' = refs
        BY <1>5, <2>1 DEF Learns, filterVars
    <2>3. /\ RetainJob(src) \in Job /\ RetainJob(src).op = "retain" /\ RetainJob(src).key = src
          /\ j \in Job /\ j.op = "learned"
        BY DEF RetainJob, Job
    <2> HIDE DEF j
    <2>4. u \in Seq(Job) /\ u = <<RetainJob(src)>> \o <<j>>
          /\ <<RetainJob(src)>> \in Seq(Job) /\ <<j>> \in Seq(Job)
        BY <2>1, <2>3, TwoElements
    <2>5. \A op : Count(op, k, u) = Count(op, k, <<RetainJob(src)>>) + Count(op, k, <<j>>)
        BY <2>4, CountConcat
    <2>6. /\ Count("retain", k, <<RetainJob(src)>>) = (IF src = k THEN 1 ELSE 0)
          /\ Count("release", k, <<RetainJob(src)>>) = 0
          /\ Count("retain", k, <<j>>) = 0 /\ Count("release", k, <<j>>) = 0
        BY <2>3, CountOne
    <2>7. Count("retain", k, u) = (IF src = k THEN 1 ELSE 0) /\ Count("release", k, u) = 0
        BY <2>5, <2>6
    <2>8. owners' = owners /\ callRTCP' = callRTCP  BY <1>5 DEF Learns
    <2>9. /\ mediaAliases[src] = Nobody /\ mediaAliases'[src] = c
          /\ \A p \in Endpoint : p # src => mediaAliases'[p] = mediaAliases[p]
        BY <1>5, LearnTracker
    <2>10. Alias(k)' = Alias(k) + (IF src = k THEN 1 ELSE 0)
        BY <2>9, NobodyIsNone DEF Alias
    <2>11. RTCPs(k)' = RTCPs(k)  BY <2>8 DEF RTCPs
    <2>12. /\ Ownerships(k) = Len(owners[k]) + Alias(k) + RTCPs(k)
           /\ Ownerships(k)' = Len(owners'[k]) + Alias(k)' + RTCPs(k)'
           /\ Len(owners[k]) \in Nat /\ Alias(k) \in Nat /\ RTCPs(k) \in Nat
        BY OwnershipsNext
    <2>13. Ownerships(k)' = Ownerships(k) + (IF src = k THEN 1 ELSE 0)
        BY <2>8, <2>10, <2>11, <2>12
    <2>14. Ownerships(k)' + Count("release", k, u) = Ownerships(k) + Count("retain", k, u)
        BY <1>0, <2>7, <2>13
    <2> QED BY <2>2, <2>4, <2>14, BeginsCounted
<1>6. CASE Finishes  BY <1>6, FinishesCounted
<1>7. ASSUME NEW c \in Calls, NEW m \in Medium, Registers(c, m) PROVE CountedAt(k)
    <2>1. PICK nx : nx = Followups(c, m)  OBVIOUS
    <2>2. /\ nx \in Seq(Job)
          /\ Count("retain", k, nx) = (IF k = m.rtp /\ Added(c, m.rtp) THEN 1 ELSE 0)
          /\ Count("release", k, nx) = (IF k = m.rtp /\ Displaced(m.rtp) # Nobody THEN 1 ELSE 0)
        BY <2>1, FollowupsAre DEF TrackerInv
    <2>3. todo # <<>> /\ todo' = nx \o Tail(todo) /\ refs' = refs
        BY <1>7, <2>1 DEF Registers, filterVars
    <2>4. Head(todo).op \notin {"retain", "release"}  BY <1>7 DEF Registers
    <2>5. Ownerships(k)' + Count("release", k, nx) = Ownerships(k) + Count("retain", k, nx)
        BY <1>7, <2>2, RegisterOwnerships
    <2> QED BY <2>2, <2>3, <2>4, <2>5, ListsCounted
<1>8. ASSUME NEW c \in Calls, NEW e \in Endpoint, RegistersRTCP(c, e) PROVE CountedAt(k)
    <2>1. PICK nx : nx = IF e \in callRTCP[c] THEN <<>> ELSE <<RetainJob(e)>>  OBVIOUS
    <2>2. todo # <<>> /\ todo' = nx \o Tail(todo) /\ refs' = refs
          /\ Head(todo).op \notin {"retain", "release"}
        BY <1>8, <2>1 DEF RegistersRTCP, SameCounts
    <2>3. RetainJob(e) \in Job /\ RetainJob(e).op = "retain" /\ RetainJob(e).key = e
        BY DEF RetainJob, Job
    <2>4. /\ nx \in Seq(Job) /\ Count("release", k, nx) = 0
          /\ Count("retain", k, nx) = (IF k = e /\ e \notin callRTCP[c] THEN 1 ELSE 0)
        <3>1. CASE e \in callRTCP[c]
            <4>1. nx = <<>> /\ nx \in Seq(Job)
                BY <2>1, <3>1, SuccessorsOfNone DEF Successors
            <4>2. \A op : Count(op, k, nx) = 0  BY <4>1, CountEmpty
            <4> QED BY <3>1, <4>1, <4>2
        <3>2. CASE e \notin callRTCP[c]
            <4>1. nx = <<RetainJob(e)>> /\ nx \in Seq(Job)  BY <2>1, <2>3, <3>2
            <4>2. /\ Count("release", k, nx) = 0
                  /\ Count("retain", k, nx) = (IF k = e THEN 1 ELSE 0)
                BY <2>3, <4>1, CountOne
            <4> QED BY <3>2, <4>1, <4>2
        <3> QED BY <3>1, <3>2
    <2>5. Ownerships(k)' = Ownerships(k) + (IF k = e /\ e \notin callRTCP[c] THEN 1 ELSE 0)
        BY <1>8, RTCPOwnerships
    <2>6. Ownerships(k)' + Count("release", k, nx) = Ownerships(k) + Count("retain", k, nx)
        BY <1>0, <2>4, <2>5
    <2> QED BY <2>2, <2>4, <2>6, ListsCounted
<1>9. ASSUME NEW c \in Calls, Replaces(c) PROVE CountedAt(k)
    <2>1. PICK nx : nx = Removal(c, "consumer")  OBVIOUS
    <2>2. /\ nx \in Seq(Job) /\ Count("retain", k, nx) = 0
          /\ Count("release", k, nx) = Count("release", k, Each("release", Owned(c)))
        BY <2>1, RemovalShape DEF TrackerInv
    <2>3. todo # <<>> /\ todo' = nx \o Tail(todo) /\ refs' = refs
          /\ Head(todo).op \notin {"retain", "release"} /\ RemoveCallMedia(c)
        BY <1>9, <2>1 DEF Replaces, SameCounts
    <2>4. Ownerships(k) = Ownerships(k)' + Count("release", k, nx)
        BY <2>2, <2>3, RemovalOwnerships
    <2>5. Ownerships(k)' + Count("release", k, nx) = Ownerships(k) + Count("retain", k, nx)
        BY <1>0, <2>2, <2>4
    <2> QED BY <2>2, <2>3, <2>5, ListsCounted
<1>10. JobMoves  BY JobSteps
<1> QED BY <1>1, <1>2, <1>3, <1>4, <1>5, <1>6, <1>7, <1>8, <1>9, <1>10 DEF JobMoves

-----------------------------------------------------------------------------
(* The kernel's maps and the alias gauge.                                  *)

FilterSteps ==
    \/ UNCHANGED filterVars
    \/ Retain
    \/ Release
    \/ \E k \in Endpoint, failing \in SUBSET Interfaces : Reconcile(k, failing)
AliasSteps ==
    \/ UNCHANGED aliasVars
    \/ ReleaseAliases
    \/ Learned
    \/ \E c \in Calls : ReportReleased(c)

LEMMA OtherSteps ==
    ASSUME [Next]_vars
    PROVE  FilterSteps /\ AliasSteps
<1> DEFINE Same == UNCHANGED filterVars /\ UNCHANGED aliasVars
<1>1. CASE UNCHANGED vars  BY <1>1 DEF vars, FilterSteps, AliasSteps
<1>2. CASE \E c \in Calls, sdp \in Descriptions : Answer(c, sdp) \/ Reinvite(c, sdp)
    BY <1>2 DEF Answer, Reinvite, FilterSteps, AliasSteps
<1>3. CASE \E c \in Calls, by \in {"consumer", "ticker"} : Unregister(c, by)
    BY <1>3 DEF Unregister, FilterSteps, AliasSteps
<1>4. CASE \E src, dst \in Endpoint, counted \in BOOLEAN : RTPPacket(src, dst, counted)
    BY <1>4 DEF RTPPacket, FilterSteps, AliasSteps
<1>5. CASE Retain  BY <1>5 DEF Retain, FilterSteps, AliasSteps
<1>6. CASE Release  BY <1>6 DEF Release, FilterSteps, AliasSteps
<1>7. CASE Register  BY <1>7 DEF Register, FilterSteps, AliasSteps
<1>8. CASE RegisterRTCP  BY <1>8 DEF RegisterRTCP, FilterSteps, AliasSteps
<1>9. CASE Replace  BY <1>9 DEF Replace, FilterSteps, AliasSteps
<1>10. CASE ReleaseAliases  BY <1>10 DEF ReleaseAliases, FilterSteps, AliasSteps
<1>11. CASE Learned  BY <1>11 DEF Learned, FilterSteps, AliasSteps
<1>12. CASE \E k \in Endpoint, failing \in SUBSET Interfaces : Reconcile(k, failing)
    BY <1>12 DEF Reconcile, FilterSteps, AliasSteps
<1>13. CASE \E k \in Endpoint : Cleanup(k)
    BY <1>13 DEF Cleanup, FilterSteps, AliasSteps
<1>14. CASE \E c \in Calls : ReportReleased(c)
    BY <1>14 DEF ReportReleased, FilterSteps, AliasSteps
<1> QED BY <1>1, <1>2, <1>3, <1>4, <1>5, <1>6, <1>7, <1>8, <1>9, <1>10, <1>11, <1>12,
           <1>13, <1>14 DEF Next, Handler

FilterTyped ==
    /\ refs \in [Endpoint -> Nat]
    /\ dirty \in [Endpoint -> {"clean", "present", "absent"}]
    /\ present \in [Interfaces -> SUBSET Endpoint]

\* The maps of all interfaces are as wanted, or the endpoint is dirty.
LEMMA PresenceIs ==
    ASSUME Typed, NEW k \in Endpoint, NEW wanted \in {"present", "absent"},
           NEW failing \in SUBSET Interfaces, SetPresence(k, wanted, failing)
    PROVE  /\ present' \in [Interfaces -> SUBSET Endpoint]
           /\ dirty' \in [Endpoint -> {"clean", "present", "absent"}]
           /\ \A p \in Endpoint : p # k =>
                 /\ dirty'[p] = dirty[p]
                 /\ \A i \in Interfaces : p \in present'[i] <=> p \in present[i]
           /\ \/ /\ dirty'[k] = "clean"
                 /\ \A i \in Interfaces : k \in present'[i] <=> wanted = "present"
              \/ dirty'[k] = wanted
<1>1. \A i \in Interfaces :
         present'[i] = IF i \in failing THEN present[i]
                       ELSE IF wanted = "present" THEN present[i] \cup {k}
                       ELSE present[i] \ {k}
    BY DEF SetPresence
<1>2. present \in [Interfaces -> SUBSET Endpoint]  BY DEF Typed
<1>3. present' \in [Interfaces -> SUBSET Endpoint]
    <2>1. present' = [i \in Interfaces |->
                         IF i \in failing THEN present[i]
                         ELSE IF wanted = "present" THEN present[i] \cup {k}
                         ELSE present[i] \ {k}]
        BY DEF SetPresence
    <2>2. \A i \in Interfaces : present'[i] \in SUBSET Endpoint  BY <1>1, <1>2
    <2> QED BY <2>1, <2>2
<1>4. /\ dirty' \in [Endpoint -> {"clean", "present", "absent"}]
      /\ \A p \in Endpoint : p # k => dirty'[p] = dirty[p]
      /\ dirty'[k] = IF failing = {} THEN "clean" ELSE wanted
    <2>1. PICK v \in {"clean", "present", "absent"} :
             v = IF failing = {} THEN "clean" ELSE wanted
        OBVIOUS
    <2>2. dirty' = [dirty EXCEPT ![k] = v]  BY <2>1 DEF SetPresence
    <2>3. dirty \in [Endpoint -> {"clean", "present", "absent"}]  BY DEF Typed
    <2>4. dirty'[k] = v /\ dirty' \in [Endpoint -> {"clean", "present", "absent"}]
        BY <2>2, <2>3
    <2>5. \A p \in Endpoint : p # k => dirty'[p] = dirty[p]  BY <2>2, <2>3
    <2> QED BY <2>1, <2>4, <2>5
<1>5. failing = {} => \A i \in Interfaces : k \in present'[i] <=> wanted = "present"
    BY <1>1
<1>6. ASSUME NEW p \in Endpoint, p # k, NEW i \in Interfaces
      PROVE  p \in present'[i] <=> p \in present[i]
    <2>1. CASE i \in failing  BY <1>1, <2>1
    <2>2. CASE i \notin failing /\ wanted = "present"
        <3>1. present'[i] = present[i] \cup {k}  BY <1>1, <2>2
        <3> QED BY <1>6, <3>1
    <2>3. CASE i \notin failing /\ wanted # "present"
        <3>1. present'[i] = present[i] \ {k}  BY <1>1, <2>3
        <3> QED BY <1>6, <3>1
    <2> QED BY <2>1, <2>2, <2>3
<1>7. \/ /\ dirty'[k] = "clean"
         /\ \A i \in Interfaces : k \in present'[i] <=> wanted = "present"
      \/ dirty'[k] = wanted
    <2>1. CASE failing = {}  BY <1>4, <1>5, <2>1
    <2>2. CASE failing # {}  BY <1>4, <2>2
    <2> QED BY <2>1, <2>2
<1> QED BY <1>3, <1>4, <1>6, <1>7

LEMMA FilterStep ==
    ASSUME Typed, MapsFollowRefs, [Next]_vars
    PROVE  FilterTyped' /\ MapsFollowRefs'
<1> DEFINE At(p) == /\ dirty'[p] = "clean" => \A i \in Interfaces : p \in present'[i] <=> refs'[p] > 0
                    /\ dirty'[p] = "present" => refs'[p] > 0
                    /\ dirty'[p] = "absent" => refs'[p] = 0
<1>0. /\ refs \in [Endpoint -> Nat] /\ dirty \in [Endpoint -> {"clean", "present", "absent"}]
      /\ \A p \in Endpoint :
            /\ dirty[p] = "clean" => \A i \in Interfaces : p \in present[i] <=> refs[p] > 0
            /\ dirty[p] = "present" => refs[p] > 0
            /\ dirty[p] = "absent" => refs[p] = 0
    BY DEF Typed, MapsFollowRefs
<1> SUFFICES FilterTyped' /\ \A p \in Endpoint : At(p)
    BY DEF MapsFollowRefs
<1>1. CASE UNCHANGED filterVars
    BY <1>0, <1>1 DEF filterVars, FilterTyped, Typed
<1>2. CASE Retain
    <2> DEFINE k == Head(todo).key
    <2>1. k \in Endpoint  BY <1>2, HeadIs DEF Retain, Doing
    <2>2. refs' = [refs EXCEPT ![k] = @ + 1]  BY <1>2 DEF Retain
    <2>3. /\ refs' \in [Endpoint -> Nat] /\ refs'[k] = refs[k] + 1 /\ refs[k] \in Nat
          /\ \A p \in Endpoint : p # k => refs'[p] = refs[p]
        BY <1>0, <2>1, <2>2
    <2>4. CASE refs[k] > 0
        <3>1. present' = present /\ dirty' = dirty  BY <1>2, <2>4 DEF Retain
        <3>2. At(k)  BY <1>0, <2>1, <2>3, <2>4, <3>1
        <3>3. \A p \in Endpoint : p # k => At(p)  BY <1>0, <2>3, <3>1
        <3> QED BY <2>3, <3>1, <3>2, <3>3 DEF FilterTyped, Typed
    <2>5. CASE ~(refs[k] > 0)
        <3>1. PICK failing \in SUBSET Interfaces : SetPresence(k, "present", failing)
            BY <1>2, <2>5 DEF Retain
        <3>2. refs'[k] > 0  BY <2>3
        <3>3. At(k)  BY <2>1, <3>1, <3>2, PresenceIs
        <3>4. \A p \in Endpoint : p # k => At(p)  BY <1>0, <2>1, <2>3, <3>1, PresenceIs
        <3> QED BY <2>1, <2>3, <3>1, <3>3, <3>4, PresenceIs DEF FilterTyped
    <2> QED BY <2>4, <2>5
<1>3. CASE Release
    <2> DEFINE k == Head(todo).key
    <2>1. k \in Endpoint  BY <1>3, HeadIs DEF Release, Doing
    <2>2. refs' = [refs EXCEPT ![k] = IF @ > 0 THEN @ - 1 ELSE 0]  BY <1>3 DEF Release
    <2>3. /\ refs' \in [Endpoint -> Nat] /\ refs[k] \in Nat
          /\ refs'[k] = (IF refs[k] > 0 THEN refs[k] - 1 ELSE 0)
          /\ \A p \in Endpoint : p # k => refs'[p] = refs[p]
        BY <1>0, <2>1, <2>2
    <2>4. CASE refs[k] # 1
        <3>1. present' = present /\ dirty' = dirty  BY <1>3, <2>4 DEF Release
        <3>2. refs'[k] > 0 <=> refs[k] > 0  BY <2>3, <2>4
        <3>3. refs'[k] = 0 <=> refs[k] = 0  BY <2>3, <2>4
        <3>4. At(k)  BY <1>0, <2>1, <3>1, <3>2, <3>3
        <3>5. \A p \in Endpoint : p # k => At(p)  BY <1>0, <2>3, <3>1
        <3> QED BY <2>3, <3>1, <3>4, <3>5 DEF FilterTyped, Typed
    <2>5. CASE refs[k] = 1
        <3>1. PICK failing \in SUBSET Interfaces : SetPresence(k, "absent", failing)
            BY <1>3, <2>5 DEF Release
        <3>2. refs'[k] = 0 /\ ~(refs'[k] > 0)  BY <2>3, <2>5
        <3>3. At(k)  BY <2>1, <3>1, <3>2, PresenceIs
        <3>4. \A p \in Endpoint : p # k => At(p)  BY <1>0, <2>1, <2>3, <3>1, PresenceIs
        <3> QED BY <2>1, <2>3, <3>1, <3>3, <3>4, PresenceIs DEF FilterTyped
    <2> QED BY <2>4, <2>5
<1>4. ASSUME NEW k \in Endpoint, NEW failing \in SUBSET Interfaces, Reconcile(k, failing)
      PROVE  FilterTyped' /\ \A p \in Endpoint : At(p)
    <2>1. refs' = refs /\ SetPresence(k, dirty[k], failing) /\ dirty[k] \in {"present", "absent"}
        BY <1>0, <1>4 DEF Reconcile
    <2>2. PICK wanted \in {"present", "absent"} : wanted = dirty[k]  BY <2>1
    <2>3. SetPresence(k, wanted, failing)  BY <2>1, <2>2
    <2>4. (wanted = "present" => refs'[k] > 0) /\ (wanted = "absent" => refs'[k] = 0)
        BY <1>0, <2>1, <2>2
    <2>5. At(k)  BY <1>0, <2>1, <2>3, <2>4, PresenceIs
    <2>6. \A p \in Endpoint : p # k => At(p)  BY <1>0, <2>1, <2>3, PresenceIs
    <2> QED BY <1>0, <2>1, <2>3, <2>5, <2>6, PresenceIs DEF FilterTyped
<1> QED BY <1>1, <1>2, <1>3, <1>4, OtherSteps DEF FilterSteps

LEMMA LabelsFinite == \A A \in SUBSET [call : Calls, key : Endpoint] : IsFiniteSet(A)
<1> DEFINE D == Calls \X Endpoint
           L == [call : Calls, key : Endpoint]
           f == [d \in D |-> [call |-> d[1], key |-> d[2]]]
<1>1. IsFiniteSet(D)  BY CallsFinite, EndpointsFinite, FS_Product
<1>2. f \in Surjection(D, L)
    <2>1. f \in [D -> L]  OBVIOUS
    <2>2. ASSUME NEW e \in L PROVE \E d \in D : f[d] = e
        <3>1. <<e.call, e.key>> \in D /\ f[<<e.call, e.key>>] = e  OBVIOUS
        <3> QED BY <3>1
    <2> QED BY <2>1, <2>2 DEF Surjection
<1> HIDE DEF D, L, f
<1>3. IsFiniteSet(L)  BY <1>1, <1>2, FS_Surjection
<1> QED BY <1>3, FS_Subset DEF L

AliasTyped ==
    aliasLabels \subseteq [call : Calls, key : Endpoint] /\ owed \in [Calls -> Nat]

\* n more debts of call c.
LEMMA MoreDebts ==
    ASSUME Typed, IsFiniteSet(Debts), NEW c \in Calls, NEW n \in Nat,
           owed' = [owed EXCEPT ![c] = @ + n]
    PROVE  IsFiniteSet(Debts') /\ Cardinality(Debts') = Cardinality(Debts) + n
<1> DEFINE A == Debts
           o == owed[c]
           B == {<<c, i>> : i \in (o + 1)..(o + n)}
           f == [i \in 1..n |-> <<c, o + i>>]
<1>1. owed \in [Calls -> Nat] /\ o \in Nat  BY DEF Typed
<1>2. Debts' = A \cup B
    <2>1. Debts' = {d \in Calls \X Nat : 1 <= d[2] /\ d[2] <= owed'[d[1]]}  BY DEF Debts
    <2>2. \A b \in Calls : owed'[b] = IF b = c THEN o + n ELSE owed[b]  BY <1>1
    <2>3. ASSUME NEW b \in Calls, NEW i \in Nat
          PROVE  <<b, i>> \in Debts' <=> <<b, i>> \in A \cup B
        <3>1. <<b, i>> \in Debts' <=> 1 <= i /\ i <= owed'[b]  BY <2>1
        <3>2. <<b, i>> \in A <=> 1 <= i /\ i <= owed[b]  BY DEF Debts
        <3>3. <<b, i>> \in B <=> b = c /\ i \in (o + 1)..(o + n)  OBVIOUS
        <3>4. owed[b] \in Nat  BY <1>1
        <3> HIDE DEF A, B
        <3> QED BY <1>1, <2>2, <3>1, <3>2, <3>3, <3>4
    <2>4. Debts' \subseteq Calls \X Nat /\ A \subseteq Calls \X Nat /\ B \subseteq Calls \X Nat
        BY <1>1, <2>1 DEF Debts
    <2>5. \A d \in Calls \X Nat : \E b \in Calls, i \in Nat : d = <<b, i>>  OBVIOUS
    <2> HIDE DEF A, B
    <2> QED BY <2>3, <2>4, <2>5
<1>3. f \in Bijection(1..n, B)
    <2>1. f \in [1..n -> B]  BY <1>1
    <2>2. ASSUME NEW d \in B PROVE \E i \in 1..n : f[i] = d
        <3>1. PICK i \in (o + 1)..(o + n) : d = <<c, i>>  OBVIOUS
        <3>2. i - o \in 1..n /\ o + (i - o) = i  BY <1>1
        <3> QED BY <3>1, <3>2
    <2>3. IsInjective(f)
        <3> SUFFICES ASSUME NEW i \in 1..n, NEW j \in 1..n, f[i] = f[j] PROVE i = j
            BY DEF IsInjective
        <3>1. o + i = o + j  OBVIOUS
        <3> QED BY <1>1, <3>1
    <2> QED BY <2>1, <2>2, <2>3 DEF Bijection, Injection, Surjection
<1>4. IsFiniteSet(B) /\ Cardinality(B) = n
    <2>1. ExistsBijection(1..n, B)  BY <1>3 DEF ExistsBijection
    <2> HIDE DEF B
    <2> QED BY <2>1, FS_CountingElements, FS_NatBijection
<1>5. A \cap B = {}  BY <1>1 DEF Debts
<1> HIDE DEF A, B
<1>6. Cardinality(A \cap B) = 0  BY <1>5, FS_EmptySet, Zenon
<1>7. IsFiniteSet(A) /\ Cardinality(A) \in Nat  BY FS_CardinalityType DEF A
<1>8. IsFiniteSet(A \cup B)
      /\ Cardinality(A \cup B) = Cardinality(A) + Cardinality(B) - Cardinality(A \cap B)
    BY <1>4, <1>7, FS_Union
<1>9. Cardinality(A \cup B) = Cardinality(A) + n  BY <1>4, <1>6, <1>7, <1>8
<1> QED BY <1>2, <1>8, <1>9 DEF A

LEMMA OneDebtLess ==
    ASSUME Typed, IsFiniteSet(Debts), NEW c \in Calls, owed[c] > 0,
           owed' = [owed EXCEPT ![c] = @ - 1]
    PROVE  IsFiniteSet(Debts') /\ Cardinality(Debts') = Cardinality(Debts) - 1
<1> DEFINE A == Debts
           e == <<c, owed[c]>>
<1>1. owed \in [Calls -> Nat] /\ owed[c] \in Nat  BY DEF Typed
<1>2. e \in A  BY <1>1 DEF Debts
<1>3. Debts' = A \ {e}
    <2>1. Debts' = {d \in Calls \X Nat : 1 <= d[2] /\ d[2] <= owed'[d[1]]}  BY DEF Debts
    <2>2. \A b \in Calls : owed'[b] = IF b = c THEN owed[c] - 1 ELSE owed[b]  BY <1>1
    <2>3. ASSUME NEW b \in Calls, NEW i \in Nat
          PROVE  <<b, i>> \in Debts' <=> <<b, i>> \in A \ {e}
        <3>1. <<b, i>> \in Debts' <=> 1 <= i /\ i <= owed'[b]  BY <2>1
        <3>2. <<b, i>> \in A <=> 1 <= i /\ i <= owed[b]  BY DEF Debts
        <3>3. <<b, i>> = e <=> b = c /\ i = owed[c]  OBVIOUS
        <3>4. owed[b] \in Nat  BY <1>1
        <3> HIDE DEF A, e
        <3> QED BY <1>1, <2>2, <3>1, <3>2, <3>3, <3>4
    <2>4. Debts' \subseteq Calls \X Nat /\ A \subseteq Calls \X Nat  BY <2>1 DEF Debts
    <2>5. \A d \in Calls \X Nat : \E b \in Calls, i \in Nat : d = <<b, i>>  OBVIOUS
    <2> HIDE DEF A, e
    <2> QED BY <2>3, <2>4, <2>5
<1>4. IsFiniteSet(A)  BY DEF A
<1> HIDE DEF A, e
<1>5. IsFiniteSet(A \ {e}) /\ Cardinality(A \ {e}) = Cardinality(A) - 1
    BY <1>2, <1>4, FS_RemoveElement
<1> QED BY <1>3, <1>5 DEF A

LEMMA GaugeStep ==
    ASSUME Typed, LearnedIsLast, GaugeAccounted, [Next]_vars
    PROVE  AliasTyped' /\ GaugeAccounted'
<1>0. /\ aliasLabels \subseteq [call : Calls, key : Endpoint] /\ owed \in [Calls -> Nat]
      /\ IsFiniteSet(Debts) /\ gauge = Cardinality(aliasLabels) + Cardinality(Debts)
    BY DEF Typed, GaugeAccounted
<1>1. /\ IsFiniteSet(aliasLabels) /\ Cardinality(aliasLabels) \in Nat
      /\ Cardinality(Debts) \in Nat
    BY <1>0, LabelsFinite, FS_CardinalityType
<1>2. owed' = owed => Debts' = Debts  BY DEF Debts
<1>3. CASE UNCHANGED aliasVars
    BY <1>0, <1>2, <1>3 DEF aliasVars, AliasTyped, GaugeAccounted
<1>4. CASE ReleaseAliases
    <2> DEFINE h == Head(todo)
    <2>1. h.call \in Calls /\ h.by \in {"consumer", "ticker"}
        BY <1>4, HeadIs DEF ReleaseAliases, Doing
    <2>2. PICK gone : gone = Released(h.call, h.keys)  OBVIOUS
    <2>3. /\ aliasLabels' = aliasLabels \ gone
          /\ h.by = "consumer" => gauge' = gauge - Cardinality(gone) /\ owed' = owed
          /\ h.by # "consumer" =>
                owed' = [owed EXCEPT ![h.call] = @ + Cardinality(gone)] /\ gauge' = gauge
        BY <1>4, <2>2 DEF ReleaseAliases
    <2>4. gone \subseteq aliasLabels  BY <2>2 DEF Released
    <2>5. IsFiniteSet(gone) /\ Cardinality(gone) \in Nat
        BY <1>1, <2>4, FS_Subset, FS_CardinalityType
    <2>6. Cardinality(aliasLabels') = Cardinality(aliasLabels) - Cardinality(gone)
        <3>1. aliasLabels \cap gone = gone  BY <2>4
        <3>2. Cardinality(aliasLabels \ gone)
                 = Cardinality(aliasLabels) - Cardinality(aliasLabels \cap gone)
            BY <1>1, <2>5, FS_Difference
        <3> QED BY <2>3, <3>1, <3>2
    <2>7. aliasLabels' \subseteq [call : Calls, key : Endpoint]  BY <1>0, <2>3
    <2>8. CASE h.by = "consumer"
        <3>1. gauge' = Cardinality(aliasLabels') + Cardinality(Debts)
            BY <1>0, <1>1, <2>3, <2>5, <2>6, <2>8
        <3> QED BY <1>0, <1>2, <2>3, <2>7, <2>8, <3>1 DEF AliasTyped, GaugeAccounted
    <2>9. CASE h.by # "consumer"
        <3>1. PICK c \in Calls : c = h.call  BY <2>1
        <3>2. PICK n \in Nat : n = Cardinality(gone)  BY <2>5
        <3>3. owed' = [owed EXCEPT ![c] = @ + n]  BY <2>3, <2>9, <3>1, <3>2
        <3>4. IsFiniteSet(Debts') /\ Cardinality(Debts') = Cardinality(Debts) + n
            BY <1>0, <3>3, MoreDebts
        <3>5. owed' \in [Calls -> Nat]  BY <1>0, <3>3
        <3>6. gauge' = Cardinality(aliasLabels') + Cardinality(Debts')
            BY <1>0, <1>1, <2>3, <2>6, <2>9, <3>2, <3>4
        <3> QED BY <2>7, <3>4, <3>5, <3>6 DEF AliasTyped, GaugeAccounted
    <2> QED BY <2>8, <2>9
<1>5. CASE Learned
    <2> DEFINE h == Head(todo)
    <2>1. h.call \in Calls /\ h.key \in Endpoint /\ h = todo[1] /\ 1 \in DOMAIN todo
          /\ h.op = "learned"
        BY <1>5, HeadIs DEF Learned, Doing
    <2>2. PICK a \in [call : Calls, key : Endpoint] : a = [call |-> h.call, key |-> h.key]
        BY <2>1
    <2>3. aliasLabels' = aliasLabels \cup {a} /\ gauge' = gauge + 1 /\ owed' = owed
        BY <1>5, <2>2 DEF Learned
    <2>4. a \notin aliasLabels  BY <2>1, <2>2 DEF LearnedIsLast
    <2>5. Cardinality(aliasLabels') = Cardinality(aliasLabels) + 1
        BY <1>1, <2>3, <2>4, FS_AddElement
    <2>6. gauge' = Cardinality(aliasLabels') + Cardinality(Debts)
        BY <1>0, <1>1, <2>3, <2>5
    <2>7. aliasLabels' \subseteq [call : Calls, key : Endpoint]  BY <1>0, <2>3
    <2> QED BY <1>0, <1>2, <2>3, <2>6, <2>7 DEF AliasTyped, GaugeAccounted
<1>6. ASSUME NEW c \in Calls, ReportReleased(c) PROVE AliasTyped' /\ GaugeAccounted'
    <2>1. /\ owed[c] > 0 /\ owed' = [owed EXCEPT ![c] = @ - 1] /\ gauge' = gauge - 1
          /\ aliasLabels' = aliasLabels
        BY <1>6 DEF ReportReleased
    <2>2. IsFiniteSet(Debts') /\ Cardinality(Debts') = Cardinality(Debts) - 1
        BY <1>0, <2>1, OneDebtLess
    <2>3. owed' \in [Calls -> Nat]
        <3>1. owed[c] - 1 \in Nat  BY <1>0, <2>1
        <3> QED BY <1>0, <2>1, <3>1
    <2>4. gauge' = Cardinality(aliasLabels') + Cardinality(Debts')
        BY <1>0, <1>1, <2>1, <2>2
    <2> QED BY <1>0, <2>1, <2>2, <2>3, <2>4 DEF AliasTyped, GaugeAccounted
<1> QED BY <1>3, <1>4, <1>5, <1>6, OtherSteps DEF AliasSteps

-----------------------------------------------------------------------------
(* The invariant.                                                          *)

\* The rest of the tracker's state keeps its types.
OthersTyped ==
    /\ callRTCP \in [Calls -> SUBSET Endpoint]
    /\ streams \in [Endpoint -> Calls \cup {Nobody}]
    /\ observed \subseteq Calls /\ heard \subseteq Calls

LEMMA OthersStep ==
    ASSUME Typed, [Next]_vars
    PROVE  OthersTyped'
<1>0. OthersTyped  BY DEF Typed, OthersTyped
<1>1. UNCHANGED <<callRTCP, rtpVars>> => OthersTyped'
    BY <1>0 DEF OthersTyped, rtpVars
<1>2. CASE UNCHANGED vars  BY <1>1, <1>2 DEF vars, trackerVars
<1>3. CASE \E c \in Calls, sdp \in Descriptions : Answer(c, sdp) \/ Reinvite(c, sdp)
    BY <1>1, <1>3 DEF Answer, Reinvite, trackerVars
<1>4. ASSUME NEW c \in Calls, RemoveCallMedia(c), observed' \subseteq observed,
             heard' \subseteq heard
      PROVE  OthersTyped'
    <2>1. callRTCP' \in [Calls -> SUBSET Endpoint]
        BY <1>0, <1>4 DEF OthersTyped, RemoveCallMedia
    <2>2. streams' = [k \in Endpoint |-> IF streams[k] = c THEN Nobody ELSE streams[k]]
        BY <1>4 DEF RemoveCallMedia
    <2>3. streams' \in [Endpoint -> Calls \cup {Nobody}]
        <3>1. \A k \in Endpoint : streams[k] \in Calls \cup {Nobody}
            BY <1>0 DEF OthersTyped
        <3> QED BY <2>2, <3>1
    <2> QED BY <1>0, <1>4, <2>1, <2>3 DEF OthersTyped
<1>5. CASE \E c \in Calls, by \in {"consumer", "ticker"} : Unregister(c, by)
    BY <1>4, <1>5 DEF Unregister
<1>6. ASSUME NEW src \in Endpoint, NEW dst \in Endpoint, NEW counted \in BOOLEAN,
             RTPPacket(src, dst, counted)
      PROVE  OthersTyped'
    <2> DEFINE k == IF LabelsOf(dst) # Nobody THEN dst ELSE src
    <2>1. PICK c \in Calls : c = LabelsOf(k)
        BY <1>6 DEF RTPPacket, LabelsOf, Typed
    <2>2. /\ callRTCP' = callRTCP /\ heard' = heard \cup {c}
          /\ streams' = streams \/ streams' = [streams EXCEPT ![k] = c]
          /\ observed' = observed \/ observed' = observed \cup {c}
        BY <1>6, <2>1 DEF RTPPacket
    <2> QED BY <1>0, <2>1, <2>2 DEF OthersTyped
<1>7. CASE Retain  BY <1>1, <1>7 DEF Retain, trackerVars
<1>8. CASE Release  BY <1>1, <1>8 DEF Release, trackerVars
<1>9. CASE Register
    <2>1. PICK c \in Calls, m \in Medium : Registers(c, m)  BY <1>9, RegisterIs
    <2>2. /\ UNCHANGED <<callRTCP, observed, heard>>
          /\ streams' = streams \/ streams' = [streams EXCEPT ![m.rtp] = Nobody]
        BY <2>1 DEF Registers, ForgetsStream
    <2> QED BY <1>0, <2>2 DEF OthersTyped
<1>10. CASE RegisterRTCP
    <2>1. Head(todo).call \in Calls /\ Head(todo).key \in Endpoint
        BY <1>10, HeadIs DEF RegisterRTCP, Doing
    <2>2. callRTCP' = [callRTCP EXCEPT ![Head(todo).call] = @ \cup {Head(todo).key}]
          /\ UNCHANGED rtpVars
        BY <1>10 DEF RegisterRTCP
    <2> QED BY <1>0, <2>1, <2>2 DEF OthersTyped, rtpVars
<1>11. CASE Replace
    <2>1. Head(todo).call \in Calls  BY <1>11, HeadIs DEF Replace, Doing
    <2> QED BY <1>4, <1>11, <2>1 DEF Replace
<1>12. CASE ReleaseAliases  BY <1>1, <1>12 DEF ReleaseAliases, trackerVars
<1>13. CASE Learned  BY <1>1, <1>13 DEF Learned, trackerVars
<1>14. CASE \E k \in Endpoint, failing \in SUBSET Interfaces : Reconcile(k, failing)
    BY <1>1, <1>14 DEF Reconcile, trackerVars
<1>15. CASE \E k \in Endpoint : Cleanup(k)
    BY <1>0, <1>15 DEF Cleanup, trackerVars, OthersTyped
<1>16. CASE \E c \in Calls : ReportReleased(c)
    BY <1>1, <1>16 DEF ReportReleased, trackerVars
<1> QED BY <1>2, <1>3, <1>5, <1>6, <1>7, <1>8, <1>9, <1>10, <1>11, <1>12, <1>13, <1>14,
           <1>15, <1>16 DEF Next, Handler

LEMMA InitIInv == Init => IInv
<1> SUFFICES ASSUME Init PROVE IInv
    OBVIOUS
<1>1. /\ owners = [k \in Endpoint |-> <<>>] /\ order = [c \in Calls |-> <<>>]
      /\ media = [k \in Endpoint |-> Nobody]
      /\ sourceAliases = [c \in Calls |-> [k \in Endpoint |-> Nobody]]
      /\ mediaAliases = [k \in Endpoint |-> Nobody]
      /\ callRTCP = [c \in Calls |-> {}]
      /\ streams = [k \in Endpoint |-> Nobody] /\ observed = {} /\ heard = {}
      /\ refs = [k \in Endpoint |-> 0] /\ dirty = [k \in Endpoint |-> "clean"]
      /\ present = [i \in Interfaces |-> {}]
      /\ aliasLabels = {} /\ gauge = 0 /\ owed = [c \in Calls |-> 0]
      /\ todo = <<>>
    BY DEF Init
<1>2. Typed
    <2>1. owners \in [Endpoint -> Seq(Calls)] /\ order \in [Calls -> Seq(Endpoint)]
        BY <1>1
    <2>2. sourceAliases \in [Calls -> [Endpoint -> Endpoint \cup {Nobody}]]
        BY <1>1
    <2> QED BY <1>1, <2>1, <2>2 DEF Typed
<1>3. ToSet(<<>>) = {} /\ IsInjective(<<>>) /\ DOMAIN todo = {}
    BY <1>1 DEF ToSet, IsInjective
<1>4. IndexesAgree  BY <1>1, <1>3 DEF IndexesAgree, Owns
<1>5. LabelsAreOwners /\ AliasesSingle /\ StreamsOwned
    BY <1>1, NobodyIsNone DEF LabelsAreOwners, AliasesSingle, StreamsOwned
<1>6. Counted
    <2> SUFFICES ASSUME NEW k \in Endpoint
                 PROVE  refs[k] + Pending("retain", k) = Ownerships(k) + Pending("release", k)
        BY DEF Counted
    <2>1. Pending("retain", k) = 0 /\ Pending("release", k) = 0
        BY <1>1, PendingIs, CountEmpty
    <2>2. TrackerTyped  BY <1>2 DEF Typed, TrackerTyped
    <2>3. Ownerships(k) = Len(owners[k]) + Alias(k) + RTCPs(k)
        BY <1>5, <2>2, OwnershipsAre DEF OwnershipSums
    <2>4. Len(owners[k]) = 0 /\ Alias(k) = 0  BY <1>1 DEF Alias
    <2>5. RTCPs(k) = 0
        <3>1. {c \in Calls : k \in callRTCP[c]} = {}  BY <1>1
        <3> QED BY <3>1, FS_EmptySet, Zenon DEF RTCPs
    <2>6. refs[k] = 0  BY <1>1
    <2> QED BY <2>1, <2>3, <2>4, <2>5, <2>6
<1>7. RetainsFirst /\ LearnedIsLast /\ DropsAreStale /\ LabelsLive /\ AliasesLabelled
      /\ ReplaceCovered /\ KeptCovered
    BY <1>1, <1>3, NobodyIsNone
       DEF RetainsFirst, LearnedIsLast, DropsAreStale, LabelsLive, AliasesLabelled,
           ReplaceCovered, KeptCovered
<1>8. MapsFollowRefs  BY <1>1 DEF MapsFollowRefs
<1>9. GaugeAccounted
    <2>1. Debts = {}
        <3>1. \A d \in Calls \X Nat : owed[d[1]] = 0 /\ d[2] \in Nat  BY <1>1
        <3> QED BY <3>1 DEF Debts
    <2>2. IsFiniteSet(Debts) /\ Cardinality(Debts) = 0 /\ Cardinality(aliasLabels) = 0
        BY <1>1, <2>1, FS_EmptySet
    <2> QED BY <1>1, <2>2 DEF GaugeAccounted
<1> QED BY <1>2, <1>4, <1>5, <1>6, <1>7, <1>8, <1>9 DEF IInv

LEMMA NextIInv == IInv /\ [Next]_vars => IInv'
<1> SUFFICES ASSUME IInv, [Next]_vars PROVE IInv'
    OBVIOUS
<1>1. /\ Typed /\ TrackerInv /\ JobInv /\ Counted /\ MapsFollowRefs /\ GaugeAccounted
      /\ RetainsFirst /\ LearnedIsLast
    BY DEF IInv, TrackerInv, JobInv
<1>2. TrackerTyped' /\ TrackerInv'  BY <1>1, TrackerStep
<1>3. todo' \in Seq(Job) /\ JobInv'  BY <1>1, JobStep
<1>4. Counted'  BY <1>1, CountedStep
<1>5. FilterTyped' /\ MapsFollowRefs'  BY <1>1, FilterStep
<1>6. AliasTyped' /\ GaugeAccounted'  BY <1>1, GaugeStep
<1>7. OthersTyped'  BY <1>1, OthersStep
<1>8. Typed'
    BY <1>2, <1>3, <1>5, <1>6, <1>7
       DEF Typed, TrackerTyped, FilterTyped, AliasTyped, OthersTyped
<1> QED BY <1>2, <1>3, <1>4, <1>5, <1>6, <1>8 DEF IInv, TrackerInv, JobInv

\* The inductive invariant of the media endpoints.
THEOREM Invariance == Spec => []IInv
BY InitIInv, NextIInv, PTL DEF Spec

-----------------------------------------------------------------------------
(* What the runs check.                                                    *)

\* When the call whose labels an endpoint has ends, another owner takes over; no
\* packet is labelled with a call that is gone (Tracker.removeCallMedia).
THEOREM LabelsOfOwners == Spec => []LabelsAreOwners
<1>1. IInv => LabelsAreOwners  BY DEF IInv
<1> QED BY Invariance, <1>1, PTL

\* No stream of a call that ended, or of a learned port that was lost, is left
\* (Tracker.removeCallMedia, Register, releaseSourceAlias).
THEOREM NoOrphanStream == Spec => []StreamsOwned
<1>1. IInv => StreamsOwned  BY DEF IInv
<1> QED BY Invariance, <1>1, PTL

\* A learned source port is of one call and one of its endpoints, and nobody
\* declared it (Tracker.learnSourceAlias, Register).
THEOREM PrivateAliases == Spec => []AliasesArePrivate
<1>1. AliasesSingle => AliasesArePrivate
    <2> SUFFICES ASSUME AliasesSingle, NEW k \in Endpoint, NEW c \in Calls
                 PROVE  LET peers == {p \in Endpoint : sourceAliases[c][p] = k}
                        IN IF mediaAliases[k] = c
                           THEN /\ media[k] = Nobody /\ Cardinality(peers) = 1
                                /\ \A p \in peers : Owns(c, p)
                           ELSE peers = {}
        BY DEF AliasesArePrivate
    <2> DEFINE peers == {p \in Endpoint : sourceAliases[c][p] = k}
    <2>1. CASE mediaAliases[k] = c
        <3>1. PICK p \in Endpoint : /\ Owns(c, p) /\ sourceAliases[c][p] = k
                                    /\ \A q \in Endpoint : sourceAliases[c][q] = k => q = p
            BY <2>1 DEF AliasesSingle
        <3>2. peers = {p}  BY <3>1
        <3>3. Cardinality(peers) = 1  BY <3>2, FS_Singleton
        <3>4. media[k] = Nobody  BY <2>1 DEF AliasesSingle
        <3>5. \A q \in peers : Owns(c, q)  BY <3>1, <3>2
        <3> HIDE DEF peers
        <3> QED BY <2>1, <3>3, <3>4, <3>5 DEF peers
    <2>2. CASE mediaAliases[k] # c  BY <2>2 DEF AliasesSingle
    <2> QED BY <2>1, <2>2
<1>2. IInv => AliasesArePrivate  BY <1>1 DEF IInv
<1> QED BY Invariance, <1>2, PTL

\* The maps agree with the counts or the ticker knows what to repair, whichever
\* updates failed (exporter.setRTPEndpointPresence, reconcileRTPEndpoints).
THEOREM MapsKnown == Spec => []MapsFollowRefs
<1>1. IInv => MapsFollowRefs  BY DEF IInv
<1> QED BY Invariance, <1>1, PTL

\* No endpoint leaks, and none is dropped that a call needs: the counts are the
\* owners, and the gauge is never negative (exporter.rtpEndpointRefs).
THEOREM CountsAreOwners == Spec => []RefsAreOwnerships
<1>1. IInv => RefsAreOwnerships
    <2> SUFFICES ASSUME IInv PROVE TypeOK /\ Counted
        BY DEF RefsAreOwnerships, Counted
    <2>1. Typed /\ IndexesAgree /\ GaugeAccounted  BY DEF IInv
    <2>2. gauge \in Nat
        <3>1. IsFiniteSet(aliasLabels)  BY <2>1, LabelsFinite DEF Typed
        <3> QED BY <2>1, <3>1, FS_CardinalityType DEF GaugeAccounted
    <2>3. TodoOK
        <3> SUFFICES ASSUME NEW n \in DOMAIN todo, NEW j \in Job, j = todo[n]
                     PROVE  \/ j.op \in {"retain", "release"} /\ j.key \in Endpoint
                            \/ /\ j.op \in {"learned", "registerRTCP"}
                               /\ j.call \in Calls /\ j.key \in Endpoint
                            \/ j.op = "register" /\ j.call \in Calls /\ j.medium \in Medium
                            \/ j.op = "replace" /\ j.call \in Calls
                            \/ /\ j.op = "dropAliases" /\ j.by \in {"consumer", "ticker"}
                               /\ j.call \in Calls /\ j.keys \subseteq Endpoint
            <4>1. \A n \in DOMAIN todo : todo[n] \in Job  BY <2>1 DEF Typed
            <4> QED BY <4>1 DEF TodoOK
        <3> QED BY DEF Job
    <2> QED BY <2>1, <2>2, <2>3 DEF TypeOK, Typed, IndexesAgree, IInv
<1> QED BY Invariance, <1>1, PTL

\* An endpoint leaves the filter when no call has it nor is about to register it
\* (exporter.replaceMediaRevision, releaseRTPEndpoint).
THEOREM KeptPasses == Spec => KeptStaysFiltered
<1>1. IInv /\ [Next]_vars => \A k \in Endpoint : refs[k] > 0 /\ refs'[k] = 0 =>
          /\ Ownerships(k)' = 0
          /\ \A n \in DOMAIN todo' : todo'[n].op = "register" => todo'[n].medium.rtp # k
    <2> SUFFICES ASSUME IInv, [Next]_vars, NEW k \in Endpoint, refs[k] > 0, refs'[k] = 0
                 PROVE  /\ Ownerships(k)' = 0
                        /\ \A n \in DOMAIN todo' :
                              todo'[n].op = "register" => todo'[n].medium.rtp # k
        OBVIOUS
    <2>1. Typed /\ TrackerInv /\ RetainsFirst /\ Counted /\ KeptCovered
        BY DEF IInv, TrackerInv
    <2>2. Release
        <3>1. refs \in [Endpoint -> Nat] /\ refs[k] \in Nat  BY <2>1 DEF Typed
        <3>2. CASE UNCHANGED filterVars  BY <3>2 DEF filterVars
        <3>3. CASE Retain
            <4>1. Head(todo).key \in Endpoint  BY <2>1, <3>3, HeadIs DEF Retain, Doing
            <4>2. refs' = [refs EXCEPT ![Head(todo).key] = @ + 1]  BY <3>3 DEF Retain
            <4> QED BY <3>1, <4>1, <4>2
        <3>4. CASE \E p \in Endpoint, failing \in SUBSET Interfaces : Reconcile(p, failing)
            BY <3>4 DEF Reconcile
        <3> QED BY <3>2, <3>3, <3>4, OtherSteps DEF FilterSteps
    <2>3. /\ todo # <<>> /\ Head(todo).op = "release" /\ Head(todo).key \in Endpoint
          /\ Head(todo) = todo[1] /\ 1 \in DOMAIN todo
          /\ todo' = <<>> \o Tail(todo) /\ SameOwnership
          /\ refs' = [refs EXCEPT ![Head(todo).key] = IF @ > 0 THEN @ - 1 ELSE 0]
        BY <2>1, <2>2, HeadIs DEF Release, Doing, Rest, SameOwnership, trackerVars
    <2>4. Head(todo).key = k
        <3>1. refs \in [Endpoint -> Nat]  BY <2>1 DEF Typed
        <3> QED BY <2>3, <3>1
    <2>5. PICK u : u = todo'  OBVIOUS
    <2>6. /\ u \in Seq(Job)
          /\ \A i \in DOMAIN u : i + 1 \in 2..Len(todo) /\ u[i] = todo[i + 1]
          /\ \A j \in 2..Len(todo) : j - 1 \in DOMAIN u /\ u[j - 1] = todo[j]
        <3>1. PICK nx \in Seq(Job) : nx = <<>>  BY SuccessorsOfNone DEF Successors
        <3>2. u = nx \o Tail(todo) /\ Len(nx) = 0  BY <2>3, <2>5, <3>1
        <3>3. todo \in Seq(Job)  BY <2>1 DEF Typed
        <3>4. /\ u \in Seq(Job)
              /\ \A i \in DOMAIN u : i > Len(nx) =>
                    i - Len(nx) + 1 \in 2..Len(todo) /\ u[i] = todo[i - Len(nx) + 1]
              /\ \A j \in 2..Len(todo) : j + Len(nx) - 1 \in DOMAIN u
                                         /\ u[j + Len(nx) - 1] = todo[j]
            BY <2>3, <3>2, <3>3, AfterHead
        <3>5. ASSUME NEW i \in DOMAIN u PROVE i + 1 \in 2..Len(todo) /\ u[i] = todo[i + 1]
            <4>1. i \in Nat /\ i > 0 /\ i - 0 + 1 = i + 1  BY <3>4
            <4> QED BY <3>2, <3>4, <4>1
        <3>6. ASSUME NEW j \in 2..Len(todo) PROVE j - 1 \in DOMAIN u /\ u[j - 1] = todo[j]
            <4>1. j + 0 - 1 = j - 1  OBVIOUS
            <4> QED BY <3>2, <3>4, <4>1
        <3> QED BY <3>4, <3>5, <3>6
    <2>7. Count("retain", k, u) = 0
        <3>1. ASSUME NEW i \in DOMAIN u PROVE u[i].op # "retain"
            <4>1. i + 1 \in DOMAIN todo /\ 1 < i + 1 /\ u[i] = todo[i + 1]
                BY <2>1, <2>6 DEF Typed
            <4> QED BY <2>1, <2>3, <4>1 DEF RetainsFirst
        <3> QED BY <2>6, <3>1, CountNone
    <2>8. Ownerships(k)' = 0 /\ Count("release", k, u) = 0
        <3>1. Counted'  BY <2>1, CountedStep
        <3>2. \A op : Pending(op, k)' = Count(op, k, u)  BY <2>5 DEF Pending, Count, Places
        <3>3. refs'[k] + Count("retain", k, u) = Ownerships(k)' + Count("release", k, u)
            BY <3>1, <3>2 DEF Counted
        <3>4. Ownerships(k)' \in Nat  BY <2>1, OwnershipsNext
        <3>5. Count("release", k, u) \in Nat  BY <2>6, CountType
        <3> QED BY <2>7, <3>3, <3>4, <3>5
    <2>9. owners[k] = <<>>
        <3>1. owners'[k] = owners[k]  BY <2>3 DEF SameOwnership
        <3>2. Len(owners'[k]) = 0  BY <2>1, <2>8, OwnershipsNext
        <3>3. owners[k] \in Seq(Calls)  BY <2>1 DEF Typed
        <3> QED BY <3>1, <3>2, <3>3
    <2>10. \A j \in 2..Len(todo) : ~ReleasesEndpoint(j, k)
        <3> SUFFICES ASSUME NEW j \in 2..Len(todo), ReleasesEndpoint(j, k) PROVE FALSE
            OBVIOUS
        <3>1. j - 1 \in Places("release", k, u)
            BY <2>6 DEF Places, ReleasesEndpoint
        <3>2. Places("release", k, u) # {}  BY <3>1
        <3>3. IsFiniteSet(Places("release", k, u))  BY <2>6, CountType
        <3> QED BY <2>8, <3>2, <3>3, FS_EmptySet DEF Count
    <2>11. ASSUME NEW n \in DOMAIN u, u[n].op = "register", u[n].medium.rtp = k PROVE FALSE
        <3>1. todo \in Seq(Job) /\ n + 1 \in 2..Len(todo) /\ u[n] = todo[n + 1]
            BY <2>1, <2>6 DEF Typed
        <3>2. n + 1 \in DOMAIN todo /\ 1 < n + 1  BY <3>1
        <3>3. RegistersEndpoint(n + 1, k)  BY <2>11, <3>1, <3>2 DEF RegistersEndpoint
        <3>4. ReleasesEndpoint(1, k)  BY <2>3, <2>4 DEF ReleasesEndpoint
        <3>5. ~\E l \in DOMAIN todo : l < 1  BY <3>1
        <3>6. ~\E l \in DOMAIN todo : 1 < l /\ ReleasesEndpoint(l, k)  BY <2>10, <3>1
        <3> QED BY <2>1, <2>3, <2>9, <3>2, <3>3, <3>4, <3>5, <3>6 DEF KeptCovered
    <2> QED BY <2>5, <2>8, <2>11
<1> QED BY Invariance, <1>1, PTL DEF Spec, KeptStaysFiltered

-----------------------------------------------------------------------------
(* The sum of what is owed.                                                *)

LEMMA LeastOf ==
    ASSUME NEW T, T \subseteq Nat, T # {}
    PROVE  \E n \in T : \A m \in T : n <= m
<1>1. PICK n \in T : \A m \in T : ~(<<m, n>> \in OpToRel(<, Nat))
    BY NatLessThanWellFounded, WFMin
<1>2. \A m \in T : m < n => <<m, n>> \in OpToRel(<, Nat)  BY Zenon DEF OpToRel
<1>3. \A m \in T : ~(m < n)  BY <1>1, <1>2, Zenon
<1> QED BY <1>3

\* The equation of a sum that takes an element after the other.
SumStep(S, w, f) ==
    [s \in SUBSET S |-> IF s = {} THEN 0
                       ELSE LET x == CHOOSE x \in s : TRUE IN w[x] + f[s \ {x}]]

\* Over a finite set, one function satisfies it.
LEMMA SumIs ==
    ASSUME NEW S, IsFiniteSet(S), NEW w \in [S -> Nat], NEW g \in [SUBSET S -> Nat],
           g[{}] = 0, \A s \in SUBSET S : \A x \in s : g[s] = w[x] + g[s \ {x}]
    PROVE  \A f : f = SumStep(S, w, f) <=> f = g
<1> SUFFICES ASSUME NEW f PROVE f = SumStep(S, w, f) <=> f = g
    OBVIOUS
<1>1. ASSUME f = g PROVE f = SumStep(S, w, f)
    <2>1. ASSUME NEW s \in SUBSET S
          PROVE  f[s] = IF s = {} THEN 0
                        ELSE LET x == CHOOSE x \in s : TRUE IN w[x] + f[s \ {x}]
        <3>1. CASE s = {}  BY <1>1, <3>1
        <3>2. CASE s # {}
            <4>1. (CHOOSE x \in s : TRUE) \in s  BY <3>2
            <4> QED BY <1>1, <3>2, <4>1
        <3> QED BY <3>1, <3>2
    <2> QED BY <1>1, <2>1 DEF SumStep
<1>2. ASSUME f = SumStep(S, w, f) PROVE f = g
    <2> DEFINE Bad == {Cardinality(s) : s \in {t \in SUBSET S : f[t] # g[t]}}
    <2>1. \A s \in SUBSET S : IsFiniteSet(s) /\ Cardinality(s) \in Nat
        BY FS_Subset, FS_CardinalityType
    <2>2. Bad = {}
        <3> SUFFICES ASSUME Bad # {} PROVE FALSE
            OBVIOUS
        <3>1. PICK n \in Bad : \A m \in Bad : n <= m
            <4>1. Bad \subseteq Nat  BY <2>1
            <4> HIDE DEF Bad
            <4> QED BY <4>1, LeastOf
        <3>2. PICK s \in SUBSET S : f[s] # g[s] /\ Cardinality(s) = n  BY <3>1
        <3>3. s # {}  BY <1>2, <3>2 DEF SumStep
        <3>4. PICK x \in s : f[s] = w[x] + f[s \ {x}]
            <4>1. (CHOOSE x \in s : TRUE) \in s  BY <3>3
            <4>2. f[s] = w[CHOOSE x \in s : TRUE] + f[s \ {CHOOSE x \in s : TRUE}]
                BY <1>2, <3>3 DEF SumStep
            <4> QED BY <4>1, <4>2
        <3>5. Cardinality(s \ {x}) = n - 1 /\ n \in Nat
            BY <2>1, <3>2, FS_RemoveElement
        <3>6. f[s \ {x}] = g[s \ {x}]
            <4>1. ASSUME f[s \ {x}] # g[s \ {x}] PROVE FALSE
                <5>1. Cardinality(s \ {x}) \in Bad  BY <4>1
                <5>2. n <= n - 1  BY <3>1, <3>5, <5>1
                <5> QED BY <3>5, <5>2
            <4> QED BY <4>1
        <3> QED BY <3>2, <3>4, <3>6
    <2>3. \A s \in SUBSET S : f[s] = g[s]  BY <2>2
    <2>4. f = [s \in SUBSET S |-> f[s]]  BY <1>2 DEF SumStep
    <2> QED BY <2>3, <2>4
<1> QED BY <1>1, <1>2

LEMMA OwedIs ==
    ASSUME Typed, IsFiniteSet(Debts)
    PROVE  MapThenSumSet(LAMBDA c : owed[c], Calls) = Cardinality(Debts)
<1> DEFINE D(s) == {d \in Debts : d[1] \in s}
           g == [s \in SUBSET Calls |-> Cardinality(D(s))]
<1>1. \A s : IsFiniteSet(D(s)) /\ Cardinality(D(s)) \in Nat
    BY FS_Subset, FS_CardinalityType
<1>2. g \in [SUBSET Calls -> Nat]  BY <1>1
<1>3. g[{}] = 0
    <2>1. D({}) = {}  OBVIOUS
    <2> QED BY <2>1, FS_EmptySet
<1>4. ASSUME NEW s \in SUBSET Calls, NEW x \in s PROVE g[s] = owed[x] + g[s \ {x}]
    <2> DEFINE one == {d \in Debts : d[1] = x}
               rest == D(s \ {x})
               f == [i \in 1..owed[x] |-> <<x, i>>]
    <2>1. owed[x] \in Nat /\ x \in Calls  BY DEF Typed
    <2>2. D(s) = one \cup rest /\ one \cap rest = {}  OBVIOUS
    <2>3. f \in Bijection(1..owed[x], one)
        <3>1. f \in [1..owed[x] -> one]  BY <2>1 DEF Debts
        <3>2. ASSUME NEW d \in one PROVE \E i \in 1..owed[x] : f[i] = d
            <4>1. d \in Calls \X Nat /\ d[1] = x /\ 1 <= d[2] /\ d[2] <= owed[x]
                BY DEF Debts
            <4>2. d = <<x, d[2]>> /\ d[2] \in 1..owed[x]  BY <2>1, <4>1
            <4> QED BY <4>2
        <3>3. \A i, j \in 1..owed[x] : f[i] = f[j] => i = j  OBVIOUS
        <3> QED BY <3>1, <3>2, <3>3 DEF Bijection, Injection, Surjection, IsInjective
    <2>4. IsFiniteSet(one) /\ Cardinality(one) = owed[x]
        <3>1. ExistsBijection(1..owed[x], one)  BY <2>3 DEF ExistsBijection
        <3> HIDE DEF one
        <3> QED BY <2>1, <3>1, FS_CountingElements, FS_NatBijection
    <2>5. IsFiniteSet(rest) /\ Cardinality(rest) \in Nat  BY <1>1
    <2>6. g[s] = Cardinality(one \cup rest) /\ g[s \ {x}] = Cardinality(rest)  BY <2>2
    <2> HIDE DEF one, rest, g
    <2>7. Cardinality(one \cap rest) = 0  BY <2>2, FS_EmptySet, Zenon
    <2>8. Cardinality(one \cup rest)
             = Cardinality(one) + Cardinality(rest) - Cardinality(one \cap rest)
        BY <2>4, <2>5, FS_Union
    <2> QED BY <2>1, <2>4, <2>5, <2>6, <2>7, <2>8
<1>5. g[Calls] = Cardinality(Debts)
    <2>1. D(Calls) = Debts  BY DEF Debts
    <2> QED BY <2>1
<1> HIDE DEF g
<1>6. \A f : f = SumStep(Calls, owed, f) <=> f = g
    <2>1. PICK w \in [Calls -> Nat] : w = owed  BY DEF Typed
    <2>2. \A s \in SUBSET Calls : \A x \in s : g[s] = w[x] + g[s \ {x}]  BY <1>4, <2>1
    <2>3. \A f : f = SumStep(Calls, w, f) <=> f = g
        BY <1>2, <1>3, <2>2, CallsFinite, SumIs
    <2> QED BY <2>1, <2>3
<1>7. MapThenSumSet(LAMBDA c : owed[c], Calls) = g[Calls]
    BY <1>6 DEF SumStep, MapThenSumSet, MapThenFoldSet
<1> QED BY <1>5, <1>7

\* The gauge counts the learned ports, those the ticker has yet to report included,
\* and at rest these are the tracker's (exporter.releaseRTPAliases,
\* emitRTPAliasReleased).
THEOREM GaugeOfAliases == Spec => []AliasGaugeExact
<1>1. IInv => AliasGaugeExact
    <2> SUFFICES ASSUME IInv PROVE AliasGaugeExact
        OBVIOUS
    <2>1. Typed /\ GaugeAccounted /\ LabelsLive /\ AliasesLabelled  BY DEF IInv
    <2>2. gauge = Cardinality(aliasLabels) + Cardinality(Debts) /\ IsFiniteSet(Debts)
        BY <2>1 DEF GaugeAccounted
    <2>3. MapThenSumSet(LAMBDA c : owed[c], Calls) = Cardinality(Debts)
        BY <2>1, <2>2, OwedIs
    <2>4. gauge = Cardinality(aliasLabels) + MapThenSumSet(LAMBDA c : owed[c], Calls)
        BY <2>2, <2>3
    <2>5. ASSUME todo = <<>>
          PROVE  aliasLabels = {a \in [call : Calls, key : Endpoint] :
                                   mediaAliases[a.key] = a.call}
        <3>1. aliasLabels \subseteq [call : Calls, key : Endpoint]  BY <2>1 DEF Typed
        <3> QED BY <2>1, <2>5, <3>1, LabelsAtRest
    <2> QED BY <2>4, <2>5 DEF AliasGaugeExact
<1> QED BY Invariance, <1>1, PTL

-----------------------------------------------------------------------------
(* The way of a frame.                                                     *)

Frame == [tagged : BOOLEAN, ipv4 : BOOLEAN, words : Nat, udp : BOOLEAN,
          src : Address, dst : Address, payload : P!Payloads, len : Nat]

LEMMA FrameIs ==
    ASSUME NEW f \in Frame
    PROVE  /\ f.words \in Nat /\ f.len \in Nat /\ f.payload \in P!Payloads
           /\ f.tagged \in BOOLEAN /\ f.ipv4 \in BOOLEAN /\ f.udp \in BOOLEAN
           /\ P!IPOffset(f) \in {14, 18}
           /\ P!IPOffset(f) = (IF f.tagged THEN 18 ELSE 14)
           /\ P!Payload(f) = P!IPOffset(f) + 4 * f.words + 8
BY DEF Frame, P!IPOffset, P!UDPOffset, P!Payload

\* What the filter hands over of a datagram.
LEMMA FilterIs ==
    ASSUME NEW f \in Frame, NEW E
    PROVE  P!Filter(f, E) =
             IF ~P!IsDatagram(f) THEN 0
             ELSE IF P!OnPort(f, SIPPorts) THEN f.len
             ELSE IF ~P!Matches(f, E) THEN 0
             ELSE P!Least(f.len, IF P!IsRTCPPayload(f, f.len) THEN 1518 ELSE 64)
BY DEF P!Filter, P!RTCPSnapshot, P!RTPSnapshot

\* The filter takes for a datagram what the parser can read.
LEMMA DatagramIs ==
    ASSUME NEW f \in Frame, NEW n \in Nat
    PROVE  /\ P!IsDatagram(f) <=> ~P!HeaderError(f, f.len)
           /\ P!IsDatagram(f) => f.words \in 5..15 /\ P!Payload(f) \in 42..86
                                 /\ f.len >= P!Payload(f)
           /\ P!IsDatagram(f) /\ n >= P!Payload(f) => ~P!HeaderError(f, n)
<1>1. /\ f.words \in Nat /\ f.len \in Nat
      /\ f.tagged \in BOOLEAN /\ f.ipv4 \in BOOLEAN /\ f.udp \in BOOLEAN
      /\ P!IPOffset(f) = (IF f.tagged THEN 18 ELSE 14)
      /\ P!Payload(f) = P!IPOffset(f) + 4 * f.words + 8
    BY FrameIs
<1>2. P!IsDatagram(f) <=> /\ f.len >= P!IPOffset(f) + 20 /\ f.ipv4 /\ f.words \in 5..15
                          /\ f.udp /\ f.len >= P!Payload(f)
    BY DEF P!IsDatagram, P!Words
<1>3. ASSUME NEW m \in Nat
      PROVE  P!HeaderError(f, m) <=>
                \/ m < 42 \/ (f.tagged /\ m < 46)
                \/ ~f.ipv4 \/ m < P!IPOffset(f) + 20 \/ f.words \notin 5..15
                \/ ~f.udp \/ m < P!Payload(f)
    BY DEF P!HeaderError, P!LinkError, P!NetworkError, P!TransportError, P!MinRaw,
           P!MinTagged, P!Words
<1>4. f.words \in 5..15 => P!Payload(f) \in 42..86 /\ P!Payload(f) >= P!IPOffset(f) + 28
    BY <1>1
<1>5. P!IsDatagram(f) <=> ~P!HeaderError(f, f.len)  BY <1>1, <1>2, <1>3, <1>4
<1>6. P!IsDatagram(f) => f.words \in 5..15 /\ P!Payload(f) \in 42..86
                         /\ f.len >= P!Payload(f)
    BY <1>2, <1>4
<1>7. P!IsDatagram(f) /\ n >= P!Payload(f) => ~P!HeaderError(f, n)
    BY <1>1, <1>2, <1>3, <1>4
<1> QED BY <1>5, <1>6, <1>7

\* Filter, reader and parser agree on every frame (sip.c, isSIPPacket, parseRawPacket).
LEMMA FrameAgrees ==
    ASSUME NEW f \in Frame
    PROVE  LET n == P!Filter(f, {f.src, f.dst})
           IN /\ n = 0 <=> P!HeaderError(f, f.len)
              /\ P!OnPort(f, SIPPorts) => n \in {0, f.len}
              /\ n > 0 /\ P!HeadersFit(f) =>
                   /\ ~P!HeaderError(f, n)
                   /\ P!IsSIPPacket(f, n) <=> P!OnPort(f, SIPPorts)
<1> DEFINE n == P!Filter(f, {f.src, f.dst})
           cap == IF P!IsRTCPPayload(f, f.len) THEN 1518 ELSE 64
<1>1. n = IF ~P!IsDatagram(f) THEN 0
          ELSE IF P!OnPort(f, SIPPorts) THEN f.len ELSE P!Least(f.len, cap)
    <2>1. P!Matches(f, {f.src, f.dst})  BY DEF P!Matches
    <2> QED BY <2>1, FilterIs
<1>2. f.len \in Nat /\ P!Payload(f) \in Nat /\ cap \in {64, 1518}  BY FrameIs
<1>3. P!Least(f.len, cap) = IF f.len < cap THEN f.len ELSE cap  BY DEF P!Least
<1> HIDE DEF n, cap
<1>4. CASE ~P!IsDatagram(f)
    <2>1. n = 0  BY <1>1, <1>4
    <2>2. P!HeaderError(f, f.len)  BY <1>2, <1>4, DatagramIs
    <2> QED BY <2>1, <2>2 DEF n
<1>5. CASE P!IsDatagram(f)
    <2>1. /\ ~P!HeaderError(f, f.len) /\ P!Payload(f) \in 42..86 /\ f.len >= P!Payload(f)
          /\ f.words \in 5..15
        BY <1>2, <1>5, DatagramIs
    <2>2. n \in Nat /\ n > 0 /\ n <= f.len  BY <1>1, <1>2, <1>3, <1>5, <2>1
    <2>3. P!OnPort(f, SIPPorts) => n = f.len  BY <1>1, <1>5
    <2>4. P!HeadersFit(f) => n >= P!Payload(f)
        <3>1. P!HeadersFit(f) => P!Payload(f) + 12 <= 64
            BY DEF P!HeadersFit, P!RTPHeader, P!RTPSnapshot
        <3> QED BY <1>1, <1>2, <1>3, <1>5, <2>1, <3>1
    <2>5. P!HeadersFit(f) => ~P!HeaderError(f, n)  BY <1>5, <2>2, <2>4, DatagramIs
    <2>6. P!HeadersFit(f) => (P!IsSIPPacket(f, n) <=> P!OnPort(f, SIPPorts))
        <3>1. P!IsSIPPacket(f, n) <=> \/ n < 42 \/ f.words \notin 5..15 \/ n < P!Payload(f)
                                      \/ P!OnPort(f, SIPPorts)
            BY DEF P!IsSIPPacket, P!MinRaw, P!Words
        <3> QED BY <2>1, <2>2, <2>4, <3>1
    <2> QED BY <2>1, <2>2, <2>3, <2>5, <2>6 DEF n
<1> QED BY <1>4, <1>5

\* A datagram of media that is on no SIP port, with the endpoints of one map.
LEMMA MediaPasses ==
    ASSUME NEW g \in Frame, NEW E, P!IsDatagram(g), P!HeadersFit(g),
           g.len > P!Payload(g) + 12, ~P!OnPort(g, SIPPorts)
    PROVE  LET n == P!Filter(g, E)
           IN IF P!Matches(g, E)
              THEN /\ ~P!IsSIPPacket(g, n)
                   /\ g.payload = "rtp" => P!Outcome(g, n) = "rtp"
                   /\ g.payload = "rtcp" =>
                         P!Outcome(g, n) = "rtcp" /\ (n = g.len \/ n = P!RTCPSnapshot)
              ELSE n = 0
<1> DEFINE n == P!Filter(g, E)
           cap == IF P!IsRTCPPayload(g, g.len) THEN 1518 ELSE 64
<1>1. n = IF P!Matches(g, E) THEN P!Least(g.len, cap) ELSE 0  BY FilterIs
<1>2. g.len \in Nat /\ P!Payload(g) \in Nat /\ cap \in {64, 1518}  BY FrameIs
<1>3. P!Least(g.len, cap) = IF g.len < cap THEN g.len ELSE cap  BY DEF P!Least
<1>4. P!IsRTCPPayload(g, g.len) <=> g.payload = "rtcp"
    BY <1>2 DEF P!IsRTCPPayload
<1>5. cap = IF g.payload = "rtcp" THEN 1518 ELSE 64  BY <1>4
<1> HIDE DEF n, cap
<1>6. CASE ~P!Matches(g, E)  BY <1>1, <1>6 DEF n
<1>7. CASE P!Matches(g, E)
    <2>1. P!Payload(g) \in 42..86 /\ g.words \in 5..15  BY <1>2, DatagramIs
    <2>2. P!Payload(g) + 12 <= 64  BY DEF P!HeadersFit, P!RTPHeader, P!RTPSnapshot
    <2>3. n \in Nat /\ n >= P!Payload(g) + 12
        BY <1>1, <1>2, <1>3, <1>7, <2>1, <2>2
    <2>4. ~P!HeaderError(g, n)  BY <2>1, <2>3, DatagramIs
    <2>5. ~P!IsSIPPacket(g, n)
        BY <2>1, <2>3 DEF P!IsSIPPacket, P!MinRaw, P!Words
    <2>6. ASSUME g.payload = "rtp" PROVE P!Outcome(g, n) = "rtp"
        <3>1. ~P!IsRTCPPayload(g, n)  BY <2>6 DEF P!IsRTCPPayload
        <3>2. P!RTPOutcome(g, n) = "rtp"
            <4>1. n - P!Payload(g) >= 12  BY <1>2, <2>3
            <4> QED BY <2>6, <4>1 DEF P!RTPOutcome, P!RTPHeader
        <3>3. n # P!Payload(g) /\ n > P!Payload(g)  BY <2>1, <2>3
        <3> QED BY <2>4, <2>6, <3>1, <3>2, <3>3 DEF P!Outcome
    <2>7. ASSUME g.payload = "rtcp"
          PROVE  P!Outcome(g, n) = "rtcp" /\ (n = g.len \/ n = P!RTCPSnapshot)
        <3>1. P!IsRTCPPayload(g, n)  BY <2>1, <2>3, <2>7 DEF P!IsRTCPPayload
        <3>2. n # P!Payload(g) /\ n > P!Payload(g)  BY <2>1, <2>3
        <3>3. P!Outcome(g, n) = "rtcp"  BY <2>4, <2>7, <3>1, <3>2 DEF P!Outcome
        <3>4. n = g.len \/ n = 1518  BY <1>1, <1>3, <1>5, <1>7, <2>7
        <3> QED BY <3>3, <3>4 DEF P!RTCPSnapshot
    <2> QED BY <1>7, <2>5, <2>6, <2>7 DEF n
<1> QED BY <1>6, <1>7

\* At rest the endpoints that have a reference are those that some call has.
LEMMA HeldIsKnown ==
    ASSUME Typed, TrackerInv, Counted, todo = <<>>, NEW k \in Endpoint
    PROVE  refs[k] > 0 <=> Known(k)
<1>1. TrackerTyped /\ AliasesSingle  BY DEF Typed, TrackerTyped, TrackerInv
<1>2. /\ Ownerships(k) = Len(owners[k]) + Alias(k) + RTCPs(k)
      /\ Len(owners[k]) \in Nat /\ Alias(k) \in Nat /\ RTCPs(k) \in Nat
    BY <1>1, OwnershipsAre DEF OwnershipSums
<1>3. refs[k] = Ownerships(k)
    <2>1. Pending("retain", k) = 0 /\ Pending("release", k) = 0  BY PendingIs, CountEmpty
    <2>2. refs[k] \in Nat  BY DEF Typed
    <2> QED BY <1>2, <2>1, <2>2 DEF Counted
<1>4. Len(owners[k]) > 0 <=> media[k] # Nobody
    <2>1. owners[k] \in Seq(Calls)  BY DEF Typed
    <2>2. CASE owners[k] = <<>>  BY <2>2 DEF TrackerInv, LabelsAreOwners
    <2>3. CASE owners[k] # <<>>
        <3>1. media[k] \in ToSet(owners[k])  BY <2>3 DEF TrackerInv, LabelsAreOwners
        <3>2. media[k] \in Calls  BY <2>1, <3>1 DEF ToSet
        <3> QED BY <2>1, <2>3, <3>2, NobodyIsNone
    <2> QED BY <2>2, <2>3
<1>5. Alias(k) > 0 <=> mediaAliases[k] # Nobody  BY DEF Alias
<1>6. RTCPs(k) > 0 <=> \E c \in Calls : k \in callRTCP[c]
    <2> DEFINE A == {c \in Calls : k \in callRTCP[c]}
    <2>1. IsFiniteSet(A)
        <3>1. A \in SUBSET Calls  OBVIOUS
        <3> HIDE DEF A
        <3> QED BY <3>1, CallsFinite, FS_Subset
    <2>2. Cardinality(A) = 0 <=> A = {}  BY <2>1, FS_EmptySet
    <2>3. RTCPs(k) = 0 <=> A = {}  BY <2>2 DEF RTCPs
    <2>4. A = {} <=> ~\E c \in Calls : k \in callRTCP[c]  OBVIOUS
    <2> HIDE DEF A
    <2> QED BY <1>2, <2>3, <2>4
<1>7. Known(k) <=> \/ media[k] # Nobody \/ mediaAliases[k] # Nobody
                   \/ \E c \in Calls : k \in callRTCP[c]
    BY DEF Known, LabelsOf
<1> QED BY <1>2, <1>3, <1>4, <1>5, <1>6, <1>7

\* Media of a call reach the tracker, and other traffic is dropped in the kernel, on
\* every interface whose map is in step (sip.c, tracker.lookupLabels,
\* exporter.setRTPEndpointPresence).
THEOREM MediaReaches == Spec => []MediaReachTracker
<1>1. IInv => MediaReachTracker
    <2> SUFFICES ASSUME IInv PROVE MediaReachTracker
        OBVIOUS
    <2>1. Frames \subseteq Frame  BY FramesAssumption DEF FramesAssumption, Frame
    <2>2. P!FilterAgrees  BY <2>1, FrameAgrees DEF P!FilterAgrees
    <2>3. ASSUME todo = <<>>,
                 NEW src \in Endpoint, dirty[src] = "clean", src.port \notin SIPPorts,
                 NEW dst \in Endpoint, dirty[dst] = "clean", dst.port \notin SIPPorts,
                 NEW i \in Interfaces, NEW f \in Datagrams
          PROVE  LET g == [f EXCEPT !.src = src, !.dst = dst]
                     n == P!Filter(g, present[i])
                 IN IF Known(src) \/ Known(dst)
                    THEN /\ ~P!IsSIPPacket(g, n)
                         /\ f.payload = "rtp" => P!Outcome(g, n) = "rtp"
                         /\ f.payload = "rtcp" =>
                               P!Outcome(g, n) = "rtcp" /\ (n = f.len \/ n = P!RTCPSnapshot)
                    ELSE n = 0
        <3> DEFINE g == [f EXCEPT !.src = src, !.dst = dst]
        <3>1. /\ f \in Frame /\ P!IsDatagram(f) /\ P!HeadersFit(f)
              /\ f.len > P!Payload(f) + 12
            BY <2>1, <2>3 DEF Datagrams
        <3>2. src \in Address /\ dst \in Address
            BY ConstantsAssumption DEF ConstantsAssumption, Endpoint, Address
        <3>3. /\ g \in Frame /\ g.src = src /\ g.dst = dst /\ g.len = f.len
              /\ g.payload = f.payload /\ g.words = f.words /\ g.tagged = f.tagged
              /\ g.ipv4 = f.ipv4 /\ g.udp = f.udp
            BY <3>1, <3>2 DEF Frame
        <3> HIDE DEF g
        <3>4. P!Payload(g) = P!Payload(f) /\ P!IPOffset(g) = P!IPOffset(f)
            BY <3>3 DEF P!Payload, P!UDPOffset, P!IPOffset
        <3>5. P!IsDatagram(g) /\ P!HeadersFit(g) /\ g.len > P!Payload(g) + 12
            BY <3>1, <3>3, <3>4 DEF P!IsDatagram, P!HeadersFit
        <3>6. ~P!OnPort(g, SIPPorts)  BY <2>3, <3>3 DEF P!OnPort
        <3>7. Typed /\ TrackerInv /\ Counted /\ MapsFollowRefs  BY DEF IInv, TrackerInv
        <3>8. /\ src \in present[i] <=> Known(src)
              /\ dst \in present[i] <=> Known(dst)
            BY <2>3, <3>7, HeldIsKnown DEF MapsFollowRefs
        <3>9. P!Matches(g, present[i]) <=> Known(src) \/ Known(dst)
            BY <3>3, <3>8 DEF P!Matches
        <3>10. LET n == P!Filter(g, present[i])
               IN IF P!Matches(g, present[i])
                  THEN /\ ~P!IsSIPPacket(g, n)
                       /\ g.payload = "rtp" => P!Outcome(g, n) = "rtp"
                       /\ g.payload = "rtcp" =>
                             P!Outcome(g, n) = "rtcp" /\ (n = g.len \/ n = P!RTCPSnapshot)
                  ELSE n = 0
            BY <3>3, <3>5, <3>6, MediaPasses
        <3> QED BY <3>3, <3>9, <3>10 DEF g
    <2> QED BY <2>2, <2>3 DEF MediaReachTracker
<1> QED BY Invariance, <1>1, PTL
=============================================================================
