---------------------------- MODULE NamesProofs ----------------------------
(***************************************************************************)
(* The functions on names, for names of every length over every set of     *)
(* tokens: keys of role identities, resolved roles and session names.      *)
(***************************************************************************)
EXTENDS MCNames, RoleIdentityProofs, FiniteSetTheorems

---------------------------------------------------------------------------
(* Concatenation                                                           *)

\* The length and the elements of s are those of a and b in turn.
IsConcat(s, a, b) ==
  /\ Len(s) = Len(a) + Len(b)
  /\ \A i \in 1..Len(a) : s[i] = a[i]
  /\ \A i \in 1..Len(b) : s[Len(a) + i] = b[i]

\* Two sequences make up their concatenation.
LEMMA ConcatElements ==
  ASSUME NEW T, NEW a \in Seq(T), NEW b \in Seq(T)
  PROVE  a \o b \in Seq(T) /\ IsConcat(a \o b, a, b)
BY DEF IsConcat

---------------------------------------------------------------------------
(* The n-th element of a set of numbers                                    *)

\* The members of a set of numbers up to one of them are more than those up
\* to a smaller one.
LEMMA RankGrows ==
  ASSUME NEW S \in SUBSET Int, IsFiniteSet(S),
         NEW i \in S, NEW k \in S, i < k
  PROVE  Rank(S, i) < Rank(S, k)
<1> DEFINE A == {j \in S : j <= i}
           B == {j \in S : j <= k}
<1>1. i \in Int /\ k \in Int /\ \A j \in S : j \in Int
  OBVIOUS
<1>2. A \in SUBSET B
  <2> SUFFICES ASSUME NEW j \in S, j <= i PROVE j <= k
    OBVIOUS
  <2>1. QED
    BY <1>1
<1>3. B \in SUBSET S /\ k \in B /\ k \notin A
  BY <1>1
<1> HIDE DEF A, B
<1>4. IsFiniteSet(B)
  BY <1>3, FS_Subset
<1>5. /\ IsFiniteSet(A)
      /\ Cardinality(A) <= Cardinality(B)
      /\ Cardinality(B) = Cardinality(A) => A = B
  BY <1>2, <1>4, FS_Subset
<1>6. Cardinality(A) \in Nat /\ Cardinality(B) \in Nat
  BY <1>4, <1>5, FS_CardinalityType
<1>7. Cardinality(A) < Cardinality(B)
  BY <1>3, <1>5, <1>6
<1>8. QED
  BY <1>7 DEF A, B, Rank

\* A member with n members up to it is the n-th one.
LEMMA NthUnique ==
  ASSUME NEW S \in SUBSET Int, IsFiniteSet(S), NEW k \in S
  PROVE  Nth(S, Rank(S, k)) = k
<1> DEFINE m == Nth(S, Rank(S, k))
<1>1. m \in S /\ Rank(S, m) = Rank(S, k)
  BY DEF Nth
<1> HIDE DEF m
<1>2. ASSUME NEW x \in S, NEW y \in S, x < y
      PROVE  Rank(S, x) # Rank(S, y)
  <2>1. /\ {j \in S : j <= x} \in SUBSET S /\ {j \in S : j <= y} \in SUBSET S
    OBVIOUS
  <2>2. Rank(S, x) \in Nat /\ Rank(S, y) \in Nat
    BY <2>1, FS_Subset, FS_CardinalityType DEF Rank
  <2>3. Rank(S, x) < Rank(S, y)
    BY <1>2, RankGrows
  <2>4. QED
    BY <2>2, <2>3
<1>3. m \in Int /\ k \in Int
  BY <1>1
<1>4. ~(m < k) /\ ~(k < m)
  BY <1>1, <1>2
<1>5. QED
  BY <1>3, <1>4 DEF m

---------------------------------------------------------------------------
(* Session names                                                           *)

\* A session name STS accepts: 2 to 64 characters of its pattern.
Acceptable(name) ==
  /\ Len(name) \in 2..64
  /\ \A i \in DOMAIN name : name[i] \in {"ok", "hyphen"}

\* A set of numbers up to n that contains the first two has 2 to n members.
LEMMA TwoToN ==
  ASSUME NEW n \in Nat, NEW C \in SUBSET (1..n), 1 \in C, 2 \in C
  PROVE  IsFiniteSet(C) /\ Cardinality(C) \in 2..n
<1>1. IsFiniteSet(1..n) /\ Cardinality(1..n) = n
  BY FS_Interval
<1>2. IsFiniteSet(C) /\ Cardinality(C) <= n
  BY <1>1, FS_Subset
<1>3. Cardinality(C) \in Nat
  BY <1>2, FS_CardinalityType
<1>4. Cardinality(C) # 0
  BY <1>2, FS_EmptySet
<1>5. Cardinality(C) # 1
  <2>1. ASSUME NEW x, C = {x} PROVE FALSE
    <3>1. 1 = x /\ 2 = x
      BY <2>1
    <3>2. QED
      BY <3>1
  <2>2. QED
    BY <1>2, <2>1, FS_Singleton
<1>6. QED
  BY <1>2, <1>3, <1>4, <1>5

\* Bytes of which a session name can be made.
Coercible(s) ==
  /\ s \in Seq(Bytes)
  /\ Len(s) <= 64 /\ Len(s) >= 2
  /\ s[1] = "ok" /\ s[2] = "ok"

\* A coerced name is no longer than the bytes it is made of, and not shorter
\* than two characters if these begin with two valid ones.
LEMMA CoerceAcceptable ==
  ASSUME NEW s, Coercible(s)
  PROVE  Acceptable(Coerce(s))
<1> USE DEF Coercible
<1> DEFINE C == CharStarts(s)
<1>1. Len(s) \in Nat /\ DOMAIN s = 1..Len(s)
  BY LenProperties
<1>2. C \in SUBSET (1..Len(s)) /\ 1 \in C /\ 2 \in C
  BY <1>1 DEF CharStarts
<1> HIDE DEF C
<1>3. Cardinality(C) \in 2..Len(s)
  BY <1>1, <1>2, TwoToN
<1>4. Coerce(s) \in [1..Cardinality(C) -> {"ok", "hyphen"}]
  BY DEF Coerce, C
<1>5. QED
  <2> DEFINE c == Coerce(s)
             m == Cardinality(C)
  <2>1. m \in Nat /\ m >= 2 /\ m <= 64
    BY <1>1, <1>3
  <2>2. c \in [1..m -> {"ok", "hyphen"}]
    BY <1>4
  <2> HIDE DEF c, m
  <2>3. Len(c) = m /\ DOMAIN c = 1..m
    BY <2>1, <2>2
  <2>4. Len(c) \in 2..64
    BY <2>1, <2>3
  <2>5. \A i \in DOMAIN c : c[i] \in {"ok", "hyphen"}
    BY <2>2
  <2>6. QED
    BY <2>4, <2>5 DEF c, Acceptable

\* The prefix is made of valid bytes.
LEMMA PrefixValid ==
  /\ Prefix \in Seq(Bytes) /\ Len(Prefix) = 5
  /\ \A i \in 1..Len(Prefix) : Prefix[i] = "ok"
BY DEF Prefix, Bytes

\* Truncation leaves such bytes of the prefix and any name.
LEMMA TruncatedCoercible ==
  ASSUME NEW x \in Seq(Bytes)
  PROVE  Coercible(Truncate(Prefix \o x))
<1> DEFINE r == Prefix \o x
<1>1. Len(x) \in Nat /\ Prefix \in Seq(Bytes) /\ Len(Prefix) = 5
  BY PrefixValid, LenProperties
<1>2. r \in Seq(Bytes) /\ IsConcat(r, Prefix, x)
  BY <1>1, ConcatElements
<1> HIDE DEF r
<1>3. Len(r) \in Nat /\ Len(r) >= 5
  BY <1>1, <1>2 DEF IsConcat
<1>4. r[1] = Prefix[1] /\ r[2] = Prefix[2]
  BY <1>1, <1>2 DEF IsConcat
<1>5. r[1] = "ok" /\ r[2] = "ok"
  BY <1>1, <1>4, PrefixValid
<1>6. CASE Len(r) > 64
  <2> DEFINE t == SubSeq(r, 1, 63)
  <2>1. Truncate(r) = t
    BY <1>6 DEF Truncate
  <2>2. \A i \in 1..63 : r[i] \in Bytes
    BY <1>2, <1>3, <1>6, LenProperties
  <2>3. t \in Seq(Bytes) /\ Len(t) = 63 /\ t[1] = r[1] /\ t[2] = r[2]
    BY <2>2, SubSeqProperties
  <2> HIDE DEF t
  <2>4. Len(t) <= 64 /\ Len(t) >= 2
    BY <2>3
  <2>5. QED
    BY <1>5, <2>1, <2>3, <2>4, Zenon DEF Coercible, r
<1>7. CASE ~(Len(r) > 64)
  <2>1. Truncate(r) = r
    BY <1>7 DEF Truncate
  <2>2. Len(r) <= 64 /\ Len(r) >= 2
    BY <1>3, <1>7
  <2>3. QED
    BY <1>2, <1>5, <2>1, <2>2, Zenon DEF Coercible, r
<1>8. QED
  BY <1>6, <1>7

\* Whatever session name is configured or annotated, of whatever bytes and
\* length, the name sent to STS has 2 to 64 characters of its pattern.
THEOREM SessionNameAlwaysAccepted ==
  ASSUME NEW configured \in Seq(Bytes), NEW annotated \in Seq(Bytes)
  PROVE  Acceptable(getSessionName(configured, annotated))
<1> DEFINE x == IF annotated # <<>> THEN annotated ELSE configured
<1>1. x \in Seq(Bytes)
  OBVIOUS
<1>2. getSessionName(configured, annotated) = Coerce(Truncate(Prefix \o x))
  BY DEF getSessionName, sanitizeSessionName
<1> HIDE DEF x
<1>3. Coercible(Truncate(Prefix \o x))
  BY <1>1, TruncatedCoercible
<1>4. Acceptable(Coerce(Truncate(Prefix \o x)))
  BY <1>3, CoerceAcceptable
<1>5. QED
  BY <1>2, <1>4

\* Valid bytes are not changed.
LEMMA CoerceKeeps ==
  ASSUME NEW s \in Seq(Bytes), \A i \in 1..Len(s) : s[i] = "ok"
  PROVE  Coerce(s) = s
<1> DEFINE L == Len(s)
<1>1. L \in Nat /\ DOMAIN s = 1..L
  BY LenProperties
<1>2. CharStarts(s) = 1..L
  BY <1>1 DEF CharStarts
<1>3. IsFiniteSet(1..L) /\ Cardinality(1..L) = L
  BY <1>1, FS_Interval
<1> HIDE DEF L
<1>4. ASSUME NEW n \in 1..L PROVE Nth(1..L, n) = n
  <2>1. {j \in 1..L : j <= n} = 1..n
    BY <1>1
  <2>2. Cardinality(1..n) = n
    BY <1>1, FS_Interval
  <2>3. Rank(1..L, n) = n
    BY <2>1, <2>2 DEF Rank
  <2>4. 1..L \in SUBSET Int
    BY <1>1
  <2>5. Nth(1..L, Rank(1..L, n)) = n
    BY <1>3, <2>4, NthUnique
  <2>6. QED
    BY <2>3, <2>5
<1>5. Coerce(s) = [n \in 1..L |-> s[n]]
  BY <1>1, <1>2, <1>3, <1>4 DEF Coerce, L
<1>6. QED
  BY <1>1, <1>5

\* An annotated name that is valid and short enough is sent as it is, after
\* the prefix.
THEOREM ValidSessionNameKept ==
  ASSUME NEW configured, NEW annotated \in Seq(Bytes), annotated # <<>>,
         Len(annotated) <= 59, \A i \in 1..Len(annotated) : annotated[i] = "ok"
  PROVE  getSessionName(configured, annotated) = Prefix \o annotated
<1> DEFINE r == Prefix \o annotated
<1>1. getSessionName(configured, annotated) = Coerce(Truncate(r))
  BY DEF getSessionName, sanitizeSessionName
<1>2. /\ Len(annotated) \in Nat
      /\ Prefix \in Seq(Bytes) /\ Len(Prefix) = 5
  BY PrefixValid, LenProperties
<1>3. r \in Seq(Bytes) /\ IsConcat(r, Prefix, annotated)
  BY <1>2, ConcatElements
<1> HIDE DEF r
<1>4. Len(r) = 5 + Len(annotated)
  BY <1>2, <1>3 DEF IsConcat
<1>5. Truncate(r) = r
  BY <1>2, <1>4 DEF Truncate
<1>6. ASSUME NEW i \in 1..Len(r) PROVE r[i] = "ok"
  <2>1. CASE i <= 5
    <3>1. i \in 1..5 /\ r[i] = Prefix[i]
      BY <1>2, <1>3, <1>4, <2>1 DEF IsConcat
    <3>2. QED
      BY <1>2, <3>1, PrefixValid
  <2>2. CASE i > 5
    <3>1. i - 5 \in 1..Len(annotated) /\ 5 + (i - 5) = i
      BY <1>2, <1>4, <2>2
    <3>2. r[5 + (i - 5)] = annotated[i - 5]
      BY <1>2, <1>3, <3>1 DEF IsConcat
    <3>3. QED
      BY <3>1, <3>2
  <2>3. QED
    BY <1>2, <1>4, <2>1, <2>2
<1>7. Coerce(r) = r
  BY <1>3, <1>6, CoerceKeeps
<1>8. QED
  BY <1>1, <1>5, <1>7 DEF r

---------------------------------------------------------------------------
(* Roles                                                                   *)

\* What follows a prefix is what is left once the prefix is cut off.
LEMMA CutConcat ==
  ASSUME NEW T, NEW a \in Seq(T), NEW b \in Seq(T)
  PROVE  SubSeq(a \o b, Len(a) + 1, Len(a \o b)) = b
<1> DEFINE s == a \o b
           u == SubSeq(s, Len(a) + 1, Len(s))
<1>1. s \in Seq(T) /\ IsConcat(s, a, b)
  BY ConcatElements
<1>2. Len(a) \in Nat /\ Len(b) \in Nat /\ Len(s) = Len(a) + Len(b)
  BY <1>1, LenProperties DEF IsConcat
<1> HIDE DEF s
<1>3. \A i \in Len(a) + 1 .. Len(s) : s[i] \in T
  BY <1>1, <1>2, LenProperties
<1>4. /\ u \in Seq(T) /\ Len(u) = Len(b)
      /\ \A i \in 1..Len(b) : u[i] = s[Len(a) + 1 + i - 1]
  <2>1. /\ u \in Seq(T)
        /\ Len(u) = IF Len(a) + 1 <= Len(s) THEN Len(s) - (Len(a) + 1) + 1 ELSE 0
        /\ \A i \in 1..Len(s) - (Len(a) + 1) + 1 : u[i] = s[Len(a) + 1 + i - 1]
    BY <1>2, <1>3, SubSeqProperties
  <2> HIDE DEF u
  <2>2. QED
    BY <1>2, <2>1
<1> HIDE DEF u
<1>5. \A i \in 1..Len(b) : u[i] = b[i]
  <2> TAKE i \in 1..Len(b)
  <2>1. u[i] = s[Len(a) + i]
    BY <1>2, <1>4
  <2>2. QED
    BY <1>1, <2>1 DEF IsConcat
<1>6. u = b
  BY <1>4, <1>5, SeqEqual
<1>7. QED
  BY <1>6 DEF u, s

\* strings.TrimPrefix removes a prefix that is there.
LEMMA TrimConcat ==
  ASSUME NEW T, NEW a \in Seq(T), NEW b \in Seq(T)
  PROVE  TrimPrefix(a \o b, a) = b
<1> DEFINE s == a \o b
<1>1. s \in Seq(T) /\ IsConcat(s, a, b)
  BY ConcatElements
<1>2. Len(a) \in Nat /\ Len(b) \in Nat /\ Len(s) = Len(a) + Len(b)
  BY <1>1, LenProperties DEF IsConcat
<1>3. SubSeq(s, Len(a) + 1, Len(s)) = b
  BY CutConcat
<1> HIDE DEF s
<1>4. SubSeq(a, 1, Len(a)) = SubSeq(s, 1, Len(a))
  <2> DEFINE v == SubSeq(a, 1, Len(a))
             w == SubSeq(s, 1, Len(a))
  <2>1. v = a
    BY SubSeqFull
  <2>2. \A i \in 1..Len(a) : s[i] \in T
    BY <1>1, <1>2, LenProperties
  <2>3. /\ w \in Seq(T) /\ Len(w) = Len(a)
        /\ \A i \in 1..Len(a) : w[i] = s[i]
    BY <1>2, <2>2, SubSeqProperties
  <2> HIDE DEF v, w
  <2>4. \A i \in 1..Len(a) : w[i] = a[i]
    BY <1>1, <2>3 DEF IsConcat
  <2>5. w = a
    BY <2>3, <2>4, SeqEqual
  <2>6. QED
    BY <2>1, <2>5 DEF v, w
<1>5. IsPrefix(a, s)
  BY <1>2, <1>4 DEF IsPrefix
<1>6. QED
  BY <1>3, <1>5 DEF TrimPrefix, s

\* Two sequences that agree up to their n-th colon have it at the same place.
LEMMA SameColon ==
  ASSUME NEW T, NEW s \in Seq(T), NEW p \in Seq(T),
         NEW k \in Colons(p), k \in Colons(s),
         \A i \in 1..k : s[i] = p[i]
  PROVE  Colon(s, Rank(Colons(p), k)) = k
<1>1. /\ Len(s) \in Nat /\ DOMAIN s = 1..Len(s)
      /\ Len(p) \in Nat /\ DOMAIN p = 1..Len(p)
  BY LenProperties
<1>2. Colons(s) \in SUBSET (1..Len(s)) /\ Colons(p) \in SUBSET (1..Len(p))
  BY <1>1 DEF Colons
<1>3. k \in Nat /\ k <= Len(s) /\ k <= Len(p)
  BY <1>1, <1>2
<1>4. {j \in Colons(s) : j <= k} = {j \in Colons(p) : j <= k}
  BY <1>1, <1>3 DEF Colons
<1>5. Rank(Colons(s), k) = Rank(Colons(p), k)
  BY <1>4 DEF Rank
<1>6. IsFiniteSet(Colons(s)) /\ Colons(s) \in SUBSET Int
  <2>1. IsFiniteSet(1..Len(s))
    BY <1>1, FS_Interval
  <2>2. QED
    BY <1>1, <1>2, <2>1, FS_Subset
<1>7. Nth(Colons(s), Rank(Colons(s), k)) = k
  BY <1>6, NthUnique
<1>8. QED
  BY <1>5, <1>7 DEF Colon

\* Three tokens between q and n may be split after the first.
Splits(T, q, n) ==
  \A c, r, l \in T :
    (q \o <<c, r, l>>) \o n = (q \o <<c>>) \o (<<r, l>> \o n)

\* They may, whatever q and n are.
LEMMA SplitBase ==
  ASSUME NEW T, NEW q \in Seq(T), NEW n \in Seq(T)
  PROVE  Splits(T, q, n)
<1> SUFFICES ASSUME NEW c \in T, NEW r \in T, NEW l \in T
             PROVE  (q \o <<c, r, l>>) \o n = (q \o <<c>>) \o (<<r, l>> \o n)
  BY DEF Splits
<1>1. <<c>> \in Seq(T) /\ <<r, l>> \in Seq(T) /\ <<c, r, l>> = <<c>> \o <<r, l>>
  OBVIOUS
<1>2. ASSUME NEW x \in Seq(T), NEW y \in Seq(T)
      PROVE  (q \o (x \o y)) \o n = (q \o x) \o (y \o n)
  OBVIOUS
<1>3. QED
  BY <1>1, <1>2

\* The tokens that mean something to the resolver.
ResolverTokens == {"arn", ":", "/", "role"}

\* p is an instance profile's ARN: it has a fifth colon.
HasFifthColon(p) == \E k \in Colons(p) : Rank(Colons(p), k) = 5

\* s and p have the same first two tokens.
StartsAlike(s, p) ==
  /\ Len(s) >= 2 /\ Len(p) >= 2
  /\ s[1] = p[1] /\ s[2] = p[2]

\* The role's name is found again in the base ARN followed by the name,
\* whatever tokens the name is made of; the whole begins as the profile's ARN.
LEMMA RoleFromBaseArn ==
  ASSUME NEW T, ResolverTokens \in SUBSET T,
         NEW p \in Seq(T), HasFifthColon(p), NEW n \in Seq(T)
  PROVE  /\ roleFromArn(BaseArn(p) \o n) = n
         /\ BaseArn(p) \o n \in Seq(T)
         /\ StartsAlike(BaseArn(p) \o n, p)
<1>1. PICK k \in Colons(p) : Rank(Colons(p), k) = 5
  BY DEF HasFifthColon
<1>2. /\ Len(p) \in Nat /\ DOMAIN p = 1..Len(p)
      /\ k \in 1..Len(p) /\ p[k] = ":"
  BY LenProperties DEF Colons
<1>3. Colon(p, 5) = k
  <2>1. \A i \in 1..k : p[i] = p[i]
    OBVIOUS
  <2>2. Colon(p, Rank(Colons(p), k)) = k
    BY <2>1, SameColon
  <2>3. QED
    BY <1>1, <2>2
<1> DEFINE q == SubSeq(p, 1, k - 1)
           a == q \o <<":">>
           R == <<"role", "/">>
           s == BaseArn(p) \o n
<1>4. ":" \in T /\ "role" \in T /\ "/" \in T
  BY DEF ResolverTokens
<1>5. /\ q \in Seq(T) /\ Len(q) = k - 1
      /\ \A i \in 1..k - 1 : q[i] = p[i]
  <2>1. \A i \in 1..k - 1 : p[i] \in T
    BY <1>2, LenProperties
  <2>2. QED
    BY <1>2, <2>1, SubSeqProperties
<1>6. s = (q \o <<":", "role", "/">>) \o n
  BY <1>3 DEF BaseArn
<1> HIDE DEF q
<1>7. s = a \o (R \o n)
  <2>1. Splits(T, q, n)
    BY <1>5, SplitBase
  <2>2. QED
    BY <1>4, <1>6, <2>1, Zenon DEF Splits
<1>8. R \in Seq(T)
  BY <1>4
<1>9. /\ a \in Seq(T) /\ Len(a) = k /\ a[k] = ":"
      /\ \A i \in 1..k - 1 : a[i] = p[i]
  <2> DEFINE C == <<":">>
  <2>1. C \in Seq(T) /\ Len(C) = 1 /\ C[1] = ":"
    BY <1>4
  <2> HIDE DEF C
  <2>2. q \o C \in Seq(T) /\ IsConcat(q \o C, q, C)
    BY <1>5, <2>1, ConcatElements
  <2>3. (k - 1) + 1 = k /\ k - 1 \in Nat
    BY <1>2
  <2>4. /\ Len(q \o C) = k /\ (q \o C)[k] = C[1]
        /\ \A i \in 1..k - 1 : (q \o C)[i] = p[i]
    BY <1>5, <2>1, <2>2, <2>3 DEF IsConcat
  <2>5. QED
    BY <2>1, <2>2, <2>4 DEF C
<1> HIDE DEF a, R, s
<1>10. R \o n \in Seq(T)
  BY <1>8, ConcatElements
<1>11. s \in Seq(T) /\ IsConcat(s, a, R \o n)
  BY <1>7, <1>9, <1>10, ConcatElements
<1>12. \A i \in 1..k : s[i] = p[i]
  BY <1>2, <1>9, <1>11 DEF IsConcat
<1>13. k \in Colons(s)
  BY <1>2, <1>9, <1>10, <1>11, <1>12, LenProperties DEF Colons, IsConcat
<1>14. Colon(s, 5) = k
  BY <1>1, <1>11, <1>12, <1>13, SameColon
<1>15. SubSeq(s, k + 1, Len(s)) = R \o n
  BY <1>7, <1>9, <1>10, CutConcat
<1>16. TrimPrefix(R \o n, R) = n
  BY <1>8, TrimConcat
<1>17. StartsAlike(s, p)
  <2>1. {j \in Colons(p) : j <= k} \in SUBSET (1..k)
    BY <1>2 DEF Colons
  <2>2. IsFiniteSet(1..k) /\ Cardinality(1..k) = k
    BY <1>2, FS_Interval
  <2>3. 5 <= k
    BY <1>1, <2>1, <2>2, FS_Subset DEF Rank
  <2>4. Len(s) >= k /\ Len(s) \in Nat
    BY <1>2, <1>9, <1>10, <1>11, LenProperties DEF IsConcat
  <2>5. QED
    BY <1>2, <1>12, <2>3, <2>4 DEF StartsAlike
<1>18. roleFromArn(s) = n
  BY <1>14, <1>15, <1>16 DEF roleFromArn, R
<1>19. QED
  BY <1>11, <1>17, <1>18 DEF s

\* However a role is written, as a name, with a leading slash or as an ARN,
\* its resolved name is the one in its resolved ARN.
THEOREM NameIsRoleFromARN ==
  ASSUME NEW T, ResolverTokens \in SUBSET T,
         NEW p \in Seq(T), HasFifthColon(p), NEW role \in Seq(T)
  PROVE  Resolve(BaseArn(p), role).Name
           = roleFromArn(Resolve(BaseArn(p), role).ARN)
<1> DEFINE name == TrimPrefix(role, <<"/">>)
<1>1. CASE IsPrefix(<<"arn", ":">>, role)
  BY <1>1 DEF Resolve
<1>2. CASE ~IsPrefix(<<"arn", ":">>, role)
  <2>1. name \in Seq(T)
    <3>1. \A i \in 2..Len(role) : role[i] \in T
      BY LenProperties
    <3>2. Len(role) \in Int
      BY LenProperties
    <3>3. SubSeq(role, 2, Len(role)) \in Seq(T)
      BY <3>1, <3>2, SubSeqProperties
    <3>4. Len(<<"/">>) + 1 = 2
      OBVIOUS
    <3>5. QED
      BY <3>3, <3>4 DEF TrimPrefix
  <2>2. Resolve(BaseArn(p), role) = [ARN |-> BaseArn(p) \o name, Name |-> name]
    BY <1>2 DEF Resolve
  <2> HIDE DEF name
  <2>3. roleFromArn(BaseArn(p) \o name) = name
    BY <2>1, RoleFromBaseArn
  <2>4. QED
    BY <2>2, <2>3
<1>3. QED
  BY <1>1, <1>2

\* ResolvedRole.Equals, which compares name and ARN, is equality of ARNs.
THEOREM EqualsIffSameARN ==
  ASSUME NEW T, ResolverTokens \in SUBSET T,
         NEW p \in Seq(T), HasFifthColon(p),
         NEW a \in Seq(T), NEW b \in Seq(T)
  PROVE  Equals(Resolve(BaseArn(p), a), Resolve(BaseArn(p), b))
           <=> Resolve(BaseArn(p), a).ARN = Resolve(BaseArn(p), b).ARN
<1> DEFINE x == Resolve(BaseArn(p), a)
           y == Resolve(BaseArn(p), b)
<1>1. x.Name = roleFromArn(x.ARN) /\ y.Name = roleFromArn(y.ARN)
  BY NameIsRoleFromARN
<1>2. /\ x = [ARN |-> x.ARN, Name |-> x.Name]
      /\ y = [ARN |-> y.ARN, Name |-> y.Name]
  BY DEF Resolve
<1> HIDE DEF x, y
<1>3. Equals(x, y) <=> x.ARN = y.ARN
  BY <1>1, <1>2 DEF Equals
<1>4. QED
  BY <1>3 DEF x, y

\* A sequence with the same first two tokens as an ARN is one, too.
LEMMA SamePrefix ==
  ASSUME NEW T, NEW s \in Seq(T), NEW p \in Seq(T), StartsAlike(s, p),
         NEW X, Len(X) = 2, IsPrefix(X, p)
  PROVE  IsPrefix(X, s)
<1>1. Len(s) \in Nat /\ Len(p) \in Nat /\ Len(s) >= 2 /\ Len(p) >= 2
      /\ s[1] = p[1] /\ s[2] = p[2]
  BY LenProperties DEF StartsAlike
<1>2. \A i \in 1..2 : s[i] \in T /\ p[i] \in T /\ s[i] = p[i]
  BY <1>1, LenProperties
<1>3. /\ SubSeq(s, 1, 2) \in Seq(T) /\ Len(SubSeq(s, 1, 2)) = 2
      /\ \A i \in 1..2 : SubSeq(s, 1, 2)[i] = s[i]
  BY <1>2, SubSeqProperties
<1>4. /\ SubSeq(p, 1, 2) \in Seq(T) /\ Len(SubSeq(p, 1, 2)) = 2
      /\ \A i \in 1..2 : SubSeq(p, 1, 2)[i] = p[i]
  BY <1>2, SubSeqProperties
<1>5. SubSeq(s, 1, 2) = SubSeq(p, 1, 2)
  BY <1>2, <1>3, <1>4, SeqEqual
<1>6. QED
  BY <1>1, <1>5 DEF IsPrefix

\* A role of this account may be annotated by its name, with a slash before
\* it, or by its ARN: the policy that compares resolved roles takes the three
\* for the same.
THEOREM WaysToWriteARole ==
  ASSUME NEW T, ResolverTokens \in SUBSET T,
         NEW p \in Seq(T), HasFifthColon(p), IsPrefix(<<"arn", ":">>, p),
         NEW n \in Seq(T),
         ~IsPrefix(<<"arn", ":">>, n), ~IsPrefix(<<"/">>, n)
  PROVE  /\ Equals(Resolve(BaseArn(p), n), Resolve(BaseArn(p), BaseArn(p) \o n))
         /\ Equals(Resolve(BaseArn(p), n), Resolve(BaseArn(p), <<"/">> \o n))
<1> DEFINE A == <<"arn", ":">>
           S == <<"/">>
           s == BaseArn(p) \o n
           t == S \o n
<1>1. Len(A) = 2 /\ A[1] = "arn" /\ S \in Seq(T) /\ Len(S) = 1 /\ S[1] = "/"
  BY DEF ResolverTokens
<1>2. Resolve(BaseArn(p), n) = [ARN |-> s, Name |-> n]
  BY DEF Resolve, TrimPrefix
<1>3. Resolve(BaseArn(p), s) = [ARN |-> s, Name |-> n]
  <2>1. s \in Seq(T) /\ StartsAlike(s, p) /\ roleFromArn(s) = n
    BY RoleFromBaseArn
  <2>2. IsPrefix(A, s)
    <3> HIDE DEF A, s
    <3>1. IsPrefix(A, p)
      BY DEF A
    <3>2. QED
      BY <1>1, <2>1, <3>1, SamePrefix
  <2> HIDE DEF s
  <2>3. QED
    BY <2>1, <2>2 DEF Resolve
<1>4. Resolve(BaseArn(p), t) = [ARN |-> s, Name |-> n]
  <2>1. t \in Seq(T) /\ IsConcat(t, S, n)
    BY <1>1, ConcatElements
  <2>2. TrimPrefix(t, S) = n
    BY <1>1, TrimConcat
  <2>3. ~IsPrefix(A, t)
    <3>1. t[1] = "/"
      BY <1>1, <2>1 DEF IsConcat
    <3> HIDE DEF t, S
    <3>2. SUFFICES ASSUME SubSeq(A, 1, 2) = SubSeq(t, 1, 2), 2 <= Len(t)
                   PROVE  FALSE
      BY <1>1 DEF IsPrefix
    <3>3. SubSeq(A, 1, 2)[1] = "arn"
      OBVIOUS
    <3>4. SubSeq(t, 1, 2)[1] = t[1]
      BY <2>1, <3>2
    <3>5. QED
      BY <3>1, <3>2, <3>3, <3>4
  <2> HIDE DEF t
  <2>4. QED
    BY <2>2, <2>3 DEF Resolve
<1>5. QED
  BY <1>2, <1>3, <1>4 DEF Equals

---------------------------------------------------------------------------
(* The properties of MCNames, for every value of its constants             *)

\* The input never changes.
LEMMA InputStays == Spec => []Init
<1>1. Init /\ [Next]_input => Init'
  BY DEF Init, Next
<1>2. QED
  BY <1>1, PTL DEF Spec

\* Sequences of bounded length are sequences.
LEMMA SeqsUpToInSeq ==
  ASSUME NEW S, NEW n \in Nat
  PROVE  SeqsUpTo(S, n) \in SUBSET Seq(S)
BY DEF SeqsUpTo

RoleTokens ==
  {"a", "b", "/", "role", "arn", ":", "aws", "iam", "1", "2",
   "instance-profile"}

\* The roles of the run are sequences of these tokens.
LEMMA RolesAreSequences == Roles \in SUBSET Seq(RoleTokens)
<1> DEFINE N == {"a", "b", "/", "role"}
           O == <<"arn", ":", "aws", ":", "iam", ":", ":", "2", ":", "role", "/">>
<1>1. RoleNames \in SUBSET Seq(RoleTokens)
  <2>1. RoleNames \in SUBSET Seq(N)
    BY BoundsAssumption, SeqsUpToInSeq DEF RoleNames
  <2>2. N \in SUBSET RoleTokens
    BY DEF RoleTokens
  <2> HIDE DEF N
  <2>3. ASSUME NEW s \in RoleNames PROVE s \in Seq(RoleTokens)
    BY <2>1, <2>2, SeqMonotonic
  <2>4. QED
    BY <2>3
<1>2. Account \o <<"role", "/">> \in Seq(RoleTokens)
  BY DEF Account, RoleTokens
<1>3. O \in Seq(RoleTokens)
  BY DEF RoleTokens
<1> HIDE DEF O
<1>4. \A n \in RoleNames : O \o n \in Seq(RoleTokens)
  BY <1>1, <1>3, ConcatProperties
<1> DEFINE P == Account \o <<"role", "/">>
<1> HIDE DEF P
<1>5. \A n \in RoleNames : P \o n \in Seq(RoleTokens)
  BY <1>1, <1>2, ConcatProperties DEF P
<1>6. Roles = RoleNames \cup {P \o n : n \in RoleNames}
                        \cup {O \o n : n \in RoleNames}
  BY DEF Roles, P, O
<1>7. QED
  BY <1>1, <1>4, <1>5, <1>6

\* One more element, one more to count.
LEMMA CountOneMore ==
  ASSUME NEW S, NEW n \in Nat, IsFiniteSet(S), Cardinality(S) = n,
         NEW x, x \notin S
  PROVE  IsFiniteSet(S \cup {x}) /\ Cardinality(S \cup {x}) = n + 1
BY FS_AddElement

\* The account of the run ends with its fifth colon.
LEMMA AccountColons ==
  ASSUME NEW s, \A i \in 1..9 : s[i] = Account[i], 1..9 \in SUBSET DOMAIN s,
         DOMAIN s \in SUBSET Nat \ {0}
  PROVE  9 \in Colons(s) /\ Rank(Colons(s), 9) = 5
<1>1. \A i \in 1..9 : Account[i] = ":" <=> i \in {2, 4, 6, 7, 9}
  BY DEF Account
<1>2. 9 \in Colons(s)
  BY <1>1 DEF Colons
<1>3. {j \in Colons(s) : j <= 9} = {j \in 1..9 : s[j] = ":"}
  BY DEF Colons
<1>4. {j \in 1..9 : s[j] = ":"} = {2, 4, 6, 7, 9}
  BY <1>1
<1>5. Cardinality({2, 4, 6, 7, 9}) = 5
  <2> DEFINE A == {2}
             B == A \cup {4}
             C == B \cup {6}
             D == C \cup {7}
  <2>1. 4 \notin A /\ 6 \notin B /\ 7 \notin C /\ 9 \notin D
    OBVIOUS
  <2>2. D \cup {9} = {2, 4, 6, 7, 9}
    OBVIOUS
  <2>3. IsFiniteSet(A) /\ Cardinality(A) = 1
    BY FS_Singleton
  <2> HIDE DEF A
  <2>4. IsFiniteSet(B) /\ Cardinality(B) = 2
    BY <2>1, <2>3, CountOneMore
  <2> HIDE DEF B
  <2>5. IsFiniteSet(C) /\ Cardinality(C) = 3
    BY <2>1, <2>4, CountOneMore
  <2> HIDE DEF C
  <2>6. IsFiniteSet(D) /\ Cardinality(D) = 4
    BY <2>1, <2>5, CountOneMore
  <2> HIDE DEF D
  <2>7. Cardinality(D \cup {9}) = 5
    BY <2>1, <2>6, CountOneMore
  <2>8. QED
    BY <2>2, <2>7
<1>6. QED
  BY <1>2, <1>3, <1>4, <1>5 DEF Rank

\* The instance profile of the run is one.
LEMMA ProfileHasFifthColon == Profile \in Seq(RoleTokens) /\ HasFifthColon(Profile)
<1> DEFINE E == <<"instance-profile", "/", "a">>
<1>1. /\ Account \in Seq(RoleTokens) /\ Len(Account) = 9
      /\ E \in Seq(RoleTokens) /\ Len(E) = 3
  BY DEF Account, RoleTokens
<1>2. Profile = Account \o E
  BY DEF Profile
<1> HIDE DEF E
<1>3. Profile \in Seq(RoleTokens) /\ IsConcat(Profile, Account, E)
  BY <1>1, <1>2, ConcatElements
<1>4. Len(Profile) = 12 /\ DOMAIN Profile = 1..12
  BY <1>1, <1>3, LenProperties DEF IsConcat
<1>5. \A i \in 1..9 : Profile[i] = Account[i]
  BY <1>1, <1>3 DEF IsConcat
<1>6. 1..9 \in SUBSET DOMAIN Profile /\ DOMAIN Profile \in SUBSET Nat \ {0}
  BY <1>4
<1>7. 9 \in Colons(Profile) /\ Rank(Colons(Profile), 9) = 5
  BY <1>5, <1>6, AccountColons
<1>8. QED
  BY <1>3, <1>7 DEF HasFifthColon

\* Of all roles that the run compares, with names of any length,
\* ResolvedRole.Equals holds for those that have the same ARN.
THEOREM SameRoleIffSameARNCorrect == Spec => []SameRoleIffSameARN
<1>1. ASSUME Init PROVE SameRoleIffSameARN
  <2> SUFFICES ASSUME input.kind = "roles"
               PROVE  Equals(Resolved(input.a), Resolved(input.b))
                        <=> Resolved(input.a).ARN = Resolved(input.b).ARN
    BY DEF SameRoleIffSameARN
  <2>1. input.a \in Roles /\ input.b \in Roles
    BY <1>1 DEF Init
  <2>2. ResolverTokens \in SUBSET RoleTokens
    BY DEF ResolverTokens, RoleTokens
  <2>3. input.a \in Seq(RoleTokens) /\ input.b \in Seq(RoleTokens)
    BY <2>1, RolesAreSequences
  <2>4. QED
    BY <2>2, <2>3, ProfileHasFifthColon, EqualsIffSameARN DEF Resolved
<1>2. QED
  BY <1>1, InputStays, PTL

\* Of all identities that the run compares, with fields of any length over
\* letters and the separator, those that share the key of
\* RoleIdentity.String() are the same, unless the separator is in the role or
\* the session name of one of them.
THEOREM KeyDeterminesIdentityCorrect == Spec => []KeyDeterminesIdentity
<1> DEFINE T == {"a", "|"}
<1>1. ASSUME Init PROVE KeyDeterminesIdentity
  <2> SUFFICES ASSUME input.kind = "keys", String(input.a) = String(input.b)
               PROVE  input.a = input.b \/ ~Keyable(input.a) \/ ~Keyable(input.b)
    BY DEF KeyDeterminesIdentity
  <2>1. input.a \in Identities /\ input.b \in Identities
    BY <1>1 DEF Init
  <2>2. Fields \in SUBSET Seq(T)
    BY BoundsAssumption, SeqsUpToInSeq DEF Fields
  <2>3. "|" \in T
    OBVIOUS
  <2> HIDE DEF T
  <2>4. input.a \in RoleIdentities(T) /\ input.b \in RoleIdentities(T)
    BY <2>1, <2>2 DEF Identities, RoleIdentities
  <2>5. QED
    BY <2>3, <2>4, SameKeySameIdentity
<1>2. QED
  BY <1>1, InputStays, PTL

\* The session names of the run are sequences of bytes.
LEMMA SessionNamesAreBytes == SessionNames \in SUBSET Seq(Bytes)
<1> DEFINE valid(n) == [i \in 1..n |-> "ok"]
<1>1. ASSUME NEW n \in SessionLens, NEW i, NEW j
      PROVE  /\ valid(n) \in Seq(Bytes)
             /\ [valid(n) EXCEPT ![i] = "bad"] \in Seq(Bytes)
             /\ [valid(n) EXCEPT ![i] = "lead", ![j] = "cont"] \in Seq(Bytes)
  <2>1. n \in Nat
    BY BoundsAssumption
  <2>2. valid(n) \in [1..n -> Bytes]
    BY DEF Bytes
  <2>3. \A f \in [1..n -> Bytes] : f \in Seq(Bytes)
    BY <2>1
  <2>4. "bad" \in Bytes /\ "lead" \in Bytes /\ "cont" \in Bytes
    BY DEF Bytes
  <2> HIDE DEF valid
  <2>5. /\ [valid(n) EXCEPT ![i] = "bad"] \in [1..n -> Bytes]
        /\ [valid(n) EXCEPT ![i] = "lead", ![j] = "cont"] \in [1..n -> Bytes]
    BY <2>2, <2>4
  <2>6. QED
    BY <2>2, <2>3, <2>5
<1>2. SUFFICES ASSUME NEW s \in SessionNames PROVE s \in Seq(Bytes)
  OBVIOUS
<1> DEFINE of(n) ==
      {valid(n)}
        \cup {[valid(n) EXCEPT ![i] = "bad"] : i \in 1..n}
        \cup {[valid(n) EXCEPT ![i] = "lead", ![i + 1] = "cont"] :
                i \in {j \in 1..n : j < n}}
<1>3. PICK n \in SessionLens : s \in of(n)
  <2>1. s \in UNION {of(n) : n \in SessionLens}
    BY <1>2 DEF SessionNames
  <2> HIDE DEF of
  <2>2. QED
    BY <2>1
<1>4. CASE s = valid(n)
  BY <1>1, <1>4
<1>5. ASSUME NEW i, s = [valid(n) EXCEPT ![i] = "bad"] PROVE s \in Seq(Bytes)
  BY <1>1, <1>5
<1>6. ASSUME NEW i, s = [valid(n) EXCEPT ![i] = "lead", ![i + 1] = "cont"]
      PROVE  s \in Seq(Bytes)
  BY <1>1, <1>6
<1>7. QED
  BY <1>3, <1>4, <1>5, <1>6

\* The inputs of the run that are session names.
LEMMA SessionInputs ==
  ASSUME Init, input.kind = "session"
  PROVE  input.a \in Seq(Bytes) /\ input.b \in Seq(Bytes)
<1>1. input.a \in {<<>>, <<"ok", "bad">>} /\ input.b \in SessionNames
  BY DEF Init
<1>2. {<<>>, <<"ok", "bad">>} \in SUBSET Seq(Bytes)
  BY DEF Bytes
<1>3. QED
  BY <1>1, <1>2, SessionNamesAreBytes

\* Of all session names that the run tries, of any length, what
\* getSessionName makes of them is one that STS accepts.
THEOREM SessionNameAcceptedCorrect == Spec => []SessionNameAccepted
<1>1. ASSUME Init PROVE SessionNameAccepted
  BY <1>1, SessionInputs, SessionNameAlwaysAccepted
     DEF SessionNameAccepted, Acceptable
<1>2. QED
  BY <1>1, InputStays, PTL

\* A valid session name of the run reaches STS unchanged.
THEOREM SessionNameKeptCorrect == Spec => []SessionNameKept
<1>1. ASSUME Init PROVE SessionNameKept
  <2> SUFFICES ASSUME input.kind = "session", input.b # <<>>,
                      Len(input.b) <= 59,
                      \A i \in DOMAIN input.b : input.b[i] = "ok"
               PROVE  getSessionName(input.a, input.b) = Prefix \o input.b
    BY DEF SessionNameKept
  <2>1. input.b \in Seq(Bytes)
    BY <1>1, SessionInputs
  <2>2. DOMAIN input.b = 1..Len(input.b)
    BY <2>1, LenProperties
  <2>3. QED
    BY <2>1, <2>2, ValidSessionNameKept
<1>2. QED
  BY <1>1, InputStays, PTL
=============================================================================
