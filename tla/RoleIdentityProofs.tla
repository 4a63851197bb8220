------------------------ MODULE RoleIdentityProofs ------------------------
(***************************************************************************)
(* What the key of a role identity tells about the identity, for fields of *)
(* every length over every set of tokens.                                  *)
(***************************************************************************)
EXTENDS RoleIdentity, Integers, SequenceTheorems, TLAPS

---------------------------------------------------------------------------
(* Keys                                                                    *)

\* Two sequences with a token between them, and the sequences without it.
Join(a, e, x) == (a \o <<e>>) \o x

Without(e, T) == {s \in Seq(T) : \A n \in 1..Len(s) : s[n] # e}

\* The length and the elements of s are those of Join(a, e, x).
IsJoin(s, a, e, x) ==
  /\ Len(s) = Len(a) + 1 + Len(x)
  /\ \A i \in 1..Len(a) : s[i] = a[i]
  /\ s[Len(a) + 1] = e
  /\ \A i \in 1..Len(x) : s[Len(a) + 1 + i] = x[i]

\* The two sequences and the token between them make up a joined sequence.
LEMMA JoinElements ==
  ASSUME NEW T, NEW e \in T, NEW a \in Seq(T), NEW x \in Seq(T)
  PROVE  /\ Join(a, e, x) \in Seq(T)
         /\ IsJoin(Join(a, e, x), a, e, x)
BY DEF Join, IsJoin

\* What stands before the first e, and what stands after it, can be told from
\* the whole.
LEMMA JoinInjective ==
  ASSUME NEW T, NEW e \in T,
         NEW a \in Without(e, T), NEW x \in Seq(T),
         NEW b \in Without(e, T), NEW y \in Seq(T)
  PROVE  Join(a, e, x) = Join(b, e, y) => a = b /\ x = y
<1> DEFINE s == Join(a, e, x)
           t == Join(b, e, y)
<1>1. /\ a \in Seq(T) /\ b \in Seq(T)
      /\ \A i \in 1..Len(a) : a[i] # e
      /\ \A i \in 1..Len(b) : b[i] # e
  BY DEF Without
<1>2. IsJoin(s, a, e, x)
  BY <1>1, JoinElements
<1>3. IsJoin(t, b, e, y)
  BY <1>1, JoinElements
<1>4. Len(a) \in Nat /\ Len(b) \in Nat /\ Len(x) \in Nat /\ Len(y) \in Nat
  BY <1>1, LenProperties
<1> HIDE DEF s, t
<1>5. SUFFICES ASSUME s = t PROVE a = b /\ x = y
  BY DEF s, t
<1>6. Len(a) = Len(b)
  <2>1. ASSUME Len(a) < Len(b) PROVE FALSE
    <3>1. Len(a) + 1 \in 1..Len(b)
      BY <1>4, <2>1
    <3>2. b[Len(a) + 1] = e
      BY <1>2, <1>3, <1>5, <3>1 DEF IsJoin
    <3>3. QED
      BY <1>1, <3>1, <3>2
  <2>2. ASSUME Len(b) < Len(a) PROVE FALSE
    <3>1. Len(b) + 1 \in 1..Len(a)
      BY <1>4, <2>2
    <3>2. a[Len(b) + 1] = e
      BY <1>2, <1>3, <1>5, <3>1 DEF IsJoin
    <3>3. QED
      BY <1>1, <3>1, <3>2
  <2>3. QED
    BY <1>4, <2>1, <2>2
<1>7. \A i \in 1..Len(a) : a[i] = b[i]
  BY <1>2, <1>3, <1>5, <1>6 DEF IsJoin
<1>8. Len(x) = Len(y)
  BY <1>2, <1>3, <1>4, <1>5, <1>6 DEF IsJoin
<1>9. \A i \in 1..Len(x) : x[i] = y[i]
  BY <1>2, <1>3, <1>5, <1>6, <1>8 DEF IsJoin
<1>10. QED
  BY <1>1, <1>6, <1>7, <1>8, <1>9, SeqEqual

\* With every token, three sequences joined from the left are the same as
\* joined from the right.
JoinsFromEitherSide(T, f, g, h) ==
  \A e \in T :
    (((f \o <<e>>) \o g) \o <<e>>) \o h = Join(f, e, Join(g, e, h))

\* The order in which three sequences are joined does not matter.
LEMMA JoinAssociative ==
  ASSUME NEW T, NEW f \in Seq(T), NEW g \in Seq(T), NEW h \in Seq(T)
  PROVE  JoinsFromEitherSide(T, f, g, h)
<1> SUFFICES ASSUME NEW e \in T
             PROVE  (((f \o <<e>>) \o g) \o <<e>>) \o h
                      = Join(f, e, Join(g, e, h))
  BY DEF JoinsFromEitherSide
<1>1. ASSUME NEW E \in Seq(T)
      PROVE  (((f \o E) \o g) \o E) \o h = (f \o E) \o ((g \o E) \o h)
  OBVIOUS
<1>2. <<e>> \in Seq(T)
  OBVIOUS
<1>3. QED
  BY <1>1, <1>2 DEF Join

\* Three joined sequences are determined by the whole.
LEMMA ThreeFields ==
  ASSUME NEW T, NEW e \in T,
         NEW a \in Without(e, T), NEW n \in Without(e, T), NEW x \in Seq(T),
         NEW b \in Without(e, T), NEW m \in Without(e, T), NEW y \in Seq(T),
         Join(a, e, Join(n, e, x)) = Join(b, e, Join(m, e, y))
  PROVE  a = b /\ n = m /\ x = y
<1>1. n \in Seq(T) /\ m \in Seq(T)
  BY DEF Without
<1>2. Join(n, e, x) \in Seq(T) /\ Join(m, e, y) \in Seq(T)
  BY <1>1, JoinElements
<1>3. a = b /\ Join(n, e, x) = Join(m, e, y)
  BY <1>2, JoinInjective
<1>4. QED
  BY <1>3, JoinInjective

\* The fields of a keyable identity before the last are free of the
\* separator, and the key is the three of them joined.
LEMMA KeyIsJoin ==
  ASSUME NEW T, "|" \in T, NEW k \in RoleIdentities(T), Keyable(k)
  PROVE  /\ k.arn \in Without("|", T) /\ k.sessionName \in Without("|", T)
         /\ k.externalID \in Seq(T)
         /\ String(k) = Join(k.arn, "|", Join(k.sessionName, "|", k.externalID))
<1>1. k.arn \in Seq(T) /\ k.sessionName \in Seq(T) /\ k.externalID \in Seq(T)
  BY DEF RoleIdentities
<1>2. /\ DOMAIN k.arn = 1..Len(k.arn)
      /\ DOMAIN k.sessionName = 1..Len(k.sessionName)
      /\ Separator[1] = "|"
  BY <1>1, LenProperties DEF Separator
<1>3. k.arn \in Without("|", T) /\ k.sessionName \in Without("|", T)
  BY <1>1, <1>2, Zenon DEF Without, Keyable
<1>4. String(k) = Join(k.arn, "|", Join(k.sessionName, "|", k.externalID))
  <2>1. JoinsFromEitherSide(T, k.arn, k.sessionName, k.externalID)
    BY <1>1, JoinAssociative
  <2>2. QED
    BY <2>1, Zenon DEF String, Separator, JoinsFromEitherSide
<1>5. QED
  BY <1>1, <1>3, <1>4

\* Two identities share a key only if they are the same or the separator is in
\* the role or the session name of one of them, whatever the external ids are:
\* what RoleIdentity.String() promises to the map of credentials.
THEOREM SameKeySameIdentity ==
  ASSUME NEW T, "|" \in T,
         NEW i \in RoleIdentities(T), NEW j \in RoleIdentities(T),
         String(i) = String(j)
  PROVE  i = j \/ ~Keyable(i) \/ ~Keyable(j)
<1> SUFFICES ASSUME Keyable(i), Keyable(j) PROVE i = j
  OBVIOUS
<1>1. Join(i.arn, "|", Join(i.sessionName, "|", i.externalID))
        = Join(j.arn, "|", Join(j.sessionName, "|", j.externalID))
  <2>1. String(i) = Join(i.arn, "|", Join(i.sessionName, "|", i.externalID))
    BY KeyIsJoin
  <2>2. String(j) = Join(j.arn, "|", Join(j.sessionName, "|", j.externalID))
    BY KeyIsJoin
  <2>3. QED
    BY <2>1, <2>2, Zenon
<1>2. /\ i.arn \in Without("|", T) /\ i.sessionName \in Without("|", T)
      /\ i.externalID \in Seq(T)
  BY KeyIsJoin
<1>3. /\ j.arn \in Without("|", T) /\ j.sessionName \in Without("|", T)
      /\ j.externalID \in Seq(T)
  BY KeyIsJoin
<1>4. /\ i.arn = j.arn /\ i.sessionName = j.sessionName
      /\ i.externalID = j.externalID
  BY <1>1, <1>2, <1>3, ThreeFields
<1>5. QED
  BY <1>4 DEF RoleIdentities
=============================================================================
