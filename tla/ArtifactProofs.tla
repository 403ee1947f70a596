----------------------------- MODULE ArtifactProofs ----------------------------
(***************************************************************************)
(* Theorems about artifacts.  First about ToolResults, for any payloads,    *)
(* budgets and tools' answers: what of a result the model sees, and what    *)
(* the pages of its artifact hold.  Then about ArtifactStore, where the     *)
(* artifacts are, for any artifacts, contents, clients and retention.       *)
(***************************************************************************)
EXTENDS ToolResults, ArtifactStore, SequenceTheorems, NaturalsInduction,
        FiniteSetTheorems, FunctionTheorems, WellFoundedInduction, TLAPS

-----------------------------------------------------------------------------
(* Induction.                                                                *)

Below == OpToRel(<, Nat)

LEMMA Least ==
  ASSUME NEW S \in SUBSET Nat, S # {}
  PROVE  \E m \in S : \A n \in S : m <= n
<1>1. IsWellFoundedOn(Below, Nat)
  BY NatLessThanWellFounded DEF Below
<1>2. PICK m \in S : \A n \in S : ~ (<<n, m>> \in Below)
  BY <1>1, WFMin
<1>3. \A n \in Nat : n < m => <<n, m>> \in Below
  BY DEF Below, OpToRel
<1>4. ASSUME NEW n \in S PROVE m <= n
  <2>1. ~ (n < m)
    BY <1>2, <1>3
  <2> QED
    BY <2>1
<1> QED
  BY <1>4

LEMMA NatSetInduction ==
  ASSUME NEW P, 0 \in P, \A n \in Nat : n \in P => n + 1 \in P
  PROVE  Nat \subseteq P
<1> DEFINE Bad == {n \in Nat : n \notin P}
<1> SUFFICES ASSUME Bad # {} PROVE FALSE
  OBVIOUS
<1>1. PICK n \in Bad : \A k \in Bad : n <= k
  <2>1. Bad \in SUBSET Nat
    OBVIOUS
  <2> HIDE DEF Bad
  <2> QED
    BY <2>1, Least
<1>2. n # 0 /\ n - 1 \in Nat /\ n - 1 \in P
  BY <1>1
<1> QED
  BY <1>1, <1>2

(* A set that has the empty sequence and every extension of a member has all. *)
LEMMA AppendInduction ==
  ASSUME NEW S, NEW P, <<>> \in P,
         \A s \in Seq(S), e \in S : s \in P => Append(s, e) \in P
  PROVE  Seq(S) \subseteq P
<1> DEFINE Bad == {n \in Nat : \E s \in Seq(S) : Len(s) = n /\ s \notin P}
<1> SUFFICES ASSUME Bad # {} PROVE FALSE
  <2>1. \A s \in Seq(S) : Len(s) \in Nat
    BY LenProperties
  <2> QED
    BY <2>1
<1>1. PICK n \in Bad : \A k \in Bad : n <= k
  <2>1. Bad \in SUBSET Nat
    OBVIOUS
  <2> HIDE DEF Bad
  <2> QED
    BY <2>1, Least
<1>2. PICK s \in Seq(S) : Len(s) = n /\ s \notin P
  BY <1>1
<1>3. PICK t \in Seq(S), e \in S : s = Append(t, e)
  BY <1>2, SequenceEmptyOrAppend
<1>4. Len(t) \in Nat /\ Len(s) = Len(t) + 1
  BY <1>3, LenProperties, AppendProperties
<1>5. t \notin P
  BY <1>2, <1>3
<1>6. Len(t) \in Bad
  BY <1>4, <1>5
<1> QED
  BY <1>1, <1>2, <1>4, <1>6

-----------------------------------------------------------------------------
(* FlattenSeq.                                                               *)

(* f[i] is the concatenation of the first i sequences. *)
Partials(ss, f) ==
  f = [i \in 1 .. Len(ss) |-> IF i = 1 THEN ss[i] ELSE f[i - 1] \o ss[i]]

LEMMA PartialsExist ==
  ASSUME NEW S, NEW ss \in Seq(S)
  PROVE  \E f : Partials(ss, f)
<1> DEFINE P == {s \in Seq(S) : \E f : Partials(s, f)}
<1>1. <<>> \in P
  <2>1. Partials(<<>>, [i \in {} |-> {}])
    BY DEF Partials
  <2> QED
    BY <2>1
<1>2. ASSUME NEW s \in Seq(S), NEW e \in S, s \in P
      PROVE  Append(s, e) \in P
  <2>1. PICK f : Partials(s, f)
    BY <1>2
  <2> DEFINE n == Len(s) + 1
             t == Append(s, e)
             g == [i \in 1 .. n |-> IF i = n THEN (IF i = 1 THEN e ELSE f[i - 1] \o e)
                                    ELSE f[i]]
  <2>2. /\ t \in Seq(S) /\ Len(t) = n /\ t[n] = e /\ n \in Nat
        /\ \A i \in 1 .. Len(s) : t[i] = s[i]
    BY AppendProperties, LenProperties
  <2>3. \A i \in 1 .. Len(s) : f[i] = IF i = 1 THEN s[i] ELSE f[i - 1] \o s[i]
    BY <2>1, Zenon DEF Partials
  <2>4. \A i \in 1 .. n : g[i] = IF i = 1 THEN t[i] ELSE g[i - 1] \o t[i]
    BY <2>2, <2>3
  <2>5. g = [i \in 1 .. n |-> IF i = 1 THEN t[i] ELSE g[i - 1] \o t[i]]
    BY <2>4, Zenon
  <2>6. Partials(t, g)
    BY <2>2, <2>5 DEF Partials
  <2> HIDE DEF g
  <2> QED
    BY <2>2, <2>6
<1> HIDE DEF P
<1>3. Seq(S) \subseteq P
  BY <1>1, <1>2, AppendInduction
<1> QED
  BY <1>3 DEF P

LEMMA FlattenIs ==
  ASSUME NEW S, NEW ss \in Seq(S), ss # <<>>
  PROVE  \E f : Partials(ss, f) /\ FlattenSeq(ss) = f[Len(ss)]
<1> DEFINE h == CHOOSE f : Partials(ss, f)
<1>1. Partials(ss, h)
  BY PartialsExist
<1>2. Len(ss) # 0
  BY EmptySeq
<1>3. FlattenSeq(ss) = h[Len(ss)]
  BY Zenon, <1>2 DEF FlattenSeq, Partials
<1> QED
  BY <1>1, <1>3

LEMMA FlattenEmpty == FlattenSeq(<<>>) = <<>>
BY DEF FlattenSeq

(* The functions of a sequence and of its extension agree. *)
LEMMA PartialsAgree ==
  ASSUME NEW S, NEW s \in Seq(S), NEW e \in S, NEW f, NEW g,
         Partials(s, f), Partials(Append(s, e), g)
  PROVE  \A i \in 1 .. Len(s) : f[i] = g[i]
<1> DEFINE Bad == {i \in 1 .. Len(s) : f[i] # g[i]}
<1> SUFFICES ASSUME Bad # {} PROVE FALSE
  OBVIOUS
<1>1. Len(s) \in Nat /\ Len(Append(s, e)) = Len(s) + 1
      /\ \A i \in 1 .. Len(s) : Append(s, e)[i] = s[i]
  BY LenProperties, AppendProperties
<1>2. PICK i \in Bad : \A j \in Bad : i <= j
  <2>1. Bad \in SUBSET Nat
    BY <1>1
  <2> HIDE DEF Bad
  <2> QED
    BY <2>1, Least
<1>3. f[i] = IF i = 1 THEN s[i] ELSE f[i - 1] \o s[i]
  <2>1. i \in 1 .. Len(s)
    BY <1>2
  <2> HIDE DEF Bad
  <2> QED
    BY <2>1, Zenon DEF Partials
<1>4. g[i] = IF i = 1 THEN s[i] ELSE g[i - 1] \o s[i]
  <2>1. i \in 1 .. Len(s) /\ i \in 1 .. Len(Append(s, e))
    BY <1>1, <1>2
  <2>2. g[i] = IF i = 1 THEN Append(s, e)[i] ELSE g[i - 1] \o Append(s, e)[i]
    <3> HIDE DEF Bad
    <3> QED
      BY <2>1, Zenon DEF Partials
  <2> QED
    BY <1>1, <2>1, <2>2
<1>5. i # 1 => f[i - 1] = g[i - 1]
  BY <1>1, <1>2
<1> QED
  BY <1>2, <1>3, <1>4, <1>5

LEMMA FlattenAppend ==
  ASSUME NEW S, NEW ss \in Seq(Seq(S)), NEW e \in Seq(S)
  PROVE  FlattenSeq(Append(ss, e)) = FlattenSeq(ss) \o e
<1> DEFINE tt == Append(ss, e)
           n == Len(ss) + 1
<1>1. tt \in Seq(Seq(S)) /\ tt # <<>> /\ Len(tt) = n /\ tt[n] = e /\ Len(ss) \in Nat
  BY AppendProperties, LenProperties
<1>2. PICK g : Partials(tt, g) /\ FlattenSeq(tt) = g[n]
  BY <1>1, FlattenIs
<1>3. g[n] = IF n = 1 THEN e ELSE g[n - 1] \o e
  <2>1. n \in 1 .. Len(tt)
    BY <1>1
  <2>2. g[n] = IF n = 1 THEN tt[n] ELSE g[n - 1] \o tt[n]
    <3> HIDE DEF tt, n
    <3> QED
      BY <1>2, <2>1, Zenon DEF Partials
  <2> QED
    BY <1>1, <2>2
<1>4. CASE ss = <<>>
  <2>1. n = 1
    BY <1>4
  <2>2. FlattenSeq(tt) = e
    BY <1>2, <1>3, <2>1
  <2> QED
    BY <1>4, <2>2, FlattenEmpty, ConcatEmptySeq
<1>5. CASE ss # <<>>
  <2>1. PICK f : Partials(ss, f) /\ FlattenSeq(ss) = f[Len(ss)]
    BY <1>5, FlattenIs
  <2>2. Len(ss) # 0
    BY <1>5, EmptySeq
  <2>3. Len(ss) \in 1 .. Len(ss) /\ n # 1 /\ n - 1 = Len(ss)
    BY <1>1, <2>2
  <2>4. f[Len(ss)] = g[Len(ss)]
    BY <1>2, <2>1, <2>3, PartialsAgree
  <2> QED
    BY <1>2, <1>3, <2>1, <2>3, <2>4
<1> QED
  BY <1>4, <1>5

LEMMA FlattenTyped ==
  ASSUME NEW S, NEW ss \in Seq(Seq(S))
  PROVE  FlattenSeq(ss) \in Seq(S)
<1> DEFINE P == {s \in Seq(Seq(S)) : FlattenSeq(s) \in Seq(S)}
<1>1. <<>> \in P
  BY FlattenEmpty, EmptySeq
<1>2. ASSUME NEW s \in Seq(Seq(S)), NEW e \in Seq(S), s \in P
      PROVE  Append(s, e) \in P
  <2>1. Append(s, e) \in Seq(Seq(S))
    BY AppendProperties
  <2>2. FlattenSeq(s) \o e \in Seq(S)
    BY <1>2, ConcatProperties
  <2> QED
    BY <2>1, <2>2, FlattenAppend
<1> HIDE DEF P
<1>3. Seq(Seq(S)) \subseteq P
  BY <1>1, <1>2, AppendInduction
<1> QED
  BY <1>3 DEF P

LEMMA FlattenConcat ==
  ASSUME NEW S, NEW ss \in Seq(Seq(S)), NEW tt \in Seq(Seq(S))
  PROVE  FlattenSeq(ss \o tt) = FlattenSeq(ss) \o FlattenSeq(tt)
<1> DEFINE P ==
      {t \in Seq(Seq(S)) : FlattenSeq(ss \o t) = FlattenSeq(ss) \o FlattenSeq(t)}
<1>1. <<>> \in P
  BY FlattenEmpty, FlattenTyped, ConcatEmptySeq
<1>2. ASSUME NEW t \in Seq(Seq(S)), NEW e \in Seq(S), t \in P
      PROVE  Append(t, e) \in P
  <2>1. /\ Append(t, e) \in Seq(Seq(S)) /\ ss \o t \in Seq(Seq(S))
        /\ <<e>> \in Seq(Seq(S))
    BY AppendProperties, ConcatProperties
  <2>2. ss \o Append(t, e) = Append(ss \o t, e)
    BY <2>1, AppendIsConcat, ConcatAssociative, SMTT(30)
  <2>3. FlattenSeq(ss \o Append(t, e)) = (FlattenSeq(ss) \o FlattenSeq(t)) \o e
    BY <1>2, <2>1, <2>2, FlattenAppend
  <2>4. @ = FlattenSeq(ss) \o (FlattenSeq(t) \o e)
    BY FlattenTyped, ConcatAssociative, SMTT(30)
  <2>5. @ = FlattenSeq(ss) \o FlattenSeq(Append(t, e))
    BY FlattenAppend
  <2> QED
    BY <2>1, <2>3, <2>4, <2>5
<1> HIDE DEF P
<1>3. Seq(Seq(S)) \subseteq P
  BY <1>1, <1>2, AppendInduction
<1> QED
  BY <1>3 DEF P

(* A sequence with one element more. *)
LEMMA Extended ==
  ASSUME NEW S, NEW s \in Seq(S), NEW t \in Seq(S), Len(t) = Len(s) + 1,
         \A i \in 1 .. Len(s) : t[i] = s[i]
  PROVE  t = Append(s, t[Len(t)])
<1>1. Len(s) \in Nat /\ t[Len(t)] \in S
  BY LenProperties, ElementOfSeq
<1>2. /\ Append(s, t[Len(t)]) \in Seq(S) /\ Len(Append(s, t[Len(t)])) = Len(t)
      /\ \A i \in 1 .. Len(t) : Append(s, t[Len(t)])[i] = t[i]
  BY <1>1, AppendProperties
<1> QED
  BY <1>2, SeqEqual

LEMMA MapTyped ==
  ASSUME NEW S, NEW n \in Nat, NEW f, f = [i \in 1 .. n |-> f[i]],
         \A i \in 1 .. n : f[i] \in S
  PROVE  f \in Seq(S) /\ Len(f) = n
<1>1. f \in [1 .. n -> S]
  OBVIOUS
<1>2. f \in Seq(S)
  BY <1>1, SeqDef
<1> QED
  BY <1>1, <1>2, LenProperties

LEMMA FlattenMembers ==
  ASSUME NEW S, NEW ss \in Seq(Seq(S))
  PROVE  ToSet(FlattenSeq(ss)) = UNION {ToSet(ss[i]) : i \in 1 .. Len(ss)}
<1> DEFINE Members(s) == UNION {ToSet(s[i]) : i \in 1 .. Len(s)}
           P == {s \in Seq(Seq(S)) : ToSet(FlattenSeq(s)) = Members(s)}
<1>1. <<>> \in P
  BY FlattenEmpty, EmptySeq DEF ToSet
<1>2. ASSUME NEW s \in Seq(Seq(S)), NEW e \in Seq(S), s \in P
      PROVE  Append(s, e) \in P
  <2>1. /\ Append(s, e) \in Seq(Seq(S)) /\ FlattenSeq(s) \in Seq(S)
        /\ Len(Append(s, e)) = Len(s) + 1 /\ Len(s) \in Nat
        /\ \A i \in 1 .. Len(s) : Append(s, e)[i] = s[i]
        /\ Append(s, e)[Len(s) + 1] = e
    BY AppendProperties, FlattenTyped, LenProperties
  <2>2. ToSet(FlattenSeq(s) \o e) = ToSet(FlattenSeq(s)) \cup ToSet(e)
    <3> DEFINE a == FlattenSeq(s)
    <3>1. /\ a \o e \in Seq(S) /\ Len(a \o e) = Len(a) + Len(e)
          /\ Len(a) \in Nat /\ Len(e) \in Nat
          /\ \A i \in 1 .. Len(a) + Len(e) :
               (a \o e)[i] = IF i <= Len(a) THEN a[i] ELSE e[i - Len(a)]
          /\ DOMAIN a = 1 .. Len(a) /\ DOMAIN e = 1 .. Len(e)
          /\ DOMAIN (a \o e) = 1 .. Len(a) + Len(e)
      BY <2>1, ConcatProperties, LenProperties
    <3> HIDE DEF a
    <3>2. ToSet(a \o e) \subseteq ToSet(a) \cup ToSet(e)
      BY <3>1 DEF ToSet
    <3>3. ToSet(a) \subseteq ToSet(a \o e)
      BY <3>1 DEF ToSet
    <3>4. \A i \in 1 .. Len(e) : i + Len(a) \in 1 .. Len(a) + Len(e)
            /\ (a \o e)[i + Len(a)] = e[i]
      BY <3>1
    <3>5. ToSet(e) \subseteq ToSet(a \o e)
      BY <3>1, <3>4, ZenonT(30) DEF ToSet
    <3> QED
      BY <3>2, <3>3, <3>5 DEF a
  <2>3. Members(Append(s, e)) = Members(s) \cup ToSet(e)
    <3> DEFINE t == Append(s, e)
    <3>1. \A i \in 1 .. Len(t) : i \in 1 .. Len(s) \/ i = Len(s) + 1
      BY <2>1
    <3>2. 1 .. Len(s) \subseteq 1 .. Len(t) /\ Len(s) + 1 \in 1 .. Len(t)
      BY <2>1
    <3> HIDE DEF t
    <3>3. ASSUME NEW x \in Members(t) PROVE x \in Members(s) \cup ToSet(e)
      BY <2>1, <3>1, Zenon DEF t
    <3>4. ASSUME NEW x \in Members(s) \cup ToSet(e) PROVE x \in Members(t)
      BY <2>1, <3>2, Zenon DEF t
    <3> QED
      BY <3>3, <3>4 DEF t
  <2> HIDE DEF Members
  <2> QED
    BY <1>2, <2>1, <2>2, <2>3, FlattenAppend
<1> HIDE DEF P
<1>3. Seq(Seq(S)) \subseteq P
  BY <1>1, <1>2, AppendInduction
<1> QED
  BY <1>3 DEF P

(* The beginning of a sequence. *)
LEMMA FirstOnes ==
  ASSUME NEW S, NEW s \in Seq(S), NEW i \in 1 .. Len(s)
  PROVE  /\ s[i] \in S /\ i - 1 \in 0 .. Len(s)
         /\ SubSeq(s, 1, i - 1) \in Seq(S) /\ Len(SubSeq(s, 1, i - 1)) = i - 1
         /\ SubSeq(s, 1, i) \in Seq(S) /\ Len(SubSeq(s, 1, i)) = i
         /\ SubSeq(s, 1, i) = Append(SubSeq(s, 1, i - 1), s[i])
<1>1. Len(s) \in Nat /\ \A j \in 1 .. Len(s) : s[j] \in S
  BY LenProperties, ElementOfSeq
<1> DEFINE a == SubSeq(s, 1, i - 1)
           b == SubSeq(s, 1, i)
<1> i \in Nat \ {0}
  BY <1>1
<1>2. /\ a \in Seq(S) /\ Len(a) = i - 1 /\ \A j \in 1 .. i - 1 : a[j] = s[j]
  <2>1. /\ 1 \in Int /\ i - 1 \in Int /\ \A j \in 1 .. i - 1 : s[j] \in S
    BY <1>1
  <2>2. /\ a \in Seq(S) /\ Len(a) = (IF 1 <= i - 1 THEN (i - 1) - 1 + 1 ELSE 0)
        /\ \A j \in 1 .. (i - 1) - 1 + 1 : a[j] = s[1 + j - 1]
    BY <2>1, SubSeqProperties
  <2> HIDE DEF a
  <2>3. (i - 1) - 1 + 1 = i - 1 /\ (IF 1 <= i - 1 THEN (i - 1) - 1 + 1 ELSE 0) = i - 1
    OBVIOUS
  <2>4. ASSUME NEW j \in 1 .. i - 1 PROVE a[j] = s[j]
    <3>1. 1 + j - 1 = j
      OBVIOUS
    <3> QED
      BY <2>2, <2>3, <3>1
  <2>5. Len(a) = i - 1
    BY <2>2, <2>3
  <2> QED
    BY <2>2, <2>4, <2>5
<1>3. /\ b \in Seq(S) /\ Len(b) = i /\ \A j \in 1 .. i : b[j] = s[j]
  <2>1. /\ 1 \in Int /\ i \in Int /\ \A j \in 1 .. i : s[j] \in S
    BY <1>1
  <2>2. /\ b \in Seq(S) /\ Len(b) = (IF 1 <= i THEN i - 1 + 1 ELSE 0)
        /\ \A j \in 1 .. i - 1 + 1 : b[j] = s[1 + j - 1]
    BY <2>1, SubSeqProperties
  <2> HIDE DEF b
  <2> QED
    BY <2>2
<1> HIDE DEF a, b
<1>4. b = Append(a, b[Len(b)])
  <2>1. Len(b) = Len(a) + 1 /\ \A j \in 1 .. Len(a) : b[j] = a[j]
    BY <1>1, <1>2, <1>3
  <2> QED
    BY <1>2, <1>3, <2>1, Extended
<1>5. b[Len(b)] = s[i] /\ i - 1 \in 0 .. Len(s) /\ s[i] \in S
  BY <1>1, <1>3
<1> QED
  BY <1>2, <1>3, <1>4, <1>5 DEF a, b


(* A function that is defined from its value at the number before. *)
Steps(a, n, F, f) == f = [i \in 0 .. n |-> IF i = 0 THEN a ELSE F[i][f[i - 1]]]

LEMMA StepsExist ==
  ASSUME NEW a, NEW n \in Nat, NEW F
  PROVE  \E f : Steps(a, n, F, f)
<1> DEFINE Upto(m, f) == Steps(a, m, F, f)
           P == {m \in Nat : \E f : Upto(m, f)}
<1>1. 0 \in P
  <2>1. Upto(0, [i \in 0 .. 0 |-> a])
    BY DEF Steps
  <2> QED
    BY <2>1
<1>2. ASSUME NEW m \in Nat, m \in P PROVE m + 1 \in P
  <2>1. PICK f : Upto(m, f)
    BY <1>2
  <2> DEFINE g == [i \in 0 .. m + 1 |-> IF i = m + 1 THEN F[m + 1][f[m]] ELSE f[i]]
  <2>2. \A i \in 0 .. m : f[i] = IF i = 0 THEN a ELSE F[i][f[i - 1]]
    BY <2>1, Zenon DEF Steps
  <2>3. \A i \in 0 .. m + 1 : g[i] = IF i = 0 THEN a ELSE F[i][g[i - 1]]
    <3>1. ASSUME NEW i \in 0 .. m + 1 PROVE g[i] = IF i = 0 THEN a ELSE F[i][g[i - 1]]
      <4>1. CASE i = m + 1
        BY <4>1
      <4>2. CASE i \in 0 .. m
        BY <2>2, <4>2
      <4> QED
        BY <4>1, <4>2
    <3> QED
      BY <3>1
  <2>4. g = [i \in 0 .. m + 1 |-> IF i = 0 THEN a ELSE F[i][g[i - 1]]]
    BY <2>3, Zenon
  <2>5. Upto(m + 1, g)
    BY <2>4 DEF Steps
  <2> HIDE DEF g, Upto
  <2> QED
    BY <2>5
<1> HIDE DEF P
<1>3. Nat \subseteq P
  BY <1>1, <1>2, NatSetInduction
<1> QED
  BY <1>3 DEF P

LEMMA StepsTyped ==
  ASSUME NEW A, NEW a \in A, NEW n \in Nat, NEW F, NEW f,
         Steps(a, n, F, f),
         \A i \in 1 .. n, x \in A : F[i][x] \in A
  PROVE  \A i \in 0 .. n : f[i] \in A
<1> DEFINE P == {m \in Nat : m <= n => f[m] \in A}
<1>1. \A i \in 0 .. n : f[i] = IF i = 0 THEN a ELSE F[i][f[i - 1]]
  BY Zenon DEF Steps
<1>2. 0 \in P
  BY <1>1
<1>3. ASSUME NEW m \in Nat, m \in P PROVE m + 1 \in P
  <2>1. SUFFICES ASSUME m + 1 <= n PROVE f[m + 1] \in A
    OBVIOUS
  <2>2. m + 1 \in 0 .. n /\ m + 1 # 0 /\ (m + 1) - 1 = m /\ m + 1 \in 1 .. n
    BY <2>1
  <2>3. f[m + 1] = F[m + 1][f[m]]
    BY <1>1, <2>2
  <2>4. f[m] \in A
    BY <1>3, <2>1
  <2> QED
    BY <2>2, <2>3, <2>4
<1> HIDE DEF P
<1>4. Nat \subseteq P
  BY <1>2, <1>3, NatSetInduction
<1> QED
  BY <1>4 DEF P

(* A set that holds 0 and, below n, the successor of each member. *)
LEMMA UpTo ==
  ASSUME NEW n \in Nat, NEW P, 0 \in P,
         \A m \in Nat : m < n /\ m \in P => m + 1 \in P
  PROVE  0 .. n \subseteq P
<1> DEFINE Q == {m \in Nat : m <= n => m \in P}
<1>1. 0 \in Q
  OBVIOUS
<1>2. ASSUME NEW m \in Nat, m \in Q PROVE m + 1 \in Q
  BY <1>2
<1> HIDE DEF Q
<1>3. Nat \subseteq Q
  BY <1>1, <1>2, NatSetInduction
<1> QED
  BY <1>3 DEF Q

-----------------------------------------------------------------------------
(* Sums.                                                                     *)

SumSteps(s, S, f) ==
  f = [n \in 0 .. Len(s) |->
         IF n = 0 THEN 0 ELSE f[n - 1] + (IF n \in S THEN s[n] ELSE 0)]

(* f holds the sums of the beginnings of s. *)
SumsUpTo(s, S, f) ==
  /\ SumAt(s, S) = f[Len(s)]
  /\ \A n \in 0 .. Len(s) : f[n] \in Nat
  /\ f[0] = 0
  /\ \A n \in 1 .. Len(s) : f[n] = f[n - 1] + (IF n \in S THEN s[n] ELSE 0)

LEMMA SumIs ==
  ASSUME NEW s \in Seq(Nat), NEW S
  PROVE  \E f : SumsUpTo(s, S, f)
<1> DEFINE N == Len(s)
           F == [n \in 1 .. N |-> [x \in Nat |-> x + (IF n \in S THEN s[n] ELSE 0)]]
           h == CHOOSE f : SumSteps(s, S, f)
<1>1. N \in Nat /\ \A n \in 1 .. N : s[n] \in Nat
  BY LenProperties, ElementOfSeq
<1>2. \A n \in 1 .. N, x \in Nat : F[n][x] = x + (IF n \in S THEN s[n] ELSE 0)
        /\ F[n][x] \in Nat
  BY <1>1
<1> HIDE DEF F, N
<1>3. PICK f : Steps(0, N, F, f)
  BY <1>1, StepsExist, Zenon
<1>4. \A n \in 0 .. N : f[n] \in Nat
  BY <1>1, <1>2, <1>3, StepsTyped
<1>5. \A n \in 0 .. N :
        f[n] = IF n = 0 THEN 0 ELSE f[n - 1] + (IF n \in S THEN s[n] ELSE 0)
  <2>1. ASSUME NEW n \in 0 .. N
        PROVE  f[n] = IF n = 0 THEN 0 ELSE f[n - 1] + (IF n \in S THEN s[n] ELSE 0)
    <3>1. f[n] = IF n = 0 THEN 0 ELSE F[n][f[n - 1]]
      BY <1>3, Zenon DEF Steps
    <3>2. n # 0 => n \in 1 .. N /\ f[n - 1] \in Nat
      BY <1>1, <1>4
    <3> QED
      BY <1>2, <3>1, <3>2
  <2> QED
    BY <2>1
<1>6. SumSteps(s, S, f)
  <2>1. f = [n \in 0 .. N |-> f[n]]
    BY <1>3 DEF Steps
  <2> QED
    BY <1>5, <2>1, Zenon DEF SumSteps, N
<1>7. SumSteps(s, S, h)
  BY <1>6
<1>8. SumAt(s, S) = h[N]
  BY Zenon DEF SumAt, SumSteps, N
<1> HIDE DEF h
<1>9. \A n \in 0 .. N :
        h[n] = IF n = 0 THEN 0 ELSE h[n - 1] + (IF n \in S THEN s[n] ELSE 0)
  BY <1>7, Zenon DEF SumSteps, N
<1>10. h[0] = 0
  BY <1>1, <1>9
<1>11. \A n \in 1 .. N : h[n] = h[n - 1] + (IF n \in S THEN s[n] ELSE 0)
  BY <1>1, <1>9
<1>12. \A n \in 0 .. N : h[n] \in Nat
  <2> DEFINE P == {n \in Nat : n <= N => h[n] \in Nat}
  <2>1. 0 \in P
    BY <1>10
  <2>2. ASSUME NEW m \in Nat, m < N, m \in P PROVE m + 1 \in P
    <3>1. m + 1 \in 1 .. N /\ (m + 1) - 1 = m /\ h[m] \in Nat
      BY <1>1, <2>2
    <3>2. h[m + 1] = h[m] + (IF m + 1 \in S THEN s[m + 1] ELSE 0)
      BY <1>11, <3>1
    <3> QED
      BY <1>1, <3>1, <3>2
  <2> HIDE DEF P
  <2>3. 0 .. N \subseteq P
    BY <1>1, <2>1, <2>2, UpTo
  <2> QED
    BY <1>1, <2>3 DEF P
<1> QED
  BY <1>8, <1>10, <1>11, <1>12 DEF N, SumsUpTo

LEMMA SumSplit ==
  ASSUME NEW s \in Seq(Nat), NEW S, NEW T, S \cap T = {}
  PROVE  SumAt(s, S \cup T) = SumAt(s, S) + SumAt(s, T)
<1> DEFINE N == Len(s)
           U == S \cup T
<1>0. PICK f, g, h : SumsUpTo(s, S, f) /\ SumsUpTo(s, T, g) /\ SumsUpTo(s, U, h)
  <2> HIDE DEF U
  <2> QED
    BY SumIs
<1>1. /\ SumAt(s, S) = f[N] /\ \A n \in 0 .. N : f[n] \in Nat
      /\ f[0] = 0
      /\ \A n \in 1 .. N : f[n] = f[n - 1] + (IF n \in S THEN s[n] ELSE 0)
  BY <1>0 DEF SumsUpTo
<1>2. /\ SumAt(s, T) = g[N] /\ \A n \in 0 .. N : g[n] \in Nat
      /\ g[0] = 0
      /\ \A n \in 1 .. N : g[n] = g[n - 1] + (IF n \in T THEN s[n] ELSE 0)
  BY <1>0 DEF SumsUpTo
<1>3. /\ SumAt(s, U) = h[N] /\ h[0] = 0
      /\ \A n \in 1 .. N : h[n] = h[n - 1] + (IF n \in U THEN s[n] ELSE 0)
  <2> HIDE DEF U
  <2> QED
    BY <1>0 DEF SumsUpTo
<1>4. N \in Nat /\ \A n \in 1 .. N : s[n] \in Nat
  BY LenProperties, ElementOfSeq
<1> DEFINE P == {n \in Nat : h[n] = f[n] + g[n]}
<1> HIDE DEF N
<1>5. 0 \in P
  BY <1>1, <1>2, <1>3
<1>6. ASSUME NEW m \in Nat, m < N, m \in P PROVE m + 1 \in P
  <2>1. /\ m + 1 \in 1 .. N /\ (m + 1) - 1 = m /\ h[m] = f[m] + g[m]
        /\ f[m] \in Nat /\ g[m] \in Nat /\ s[m + 1] \in Nat
    BY <1>1, <1>2, <1>4, <1>6
  <2>2. /\ h[m + 1] = h[m] + (IF m + 1 \in U THEN s[m + 1] ELSE 0)
        /\ f[m + 1] = f[m] + (IF m + 1 \in S THEN s[m + 1] ELSE 0)
        /\ g[m + 1] = g[m] + (IF m + 1 \in T THEN s[m + 1] ELSE 0)
    BY <1>1, <1>2, <1>3, <2>1
  <2> QED
    BY <2>1, <2>2
<1> HIDE DEF P
<1>7. 0 .. N \subseteq P
  BY <1>4, <1>5, <1>6, UpTo
<1>8. h[N] = f[N] + g[N]
  BY <1>4, <1>7 DEF P
<1> QED
  BY <1>1, <1>2, <1>3, <1>8

LEMMA SumNat ==
  ASSUME NEW s \in Seq(Nat), NEW S
  PROVE  SumAt(s, S) \in Nat
<1>1. Len(s) \in Nat
  BY LenProperties
<1>2. PICK f : SumsUpTo(s, S, f)
  BY SumIs
<1> QED
  BY <1>1, <1>2 DEF SumsUpTo

LEMMA SumMono ==
  ASSUME NEW s \in Seq(Nat), NEW S, NEW T, S \subseteq T
  PROVE  SumAt(s, S) <= SumAt(s, T)
<1>1. PICK R : R = T \ S
  OBVIOUS
<1>2. S \cap R = {} /\ S \cup R = T
  BY <1>1
<1>3. SumAt(s, T) = SumAt(s, S) + SumAt(s, R)
  BY <1>2, SumSplit, Zenon
<1>4. SumAt(s, S) \in Nat /\ SumAt(s, R) \in Nat
  BY SumNat
<1> QED
  BY <1>2, <1>3, <1>4

LEMMA SumAtLeast ==
  ASSUME NEW s \in Seq(Nat), NEW S, NEW k \in 1 .. Len(s), k \in S
  PROVE  s[k] <= SumAt(s, S)
<1> DEFINE N == Len(s)
<1>0. PICK f : SumsUpTo(s, S, f)
  BY SumIs
<1>1. /\ SumAt(s, S) = f[N] /\ \A n \in 0 .. N : f[n] \in Nat
      /\ \A n \in 1 .. N : f[n] = f[n - 1] + (IF n \in S THEN s[n] ELSE 0)
  BY <1>0 DEF SumsUpTo
<1>2. N \in Nat /\ \A n \in 1 .. N : s[n] \in Nat
  BY LenProperties, ElementOfSeq
<1> DEFINE P == {n \in Nat : k <= n => s[k] <= f[n]}
<1>3. k \in 1 .. N
  OBVIOUS
<1> HIDE DEF N
<1>4. 0 \in P
  BY <1>3
<1>5. ASSUME NEW m \in Nat, m < N, m \in P PROVE m + 1 \in P
  <2>1. /\ m + 1 \in 1 .. N /\ (m + 1) - 1 = m
        /\ f[m] \in Nat /\ s[m + 1] \in Nat
    BY <1>1, <1>2, <1>5
  <2>2. f[m + 1] = f[m] + (IF m + 1 \in S THEN s[m + 1] ELSE 0)
    BY <1>1, <2>1
  <2>3. CASE k = m + 1
    BY <2>1, <2>2, <2>3
  <2>4. CASE k # m + 1
    <3>1. k <= m + 1 => k <= m
      BY <1>3, <2>4
    <3>2. k <= m => s[k] <= f[m]
      BY <1>5
    <3>3. s[k] \in Nat
      BY <1>2, <1>3
    <3>4. k <= m + 1 => s[k] <= f[m + 1]
      BY <2>1, <2>2, <3>1, <3>2, <3>3
    <3> QED
      BY <3>4
  <2> QED
    BY <2>3, <2>4
<1> HIDE DEF P
<1>6. 0 .. N \subseteq P
  BY <1>2, <1>4, <1>5, UpTo
<1>7. s[k] <= f[N]
  BY <1>2, <1>3, <1>6 DEF P
<1> QED
  BY <1>1, <1>7

(* One more item is at least its own size more. *)
LEMMA SumGrows ==
  ASSUME NEW s \in Seq(Nat), NEW S, NEW T, S \subseteq T,
         NEW k \in 1 .. Len(s), k \in T, k \notin S
  PROVE  SumAt(s, S) + s[k] <= SumAt(s, T)
<1>1. PICK R : R = T \ S
  OBVIOUS
<1>2. S \cap R = {} /\ S \cup R = T /\ k \in R
  BY <1>1
<1>3. SumAt(s, T) = SumAt(s, S) + SumAt(s, R)
  BY <1>2, SumSplit, Zenon
<1>4. s[k] <= SumAt(s, R)
  BY <1>2, SumAtLeast
<1>5. SumAt(s, S) \in Nat /\ SumAt(s, R) \in Nat
  BY SumNat
<1>6. s[k] \in Nat
  BY ElementOfSeq
<1> QED
  BY <1>2, <1>3, <1>4, <1>5, <1>6

LEMMA SumNone ==
  ASSUME NEW s \in Seq(Nat)
  PROVE  SumAt(s, {}) = 0
<1>1. SumAt(s, {} \cup {}) = SumAt(s, {}) + SumAt(s, {})
  BY SumSplit
<1>2. SumAt(s, {}) \in Nat /\ {} \cup {} = {}
  BY SumNat
<1> QED
  BY <1>1, <1>2

LEMMA SumAppend ==
  ASSUME NEW s \in Seq(Nat), NEW e \in Nat, NEW S, NEW T,
         \A i \in 1 .. Len(s) : i \in S <=> i \in T
  PROVE  SumAt(Append(s, e), T) =
           SumAt(s, S) + (IF Len(s) + 1 \in T THEN e ELSE 0)
<1> DEFINE N == Len(s)
           t == Append(s, e)
<1>1. /\ t \in Seq(Nat) /\ Len(t) = N + 1 /\ t[N + 1] = e /\ N \in Nat
      /\ \A n \in 1 .. N : t[n] = s[n] /\ s[n] \in Nat
  BY AppendProperties, LenProperties, ElementOfSeq
<1> HIDE DEF t
<1>a. PICK f, g : SumsUpTo(s, S, f) /\ SumsUpTo(t, T, g)
  BY <1>1, SumIs
<1>2. /\ SumAt(s, S) = f[N] /\ f[0] = 0
      /\ \A n \in 1 .. N : f[n] = f[n - 1] + (IF n \in S THEN s[n] ELSE 0)
  BY <1>a DEF SumsUpTo
<1>3. /\ SumAt(t, T) = g[N + 1] /\ \A n \in 0 .. N + 1 : g[n] \in Nat
      /\ g[0] = 0
      /\ \A n \in 1 .. N + 1 : g[n] = g[n - 1] + (IF n \in T THEN t[n] ELSE 0)
  BY <1>1, <1>a DEF SumsUpTo
<1> DEFINE P == {n \in Nat : g[n] = f[n]}
<1>0. \A i \in 1 .. N : i \in S <=> i \in T
  OBVIOUS
<1> HIDE DEF N
<1>4. 0 \in P
  BY <1>2, <1>3
<1>5. ASSUME NEW m \in Nat, m < N, m \in P PROVE m + 1 \in P
  <2>0. m + 1 \in 1 .. N /\ m + 1 \in 1 .. N + 1 /\ (m + 1) - 1 = m /\ g[m] = f[m]
    BY <1>1, <1>5
  <2>1. /\ m + 1 \in 1 .. N /\ m + 1 \in 1 .. N + 1 /\ (m + 1) - 1 = m
        /\ t[m + 1] = s[m + 1] /\ g[m] = f[m]
    BY <1>1, <2>0
  <2>2. /\ f[m + 1] = f[m] + (IF m + 1 \in S THEN s[m + 1] ELSE 0)
        /\ g[m + 1] = g[m] + (IF m + 1 \in T THEN t[m + 1] ELSE 0)
    BY <1>2, <1>3, <2>1
  <2> QED
    BY <1>0, <2>1, <2>2
<1> HIDE DEF P
<1>6. 0 .. N \subseteq P
  BY <1>1, <1>4, <1>5, UpTo
<1>7. g[N] = f[N]
  BY <1>1, <1>6 DEF P
<1>8. N + 1 \in 1 .. N + 1 /\ (N + 1) - 1 = N
  BY <1>1
<1>9. g[N + 1] = g[N] + (IF N + 1 \in T THEN t[N + 1] ELSE 0)
  BY <1>3, <1>8
<1>10. SumAt(t, T) = SumAt(s, S) + (IF N + 1 \in T THEN e ELSE 0)
  BY <1>1, <1>2, <1>3, <1>7, <1>9
<1> QED
  BY <1>10 DEF N, t

-----------------------------------------------------------------------------
(* Sizes of sets of items.                                                   *)

ItemsOf(p) == [i \in DOMAIN p.items |-> p.items[i].size]

LEMMA ItemSizes ==
  ASSUME NEW p \in Payload
  PROVE  /\ ItemsOf(p) \in Seq(Nat) /\ Len(ItemsOf(p)) = Len(p.items)
         /\ Len(p.items) \in Nat /\ DOMAIN p.items = 1 .. Len(p.items)
         /\ \A i \in DOMAIN p.items :
              ItemsOf(p)[i] = p.items[i].size /\ p.items[i].size \in Nat \ {0}
              /\ p.items[i] \in Item
         /\ \A S : Size(p, S) = SumAt(ItemsOf(p), S)
<1>1. p.items \in Seq(Item)
  BY DEF Payload
<1>2. /\ Len(p.items) \in Nat /\ DOMAIN p.items = 1 .. Len(p.items)
      /\ \A i \in DOMAIN p.items : p.items[i] \in Item
  BY <1>1, LenProperties, ElementOfSeq
<1>3. \A i \in DOMAIN p.items : p.items[i].size \in Nat \ {0}
  BY <1>2 DEF Item
<1> DEFINE n == Len(p.items)
           f == ItemsOf(p)
<1>4. f = [i \in 1 .. n |-> f[i]] /\ \A i \in 1 .. n : f[i] = p.items[i].size
        /\ f[i] \in Nat
  BY <1>2, <1>3 DEF ItemsOf
<1>5. f \in Seq(Nat) /\ Len(f) = n
  <2> HIDE DEF n, f
  <2>1. n \in Nat
    BY <1>2 DEF n
  <2> QED
    BY <1>4, <2>1, MapTyped
<1> QED
  BY <1>2, <1>3, <1>4, <1>5 DEF Size, ItemsOf

LEMMA SizeNat ==
  ASSUME NEW p \in Payload, NEW S
  PROVE  Size(p, S) \in Nat
  BY ItemSizes, SumNat

LEMMA SizeMono ==
  ASSUME NEW p \in Payload, NEW S, NEW T, S \subseteq T
  PROVE  Size(p, S) <= Size(p, T)
  BY ItemSizes, SumMono

LEMMA SizeSplit ==
  ASSUME NEW p \in Payload, NEW S, NEW T, S \cap T = {}
  PROVE  Size(p, S \cup T) = Size(p, S) + Size(p, T)
<1> DEFINE f == ItemsOf(p)
<1>1. f \in Seq(Nat) /\ \A R : Size(p, R) = SumAt(f, R)
  BY ItemSizes
<1> HIDE DEF f
<1>2. SumAt(f, S \cup T) = SumAt(f, S) + SumAt(f, T)
  BY <1>1, SumSplit
<1> QED
  BY <1>1, <1>2

LEMMA SizeGrows ==
  ASSUME NEW p \in Payload, NEW S, NEW T, S \subseteq T,
         NEW k \in DOMAIN p.items, k \in T, k \notin S
  PROVE  Size(p, S) < Size(p, T)
<1> DEFINE f == ItemsOf(p)
<1>1. /\ f \in Seq(Nat) /\ k \in 1 .. Len(f) /\ f[k] \in Nat \ {0}
      /\ \A R : Size(p, R) = SumAt(f, R)
  BY ItemSizes
<1> HIDE DEF f
<1>2. SumAt(f, S) + f[k] <= SumAt(f, T)
  BY <1>1, SumGrows
<1>3. SumAt(f, S) \in Nat /\ SumAt(f, T) \in Nat
  BY <1>1, SumNat
<1> QED
  BY <1>1, <1>2, <1>3

LEMMA SizeNone ==
  ASSUME NEW p \in Payload
  PROVE  Size(p, {}) = 0
<1> DEFINE f == ItemsOf(p)
<1>1. f \in Seq(Nat) /\ \A R : Size(p, R) = SumAt(f, R)
  BY ItemSizes
<1> HIDE DEF f
<1> QED
  BY <1>1, SumNone

LEMMA SizeJoin ==
  ASSUME NEW p \in Payload, NEW S, NEW T
  PROVE  Size(p, S \cup T) <= Size(p, S) + Size(p, T)
<1>1. PICK R : R = T \ S
  OBVIOUS
<1>2. S \cap R = {} /\ S \cup R = S \cup T /\ R \subseteq T
  BY <1>1
<1>3. Size(p, S \cup R) = Size(p, S) + Size(p, R)
  BY <1>2, SizeSplit
<1>4. Size(p, S \cup T) = Size(p, S) + Size(p, R)
  BY <1>2, <1>3, Zenon
<1>5. Size(p, R) <= Size(p, T)
  BY <1>2, SizeMono
<1>6. Size(p, S) \in Nat /\ Size(p, R) \in Nat /\ Size(p, T) \in Nat
  BY SizeNat
<1> QED
  BY <1>4, <1>5, <1>6

LEMMA LesserGreater ==
  ASSUME NEW m \in Int, NEW n \in Int
  PROVE  /\ Lesser(m, n) \in {m, n} /\ Lesser(m, n) <= m /\ Lesser(m, n) <= n
         /\ Greater(m, n) \in {m, n} /\ m <= Greater(m, n) /\ n <= Greater(m, n)
  BY DEF Lesser, Greater

-----------------------------------------------------------------------------
(* The order of the items of a view.                                         *)

LEMMA MinOf ==
  ASSUME NEW S \in SUBSET Nat, S # {}
  PROVE  Min(S) \in S
<1>1. \E m \in S : \A n \in S : m =< n
  BY Least
<1> QED
  BY <1>1, Zenon DEF Min

LEMMA MaxOf ==
  ASSUME NEW S \in SUBSET Nat, NEW n \in Nat, S # {}, \A m \in S : m <= n
  PROVE  Max(S) \in S /\ \A m \in S : m <= Max(S)
<1> DEFINE T == {n - m : m \in S}
<1>0. \A m \in S : m \in Nat /\ n - m \in Nat
  OBVIOUS
<1>1. T \in SUBSET Nat /\ T # {}
  BY <1>0
<1> HIDE DEF T
<1>2. PICK t \in T : \A u \in T : t <= u
  BY <1>1, Least
<1>3. PICK x \in S : t = n - x
  BY <1>2 DEF T
<1>4. \A y \in S : x >= y
  <2>1. \A y \in S : n - y \in T
    BY DEF T
  <2>2. \A y \in S : n - x <= n - y
    BY <1>2, <1>3, <2>1
  <2> QED
    BY <1>0, <2>2
<1>5. Max(S) \in S /\ \A y \in S : Max(S) >= y
  BY <1>4, Zenon DEF Max
<1> QED
  BY <1>5

LEMMA CountOf ==
  ASSUME NEW n \in Nat, NEW S \in SUBSET (1 .. n)
  PROVE  IsFiniteSet(S) /\ Cardinality(S) \in Nat /\ Cardinality(S) <= n
<1>1. IsFiniteSet(1 .. n) /\ Cardinality(1 .. n) = n
  BY FS_Interval
<1> QED
  BY <1>1, FS_Subset, FS_CardinalityType

LEMMA Places ==
  ASSUME NEW p \in Payload, NEW i \in Evidence(p)
  PROVE  Rank(p, i) \in Nat /\ Queue(p, i) \in 0 .. Len(p.items)
<1>1. Len(p.items) \in Nat /\ DOMAIN p.items = 1 .. Len(p.items)
  BY ItemSizes
<1>2. \A j : SamePaper(p, j) \in SUBSET (1 .. Len(p.items))
  BY <1>1 DEF SamePaper, Evidence, OfPart
<1>3. Rank(p, i) \in Nat
  BY <1>1, <1>2, CountOf DEF Rank
<1>4. \A j : Place(p, j) \in 0 .. Len(p.items)
  BY <1>1, CountOf DEF Place, Evidence, OfPart
<1> DEFINE S == {Place(p, j) : j \in SamePaper(p, i)}
<1>5. S \in SUBSET (0 .. Len(p.items)) /\ S # {}
  BY <1>4 DEF SamePaper
<1> HIDE DEF S
<1>6. Min(S) \in S
  BY <1>5, MinOf
<1>7. Queue(p, i) = Min(S)
  BY DEF Queue, S
<1> QED
  BY <1>3, <1>5, <1>6, <1>7

(* Sets of items whose order is defined: those of one list are. *)
Ordered(p, S) ==
  /\ S \subseteq DOMAIN p.items
  /\ \/ S \subseteq Evidence(p)
     \/ \A i \in S : p.items[i].part # "evidence"
     \/ p.tool # "search_knowledge"

LEMMA OrderOf ==
  ASSUME NEW p \in Payload, NEW S, Ordered(p, S)
  PROVE  /\ \A i, j \in S : NotAfter(p, i, j) \/ NotAfter(p, j, i)
         /\ \A i, j, k \in S :
              NotAfter(p, i, j) /\ NotAfter(p, j, k) => NotAfter(p, i, k)
<1>1. CASE p.tool = "search_knowledge" /\ S \subseteq Evidence(p)
  <2>1. \A i \in S : /\ Rank(p, i) \in Nat /\ Queue(p, i) \in Nat
                     /\ p.items[i].part = "evidence"
    BY <1>1, Places DEF Evidence, OfPart
  <2> QED
    BY <1>1, <2>1 DEF NotAfter
<1>2. CASE \/ p.tool # "search_knowledge"
           \/ \A i \in S : p.items[i].part # "evidence"
  <2>1. \A i \in S : i \in Nat
    BY ItemSizes DEF Ordered
  <2>2. \A i, j \in S : NotAfter(p, i, j) <=> i <= j
    BY <1>2 DEF NotAfter
  <2> QED
    BY <2>1, <2>2
<1> QED
  BY <1>1, <1>2 DEF Ordered

-----------------------------------------------------------------------------
(* What fits.                                                                *)

LEMMA FittingFits ==
  ASSUME NEW p \in Payload, NEW S, Ordered(p, S), NEW budget \in Int
  PROVE  /\ Fitting(p, S, budget) \subseteq S
         /\ Size(p, Fitting(p, S, budget)) <= Greater(0, budget)
         /\ Size(p, S) <= budget => Fitting(p, S, budget) = S
<1> DEFINE Upto(i) == {j \in S : NotAfter(p, j, i)}
           F == Fitting(p, S, budget)
<1>1. \A i \in S : Size(p, Upto(i)) \in Nat /\ Size(p, Upto(i)) <= Size(p, S)
  <2>1. \A i \in S : Upto(i) \subseteq S
    OBVIOUS
  <2> HIDE DEF Upto
  <2> QED
    BY <2>1, SizeNat, SizeMono
<1>2. F \subseteq S /\ \A i \in S : i \in F <=> Size(p, Upto(i)) <= budget
  BY DEF Fitting
<1>3. ASSUME Size(p, S) <= budget PROVE F = S
  <2>1. Size(p, S) \in Nat
    BY SizeNat
  <2> HIDE DEF F, Upto
  <2> QED
    BY <1>1, <1>2, <1>3, <2>1
<1>4. Size(p, F) <= Greater(0, budget)
  <2>1. CASE F = {}
    <3>1. Size(p, F) = 0
      BY <2>1, SizeNone
    <3> QED
      BY <3>1, LesserGreater
  <2>2. CASE F # {}
    <3> DEFINE W == {budget - Size(p, Upto(i)) : i \in F}
    <3>1. W \in SUBSET Nat /\ W # {}
      <4> HIDE DEF F, Upto
      <4> QED
        BY <1>1, <1>2, <2>2
    <3>2. PICK w \in W : \A u \in W : w <= u
      <4> HIDE DEF W
      <4> QED
        BY <3>1, Least
    <3>3. PICK i \in F : w = budget - Size(p, Upto(i))
      BY <3>2
    <3>4. \A j \in F : Size(p, Upto(j)) <= Size(p, Upto(i))
      <4> HIDE DEF F, Upto
      <4> QED
        BY <1>1, <1>2, <3>2, <3>3
    <3>5. ASSUME NEW j \in F, j \notin Upto(i) PROVE FALSE
      <4>1. i \in S /\ j \in S /\ S \subseteq DOMAIN p.items
        BY <1>2 DEF Ordered
      <4>2. /\ \A x, y \in S : NotAfter(p, x, y) \/ NotAfter(p, y, x)
            /\ \A x, y, z \in S :
                 NotAfter(p, x, y) /\ NotAfter(p, y, z) => NotAfter(p, x, z)
        BY OrderOf
      <4>3. NotAfter(p, i, j) /\ NotAfter(p, j, j)
        BY <3>5, <4>1, <4>2
      <4>4. Upto(i) \subseteq Upto(j) /\ j \in Upto(j)
        BY <4>1, <4>2, <4>3
      <4> HIDE DEF Upto, F
      <4>5. Size(p, Upto(i)) < Size(p, Upto(j))
        BY <3>5, <4>1, <4>4, SizeGrows
      <4> QED
        BY <1>1, <3>4, <4>1, <4>5
    <3>6. F \subseteq Upto(i)
      BY <3>5
    <3> HIDE DEF F, Upto
    <3>7. Size(p, F) <= Size(p, Upto(i)) /\ Size(p, F) \in Nat
      BY <3>6, SizeMono, SizeNat
    <3>8. Size(p, Upto(i)) <= budget /\ Size(p, Upto(i)) \in Nat
      BY <1>1, <1>2
    <3> QED
      BY <3>7, <3>8, LesserGreater
  <2> QED
    BY <2>1, <2>2
<1> QED
  BY <1>2, <1>3, <1>4

(* f[n] is what Filled shows of the first n lists. *)
FilledSteps(p, S, parts, budget, used, f) ==
  f = [n \in 0 .. Len(parts) |->
        IF n = 0 THEN {}
        ELSE LET before == f[n - 1]
             IN  before \cup Fitting(p, OfPart(p, S, parts[n]),
                                    budget - used - Size(p, before))]

FilledUpTo(p, S, parts, budget, used, f) ==
  /\ Filled(p, S, parts, budget, used) = f[Len(parts)]
  /\ f[0] = {}
  /\ \A n \in 0 .. Len(parts) : f[n] \subseteq S
  /\ \A n \in 1 .. Len(parts) :
       f[n] = f[n - 1] \cup Fitting(p, OfPart(p, S, parts[n]),
                                    budget - used - Size(p, f[n - 1]))

LEMMA FilledIs ==
  ASSUME NEW p, NEW S, NEW parts \in Seq(Part), NEW budget, NEW used
  PROVE  \E f : FilledUpTo(p, S, parts, budget, used, f)
<1> DEFINE N == Len(parts)
           More(n, x) == x \cup Fitting(p, OfPart(p, S, parts[n]),
                                        budget - used - Size(p, x))
           F == [n \in 1 .. N |-> [x \in SUBSET S |-> More(n, x)]]
           h == CHOOSE f : FilledSteps(p, S, parts, budget, used, f)
<1>1. N \in Nat
  BY LenProperties
<1>2. \A n \in 1 .. N, x \in SUBSET S : F[n][x] = More(n, x) /\ F[n][x] \in SUBSET S
  BY DEF Fitting, OfPart
<1> HIDE DEF N
<1>3. PICK f : Steps({}, N, F, f)
  <2> HIDE DEF F
  <2> QED
    BY <1>1, StepsExist, Zenon
<1>4. \A n \in 0 .. N : f[n] \in SUBSET S
  <2> HIDE DEF F, More
  <2>1. {} \in SUBSET S
    OBVIOUS
  <2> QED
    BY <1>1, <1>2, <1>3, <2>1, StepsTyped
<1>5. \A n \in 0 .. N : f[n] = IF n = 0 THEN {} ELSE More(n, f[n - 1])
  <2>1. ASSUME NEW n \in 0 .. N PROVE f[n] = IF n = 0 THEN {} ELSE More(n, f[n - 1])
    <3> HIDE DEF F, More
    <3>1. f[n] = IF n = 0 THEN {} ELSE F[n][f[n - 1]]
      BY <1>3, Zenon DEF Steps
    <3>2. n # 0 => n \in 1 .. N /\ f[n - 1] \in SUBSET S
      BY <1>1, <1>4
    <3> QED
      BY <1>2, <3>1, <3>2
  <2> HIDE DEF More
  <2> QED
    BY <2>1
<1>6. FilledSteps(p, S, parts, budget, used, f)
  <2>1. f = [n \in 0 .. N |-> f[n]]
    BY <1>3 DEF Steps
  <2> QED
    BY <1>5, <2>1, Zenon DEF FilledSteps, N
<1>7. FilledSteps(p, S, parts, budget, used, h)
  BY <1>6
<1>8. Filled(p, S, parts, budget, used) = h[N]
  BY Zenon DEF Filled, FilledSteps, N
<1> HIDE DEF h, F
<1>9. \A n \in 0 .. N : h[n] = IF n = 0 THEN {} ELSE More(n, h[n - 1])
  BY <1>7, Zenon DEF FilledSteps, N
<1>10. h[0] = {} /\ \A n \in 1 .. N : h[n] = More(n, h[n - 1])
  <2> HIDE DEF More
  <2> QED
    BY <1>1, <1>9
<1>11. \A n \in 0 .. N : h[n] \subseteq S
  <2> DEFINE P == {n \in Nat : h[n] \subseteq S}
  <2>1. 0 \in P
    BY <1>10
  <2>2. ASSUME NEW m \in Nat, m < N, m \in P PROVE m + 1 \in P
    <3>1. m + 1 \in 1 .. N /\ (m + 1) - 1 = m /\ h[m] \in SUBSET S
      BY <1>1, <2>2
    <3>2. h[m + 1] = More(m + 1, h[m])
      <4> HIDE DEF More
      <4> QED
        BY <1>10, <3>1
    <3>3. More(m + 1, h[m]) \subseteq S
      BY <3>1 DEF Fitting, OfPart
    <3> HIDE DEF More
    <3> QED
      BY <3>2, <3>3
  <2> HIDE DEF P
  <2>3. 0 .. N \subseteq P
    BY <1>1, <2>1, <2>2, UpTo
  <2> QED
    BY <2>3 DEF P
<1> QED
  BY <1>8, <1>10, <1>11 DEF N, FilledUpTo

LEMMA OrderedPart ==
  ASSUME NEW p, NEW S \in SUBSET DOMAIN p.items, NEW part
  PROVE  Ordered(p, OfPart(p, S, part)) /\ OfPart(p, S, part) \subseteq S
  BY DEF Ordered, OfPart, Evidence

(* What fits under a budget does not exceed it, unless what was used already  *)
(* does.                                                                     *)
LEMMA FilledBounded ==
  ASSUME NEW p \in Payload, NEW S \in SUBSET DOMAIN p.items, NEW parts \in Seq(Part),
         NEW budget \in Nat, NEW used \in Nat
  PROVE  /\ Filled(p, S, parts, budget, used) \subseteq S
         /\ used + Size(p, Filled(p, S, parts, budget, used)) <= Greater(used, budget)
<1> DEFINE N == Len(parts)
           G == Greater(used, budget)
<1>1. PICK f : FilledUpTo(p, S, parts, budget, used, f)
  BY FilledIs
<1>2. /\ Filled(p, S, parts, budget, used) = f[N] /\ f[0] = {}
      /\ \A n \in 0 .. N : f[n] \subseteq S
      /\ \A n \in 1 .. N :
           f[n] = f[n - 1] \cup Fitting(p, OfPart(p, S, parts[n]),
                                        budget - used - Size(p, f[n - 1]))
  BY <1>1 DEF FilledUpTo
<1>3. N \in Nat /\ G \in Nat /\ used <= G /\ budget <= G /\ G \in {used, budget}
  BY LenProperties, LesserGreater
<1> HIDE DEF G, N
<1> DEFINE P == {n \in Nat : used + Size(p, f[n]) <= G}
<1>4. 0 \in P
  <2>1. Size(p, f[0]) = 0
    BY <1>2, SizeNone
  <2> QED
    BY <1>3, <2>1
<1>5. ASSUME NEW m \in Nat, m < N, m \in P PROVE m + 1 \in P
  <2>1. PICK T, b : T = OfPart(p, S, parts[m + 1]) /\ b = budget - used - Size(p, f[m])
    OBVIOUS
  <2>2. f[m + 1] = f[m] \cup Fitting(p, T, b)
    <3>1. m + 1 \in 1 .. N /\ (m + 1) - 1 = m
      BY <1>3, <1>5
    <3> QED
      BY <1>2, <2>1, <3>1, Zenon
  <2>3. Ordered(p, T)
    BY <2>1, OrderedPart
  <2>4. Size(p, f[m]) \in Nat /\ used + Size(p, f[m]) <= G
    BY <1>5, SizeNat
  <2>5. b \in Int
    BY <2>1, <2>4
  <2>6. Size(p, Fitting(p, T, b)) <= Greater(0, b) /\ Size(p, Fitting(p, T, b)) \in Nat
    BY <2>3, <2>5, FittingFits, SizeNat
  <2>7. Size(p, f[m + 1]) <= Size(p, f[m]) + Size(p, Fitting(p, T, b))
    <3>1. Size(p, f[m] \cup Fitting(p, T, b))
            <= Size(p, f[m]) + Size(p, Fitting(p, T, b))
      BY SizeJoin
    <3> QED
      BY <2>2, <3>1, Zenon
  <2>8. Size(p, f[m + 1]) \in Nat /\ Greater(0, b) \in {0, b} /\ Greater(0, b) \in Int
    BY <2>5, SizeNat, LesserGreater
  <2>9. used + Size(p, f[m + 1]) <= G
    <3> HIDE DEF P
    <3> QED
      BY <1>3, <2>1, <2>4, <2>5, <2>6, <2>7, <2>8, SMTT(30)
  <2> QED
    BY <2>9
<1> HIDE DEF P
<1>6. 0 .. N \subseteq P
  BY <1>3, <1>4, <1>5, UpTo
<1>7. used + Size(p, f[N]) <= G
  BY <1>3, <1>6 DEF P
<1>8. N \in 0 .. N
  BY <1>3
<1> QED
  BY <1>2, <1>7, <1>8 DEF G

(* The items of S that come before item i, list by list, and i itself. *)
InTurn(p, S, parts, i) ==
  {j \in S :
     \/ \E m, n \in 1 .. Len(parts) :
          m < n /\ parts[m] = p.items[j].part /\ parts[n] = p.items[i].part
     \/ p.items[j].part = p.items[i].part /\ NotAfter(p, j, i)}

(* What is left out does not fit with what comes before it. *)
LEMMA FilledDrops ==
  ASSUME NEW p \in Payload, NEW S \in SUBSET DOMAIN p.items, NEW parts \in Seq(Part),
         \A m, n \in 1 .. Len(parts) : m # n => parts[m] # parts[n],
         NEW budget \in Nat, NEW used \in Nat,
         NEW i \in S, NEW k \in 1 .. Len(parts), p.items[i].part = parts[k],
         i \notin Filled(p, S, parts, budget, used)
  PROVE  used + Size(p, InTurn(p, S, parts, i)) > budget
<1> DEFINE N == Len(parts)
           Of(n) == OfPart(p, S, parts[n])
           Upto == {j \in Of(k) : NotAfter(p, j, i)}
<1>1. PICK f : FilledUpTo(p, S, parts, budget, used, f)
  BY FilledIs
<1>2. /\ Filled(p, S, parts, budget, used) = f[N] /\ f[0] = {}
      /\ \A n \in 1 .. N :
           f[n] = f[n - 1] \cup Fitting(p, Of(n), budget - used - Size(p, f[n - 1]))
  BY <1>1 DEF FilledUpTo
<1>3. N \in Nat /\ k \in 1 .. N /\ i \in Of(k)
  BY LenProperties DEF OfPart
<1>4. \A n \in 1 .. N : \A T, b : T = Of(n) =>
        Fitting(p, T, b) \subseteq {j \in S : p.items[j].part = parts[n]}
  BY DEF Fitting, OfPart
<1> HIDE DEF N
(* What the first lists show is of those lists, and is shown to the end. *)
<1> DEFINE P == {n \in Nat : \A j \in f[n] : /\ j \in S
                                            /\ \E m \in 1 .. n : parts[m] = p.items[j].part}
<1>5. \A n \in 0 .. N : n \in P
  <2>1. 0 \in P
    BY <1>2
  <2>2. ASSUME NEW m \in Nat, m < N, m \in P PROVE m + 1 \in P
    <3>1. m + 1 \in 1 .. N /\ (m + 1) - 1 = m
      BY <1>3, <2>2
    <3>2. PICK T, b : T = Of(m + 1) /\ b = budget - used - Size(p, f[m])
      OBVIOUS
    <3>3. f[m + 1] = f[m] \cup Fitting(p, T, b)
      <4> HIDE DEF Of, P
      <4> QED
        BY <1>2, <3>1, <3>2, ZenonT(30)
    <3>4. Fitting(p, T, b) \subseteq {j \in S : p.items[j].part = parts[m + 1]}
      <4> HIDE DEF Of, P
      <4> QED
        BY <1>4, <3>1, <3>2
    <3>5. \A j \in f[m] : /\ j \in S
                          /\ \E n \in 1 .. m : parts[n] = p.items[j].part
      BY <2>2
    <3>6. ASSUME NEW j \in f[m + 1]
          PROVE  j \in S /\ \E n \in 1 .. m + 1 : parts[n] = p.items[j].part
      <4>1. CASE j \in f[m]
        BY <3>5, <4>1
      <4>2. CASE j \in Fitting(p, T, b)
        <5>1. m + 1 \in 1 .. m + 1
          OBVIOUS
        <5> QED
          BY <3>4, <4>2, <5>1
      <4> QED
        BY <3>3, <3>6, <4>1, <4>2
    <3> QED
      BY <3>6
  <2> HIDE DEF P
  <2>3. 0 .. N \subseteq P
    BY <1>3, <2>1, <2>2, UpTo
  <2> QED
    BY <2>3
<1> DEFINE Q == {n \in Nat : k + n <= N => i \notin f[N - n]}
<1>6. i \notin f[k]
  <2>1. 0 \in Q
    <3>1. N - 0 = N
      BY <1>3
    <3> QED
      BY <1>2, <3>1 DEF N
  <2>2. ASSUME NEW m \in Nat, m < N - k, m \in Q PROVE m + 1 \in Q
    <3>1. N - m \in 1 .. N /\ (N - m) - 1 = N - (m + 1) /\ k + m <= N
      BY <1>3, <2>2
    <3>2. f[(N - m) - 1] \subseteq f[N - m]
      <4> HIDE DEF Of
      <4> QED
        BY <1>2, <3>1
    <3>3. i \notin f[N - m]
      BY <2>2, <3>1
    <3>4. i \notin f[(N - m) - 1]
      BY <3>2, <3>3
    <3>5. i \notin f[N - (m + 1)]
      BY <3>1, <3>4
    <3> QED
      BY <3>5
  <2>3. N - k \in Nat
    BY <1>3
  <2> HIDE DEF Q
  <2>4. 0 .. N - k \subseteq Q
    BY <2>1, <2>2, <2>3, UpTo
  <2>5. N - k \in Q
    BY <2>3, <2>4
  <2>6. k + (N - k) <= N /\ N - (N - k) = k
    BY <1>3
  <2> QED
    BY <2>5, <2>6 DEF Q
<1>7. PICK before : before = f[k - 1]
  OBVIOUS
<1>8. i \notin Fitting(p, Of(k), budget - used - Size(p, before))
  <2> HIDE DEF Of
  <2> QED
    BY <1>2, <1>3, <1>6, <1>7
<1>9. Size(p, Upto) > budget - used - Size(p, before)
  <2>1. PICK T, b : T = Of(k) /\ b = budget - used - Size(p, before)
    OBVIOUS
  <2>2. ~ (Size(p, {j \in T : NotAfter(p, j, i)}) <= b)
    BY <1>3, <1>8, <2>1 DEF Fitting
  <2>3. PICK U : U = {j \in T : NotAfter(p, j, i)}
    OBVIOUS
  <2>4. U = Upto
    BY <2>1, <2>3
  <2>5. Size(p, U) \in Nat /\ Size(p, before) \in Nat
    BY SizeNat
  <2>6. b \in Int
    BY <2>1, <2>5
  <2>7. Size(p, U) > b
    BY <2>2, <2>3, <2>5, <2>6
  <2> QED
    BY <2>1, <2>4, <2>7
<1>10. /\ k - 1 \in Nat /\ k - 1 \in 0 .. N
       /\ \A j \in before : /\ j \in S
                             /\ \E m \in 1 .. k - 1 : parts[m] = p.items[j].part
  <2>1. k - 1 \in 0 .. N
    BY <1>3
  <2>2. k - 1 \in P
    BY <1>5, <2>1
  <2> QED
    BY <1>7, <2>1, <2>2
<1>11. before \cap Upto = {} /\ before \cup Upto \subseteq InTurn(p, S, parts, i)
  <2>1. \A m \in 1 .. k - 1 : m \in 1 .. N /\ m < k /\ parts[m] # parts[k]
    BY <1>3 DEF N
  <2>2. \A j \in Upto : /\ j \in S /\ p.items[j].part = parts[k] /\ NotAfter(p, j, i)
    BY DEF OfPart
  <2>3. \A j \in before : /\ j \in S /\ p.items[j].part # parts[k]
                          /\ \E m \in 1 .. N : m < k /\ parts[m] = p.items[j].part
    BY <1>10, <2>1
  <2> HIDE DEF Upto
  <2>4. before \cap Upto = {}
    BY <2>2, <2>3
  <2>5. \A j \in Upto : j \in InTurn(p, S, parts, i)
    BY <2>2 DEF InTurn
  <2>6. \A j \in before : j \in InTurn(p, S, parts, i)
    BY <1>3, <2>3 DEF InTurn, N
  <2> QED
    BY <2>4, <2>5, <2>6
<1> HIDE DEF Upto
<1>12. PICK U, V : U = Upto /\ V = InTurn(p, S, parts, i)
  OBVIOUS
<1>13. Size(p, before \cup U) = Size(p, before) + Size(p, U)
  BY <1>11, <1>12, SizeSplit
<1>14. PICK W : W = before \cup U
  OBVIOUS
<1>15. Size(p, W) <= Size(p, V)
  BY <1>11, <1>12, <1>14, SizeMono
<1>16. /\ Size(p, before) \in Nat /\ Size(p, U) \in Nat /\ Size(p, W) \in Nat
       /\ Size(p, V) \in Nat
  BY SizeNat
<1>17. Size(p, U) > budget - used - Size(p, before)
         /\ Size(p, W) = Size(p, before) + Size(p, U)
  BY <1>9, <1>12, <1>13, <1>14
<1>18. used + Size(p, V) > budget
  BY <1>15, <1>16, <1>17
<1> QED
  BY <1>12, <1>18

(* When everything fits, nothing of the lists that are shown is left out. *)
LEMMA FilledWhole ==
  ASSUME NEW p \in Payload, NEW S \in SUBSET DOMAIN p.items, NEW parts \in Seq(Part),
         \A m, n \in 1 .. Len(parts) : m # n => parts[m] # parts[n],
         NEW budget \in Nat, NEW used \in Nat, used + Size(p, S) <= budget,
         NEW i \in S, NEW k \in 1 .. Len(parts), p.items[i].part = parts[k]
  PROVE  i \in Filled(p, S, parts, budget, used)
<1> SUFFICES ASSUME i \notin Filled(p, S, parts, budget, used) PROVE FALSE
  OBVIOUS
<1>1. PICK T : T = InTurn(p, S, parts, i)
  OBVIOUS
<1>2. used + Size(p, T) > budget
  BY <1>1, FilledDrops
<1>3. T \subseteq S
  BY <1>1 DEF InTurn
<1>4. Size(p, T) <= Size(p, S) /\ Size(p, T) \in Nat /\ Size(p, S) \in Nat
  BY <1>3, SizeMono, SizeNat
<1> QED
  BY <1>2, <1>4

(* A round adds evidence only; if all of it fits, every queue's next. *)
RoundSteps(p, chosen, rank, budget, f) ==
  f = [n \in 0 .. Len(p.items) |->
        LET before == IF n = 0 THEN chosen ELSE f[n - 1]
        IN  before \cup {i \in Evidence(p) :
              /\ Rank(p, i) = rank /\ Queue(p, i) = n
              /\ Size(p, before \cup {i}) <= budget}]

LEMMA RoundIs ==
  ASSUME NEW p \in Payload, NEW chosen \in SUBSET Evidence(p), NEW rank,
         NEW budget \in Int
  PROVE  /\ Round(p, chosen, rank, budget) \in SUBSET Evidence(p)
         /\ chosen \subseteq Round(p, chosen, rank, budget)
         /\ Size(p, Evidence(p)) <= budget =>
              {i \in Evidence(p) : Rank(p, i) = rank}
                \subseteq Round(p, chosen, rank, budget)
<1> DEFINE N == Len(p.items)
           More(n, x) == x \cup {i \in Evidence(p) :
                                   /\ Rank(p, i) = rank /\ Queue(p, i) = n
                                   /\ Size(p, x \cup {i}) <= budget}
           F == [n \in 1 .. N |-> [x \in SUBSET Evidence(p) |-> More(n, x)]]
           a == More(0, chosen)
           h == CHOOSE f : RoundSteps(p, chosen, rank, budget, f)
<1>1. N \in Nat
  BY ItemSizes
<1>2. \A n \in 1 .. N, x \in SUBSET Evidence(p) :
        F[n][x] = More(n, x) /\ F[n][x] \in SUBSET Evidence(p)
  OBVIOUS
<1>3. a \in SUBSET Evidence(p)
  OBVIOUS
<1> HIDE DEF N, F, a
<1>4. PICK f : Steps(a, N, F, f)
  BY <1>1, StepsExist, Zenon
<1>5. \A n \in 0 .. N : f[n] \in SUBSET Evidence(p)
  <2> HIDE DEF More
  <2> QED
    BY <1>1, <1>2, <1>3, <1>4, StepsTyped
<1>6. \A n \in 0 .. N : f[n] = IF n = 0 THEN a ELSE More(n, f[n - 1])
  <2>1. ASSUME NEW n \in 0 .. N PROVE f[n] = IF n = 0 THEN a ELSE More(n, f[n - 1])
    <3> HIDE DEF More
    <3>1. f[n] = IF n = 0 THEN a ELSE F[n][f[n - 1]]
      BY <1>4, Zenon DEF Steps
    <3>2. n # 0 => n \in 1 .. N /\ f[n - 1] \in SUBSET Evidence(p)
      BY <1>1, <1>5
    <3> QED
      BY <1>2, <3>1, <3>2
  <2> HIDE DEF More
  <2> QED
    BY <2>1
<1>7. \A n \in 0 .. N : f[n] = LET before == IF n = 0 THEN chosen ELSE f[n - 1]
                               IN  More(n, before)
  <2> HIDE DEF More
  <2> QED
    BY <1>6 DEF a
<1>8. RoundSteps(p, chosen, rank, budget, f)
  <2>1. f = [n \in 0 .. N |-> f[n]]
    BY <1>4 DEF Steps
  <2> QED
    BY <1>7, <2>1, Zenon DEF RoundSteps, N
<1>9. RoundSteps(p, chosen, rank, budget, h)
  BY <1>8
<1>10. Round(p, chosen, rank, budget) = h[N]
  BY Zenon DEF Round, RoundSteps, N
<1> HIDE DEF h
<1>11. \A n \in 0 .. N : h[n] = LET before == IF n = 0 THEN chosen ELSE h[n - 1]
                                IN  More(n, before)
  BY <1>9, Zenon DEF RoundSteps, N
<1>12. h[0] = More(0, chosen) /\ \A n \in 1 .. N : h[n] = More(n, h[n - 1])
  <2> HIDE DEF More
  <2> QED
    BY <1>1, <1>11
<1>13. ASSUME NEW n \in Nat, NEW x \in SUBSET Evidence(p)
       PROVE  /\ More(n, x) \in SUBSET Evidence(p) /\ x \subseteq More(n, x)
              /\ Size(p, Evidence(p)) <= budget =>
                   \A i \in Evidence(p) :
                     Rank(p, i) = rank /\ Queue(p, i) = n => i \in More(n, x)
  <2>1. ASSUME Size(p, Evidence(p)) <= budget, NEW i \in Evidence(p)
        PROVE  Size(p, x \cup {i}) <= budget
    <3>1. PICK T : T = x \cup {i}
      OBVIOUS
    <3>2. Size(p, T) <= Size(p, Evidence(p))
      BY <3>1, SizeMono
    <3>3. Size(p, T) \in Nat /\ Size(p, Evidence(p)) \in Nat
      BY SizeNat
    <3>4. Size(p, T) <= budget
      BY <2>1, <3>2, <3>3
    <3> QED
      BY <3>1, <3>4
  <2> QED
    BY <2>1
<1> HIDE DEF More
<1> DEFINE P == {n \in Nat : /\ h[n] \in SUBSET Evidence(p) /\ chosen \subseteq h[n]
                             /\ Size(p, Evidence(p)) <= budget =>
                                  \A i \in Evidence(p) :
                                    Rank(p, i) = rank /\ Queue(p, i) \in 0 .. n
                                      => i \in h[n]}
<1>14. 0 \in P
  <2>1. \A i : Queue(p, i) \in 0 .. 0 => Queue(p, i) = 0
    OBVIOUS
  <2>2. 0 \in Nat
    OBVIOUS
  <2> QED
    BY <1>12, <1>13, <2>1, <2>2
<1>15. ASSUME NEW m \in Nat, m < N, m \in P PROVE m + 1 \in P
  <2>1. m + 1 \in 1 .. N /\ (m + 1) - 1 = m /\ m + 1 \in Nat
    BY <1>1, <1>15
  <2>2. h[m + 1] = More(m + 1, h[m]) /\ h[m] \in SUBSET Evidence(p)
          /\ chosen \subseteq h[m]
    BY <1>12, <1>15, <2>1
  <2>3. /\ h[m + 1] \in SUBSET Evidence(p) /\ h[m] \subseteq h[m + 1]
        /\ Size(p, Evidence(p)) <= budget =>
             \A i \in Evidence(p) :
               Rank(p, i) = rank /\ Queue(p, i) = m + 1 => i \in h[m + 1]
    BY <1>13, <2>1, <2>2
  <2>4. \A i : Queue(p, i) \in 0 .. m + 1
          => Queue(p, i) = m + 1 \/ Queue(p, i) \in 0 .. m
    OBVIOUS
  <2>5. Size(p, Evidence(p)) <= budget =>
          \A i \in Evidence(p) :
            Rank(p, i) = rank /\ Queue(p, i) \in 0 .. m => i \in h[m]
    BY <1>15
  <2>6. Size(p, Evidence(p)) <= budget =>
          \A i \in Evidence(p) :
            Rank(p, i) = rank /\ Queue(p, i) \in 0 .. m + 1 => i \in h[m + 1]
    BY <2>3, <2>4, <2>5
  <2>7. chosen \subseteq h[m + 1]
    BY <2>2, <2>3
  <2> QED
    BY <2>1, <2>3, <2>6, <2>7
<1> HIDE DEF P
<1>16. 0 .. N \subseteq P
  BY <1>1, <1>14, <1>15, UpTo
<1>17. /\ h[N] \in SUBSET Evidence(p) /\ chosen \subseteq h[N]
       /\ Size(p, Evidence(p)) <= budget =>
            \A i \in Evidence(p) :
              Rank(p, i) = rank /\ Queue(p, i) \in 0 .. N => i \in h[N]
  BY <1>1, <1>16 DEF P
<1>18. \A i \in Evidence(p) : Queue(p, i) \in 0 .. N
  BY Places DEF N
<1> QED
  BY <1>10, <1>17, <1>18

SelectSteps(p, budget, f) ==
  f = [n \in 0 .. PerPaper |->
        IF n = 0 THEN {} ELSE Round(p, f[n - 1], n - 1, budget)]

LEMMA SelectBalancedIs ==
  ASSUME NEW p \in Payload, NEW budget \in Int
  PROVE  /\ SelectBalanced(p, budget) \subseteq Evidence(p)
         /\ Size(p, Evidence(p)) <= budget =>
              \A i \in Evidence(p) : Rank(p, i) < PerPaper
                   => i \in SelectBalanced(p, budget)
<1> DEFINE N == PerPaper
           F == [n \in 1 .. N |-> [x \in SUBSET Evidence(p) |-> Round(p, x, n - 1, budget)]]
           h == CHOOSE f : SelectSteps(p, budget, f)
<1>1. N \in Nat
  BY BudgetsAssumption
<1>2. \A n, x : x \in SUBSET Evidence(p) =>
        /\ Round(p, x, n, budget) \in SUBSET Evidence(p)
        /\ x \subseteq Round(p, x, n, budget)
        /\ Size(p, Evidence(p)) <= budget =>
             {i \in Evidence(p) : Rank(p, i) = n} \subseteq Round(p, x, n, budget)
  BY RoundIs
<1>3. \A n \in 1 .. N, x \in SUBSET Evidence(p) :
        F[n][x] = Round(p, x, n - 1, budget) /\ F[n][x] \in SUBSET Evidence(p)
  BY <1>2
<1> HIDE DEF N, F
<1>4. PICK f : Steps({}, N, F, f)
  BY <1>1, StepsExist, Zenon
<1>5. \A n \in 0 .. N : f[n] \in SUBSET Evidence(p)
  <2>1. {} \in SUBSET Evidence(p)
    OBVIOUS
  <2> QED
    BY <1>1, <1>3, <1>4, <2>1, StepsTyped
<1>6. \A n \in 0 .. N : f[n] = IF n = 0 THEN {} ELSE Round(p, f[n - 1], n - 1, budget)
  <2>1. ASSUME NEW n \in 0 .. N
        PROVE  f[n] = IF n = 0 THEN {} ELSE Round(p, f[n - 1], n - 1, budget)
    <3>1. f[n] = IF n = 0 THEN {} ELSE F[n][f[n - 1]]
      BY <1>4, Zenon DEF Steps
    <3>2. n # 0 => n \in 1 .. N /\ f[n - 1] \in SUBSET Evidence(p)
      BY <1>1, <1>5
    <3> QED
      BY <1>3, <3>1, <3>2
  <2> QED
    BY <2>1
<1>7. SelectSteps(p, budget, f)
  <2>1. f = [n \in 0 .. N |-> f[n]]
    BY <1>4 DEF Steps
  <2> QED
    BY <1>6, <2>1, Zenon DEF SelectSteps, N
<1>8. SelectSteps(p, budget, h)
  BY <1>7
<1>9. SelectBalanced(p, budget) = h[N]
  BY Zenon DEF SelectBalanced, SelectSteps, N
<1> HIDE DEF h
<1>10. \A n \in 0 .. N : h[n] = IF n = 0 THEN {} ELSE Round(p, h[n - 1], n - 1, budget)
  BY <1>8, Zenon DEF SelectSteps, N
<1>11. h[0] = {} /\ \A n \in 1 .. N : h[n] = Round(p, h[n - 1], n - 1, budget)
  BY <1>1, <1>10
<1> DEFINE P == {n \in Nat : /\ h[n] \in SUBSET Evidence(p)
                             /\ Size(p, Evidence(p)) <= budget =>
                                  \A i \in Evidence(p) : Rank(p, i) < n => i \in h[n]}
<1>12. \A i \in Evidence(p) : Rank(p, i) \in Nat
  BY Places
<1>13. 0 \in P
  BY <1>11, <1>12
<1>14. ASSUME NEW m \in Nat, m < N, m \in P PROVE m + 1 \in P
  <2>1. m + 1 \in 1 .. N /\ (m + 1) - 1 = m /\ m + 1 \in Nat
    BY <1>1, <1>14
  <2>2. h[m + 1] = Round(p, h[m], m, budget) /\ h[m] \in SUBSET Evidence(p)
    BY <1>11, <1>14, <2>1
  <2>3. /\ h[m + 1] \in SUBSET Evidence(p) /\ h[m] \subseteq h[m + 1]
        /\ Size(p, Evidence(p)) <= budget =>
             {i \in Evidence(p) : Rank(p, i) = m} \subseteq h[m + 1]
    BY <1>2, <2>2
  <2>4. \A i \in Evidence(p) : Rank(p, i) < m + 1 => Rank(p, i) = m \/ Rank(p, i) < m
    BY <1>12
  <2>5. Size(p, Evidence(p)) <= budget => \A i \in Evidence(p) : Rank(p, i) < m
          => i \in h[m]
    BY <1>14
  <2>6. Size(p, Evidence(p)) <= budget =>
          \A i \in Evidence(p) : Rank(p, i) < m + 1 => i \in h[m + 1]
    BY <2>3, <2>4, <2>5
  <2> QED
    BY <2>1, <2>3, <2>6
<1> HIDE DEF P
<1>15. 0 .. N \subseteq P
  BY <1>1, <1>13, <1>14, UpTo
<1>16. /\ h[N] \in SUBSET Evidence(p)
       /\ Size(p, Evidence(p)) <= budget =>
            \A i \in Evidence(p) : Rank(p, i) < N => i \in h[N]
  BY <1>1, <1>15 DEF P
<1> QED
  BY <1>9, <1>16 DEF N

-----------------------------------------------------------------------------
(* The compact views.                                                        *)

(* A view that is made of lists. *)
Listing(p) ==
  p.tool \notin {"search_knowledge", "retrieve_and_analyze_knowledge", "read_artifact"}

LEMMA ShownLists ==
  ASSUME NEW p \in Payload, Listing(p)
  PROVE  /\ Shown[p.tool] \in Seq(Part)
         /\ \A m, n \in 1 .. Len(Shown[p.tool]) : m # n
              => Shown[p.tool][m] # Shown[p.tool][n]
         /\ p.tool \notin {"worker_result", "other"} =>
              \A part \in PartsOf[p.tool] :
                \/ \E k \in 1 .. Len(Shown[p.tool]) : Shown[p.tool][k] = part
                \/ <<p.tool, part>> \in TakenShort
                \/ p.tool = "compare_papers" /\ part \in {"cells", "evidence"}
                \/ p.tool = "collect_research_task" /\ part = "citations"
<1>1. p.tool \in DOMAIN Shown
  BY DEF Listing, Payload, Tool, PartsOf, Shown
<1>2. CASE p.tool = "read_paper"
  <2>1. Shown[p.tool] = <<"passages", "elements">>
          /\ PartsOf[p.tool] = {"passages", "elements"}
    BY <1>2 DEF Shown, PartsOf
  <2> QED
    BY <1>2, <2>1 DEF Part
<1>3. CASE p.tool = "compare_papers"
  <2>1. /\ Shown[p.tool] = <<"dimensions">>
        /\ PartsOf[p.tool] = {"dimensions", "cells", "evidence"}
    BY <1>3 DEF Shown, PartsOf
  <2> QED
    BY <1>3, <2>1 DEF Part
<1>4. CASE p.tool = "search_artifact"
  <2>1. Shown[p.tool] = <<"results">> /\ PartsOf[p.tool] = {"results"}
    BY <1>4 DEF Shown, PartsOf
  <2> QED
    BY <1>4, <2>1 DEF Part
<1>5. CASE p.tool = "collect_research_task"
  <2>1. /\ Shown[p.tool] = <<"refs", "failed">>
        /\ PartsOf[p.tool] = {"refs", "failed", "citations", "questions"}
    BY <1>5 DEF Shown, PartsOf
  <2>2. <<p.tool, "questions">> \in TakenShort
    BY <1>5 DEF TakenShort
  <2> QED
    BY <1>5, <2>1, <2>2 DEF Part
<1>6. CASE p.tool \in {"worker_result", "delegate_research", "other"}
  <2>1. /\ Shown[p.tool] = <<>>
        /\ PartsOf["delegate_research"] = {"units", "workers"}
    BY <1>6 DEF Shown, PartsOf
  <2>2. /\ <<"delegate_research", "units">> \in TakenShort
        /\ <<"delegate_research", "workers">> \in TakenShort
    BY DEF TakenShort
  <2> QED
    BY <1>6, <2>1, <2>2
<1> QED
  BY <1>1, <1>2, <1>3, <1>4, <1>5, <1>6 DEF Shown

LEMMA CompactWithin ==
  ASSUME NEW p \in Payload, p.tool # "read_artifact", NEW budget \in Nat
  PROVE  Compact(p, budget) \in SUBSET DOMAIN p.items
<1>0. SUFFICES Selected(p, budget) \subseteq DOMAIN p.items
  BY DEF Compact, Taken
<1>1. CASE p.tool = "search_knowledge"
  <2>1. Selected(p, budget) = SelectBalanced(p, budget)
    BY <1>1 DEF Selected
  <2>2. SelectBalanced(p, budget) \subseteq Evidence(p)
    BY SelectBalancedIs
  <2> QED
    BY <2>1, <2>2 DEF Evidence, OfPart
<1>2. CASE p.tool = "retrieve_and_analyze_knowledge"
  <2>1. Selected(p, budget) = CompactRod(p, budget)
    BY <1>2 DEF Selected
  <2>2. CompactRod(p, budget) \subseteq DOMAIN p.items
    BY DEF CompactRod, Fitting, OfPart
  <2> QED
    BY <2>1, <2>2
<1>3. CASE Listing(p)
  <2>1. PICK used \in Nat :
          Selected(p, budget) = Filled(p, DOMAIN p.items, Shown[p.tool], budget, used)
    <3>1. p.head \in Nat
      BY DEF Payload
    <3> QED
      BY <1>3, <3>1 DEF Selected, Listing
  <2>2. Filled(p, DOMAIN p.items, Shown[p.tool], budget, used) \subseteq DOMAIN p.items
    BY <1>3, ShownLists, FilledBounded
  <2> QED
    BY <2>1, <2>2
<1> QED
  BY <1>1, <1>2, <1>3 DEF Listing

-----------------------------------------------------------------------------
(* Tokens of a view.                                                         *)

LEMMA Budgets ==
  /\ MaxInline \in Nat \ {0} /\ MaxTotal \in Nat \ {0} /\ Preview \in Nat \ {0}
  /\ Cap \in Nat \ {0} /\ PerPaper \in Nat \ {0}
  /\ Wrapper \in Nat /\ IdSize \in Nat /\ HandleSize \in Nat /\ IdSize <= HandleSize
  /\ PageFrame \in Nat /\ FragmentFrame \in Nat /\ LabelSize \in Nat \ {0}
  /\ MaxListed \in Nat /\ CitationSize \in Nat /\ Envelope \in Nat
  /\ \A max \in Asks : max \in Nat \ {0}
  BY BudgetsAssumption

LEMMA FieldsNat ==
  ASSUME NEW p \in Payload
  PROVE  Fields(p) \in Nat /\ Fields(p) <= p.head + Wrapper /\ p.head \in Nat
<1>1. p.head \in Nat
  BY DEF Payload
<1> QED
  BY <1>1, Budgets DEF Fields

(* A cut shows items of S, under the handle asked for, in what the budget and *)
(* the handle allow, and in no more than the whole would take.               *)
CutWithin(v, p, S, handle, budget) ==
  /\ v.shown \subseteq S /\ v.handle = handle /\ v.tokens \in Nat
  /\ SizeOfHandle[handle] \in Nat
  /\ v.tokens <= Greater(SizeOfHandle[handle], budget)
  /\ v.tokens <= SizeOfHandle[handle] + Fields(p) + Size(p, S)

LEMMA CutBounded ==
  ASSUME NEW p \in Payload, NEW S \in SUBSET DOMAIN p.items, NEW budget \in Nat,
         NEW handle \in {"none", "id", "reference"}
  PROVE  CutWithin(Cut(p, S, handle, budget), p, S, handle, budget)
<1> DEFINE own == SizeOfHandle[handle]
           used == Lesser(own + Fields(p), Greater(own, budget))
           shown == Filled(p, S, Priority, budget, used)
<1>1. own \in Nat /\ Fields(p) \in Nat
  BY FieldsNat, Budgets DEF SizeOfHandle
<1>2. Cut(p, S, handle, budget) =
        [shown |-> shown, handle |-> handle, tokens |-> used + Size(p, shown)]
  BY DEF Cut
<1>3. Priority \in Seq(Part)
  BY DEF Priority, Part
<1> HIDE DEF own
<1>4. /\ Greater(own, budget) \in {own, budget} /\ budget <= Greater(own, budget)
      /\ own <= Greater(own, budget)
  BY <1>1, LesserGreater
<1>5. used \in Nat /\ used <= own + Fields(p) /\ used <= Greater(own, budget)
  BY <1>1, <1>4, LesserGreater
<1> HIDE DEF used
<1>6. shown \subseteq S /\ used + Size(p, shown) <= Greater(used, budget)
  BY <1>3, <1>5, FilledBounded
<1> HIDE DEF shown
<1>7. Size(p, shown) \in Nat /\ Size(p, S) \in Nat /\ Size(p, shown) <= Size(p, S)
  BY <1>6, SizeNat, SizeMono
<1>8. Greater(used, budget) \in {used, budget}
  BY <1>5, LesserGreater
<1>9. used + Size(p, shown) <= Greater(own, budget)
  BY <1>1, <1>4, <1>5, <1>6, <1>7, <1>8
<1>10. used + Size(p, shown) <= own + Fields(p) + Size(p, S)
         /\ used + Size(p, shown) \in Nat
  BY <1>1, <1>5, <1>7
<1> QED
  BY <1>1, <1>2, <1>6, <1>9, <1>10 DEF own, CutWithin

(* An item a cut drops does not fit with what the cut keeps first. *)
LEMMA CutDrops ==
  ASSUME NEW p \in Payload, NEW S \in SUBSET DOMAIN p.items, NEW budget \in Nat,
         NEW i \in S, p.items[i].part \notin {"results", "cells"},
         i \notin Cut(p, S, "none", budget).shown
  PROVE  Fields(p) + Size(p, KeptFirst(p, i)) > budget
<1> DEFINE used == Lesser(SizeOfHandle["none"] + Fields(p),
                          Greater(SizeOfHandle["none"], budget))
           shown == Filled(p, S, Priority, budget, used)
<1>1. /\ SizeOfHandle["none"] = 0 /\ Fields(p) \in Nat
      /\ used \in Nat /\ used <= Fields(p)
  <2>1. SizeOfHandle["none"] = 0 /\ Fields(p) \in Nat
    BY FieldsNat DEF SizeOfHandle
  <2>2. Greater(0, budget) = budget
    BY DEF Greater
  <2> QED
    BY <2>1, <2>2, LesserGreater
<1>2. i \notin shown
  BY DEF Cut
<1> HIDE DEF used
<1>3. /\ Priority \in Seq(Part) /\ DOMAIN Priority = 1 .. Len(Priority)
      /\ \A m, n \in 1 .. Len(Priority) : m # n => Priority[m] # Priority[n]
  <2>1. Priority \in Seq(Part) /\ Len(Priority) = 14
    BY DEF Priority, Part
  <2>2. \A m, n \in 1 .. 14 : m # n => Priority[m] # Priority[n]
    BY SMTT(60) DEF Priority
  <2> QED
    BY <2>1, <2>2, LenProperties
<1>4. PICK k \in 1 .. Len(Priority) : p.items[i].part = Priority[k]
  <2>1. p.items[i].part \in Part
    BY ItemSizes DEF Item
  <2>2. Part \ {"results", "cells"} \subseteq {Priority[k] : k \in 1 .. Len(Priority)}
    BY DEF Part, Priority
  <2> QED
    BY <2>1, <2>2
<1>5. PICK T, U : T = InTurn(p, S, Priority, i) /\ U = KeptFirst(p, i)
  OBVIOUS
<1>6. used + Size(p, T) > budget
  BY <1>1, <1>2, <1>3, <1>4, <1>5, FilledDrops
<1>7. T \subseteq U
  BY <1>3, <1>5 DEF InTurn, KeptFirst
<1>8. Size(p, T) <= Size(p, U) /\ Size(p, T) \in Nat /\ Size(p, U) \in Nat
  BY <1>7, SizeMono, SizeNat
<1>9. Fields(p) + Size(p, U) > budget
  BY <1>1, <1>6, <1>8
<1> QED
  BY <1>5, <1>9

LEMMA ViewBounded ==
  ASSUME NEW p \in Payload, NEW S \in SUBSET DOMAIN p.items, NEW budget \in Nat,
         NEW handle \in {"none", "reference"}
  PROVE  LET v == ModelView(p, S, handle, budget)
         IN  /\ v.shown \subseteq S /\ v.tokens \in Nat
             /\ v.handle \in {"none", "id", "reference"}
             /\ v.handle = "none" <=> handle = "none"
             /\ handle = "none" =>
                  /\ v.tokens <= budget /\ v.tokens <= Fields(p) + Size(p, S)
                  /\ \A i \in S \ v.shown :
                       /\ Fields(p) + Size(p, S) > budget
                       /\ p.items[i].part \notin {"results", "cells"} =>
                            Fields(p) + Size(p, KeptFirst(p, i)) > budget
             /\ handle = "reference" => v.tokens <= Greater(budget, IdSize)
<1> DEFINE whole == SizeOfHandle[handle] + Fields(p) + Size(p, S)
           v == ModelView(p, S, handle, budget)
<1>1. /\ Fields(p) \in Nat /\ Size(p, S) \in Nat
      /\ SizeOfHandle["none"] = 0 /\ SizeOfHandle["id"] = IdSize
      /\ SizeOfHandle["reference"] = HandleSize
      /\ IdSize \in Nat /\ HandleSize \in Nat
  BY FieldsNat, SizeNat, Budgets DEF SizeOfHandle
<1>2. /\ budget <= Greater(budget, IdSize) /\ IdSize <= Greater(budget, IdSize)
      /\ Greater(budget, IdSize) \in {budget, IdSize}
  BY <1>1, LesserGreater
<1>3. CASE whole <= budget
  <2>1. v = [shown |-> S, handle |-> handle, tokens |-> whole]
    BY <1>3 DEF ModelView
  <2> HIDE DEF v
  <2>2. whole \in Nat /\ (handle = "none" => whole = Fields(p) + Size(p, S))
    BY <1>1
  <2> HIDE DEF whole
  <2>3. v.shown = S /\ v.handle = handle /\ v.tokens = whole
    BY <2>1
  <2>4. whole <= Greater(budget, IdSize)
    BY <1>1, <1>2, <1>3, <2>2
  <2>5. handle = "none" => whole <= Fields(p) + Size(p, S)
    BY <1>1, <2>2
  <2> QED
    BY <1>3, <2>2, <2>3, <2>4, <2>5 DEF v
<1>4. CASE ~ (whole <= budget) /\ handle = "none"
  <2>1. v = Cut(p, S, "none", budget)
    BY <1>4 DEF ModelView
  <2>2. /\ v.shown \subseteq S /\ v.handle = "none" /\ v.tokens \in Nat
        /\ v.tokens <= Greater(SizeOfHandle["none"], budget)
        /\ v.tokens <= SizeOfHandle["none"] + Fields(p) + Size(p, S)
    <3>1. CutWithin(Cut(p, S, "none", budget), p, S, "none", budget)
      BY CutBounded
    <3> HIDE DEF v, whole
    <3>2. CutWithin(v, p, S, "none", budget)
      BY <2>1, <3>1, Zenon
    <3> QED
      BY <3>2, Zenon DEF CutWithin
  <2>3. Greater(0, budget) = budget
    BY DEF Greater
  <2>4. Fields(p) + Size(p, S) > budget
    BY <1>1, <1>4
  <2>5. ASSUME NEW i \in S \ v.shown, p.items[i].part \notin {"results", "cells"}
        PROVE  Fields(p) + Size(p, KeptFirst(p, i)) > budget
    BY <2>1, <2>5, CutDrops
  <2> HIDE DEF v, whole
  <2>6. v.tokens <= budget /\ v.tokens <= Fields(p) + Size(p, S)
    BY <1>1, <2>2, <2>3
  <2> QED
    BY <1>4, <2>2, <2>4, <2>5, <2>6 DEF v
<1>5. CASE ~ (whole <= budget) /\ handle = "reference"
  <2>1. PICK kept : kept = HandleWithin(p, S, budget)
    OBVIOUS
  <2>2. kept \in {"id", "reference"}
          /\ Greater(SizeOfHandle[kept], budget) <= Greater(budget, IdSize)
    <3>1. CASE HandleSize <= budget
      <4>1. kept = "reference"
        BY <2>1, <3>1 DEF HandleWithin
      <4> QED
        BY <1>1, <3>1, <4>1 DEF Greater
    <3>2. CASE ~ (HandleSize <= budget)
      <4>1. kept = "id"
        BY <2>1, <3>2 DEF HandleWithin
      <4> QED
        BY <1>1, <4>1 DEF Greater
    <3> QED
      BY <3>1, <3>2
  <2>3. v = Cut(p, S, kept, budget)
    BY <1>5, <2>1 DEF ModelView
  <2>4. /\ v.shown \subseteq S /\ v.handle = kept /\ v.tokens \in Nat
        /\ SizeOfHandle[kept] \in Nat
        /\ v.tokens <= Greater(SizeOfHandle[kept], budget)
    <3>1. CutWithin(Cut(p, S, kept, budget), p, S, kept, budget)
      BY <2>2, CutBounded
    <3> HIDE DEF v, whole
    <3>2. CutWithin(v, p, S, kept, budget)
      BY <2>3, <3>1, Zenon
    <3> QED
      BY <3>2, Zenon DEF CutWithin
  <2> HIDE DEF v, whole
  <2>5. v.tokens <= Greater(budget, IdSize)
    <3>1. Greater(SizeOfHandle[kept], budget) \in Int
      BY <2>4, LesserGreater
    <3> QED
      BY <1>1, <1>2, <2>2, <2>4, <3>1
  <2> QED
    BY <1>5, <2>2, <2>4, <2>5 DEF v
<1> QED
  BY <1>3, <1>4, <1>5

-----------------------------------------------------------------------------
(* How a result is kept.                                                     *)

LEMMA Answered ==
  ASSUME NEW p \in Payloads
  PROVE  /\ p \in Payload /\ p.tool # "read_artifact" /\ p.tool \in DOMAIN PartsOf
         /\ \A i \in DOMAIN p.items :
              /\ p.items[i].part \in PartsOf[p.tool]
              /\ p.items[i].cite # 0 => p.items[i].at + LabelSize <= p.items[i].size
<1>1. p \in Payload
  BY PayloadsAssumption
<1> QED
  BY <1>1, PayloadsAssumption DEF Payload, Tool

LEMMA TokensNat ==
  ASSUME NEW p \in Payload
  PROVE  Tokens(p) \in Nat /\ Tokens(p) = p.head + Size(p, DOMAIN p.items)
         /\ p.head \in Nat /\ Size(p, DOMAIN p.items) \in Nat
<1>1. p.head \in Nat /\ Size(p, DOMAIN p.items) \in Nat
  BY FieldsNat, SizeNat
<1> QED
  BY <1>1 DEF Tokens

(* What a view takes of a list it cuts at MaxListed. *)
LEMMA TakenLists ==
  ASSUME NEW p \in Payload, NEW i \in DOMAIN p.items, i \notin Taken(p)
  PROVE  /\ ListOf(p, i) \notin TakenWhole
         /\ ListOf(p, i) \in TakenShort => LeftOut(p, i)
<1>1. i \in Nat
  BY ItemSizes
<1>2. Nth(p, i) \in Nat /\ MaxListed \in Nat
  <2>1. OfPart(p, 1 .. i, p.items[i].part) \in SUBSET (1 .. i)
    BY DEF OfPart
  <2> QED
    BY <1>1, <2>1, CountOf, Budgets DEF Nth
<1>3. ~ (ListOf(p, i) \in TakenWhole)
  BY DEF Taken
<1>4. ASSUME ListOf(p, i) \in TakenShort PROVE LeftOut(p, i)
  <2>1. ~ (Nth(p, i) <= MaxListed)
    BY <1>4 DEF Taken
  <2>2. Nth(p, i) > MaxListed
    BY <1>2, <2>1
  <2> QED
    BY <1>4, <2>2, Zenon DEF LeftOut
<1> QED
  BY <1>3, <1>4

LEMMA SearchShown ==
  ASSUME NEW p \in Payloads, p.tool = "search_knowledge",
         Size(p, DOMAIN p.items) <= MaxInline,
         NEW i \in DOMAIN p.items, i \notin Compact(p, MaxInline)
  PROVE  LeftOut(p, i)
<1>1. p \in Payload /\ p.items[i].part \in {"evidence", "papers"}
  BY Answered DEF PartsOf
<1>2. /\ i \notin Taken(p) /\ i \notin SelectBalanced(p, MaxInline)
      /\ MaxInline \in Nat
  BY Budgets DEF Compact, Selected
<1>3. CASE p.items[i].part = "papers"
  <2>1. ListOf(p, i) \in TakenShort
    BY <1>3 DEF ListOf, TakenShort
  <2> QED
    BY <1>1, <1>2, <2>1, TakenLists
<1>4. CASE p.items[i].part = "evidence"
  <2>1. i \in Evidence(p)
    BY <1>4 DEF Evidence, OfPart
  <2>2. Size(p, Evidence(p)) <= MaxInline
    <3>1. PICK E : E = Evidence(p)
      OBVIOUS
    <3>2. Size(p, E) <= Size(p, DOMAIN p.items)
      BY <1>1, <3>1, SizeMono DEF Evidence, OfPart
    <3>3. Size(p, E) \in Nat /\ Size(p, DOMAIN p.items) \in Nat
      BY <1>1, SizeNat
    <3>4. Size(p, E) <= MaxInline
      BY <1>2, <3>2, <3>3
    <3> QED
      BY <3>1, <3>4
  <2>3. ~ (Rank(p, i) < PerPaper)
    BY <1>1, <1>2, <2>1, <2>2, SelectBalancedIs
  <2>4. Rank(p, i) \in Nat /\ PerPaper \in Nat
    BY <1>1, <2>1, Places, Budgets
  <2>5. Rank(p, i) >= PerPaper
    BY <2>3, <2>4
  <2>6. ListOf(p, i) = <<"search_knowledge", "evidence">>
    BY <1>4 DEF ListOf
  <2> QED
    BY <2>5, <2>6, Zenon DEF LeftOut
<1> QED
  BY <1>1, <1>3, <1>4

LEMMA AnalysisShown ==
  ASSUME NEW p \in Payloads, p.tool = "retrieve_and_analyze_knowledge",
         Size(p, DOMAIN p.items) <= MaxInline,
         NEW i \in DOMAIN p.items, i \notin Compact(p, MaxInline)
  PROVE  LeftOut(p, i)
<1> DEFINE Own(part) == OfPart(p, DOMAIN p.items, part)
<1>1. PICK C, R, A, B : C = Own("claims") /\ R = Own("reports") /\ A = Own("artifacts")
                        /\ B = C \cup R
  OBVIOUS
<1>2. /\ p \in Payload /\ i \notin Taken(p)
      /\ p.items[i].part \in {"claims", "reports", "artifacts", "citations",
                              "questions", "failed"}
  BY Answered DEF PartsOf, Compact
<1>3. /\ C \cap R = {} /\ B \subseteq DOMAIN p.items
      /\ p.items[i].part = "claims" => i \in C
      /\ p.items[i].part = "reports" => i \in R
      /\ p.items[i].part = "artifacts" => i \in A
  BY <1>1 DEF OfPart
<1>4. Ordered(p, C) /\ Ordered(p, R) /\ Ordered(p, A)
  BY <1>1, <1>2, OrderedPart
<1>5. /\ Size(p, C) \in Nat /\ Size(p, R) \in Nat /\ Size(p, A) \in Nat
      /\ Size(p, B) \in Nat /\ Size(p, DOMAIN p.items) \in Nat /\ MaxInline \in Nat
  BY <1>2, SizeNat, Budgets
<1>6. Size(p, B) = Size(p, C) + Size(p, R)
  BY <1>1, <1>2, <1>3, SizeSplit, ZenonT(30)
<1>7. Size(p, B) <= Size(p, DOMAIN p.items)
  BY <1>2, <1>3, SizeMono
<1>8. Size(p, C) <= MaxInline /\ Size(p, R) <= MaxInline - Size(p, C)
  BY <1>5, <1>6, <1>7
<1>9. Fitting(p, C, MaxInline) = C
  BY <1>2, <1>4, <1>5, <1>8, FittingFits
<1>10. Fitting(p, R, MaxInline - Size(p, C)) = R
  <2>1. PICK b : b = MaxInline - Size(p, C)
    OBVIOUS
  <2>2. b \in Int /\ Size(p, R) <= b
    BY <1>5, <1>8, <2>1
  <2>3. Fitting(p, R, b) = R
    BY <1>2, <1>4, <2>2, FittingFits
  <2> QED
    BY <2>1, <2>3
<1>11. Selected(p, MaxInline) = C \cup R \cup Fitting(p, A, MaxInline - 2 * Size(p, C))
  BY <1>1, <1>9, <1>10 DEF Selected, CompactRod
<1>12. i \notin Selected(p, MaxInline)
  BY DEF Compact
<1>13. CASE p.items[i].part = "artifacts"
  <2>1. PICK b : b = MaxInline - 2 * Size(p, C)
    OBVIOUS
  <2>2. b \in Int
    BY <1>5, <2>1
  <2>3. i \in A /\ i \notin Fitting(p, A, b)
    BY <1>3, <1>11, <1>12, <1>13, <2>1
  <2>4. ~ (Size(p, A) <= b)
    BY <1>2, <1>4, <2>2, <2>3, FittingFits
  <2>5. 2 * Size(p, C) + Size(p, A) > MaxInline
    BY <1>5, <2>1, <2>4
  <2>6. 2 * Size(p, OfPart(p, DOMAIN p.items, "claims"))
          + Size(p, OfPart(p, DOMAIN p.items, "artifacts")) > MaxInline
    BY <1>1, <2>5
  <2>7. ListOf(p, i) = <<"retrieve_and_analyze_knowledge", "artifacts">>
    BY <1>13 DEF ListOf
  <2> QED
    BY <2>6, <2>7, Zenon DEF LeftOut
<1>14. CASE p.items[i].part \in {"questions", "failed"}
  <2>1. ListOf(p, i) \in TakenShort
    BY <1>14 DEF ListOf, TakenShort
  <2> QED
    BY <1>2, <2>1, TakenLists
<1>15. p.items[i].part # "citations"
  <2>1. p.items[i].part = "citations" => ListOf(p, i) \in TakenWhole
    BY DEF ListOf, TakenWhole
  <2> QED
    BY <1>2, <2>1, TakenLists
<1>16. p.items[i].part \notin {"claims", "reports"}
  BY <1>3, <1>11, <1>12
<1> QED
  BY <1>2, <1>13, <1>14, <1>15, <1>16

LEMMA ListsShown ==
  ASSUME NEW p \in Payloads, Listing(p), p.tool \notin {"worker_result", "other"},
         Tokens(p) <= MaxInline,
         NEW i \in DOMAIN p.items, i \notin Compact(p, MaxInline)
  PROVE  LeftOut(p, i)
<1>1. p \in Payload /\ p.items[i].part \in PartsOf[p.tool]
  BY Answered
<1>2. PICK used \in Nat :
        /\ Selected(p, MaxInline)
             = Filled(p, DOMAIN p.items, Shown[p.tool], MaxInline, used)
        /\ used \in {0, p.head}
  <2>1. p.head \in Nat
    BY <1>1 DEF Payload
  <2> QED
    BY <2>1 DEF Selected, Listing
<1>3. used + Size(p, DOMAIN p.items) <= MaxInline /\ MaxInline \in Nat
  BY <1>1, <1>2, TokensNat, Budgets
<1>4. i \notin Taken(p) /\ i \notin Selected(p, MaxInline)
  BY DEF Compact
<1>5. PICK parts : parts = Shown[p.tool]
  OBVIOUS
<1>6. /\ parts \in Seq(Part)
      /\ \A m, n \in 1 .. Len(parts) : m # n => parts[m] # parts[n]
      /\ \/ \E k \in 1 .. Len(parts) : parts[k] = p.items[i].part
         \/ <<p.tool, p.items[i].part>> \in TakenShort
         \/ p.tool = "compare_papers" /\ p.items[i].part \in {"cells", "evidence"}
         \/ p.tool = "collect_research_task" /\ p.items[i].part = "citations"
  BY <1>1, <1>5, ShownLists
<1>7. ASSUME NEW k \in 1 .. Len(parts), parts[k] = p.items[i].part PROVE FALSE
  <2>1. i \in Filled(p, DOMAIN p.items, parts, MaxInline, used)
    BY <1>1, <1>3, <1>6, <1>7, FilledWhole
  <2> QED
    BY <1>2, <1>4, <1>5, <2>1
<1>8. CASE ListOf(p, i) \in TakenShort
  BY <1>1, <1>4, <1>8, TakenLists
<1>9. CASE \/ p.tool = "compare_papers" /\ p.items[i].part \in {"cells", "evidence"}
           \/ p.tool = "collect_research_task" /\ p.items[i].part = "citations"
  <2>1. \/ ListOf(p, i) \in {<<"compare_papers", "cells">>, <<"compare_papers", "evidence">>}
        \/ ListOf(p, i) = <<"collect_research_task", "citations">>
    BY <1>9 DEF ListOf
  <2> QED
    BY <2>1, Zenon DEF LeftOut
<1> QED
  BY <1>6, <1>7, <1>8, <1>9 DEF ListOf

(* What an inline result may leave out, as OmittedItemsAreReachable has it. *)
Lost(p, i) == p.tool # "other" /\ (LeftOut(p, i) \/ CutAway(p, i))

(* What materialize makes of an answer, whatever the session was given before. *)
Kept(p, r) ==
  /\ r.of = p /\ r.tokens \in Nat /\ r.offloaded \in BOOLEAN
  /\ r.shown \subseteq DOMAIN p.items
  /\ r.handle \in {"none", "id", "reference"}
  /\ r.offloaded => r.handle # "none" /\ r.tokens <= Greater(Preview, IdSize)
  /\ ~ r.offloaded => r.tokens <= MaxInline /\ r.tokens <= Tokens(p) + Wrapper
  /\ ~ r.offloaded => \A i \in DOMAIN p.items \ r.shown : Lost(p, i)

LEMMA KeptOffloaded ==
  ASSUME NEW p \in Payloads
  PROVE  Kept(p, Offloaded(p)) /\ Offloaded(p).offloaded = TRUE
<1>1. p \in Payload /\ p.tool # "read_artifact" /\ Preview \in Nat /\ IdSize \in Nat
  BY Answered, Budgets
<1>2. PICK S : S = Compact(p, Preview)
  OBVIOUS
<1>3. S \in SUBSET DOMAIN p.items
  BY <1>1, <1>2, CompactWithin
<1>4. PICK v : v = ModelView(p, S, "reference", Preview)
  OBVIOUS
<1>5. /\ v.shown \subseteq S /\ v.tokens \in Nat
      /\ v.handle \in {"none", "id", "reference"} /\ v.handle # "none"
      /\ v.tokens <= Greater(Preview, IdSize)
  BY <1>1, <1>3, <1>4, ViewBounded
<1>6. Offloaded(p) = [of |-> p, shown |-> v.shown, handle |-> v.handle,
                      tokens |-> v.tokens, offloaded |-> TRUE]
  BY <1>2, <1>4 DEF Offloaded, Result
<1>7. v.shown \subseteq DOMAIN p.items
  BY <1>3, <1>5
<1> QED
  BY <1>5, <1>6, <1>7 DEF Kept

LEMMA KeptInline ==
  ASSUME NEW p \in Payloads, p.tool # "worker_result", p.tool # "other",
         Tokens(p) <= MaxInline
  PROVE  Kept(p, Inline(p)) /\ Inline(p).offloaded = FALSE
<1>1. p \in Payload /\ p.tool # "read_artifact" /\ MaxInline \in Nat /\ Wrapper \in Nat
  BY Answered, Budgets
<1>2. PICK S : S = Compact(p, MaxInline)
  OBVIOUS
<1>3. S \in SUBSET DOMAIN p.items
  BY <1>1, <1>2, CompactWithin
<1>4. PICK v : v = ModelView(p, S, "none", MaxInline)
  OBVIOUS
<1>5. /\ v.shown \subseteq S /\ v.tokens \in Nat /\ v.handle = "none"
      /\ v.tokens <= MaxInline /\ v.tokens <= Fields(p) + Size(p, S)
      /\ \A i \in S \ v.shown :
           /\ Fields(p) + Size(p, S) > MaxInline
           /\ p.items[i].part \notin {"results", "cells"} =>
                Fields(p) + Size(p, KeptFirst(p, i)) > MaxInline
  BY <1>1, <1>3, <1>4, ViewBounded
<1>6. PICK r : r = Inline(p)
  OBVIOUS
<1>7. r = [of |-> p, shown |-> v.shown, handle |-> v.handle,
           tokens |-> v.tokens, offloaded |-> FALSE]
  BY <1>2, <1>4, <1>6 DEF Inline, Result
<1>8. /\ Fields(p) \in Nat /\ Fields(p) <= p.head + Wrapper
      /\ Size(p, S) \in Nat /\ Size(p, DOMAIN p.items) \in Nat
      /\ Size(p, S) <= Size(p, DOMAIN p.items)
      /\ Tokens(p) = p.head + Size(p, DOMAIN p.items) /\ p.head \in Nat
  BY <1>1, <1>3, FieldsNat, SizeNat, SizeMono, TokensNat
<1>9. Fields(p) + Size(p, S) <= Tokens(p) + Wrapper
  BY <1>1, <1>8
<1>10. v.tokens <= Tokens(p) + Wrapper
  BY <1>1, <1>5, <1>8, <1>9
<1>11. ASSUME NEW i \in DOMAIN p.items, i \notin v.shown
       PROVE  Lost(p, i)
  <2>1. CASE i \notin S
    <3>1. Size(p, DOMAIN p.items) <= MaxInline /\ i \notin Compact(p, MaxInline)
      BY <1>1, <1>2, <1>8, <2>1
    <3>2. CASE p.tool = "search_knowledge"
      BY <3>1, <3>2, SearchShown DEF Lost
    <3>3. CASE p.tool = "retrieve_and_analyze_knowledge"
      BY <3>1, <3>3, AnalysisShown DEF Lost
    <3>4. CASE Listing(p)
      BY <3>1, <3>4, ListsShown DEF Lost
    <3> QED
      BY <1>1, <3>2, <3>3, <3>4 DEF Listing
  <2>2. CASE i \in S /\ p.items[i].part = "results"
    <3>1. Fields(p) + Size(p, S) > MaxInline
      BY <1>5, <1>11, <2>2
    <3>2. Tokens(p) + Wrapper > MaxInline
      BY <1>1, <1>8, <1>9, <3>1
    <3> QED
      BY <2>2, <3>2 DEF Lost, CutAway
  <2>3. CASE i \in S /\ p.items[i].part \notin {"results", "cells"}
    <3>1. PICK U : U = KeptFirst(p, i)
      OBVIOUS
    <3>2. Fields(p) + Size(p, U) > MaxInline
      BY <1>5, <1>11, <2>3, <3>1
    <3>3. Size(p, U) \in Nat
      BY <1>1, SizeNat
    <3>4. p.head + Wrapper + Size(p, U) > MaxInline
      BY <1>1, <1>8, <3>2, <3>3
    <3> QED
      BY <2>3, <3>1, <3>4 DEF Lost, CutAway
  <2>4. CASE p.items[i].part = "cells"
    <3>1. p.tool = "compare_papers"
      <4>1. p.items[i].part \in PartsOf[p.tool] /\ p.tool \in DOMAIN PartsOf
        BY Answered
      <4> QED
        BY <2>4, <4>1 DEF PartsOf
    <3>2. ListOf(p, i) \in {<<"compare_papers", "cells">>, <<"compare_papers", "evidence">>}
      BY <2>4, <3>1 DEF ListOf
    <3>3. LeftOut(p, i)
      BY <3>2, Zenon DEF LeftOut
    <3> QED
      BY <3>3 DEF Lost
  <2> QED
    BY <2>1, <2>2, <2>3, <2>4
<1>12. /\ r.of = p /\ r.shown = v.shown /\ r.handle = "none" /\ r.tokens = v.tokens
       /\ r.offloaded = FALSE
  BY <1>5, <1>7
<1>13. v.shown \subseteq DOMAIN p.items
  BY <1>3, <1>5
<1>14. Kept(p, r)
  <2>1. \A i \in DOMAIN p.items \ r.shown : Lost(p, i)
    BY <1>11, <1>12
  <2> QED
    BY <1>5, <1>10, <1>12, <1>13, <2>1 DEF Kept
<1> QED
  BY <1>6, <1>12, <1>14

LEMMA MaterializedIs ==
  ASSUME NEW p \in Payloads, Accumulated \in Nat
  PROVE  /\ Kept(p, Materialized(p))
         /\ ~ Materialized(p).offloaded =>
              Materialized(p).tokens + Accumulated <= MaxTotal + Wrapper
<1>1. /\ p \in Payload /\ p.tool # "read_artifact" /\ MaxInline \in Nat
      /\ MaxTotal \in Nat /\ Wrapper \in Nat /\ Tokens(p) \in Nat
  BY Answered, Budgets, TokensNat
<1>2. CASE ShouldOffload(p)
  <2>1. Materialized(p) = Offloaded(p)
    BY <1>1, <1>2 DEF Materialized
  <2> QED
    BY <2>1, KeptOffloaded
<1>3. CASE ~ ShouldOffload(p) /\ p.tool # "other"
  <2>1. /\ Materialized(p) = Inline(p) /\ p.tool # "worker_result"
        /\ Accumulated + Tokens(p) <= MaxTotal /\ Tokens(p) <= MaxInline
    BY <1>1, <1>3 DEF Materialized, ShouldOffload, AlwaysOffloaded
  <2>2. PICK r : r = Inline(p)
    OBVIOUS
  <2>3. Kept(p, r) /\ r.offloaded = FALSE
    BY <1>3, <2>1, <2>2, KeptInline
  <2>4. r.tokens \in Nat /\ r.tokens <= Tokens(p) + Wrapper
    BY <2>3 DEF Kept
  <2>5. r.tokens + Accumulated <= MaxTotal + Wrapper
    BY <1>1, <2>1, <2>4
  <2> QED
    BY <2>1, <2>2, <2>3, <2>5
<1>4. CASE ~ ShouldOffload(p) /\ p.tool = "other"
  <2>1. /\ Materialized(p) = AsIs(p) /\ Tokens(p) <= MaxInline
        /\ Accumulated + Tokens(p) <= MaxTotal
    BY <1>1, <1>4 DEF Materialized, ShouldOffload
  <2>2. PICK r : r = AsIs(p)
    OBVIOUS
  <2>3. /\ r.of = p /\ r.shown = DOMAIN p.items /\ r.handle = "none"
        /\ r.tokens = Tokens(p) /\ r.offloaded = FALSE
    BY <2>2 DEF AsIs, Result
  <2>4. Tokens(p) <= Tokens(p) + Wrapper /\ r.tokens + Accumulated <= MaxTotal + Wrapper
    BY <1>1, <2>1, <2>3
  <2>5. Kept(p, r)
    BY <1>1, <2>1, <2>3, <2>4 DEF Kept
  <2> QED
    BY <2>1, <2>2, <2>4, <2>5
<1> QED
  BY <1>2, <1>3, <1>4

-----------------------------------------------------------------------------
(* The units of text a view offers.                                          *)

(* f[n] is what a view lists of the first n items. *)
ListedSteps(p, v, f) ==
  f = [n \in 0 .. Len(p.items) |->
        IF n = 0 THEN <<>>
        ELSE IF p.items[n].part \in v[2] THEN Append(f[n - 1], n)
        ELSE f[n - 1]]

LEMMA ListedIs ==
  ASSUME NEW p \in Payload, NEW v
  PROVE  Listed(p, v) \in Seq(1 .. Len(p.items))
<1> DEFINE N == Len(p.items)
           A == Seq(1 .. N)
           F == [n \in 1 .. N |-> [x \in A |->
                   IF p.items[n].part \in v[2] THEN Append(x, n) ELSE x]]
           h == CHOOSE f : ListedSteps(p, v, f)
<1>1. N \in Nat
  BY ItemSizes
<1>2. \A n \in 1 .. N, x \in A :
        /\ F[n][x] = IF p.items[n].part \in v[2] THEN Append(x, n) ELSE x
        /\ F[n][x] \in A
  BY AppendProperties
<1>3. <<>> \in A
  BY EmptySeq
<1> HIDE DEF F, N, A
<1>4. PICK f : Steps(<<>>, N, F, f)
  BY <1>1, StepsExist, Zenon
<1>5. \A n \in 0 .. N : f[n] \in A
  BY <1>1, <1>2, <1>3, <1>4, StepsTyped
<1>6. \A n \in 0 .. N :
        f[n] = IF n = 0 THEN <<>>
               ELSE IF p.items[n].part \in v[2] THEN Append(f[n - 1], n)
               ELSE f[n - 1]
  <2>1. ASSUME NEW n \in 0 .. N
        PROVE  f[n] = IF n = 0 THEN <<>>
                      ELSE IF p.items[n].part \in v[2] THEN Append(f[n - 1], n)
                      ELSE f[n - 1]
    <3>1. f[n] = IF n = 0 THEN <<>> ELSE F[n][f[n - 1]]
      BY <1>4, Zenon DEF Steps
    <3>2. n # 0 => n \in 1 .. N /\ f[n - 1] \in A
      BY <1>1, <1>5
    <3> QED
      BY <1>2, <3>1, <3>2
  <2> QED
    BY <2>1
<1>7. ListedSteps(p, v, f)
  <2>1. f = [n \in 0 .. N |-> f[n]]
    BY <1>4 DEF Steps
  <2> QED
    BY <1>6, <2>1, Zenon DEF ListedSteps, N
<1>8. ListedSteps(p, v, h)
  BY <1>7
<1>9. Listed(p, v) = h[N]
  BY Zenon DEF Listed, ListedSteps, N
<1> HIDE DEF h
<1>10. \A n \in 0 .. N :
         h[n] = IF n = 0 THEN <<>>
                ELSE IF p.items[n].part \in v[2] THEN Append(h[n - 1], n)
                ELSE h[n - 1]
  BY <1>8, Zenon DEF ListedSteps, N
<1> DEFINE P == {n \in Nat : n <= N => h[n] \in A}
<1>11. 0 \in P
  BY <1>1, <1>3, <1>10
<1>12. ASSUME NEW m \in Nat, m < N, m \in P PROVE m + 1 \in P
  <2>1. m + 1 \in 1 .. N /\ m + 1 \in 0 .. N /\ m + 1 # 0 /\ (m + 1) - 1 = m
          /\ h[m] \in A
    BY <1>1, <1>12
  <2>2. h[m + 1] = IF p.items[m + 1].part \in v[2] THEN Append(h[m], m + 1) ELSE h[m]
    BY <1>10, <2>1
  <2>3. Append(h[m], m + 1) \in A
    BY <2>1, AppendProperties DEF A
  <2> QED
    BY <2>1, <2>2, <2>3
<1> HIDE DEF P
<1>13. 0 .. N \subseteq P
  BY <1>1, <1>11, <1>12, UpTo
<1> QED
  BY <1>1, <1>9, <1>13 DEF P, A, N

Token == Nat \X Nat

LEMMA TextIs ==
  ASSUME NEW p \in Payload, NEW i \in 0 .. Len(p.items)
  PROVE  /\ Text(p, i) \in Seq(Token)
         /\ i # 0 => Len(Text(p, i)) = p.items[i].size
                     /\ \A n \in 1 .. p.items[i].size : Text(p, i)[n] = <<i, n>>
<1>1. /\ Len(p.items) \in Nat /\ p.head \in Nat
      /\ i # 0 => p.items[i].size \in Nat \ {0}
  BY ItemSizes, FieldsNat
<1>2. PICK n \in Nat : n = IF i = 0 THEN p.head ELSE p.items[i].size
  BY <1>1
<1>3. PICK f : f = [k \in 1 .. n |-> <<i, k>>]
  OBVIOUS
<1>4. f \in Seq(Token) /\ Len(f) = n
  <2>1. f = [k \in 1 .. n |-> f[k]] /\ \A k \in 1 .. n : f[k] \in Token
    BY <1>1, <1>3 DEF Token
  <2> QED
    BY <2>1, MapTyped
<1>5. Text(p, i) = f
  BY <1>2, <1>3 DEF Text
<1> QED
  BY <1>2, <1>3, <1>4, <1>5

LEMMA UnitsAre ==
  ASSUME NEW p \in Payload, NEW v
  PROVE  /\ Units(p, v) \in Seq(Seq(Token))
         /\ v # Full =>
              /\ Listed(p, v) \in Seq(1 .. Len(p.items))
              /\ Len(Units(p, v)) = Len(Listed(p, v))
              /\ \A k \in 1 .. Len(Listed(p, v)) :
                   Units(p, v)[k] = Text(p, Listed(p, v)[k])
<1>1. Len(p.items) \in Nat
  BY ItemSizes
<1>2. CASE v = Full
  <2>1. PICK f : f = [i \in 1 .. Len(p.items) |-> Text(p, i)]
    OBVIOUS
  <2>2. f \in Seq(Seq(Token))
    <3>1. f = [i \in 1 .. Len(p.items) |-> f[i]]
          /\ \A i \in 1 .. Len(p.items) : f[i] \in Seq(Token)
      BY <1>1, <2>1, TextIs
    <3> QED
      BY <1>1, <3>1, MapTyped
  <2>3. <<Text(p, 0)>> \in Seq(Seq(Token))
    <3>1. Text(p, 0) \in Seq(Token)
      BY <1>1, TextIs
    <3> QED
      BY <3>1
  <2>4. PICK g : g = <<Text(p, 0)>> \o f
    OBVIOUS
  <2>5. FlattenSeq(g) \in Seq(Token)
    BY <2>2, <2>3, <2>4, ConcatProperties, FlattenTyped
  <2>6. Units(p, v) = <<FlattenSeq(g)>>
    BY <1>2, <2>1, <2>4 DEF Units
  <2> QED
    BY <1>2, <2>5, <2>6
<1>3. CASE v # Full
  <2>1. PICK listed : listed = Listed(p, v)
    OBVIOUS
  <2>2. listed \in Seq(1 .. Len(p.items)) /\ Len(listed) \in Nat
        /\ \A k \in 1 .. Len(listed) : listed[k] \in 1 .. Len(p.items)
    BY <2>1, ListedIs, LenProperties, ElementOfSeq
  <2>3. PICK f : f = [k \in 1 .. Len(listed) |-> Text(p, listed[k])]
    OBVIOUS
  <2>4. f \in Seq(Seq(Token)) /\ Len(f) = Len(listed)
    <3>1. f = [k \in 1 .. Len(listed) |-> f[k]]
          /\ \A k \in 1 .. Len(listed) : f[k] \in Seq(Token)
      BY <1>1, <2>2, <2>3, TextIs
    <3> QED
      BY <2>2, <3>1, MapTyped
  <2>5. Units(p, v) = f
    BY <1>3, <2>1, <2>3 DEF Units
  <2> QED
    BY <2>1, <2>2, <2>3, <2>4, <2>5
<1> QED
  BY <1>2, <1>3

-----------------------------------------------------------------------------
(* Pages.                                                                    *)

(* The text of the pages before cursor c. *)
ReadTo(units, c) ==
  FlattenSeq(IF c = Done THEN units ELSE SubSeq(units, 1, c.unit - 1))
    \o (IF c = Done THEN <<>> ELSE SubSeq(units[c.unit], 1, c.token))

(* A cursor at which there is more to read. *)
At(units, c) ==
  /\ c.unit \in 1 .. Len(units)
  /\ c.token \in 0 .. Len(units[c.unit])
  /\ c = [unit |-> c.unit, token |-> c.token]

LEMMA UnitsBefore ==
  ASSUME NEW S, NEW units \in Seq(Seq(S)), NEW k \in 1 .. Len(units) + 1
  PROVE  /\ SubSeq(units, 1, k - 1) \in Seq(Seq(S))
         /\ FlattenSeq(SubSeq(units, 1, k - 1)) \in Seq(S)
<1>1. Len(units) \in Nat /\ \A i \in 1 .. Len(units) : units[i] \in Seq(S)
  BY LenProperties, ElementOfSeq
<1>2. /\ 1 \in Int /\ k - 1 \in Int /\ \A i \in 1 .. k - 1 : units[i] \in Seq(S)
  BY <1>1
<1>3. SubSeq(units, 1, k - 1) \in Seq(Seq(S))
  BY <1>2, SubSeqProperties
<1> QED
  BY <1>3, FlattenTyped

LEMMA NoneBefore ==
  ASSUME NEW S, NEW units \in Seq(Seq(S))
  PROVE  At(units, Start) /\ Start # Done => ReadTo(units, Start) = <<>>
<1> SUFFICES ASSUME At(units, Start), Start # Done PROVE ReadTo(units, Start) = <<>>
  OBVIOUS
<1>1. Start.unit = 1 /\ Start.token = 0
  BY DEF Start
<1>2. ReadTo(units, Start) = FlattenSeq(SubSeq(units, 1, 1 - 1)) \o SubSeq(units[1], 1, 0)
  BY <1>1 DEF ReadTo
<1>3. SubSeq(units, 1, 1 - 1) = <<>> /\ SubSeq(units[1], 1, 0) = <<>>
  <2>1. 0 < 1 /\ 0 \in Int /\ 1 \in Int /\ 1 - 1 = 0
    OBVIOUS
  <2> QED
    BY <2>1, SubSeqEmpty
<1>4. <<>> \o <<>> = <<>>
  <2>1. <<>> \in Seq(S)
    BY EmptySeq
  <2> QED
    BY <2>1, ConcatEmptySeq
<1> QED
  BY <1>2, <1>3, <1>4, FlattenEmpty

LEMMA CursorAt ==
  ASSUME NEW S, NEW units \in Seq(Seq(S)), NEW k \in 1 .. Len(units) + 1
  PROVE  LET c == UnitCursor(units, k)
         IN  /\ c = Done \/ (At(units, c) /\ c # Done /\ c.unit = k /\ c.token = 0)
             /\ c = Done => k = Len(units) + 1
             /\ ReadTo(units, c) = FlattenSeq(SubSeq(units, 1, k - 1))
<1> DEFINE c == UnitCursor(units, k)
           before == FlattenSeq(SubSeq(units, 1, k - 1))
<1>1. Len(units) \in Nat /\ \A i \in 1 .. Len(units) : units[i] \in Seq(S)
  BY LenProperties, ElementOfSeq
<1>2. before \in Seq(S) /\ before \o <<>> = before
  BY UnitsBefore, ConcatEmptySeq
<1>3. CASE k = Len(units) + 1
  <2>1. c = Done
    BY <1>1, <1>3 DEF UnitCursor
  <2>2. k - 1 = Len(units) /\ SubSeq(units, 1, Len(units)) = units
    BY <1>1, <1>3, SubSeqFull
  <2>3. ReadTo(units, c) = FlattenSeq(units) \o <<>>
    BY <2>1 DEF ReadTo
  <2>4. before = FlattenSeq(units)
    BY <2>2
  <2> HIDE DEF before, c
  <2>5. ReadTo(units, c) = before
    BY <1>2, <2>3, <2>4, Zenon
  <2> QED
    BY <1>3, <2>1, <2>5 DEF before, c
<1>4. CASE k \in 1 .. Len(units)
  <2>1. c = [unit |-> k, token |-> 0]
    BY <1>1, <1>4 DEF UnitCursor
  <2> HIDE DEF c
  <2>2. c.unit = k /\ c.token = 0 /\ c # Done
    BY <1>4, <2>1 DEF Done
  <2>3. Len(units[k]) \in Nat
    BY <1>1, <1>4, LenProperties
  <2>4. At(units, c)
    BY <1>4, <2>1, <2>2, <2>3 DEF At
  <2>5. SubSeq(units[k], 1, 0) = <<>>
    BY SubSeqEmpty
  <2>6. ReadTo(units, c) = before \o <<>>
    BY <2>2, <2>5 DEF ReadTo
  <2> QED
    BY <1>2, <2>2, <2>4, <2>6 DEF c
<1> QED
  BY <1>1, <1>3, <1>4

(* A page of whole units. *)
IsWhole(units, c, frame, max, page) ==
  \E m \in c.unit .. Len(units) :
    /\ c.token = 0
    /\ page.text = FlattenSeq(SubSeq(units, c.unit, m))
    /\ page.next = UnitCursor(units, m + 1)
    /\ page.tokens = frame + Len(page.text)
    /\ page.tokens <= max

(* A page of a fragment. *)
IsFragment(units, c, max, page) ==
  \E last \in c.token + 1 .. Len(units[c.unit]) :
    /\ page.text = SubSeq(units[c.unit], c.token + 1, last)
    /\ \/ last = Len(units[c.unit]) /\ page.next = UnitCursor(units, c.unit + 1)
       \/ page.next = [unit |-> c.unit, token |-> last]
    /\ page.tokens = FragmentFrame + last - c.token
    /\ page.tokens <= max
    /\ last = Len(units[c.unit]) \/ last = c.token + max - FragmentFrame

LEMMA UnitsBetween ==
  ASSUME NEW S, NEW units \in Seq(Seq(S)), NEW k \in 1 .. Len(units),
         NEW m \in k .. Len(units)
  PROVE  /\ SubSeq(units, k, m) \in Seq(Seq(S))
         /\ FlattenSeq(SubSeq(units, k, m)) \in Seq(S)
         /\ Len(SubSeq(units, k, m)) = m - k + 1
         /\ \A i \in 1 .. m - k + 1 : SubSeq(units, k, m)[i] = units[k + i - 1]
         /\ FlattenSeq(SubSeq(units, 1, m)) =
              FlattenSeq(SubSeq(units, 1, k - 1)) \o FlattenSeq(SubSeq(units, k, m))
<1> DEFINE some == SubSeq(units, k, m)
<1>1. Len(units) \in Nat /\ \A i \in 1 .. Len(units) : units[i] \in Seq(S)
  BY LenProperties, ElementOfSeq
<1>2. k \in Int /\ m \in Int /\ k <= m /\ \A i \in k .. m : units[i] \in Seq(S)
  BY <1>1
<1>3. /\ some \in Seq(Seq(S)) /\ Len(some) = m - k + 1
      /\ \A i \in 1 .. m - k + 1 : some[i] = units[k + i - 1]
  BY <1>2, SubSeqProperties
<1>4. SubSeq(units, 1, k - 1) \o some = SubSeq(units, 1, m)
  <2>1. /\ 1 \in 1 .. Len(units) + 1 /\ k - 1 \in 1 - 1 .. Len(units)
        /\ m \in k - 1 .. Len(units) /\ (k - 1) + 1 = k
    BY <1>1
  <2>2. SubSeq(units, 1, k - 1) \o SubSeq(units, (k - 1) + 1, m) = SubSeq(units, 1, m)
    BY <2>1, ConcatAdjacentSubSeq
  <2> QED
    BY <2>1, <2>2
<1> HIDE DEF some
<1>5. SubSeq(units, 1, k - 1) \in Seq(Seq(S))
  BY <1>1, UnitsBefore
<1>6. FlattenSeq(SubSeq(units, 1, k - 1) \o some)
        = FlattenSeq(SubSeq(units, 1, k - 1)) \o FlattenSeq(some)
  BY <1>3, <1>5, FlattenConcat
<1>7. FlattenSeq(some) \in Seq(S)
  BY <1>3, FlattenTyped
<1> QED
  BY <1>3, <1>4, <1>6, <1>7 DEF some

LEMMA WholeIs ==
  ASSUME NEW S, NEW units \in Seq(Seq(S)), NEW c, At(units, c), c # Done,
         NEW frame, NEW max, NEW page, IsWhole(units, c, frame, max, page)
  PROVE  /\ page.next = Done \/ At(units, page.next)
         /\ ReadTo(units, page.next) = ReadTo(units, c) \o page.text
<1>1. PICK k \in 1 .. Len(units) : k = c.unit
  BY DEF At
<1>2. PICK m \in k .. Len(units) :
        /\ c.token = 0
        /\ page.text = FlattenSeq(SubSeq(units, k, m))
        /\ page.next = UnitCursor(units, m + 1)
  BY <1>1 DEF IsWhole
<1>3. PICK before : before = FlattenSeq(SubSeq(units, 1, k - 1))
  OBVIOUS
<1>4. Len(units) \in Nat
  BY LenProperties
<1>5. before \in Seq(S) /\ before \o <<>> = before
  <2>1. k \in 1 .. Len(units) + 1
    BY <1>4
  <2>2. before \in Seq(S)
    BY <1>3, <2>1, UnitsBefore
  <2> QED
    BY <2>2, ConcatEmptySeq
<1>6. ReadTo(units, c) = before
  <2>1. SubSeq(units[k], 1, 0) = <<>>
    BY SubSeqEmpty
  <2>2. ReadTo(units, c) = before \o <<>>
    BY <1>1, <1>2, <1>3, <2>1 DEF ReadTo
  <2> QED
    BY <1>5, <2>2
<1>7. FlattenSeq(SubSeq(units, 1, m)) = before \o page.text
  <2>1. k \in 1 .. Len(units) /\ m \in k .. Len(units)
    OBVIOUS
  <2>2. FlattenSeq(SubSeq(units, 1, m)) =
          FlattenSeq(SubSeq(units, 1, k - 1)) \o FlattenSeq(SubSeq(units, k, m))
    BY <2>1, UnitsBetween, ZenonT(30)
  <2> QED
    BY <1>2, <1>3, <2>2
<1>8. PICK n \in 1 .. Len(units) + 1 : n = m + 1 /\ n - 1 = m
  BY <1>4
<1>9. /\ page.next = Done \/ At(units, page.next)
      /\ ReadTo(units, page.next) = FlattenSeq(SubSeq(units, 1, n - 1))
  BY <1>2, <1>8, CursorAt
<1> QED
  BY <1>6, <1>7, <1>8, <1>9

(* Two adjacent pieces of a unit, after what was before. *)
LEMMA PiecesJoin ==
  ASSUME NEW S, NEW unit \in Seq(S), NEW before \in Seq(S),
         NEW t \in 0 .. Len(unit), NEW last \in t .. Len(unit)
  PROVE  (before \o SubSeq(unit, 1, t)) \o SubSeq(unit, t + 1, last)
           = before \o SubSeq(unit, 1, last)
<1>1. Len(unit) \in Nat /\ \A i \in 1 .. Len(unit) : unit[i] \in S
  BY LenProperties, ElementOfSeq
<1>2. /\ t \in 1 - 1 .. Len(unit) /\ 1 \in 1 .. Len(unit) + 1
      /\ t \in Int /\ last \in Int /\ t + 1 \in Int
      /\ \A i \in 1 .. t : unit[i] \in S
      /\ \A i \in t + 1 .. last : unit[i] \in S
  BY <1>1
<1>3. PICK a, b : a = SubSeq(unit, 1, t) /\ b = SubSeq(unit, t + 1, last)
  OBVIOUS
<1>4. a \in Seq(S) /\ b \in Seq(S)
  BY <1>2, <1>3, SubSeqProperties
<1>5. a \o b = SubSeq(unit, 1, last)
  BY <1>2, <1>3, ConcatAdjacentSubSeq
<1>6. (before \o a) \o b = before \o (a \o b)
  BY <1>4, ConcatAssociative, SMTT(30)
<1> QED
  BY <1>3, <1>5, <1>6

LEMMA FragmentIs ==
  ASSUME NEW S, NEW units \in Seq(Seq(S)), NEW c, At(units, c), c # Done,
         NEW max, NEW page, IsFragment(units, c, max, page)
  PROVE  /\ page.next = Done \/ At(units, page.next)
         /\ ReadTo(units, page.next) = ReadTo(units, c) \o page.text
<1>1. PICK k, t : /\ k = c.unit /\ t = c.token
                  /\ k \in 1 .. Len(units) /\ t \in 0 .. Len(units[k])
  BY DEF At
<1> k \in 1 .. Len(units) /\ t \in 0 .. Len(units[k])
  BY <1>1
<1>2. PICK last \in t + 1 .. Len(units[k]) :
        /\ page.text = SubSeq(units[k], t + 1, last)
        /\ \/ last = Len(units[k]) /\ page.next = UnitCursor(units, k + 1)
           \/ page.next = [unit |-> k, token |-> last]
  BY <1>1 DEF IsFragment
<1>3. PICK unit : unit = units[k]
  OBVIOUS
<1>4. unit \in Seq(S) /\ Len(unit) \in Nat /\ Len(units) \in Nat
  <2>1. unit \in Seq(S)
    BY <1>3, ElementOfSeq
  <2> QED
    BY <2>1, LenProperties
<1>5. PICK before : before = FlattenSeq(SubSeq(units, 1, k - 1))
  OBVIOUS
<1>6. before \in Seq(S)
  <2>1. k \in 1 .. Len(units) + 1
    BY <1>4
  <2> QED
    BY <1>5, <2>1, UnitsBefore
<1>7. ReadTo(units, c) = before \o SubSeq(unit, 1, t)
  BY <1>1, <1>3, <1>5 DEF ReadTo
<1>8. t \in 0 .. Len(unit) /\ last \in t .. Len(unit)
  BY <1>3, <1>4
<1>9. ReadTo(units, c) \o page.text = before \o SubSeq(unit, 1, last)
  <2>1. (before \o SubSeq(unit, 1, t)) \o SubSeq(unit, t + 1, last)
          = before \o SubSeq(unit, 1, last)
    BY <1>4, <1>6, <1>8, PiecesJoin
  <2> QED
    BY <1>2, <1>3, <1>7, <2>1
<1>10. CASE page.next = [unit |-> k, token |-> last]
  <2>1. PICK d : d = page.next
    OBVIOUS
  <2>2. d.unit = k /\ d.token = last /\ d = [unit |-> d.unit, token |-> d.token]
    BY <1>10, <2>1
  <2>3. d # Done
    BY <1>1, <2>2 DEF Done
  <2>4. last \in 0 .. Len(unit)
    BY <1>3, <1>4
  <2>5. At(units, d)
    BY <1>3, <2>2, <2>4 DEF At
  <2>6. ReadTo(units, d) = before \o SubSeq(unit, 1, last)
    BY <1>3, <1>5, <2>2, <2>3 DEF ReadTo
  <2> QED
    BY <1>9, <2>1, <2>5, <2>6
<1>11. CASE last = Len(units[k]) /\ page.next = UnitCursor(units, k + 1)
  <2>1. PICK m : m = k + 1
    OBVIOUS
  <2>2. m \in 1 .. Len(units) + 1 /\ m - 1 = k
    BY <1>4, <2>1
  <2>3. page.next = UnitCursor(units, m)
    BY <1>11, <2>1
  <2>4. /\ page.next = Done \/ At(units, page.next)
        /\ ReadTo(units, page.next) = FlattenSeq(SubSeq(units, 1, k))
    BY <2>2, <2>3, CursorAt
  <2>5. SubSeq(unit, 1, last) = unit
    BY <1>3, <1>4, <1>11, SubSeqFull
  <2>6. /\ SubSeq(units, 1, k) = Append(SubSeq(units, 1, k - 1), unit)
        /\ SubSeq(units, 1, k - 1) \in Seq(Seq(S))
    BY <1>3, FirstOnes
  <2>7. FlattenSeq(SubSeq(units, 1, k)) = before \o unit
    BY <1>4, <1>5, <2>6, FlattenAppend
  <2> QED
    BY <1>9, <2>4, <2>5, <2>7
<1> QED
  BY <1>2, <1>10, <1>11

LEMMA WholeUnitsIs ==
  ASSUME NEW units, Len(units) \in Nat, NEW c, c.unit \in 1 .. Len(units),
         c.token \in Nat, NEW frame, NEW max, WholeUnits(units, c, frame, max) # 0
  PROVE  LET n == WholeUnits(units, c, frame, max)
         IN  /\ c.token = 0 /\ n \in 1 .. Len(units) - c.unit + 1
             /\ frame + Len(FlattenSeq(SubSeq(units, c.unit, c.unit + n - 1))) <= max
<1> DEFINE Fits == {n \in 1 .. Len(units) - c.unit + 1 :
              frame + Len(FlattenSeq(SubSeq(units, c.unit, c.unit + n - 1))) <= max}
           some == {0} \cup Fits
<1>1. c.token = 0
  BY DEF WholeUnits
<1>2. WholeUnits(units, c, frame, max) = Max(some)
  BY <1>1 DEF WholeUnits
<1>3. /\ some \in SUBSET Nat /\ some # {} /\ Len(units) \in Nat
      /\ \A m \in some : m <= Len(units)
  OBVIOUS
<1> HIDE DEF some
<1>4. Max(some) \in some
  BY <1>3, MaxOf
<1>5. Max(some) # 0
  BY <1>2
<1> USE DEF some
<1>6. Max(some) \in Fits
  BY <1>4, <1>5
<1> QED
  BY <1>1, <1>2, <1>6

LEMMA FragmentOf ==
  ASSUME NEW S, NEW units \in Seq(Seq(S)), NEW c, At(units, c), NEW max \in Nat
  PROVE  LET page == Fragment(units, c, max)
         IN  page = NoPage \/ (page.tokens \in Nat /\ IsFragment(units, c, max, page))
<1>1. PICK k, t : /\ k = c.unit /\ t = c.token /\ c = [unit |-> k, token |-> t]
                  /\ k \in 1 .. Len(units) /\ t \in 0 .. Len(units[k])
  BY DEF At
<1>2. PICK unit : unit = units[k]
  OBVIOUS
<1>3. Len(unit) \in Nat /\ t \in Nat /\ FragmentFrame \in Nat
  <2>1. unit \in Seq(S)
    BY <1>1, <1>2, ElementOfSeq
  <2> QED
    BY <1>1, <1>2, <2>1, LenProperties, Budgets
<1>4. PICK last : last = Lesser(Len(unit), t + max - FragmentFrame)
  OBVIOUS
<1>5. /\ last \in {Len(unit), t + max - FragmentFrame}
      /\ last <= Len(unit) /\ last <= t + max - FragmentFrame
  <2>1. t + max - FragmentFrame \in Int
    BY <1>3
  <2> QED
    BY <1>3, <1>4, <2>1, LesserGreater
<1>6. PICK page : page = Fragment(units, c, max)
  OBVIOUS
<1>7. CASE last <= t
  BY <1>1, <1>2, <1>4, <1>7 DEF Fragment
<1>8. CASE ~ (last <= t)
  <2>1. page = Page(SubSeq(unit, t + 1, last),
                    IF last < Len(unit) THEN [c EXCEPT !.token = last]
                                        ELSE UnitCursor(units, k + 1),
                    FragmentFrame + last - t)
    BY <1>1, <1>2, <1>4, <1>6, <1>8 DEF Fragment
  <2>2. [c EXCEPT !.token = last] = [unit |-> k, token |-> last]
    BY <1>1
  <2>3. /\ page.text = SubSeq(unit, t + 1, last)
        /\ page.tokens = FragmentFrame + last - t
        /\ page.next = IF last < Len(unit) THEN [unit |-> k, token |-> last]
                                           ELSE UnitCursor(units, k + 1)
    BY <2>1, <2>2 DEF Page
  <2>4. /\ last \in t + 1 .. Len(unit)
        /\ ~ (last < Len(unit)) => last = Len(unit)
    BY <1>3, <1>5, <1>8
  <2>5. /\ FragmentFrame + last - t \in Nat /\ FragmentFrame + last - t <= max
    BY <1>3, <1>5, <1>8
  <2>6. IsFragment(units, c, max, page)
    <3>1. \E l \in t + 1 .. Len(unit) :
            /\ page.text = SubSeq(unit, t + 1, l)
            /\ \/ l = Len(unit) /\ page.next = UnitCursor(units, k + 1)
               \/ page.next = [unit |-> k, token |-> l]
            /\ page.tokens = FragmentFrame + l - t
            /\ page.tokens <= max
            /\ l = Len(unit) \/ l = t + max - FragmentFrame
      <4>1. last = Len(unit) \/ last = t + max - FragmentFrame
        BY <1>5
      <4>2. \/ last = Len(unit) /\ page.next = UnitCursor(units, k + 1)
            \/ page.next = [unit |-> k, token |-> last]
        BY <2>3, <2>4
      <4>3. page.tokens <= max
        BY <2>3, <2>5
      <4> QED
        BY <2>3, <2>4, <4>1, <4>2, <4>3
    <3> QED
      BY <1>1, <1>2, <3>1 DEF IsFragment
  <2> QED
    BY <1>6, <2>3, <2>5, <2>6
<1> QED
  BY <1>6, <1>7, <1>8

(* What a page holds: nothing of a view without units, whole units, or a      *)
(* fragment.                                                                 *)
IsPage(units, c, max, page) ==
  /\ page.tokens \in Nat /\ page.tokens <= max
  /\ \/ Len(units) = 0 /\ c = Start /\ page.text = <<>> /\ page.next = Done
     \/ /\ At(units, c)
        /\ \/ \E frame \in Nat : IsWhole(units, c, frame, max, page)
           \/ IsFragment(units, c, max, page)

LEMMA PageOfIs ==
  ASSUME NEW p \in Payload, NEW v, NEW c, c = Start \/ At(Units(p, v), c),
         NEW max \in Nat
  PROVE  LET page == PageOf(p, v, c, max)
         IN  page = NoPage \/ IsPage(Units(p, v), c, max, page)
<1>1. PICK units : units = Units(p, v)
  OBVIOUS
<1>2. PICK frame \in Nat : frame = IF v = Full THEN 0 ELSE PageFrame
  BY Budgets
<1>3. PICK page : page = PageOf(p, v, c, max)
  OBVIOUS
<1>4. units \in Seq(Seq(Token)) /\ Len(units) \in Nat
        /\ \A i \in 1 .. Len(units) : units[i] \in Seq(Token) /\ Len(units[i]) \in Nat
  BY <1>1, UnitsAre, LenProperties, ElementOfSeq
<1>5. CASE c.unit > Len(units)
  <2>1. Len(units) = 0 /\ c = Start
    BY <1>1, <1>4, <1>5 DEF At, Start
  <2>2. page = IF frame <= max THEN Page(<<>>, Done, frame) ELSE NoPage
    BY <1>1, <1>2, <1>3, <1>5 DEF PageOf
  <2>3. CASE frame <= max
    <3>1. page.text = <<>> /\ page.next = Done /\ page.tokens = frame
      BY <2>2, <2>3 DEF Page
    <3> QED
      BY <1>1, <1>3, <2>1, <2>3, <3>1 DEF IsPage
  <2> QED
    BY <1>3, <2>2, <2>3
<1>6. CASE ~ (c.unit > Len(units))
  <2>1. At(units, c)
    BY <1>1, <1>4, <1>6 DEF At, Start
  <2>2. PICK k, t : /\ k = c.unit /\ t = c.token
                    /\ k \in 1 .. Len(units) /\ t \in Nat
    BY <1>4, <2>1 DEF At
  <2>3. PICK n : n = WholeUnits(units, c, frame, max)
    OBVIOUS
  <2>4. n = 0 \/ (t = 0 /\ n \in 1 .. Len(units) - k + 1
                   /\ frame + Len(FlattenSeq(SubSeq(units, k, k + n - 1))) <= max)
    BY <1>4, <2>2, <2>3, WholeUnitsIs
  <2>5. CASE n > 0
    <3>1. page = WholePage(units, c, frame, n)
      BY <1>1, <1>2, <1>3, <1>6, <2>3, <2>5 DEF PageOf
    <3>2. PICK m : m = k + n - 1
      OBVIOUS
    <3>3. m \in k .. Len(units) /\ m + 1 = k + n
      BY <1>4, <2>2, <2>4, <2>5, <3>2, SMTT(30)
    <3>4. PICK content : content = FlattenSeq(SubSeq(units, k, m))
      OBVIOUS
    <3>5. page = [text |-> content, next |-> UnitCursor(units, m + 1),
                  tokens |-> frame + Len(content)]
      BY <2>2, <3>1, <3>2, <3>3, <3>4 DEF WholePage, Page
    <3>6. Len(content) \in Nat
      <4>1. content \in Seq(Token)
        BY <1>4, <2>2, <3>3, <3>4, UnitsBetween
      <4> QED
        BY <4>1, LenProperties
    <3>7. frame + Len(content) <= max /\ t = 0
      BY <2>4, <2>5, <3>2, <3>4
    <3>8. IsWhole(units, c, frame, max, page)
      BY <2>2, <3>3, <3>4, <3>5, <3>7 DEF IsWhole
    <3>9. page.tokens \in Nat /\ page.tokens <= max
      BY <3>5, <3>6, <3>7
    <3> QED
      BY <1>1, <1>3, <2>1, <3>8, <3>9 DEF IsPage
  <2>6. CASE n = 0
    <3>1. page = Fragment(units, c, max)
      BY <1>1, <1>2, <1>3, <1>6, <2>3, <2>6 DEF PageOf
    <3>2. page = NoPage \/ (page.tokens \in Nat /\ IsFragment(units, c, max, page))
      BY <1>4, <2>1, <3>1, FragmentOf
    <3>3. IsFragment(units, c, max, page) => page.tokens <= max
      BY DEF IsFragment
    <3> QED
      BY <1>1, <1>3, <2>1, <3>2, <3>3 DEF IsPage
  <2> QED
    BY <2>4, <2>5, <2>6
<1> QED
  BY <1>5, <1>6

LEMMA PageReads ==
  ASSUME NEW units \in Seq(Seq(Token)), NEW c, c # Done, NEW max \in Nat, NEW page,
         IsPage(units, c, max, page)
  PROVE  /\ page.next = Done \/ At(units, page.next)
         /\ c = Start => ReadTo(units, page.next) = <<>> \o page.text
         /\ c # Start => ReadTo(units, page.next) = ReadTo(units, c) \o page.text
<1>1. CASE Len(units) = 0 /\ c = Start /\ page.text = <<>> /\ page.next = Done
  <2>1. units = <<>>
    BY <1>1, EmptySeq
  <2>2. ReadTo(units, Done) = <<>> \o <<>>
    BY <2>1, FlattenEmpty DEF ReadTo
  <2> QED
    BY <1>1, <2>2
<1>2. CASE At(units, c) /\ \E frame \in Nat : IsWhole(units, c, frame, max, page)
  <2>1. PICK frame : IsWhole(units, c, frame, max, page)
    BY <1>2
  <2>2. /\ page.next = Done \/ At(units, page.next)
        /\ ReadTo(units, page.next) = ReadTo(units, c) \o page.text
    BY <1>2, <2>1, WholeIs
  <2>3. c = Start => ReadTo(units, c) = <<>>
    BY <1>2, NoneBefore
  <2> QED
    BY <2>2, <2>3
<1>3. CASE At(units, c) /\ IsFragment(units, c, max, page)
  <2>1. /\ page.next = Done \/ At(units, page.next)
        /\ ReadTo(units, page.next) = ReadTo(units, c) \o page.text
    BY <1>3, FragmentIs
  <2>2. c = Start => ReadTo(units, c) = <<>>
    BY <1>3, NoneBefore
  <2> QED
    BY <2>1, <2>2
<1> QED
  BY <1>1, <1>2, <1>3 DEF IsPage

-----------------------------------------------------------------------------
(* Citations.                                                                *)

(* The units before a cursor, wholly or in part. *)
Passed(c, n) == c = Done \/ n < c.unit \/ (n = c.unit /\ c.token > 0)

(* An item whose label fits the first page that holds any of it. *)
Citable(p, i) ==
  /\ p.items[i].cite \in Manifest(p)
  /\ \A max \in Asks : FragmentFrame + p.items[i].at + LabelSize <= max

LEMMA LabelVisible ==
  ASSUME NEW p \in Payload, NEW i \in DOMAIN p.items, Citable(p, i), NEW content,
         \A n \in 1 .. LabelSize : <<i, p.items[i].at + n>> \in ToSet(content)
  PROVE  p.items[i].cite \in Visible(p, content)
  BY DEF Visible, Citable

LEMMA PageCites ==
  ASSUME NEW p \in Payloads, NEW v, v # Full, NEW c, c # Done, NEW max \in Asks,
         NEW page, IsPage(Units(p, v), c, max, page),
         NEW n \in 1 .. Len(Listed(p, v)), Passed(page.next, n), ~ Passed(c, n),
         NEW i, i = Listed(p, v)[n], Citable(p, i)
  PROVE  p.items[i].cite \in Visible(p, page.text)
<1>1. p \in Payload
  BY Answered
<1>2. PICK units : units = Units(p, v)
  OBVIOUS
<1>3. /\ units \in Seq(Seq(Token)) /\ Len(units) = Len(Listed(p, v))
      /\ i \in 1 .. Len(p.items) /\ units[n] = Text(p, i)
  <2>1. /\ units \in Seq(Seq(Token)) /\ Listed(p, v) \in Seq(1 .. Len(p.items))
        /\ Len(units) = Len(Listed(p, v)) /\ units[n] = Text(p, i)
    BY <1>1, <1>2, UnitsAre
  <2>2. Listed(p, v)[n] \in 1 .. Len(p.items)
    BY <2>1, ElementOfSeq
  <2> QED
    BY <2>1, <2>2
<1>4. PICK at, size : at = p.items[i].at /\ size = p.items[i].size
  OBVIOUS
<1>5. /\ Len(p.items) \in Nat /\ DOMAIN p.items = 1 .. Len(p.items)
      /\ at \in Nat /\ size \in Nat /\ LabelSize \in Nat /\ at + LabelSize <= size
  <2>1. /\ Len(p.items) \in Nat /\ DOMAIN p.items = 1 .. Len(p.items)
        /\ p.items[i] \in Item
    BY <1>1, <1>3, ItemSizes
  <2>2. p.items[i].cite # 0
    BY DEF Citable, Manifest
  <2>3. at + LabelSize <= size
    BY <1>3, <1>4, <2>1, <2>2, Answered
  <2> QED
    BY <1>4, <2>1, <2>3, Budgets DEF Item
<1>6. PICK body : body = Text(p, i)
  OBVIOUS
<1>7. /\ body \in Seq(Token) /\ Len(body) = size /\ DOMAIN body = 1 .. size
      /\ \A l \in 1 .. size : body[l] = <<i, l>>
  <2>1. i \in 0 .. Len(p.items) /\ i # 0
    BY <1>3, <1>5
  <2>2. /\ body \in Seq(Token) /\ Len(body) = size
        /\ \A l \in 1 .. size : body[l] = <<i, l>>
    BY <1>1, <1>4, <1>6, <2>1, TextIs
  <2> QED
    BY <2>2, LenProperties
<1>8. Len(units) \in Nat /\ n \in 1 .. Len(units)
  BY <1>3, LenProperties
<1>9. SUFFICES \A l \in 1 .. LabelSize : <<i, at + l>> \in ToSet(page.text)
  BY <1>1, <1>3, <1>4, <1>5, LabelVisible
<1>10. \A l \in 1 .. LabelSize : at + l \in 1 .. at + LabelSize /\ at + l \in 1 .. size
  BY <1>5
<1>11. CASE At(units, c) /\ \E frame \in Nat : IsWhole(units, c, frame, max, page)
  <2>1. PICK k : k = c.unit /\ k \in 1 .. Len(units)
    BY <1>11 DEF At
  <2>2. PICK m \in k .. Len(units) :
          /\ c.token = 0
          /\ page.text = FlattenSeq(SubSeq(units, k, m))
          /\ page.next = UnitCursor(units, m + 1)
    BY <1>11, <2>1 DEF IsWhole
  <2>3. n \in k .. m
    <3>1. ~ (n < k)
      BY <2>1 DEF Passed
    <3>2. PICK o \in 1 .. Len(units) + 1 : o = m + 1
      BY <1>8, <2>1
    <3>3. page.next = UnitCursor(units, o)
      BY <2>2, <3>2
    <3>4. \/ page.next = Done /\ o = Len(units) + 1
          \/ page.next.unit = o /\ page.next.token = 0 /\ page.next # Done
      BY <1>3, <3>3, CursorAt, ZenonT(30)
    <3>5. n < o
      BY <1>8, <3>4 DEF Passed
    <3> QED
      BY <1>8, <2>1, <3>1, <3>2, <3>5
  <2>4. PICK some : some = SubSeq(units, k, m)
    OBVIOUS
  <2>5. /\ some \in Seq(Seq(Token)) /\ Len(some) = m - k + 1
        /\ \A j \in 1 .. m - k + 1 : some[j] = units[k + j - 1]
    <3>1. units \in Seq(Seq(Token)) /\ k \in 1 .. Len(units) /\ m \in k .. Len(units)
      BY <1>3, <2>1
    <3>2. /\ SubSeq(units, k, m) \in Seq(Seq(Token))
          /\ Len(SubSeq(units, k, m)) = m - k + 1
          /\ \A j \in 1 .. m - k + 1 : SubSeq(units, k, m)[j] = units[k + j - 1]
      BY <3>1, UnitsBetween
    <3> QED
      BY <2>4, <3>2
  <2>6. PICK j \in 1 .. Len(some) : some[j] = body
    <3>1. n - k + 1 \in 1 .. m - k + 1 /\ k + (n - k + 1) - 1 = n
      BY <1>8, <2>1, <2>3
    <3>2. PICK e \in 1 .. m - k + 1 : k + e - 1 = n
      BY <3>1
    <3>3. some[e] = units[n]
      BY <2>5, <3>2
    <3>4. e \in 1 .. Len(some)
      BY <2>5
    <3>5. some[e] = body
      BY <1>3, <1>6, <3>3
    <3> QED
      BY <3>4, <3>5, Zenon
  <2>7. ToSet(page.text) = UNION {ToSet(some[e]) : e \in 1 .. Len(some)}
    <3>1. some \in Seq(Seq(Token))
      BY <2>5
    <3>2. ToSet(FlattenSeq(some)) = UNION {ToSet(some[e]) : e \in 1 .. Len(some)}
      BY <3>1, FlattenMembers, Zenon
    <3> QED
      BY <2>2, <2>4, <3>2, Zenon
  <2>8. ToSet(body) \subseteq ToSet(page.text)
    BY <2>6, <2>7
  <2>9. \A l \in 1 .. size : <<i, l>> \in ToSet(body)
    BY <1>7 DEF ToSet
  <2> QED
    BY <1>10, <2>8, <2>9
<1>12. CASE At(units, c) /\ IsFragment(units, c, max, page)
  <2>1. PICK k, t : /\ k = c.unit /\ t = c.token
                    /\ k \in 1 .. Len(units) /\ t \in Nat
    BY <1>3, <1>12, LenProperties DEF At
  <2>2. PICK last : 
          /\ last \in t + 1 .. Len(units[k])
          /\ page.text = SubSeq(units[k], t + 1, last)
          /\ \/ last = Len(units[k]) /\ page.next = UnitCursor(units, k + 1)
             \/ page.next = [unit |-> k, token |-> last]
          /\ last = Len(units[k]) \/ last = t + max - FragmentFrame
    BY <1>12, <2>1 DEF IsFragment
  <2>3. n <= k
    <3>1. PICK o \in 1 .. Len(units) + 1 : o = k + 1
      BY <1>8, <2>1
    <3>2. CASE page.next = [unit |-> k, token |-> last]
      <4>1. page.next.unit = k /\ page.next # Done
        BY <2>1, <3>2 DEF Done
      <4> QED
        BY <1>8, <2>1, <4>1 DEF Passed
    <3>3. CASE page.next = UnitCursor(units, k + 1)
      <4>1. page.next = UnitCursor(units, o)
        BY <3>1, <3>3
      <4>2. \/ page.next = Done /\ o = Len(units) + 1
            \/ page.next.unit = o /\ page.next.token = 0 /\ page.next # Done
        BY <1>3, <4>1, CursorAt, ZenonT(30)
      <4> QED
        BY <1>8, <2>1, <3>1, <4>2 DEF Passed
    <3> QED
      BY <2>2, <3>2, <3>3
  <2>4. n = k /\ t = 0
    BY <1>8, <2>1, <2>3 DEF Passed
  <2>5. /\ units[k] = body /\ last \in 1 .. size /\ page.text = SubSeq(body, 1, last)
        /\ last = size \/ last = max - FragmentFrame
    <3>1. units[k] = body
      BY <1>3, <1>6, <2>4
    <3>2. t + 1 = 1 /\ t + max - FragmentFrame = max - FragmentFrame
      BY <2>4, Budgets
    <3> QED
      BY <1>7, <2>2, <3>1, <3>2
  <2>6. at + LabelSize <= last
    <3>1. FragmentFrame + at + LabelSize <= max
      BY <1>4 DEF Citable
    <3> QED
      BY <1>5, <2>5, <3>1, Budgets
  <2>7. \A l \in 1 .. last : <<i, l>> \in ToSet(page.text)
    <3>1. last \in Nat /\ \A e \in 1 .. last : body[e] \in Token
      BY <1>7, <2>5, ElementOfSeq
    <3>2. /\ page.text \in Seq(Token) /\ Len(page.text) = last
          /\ \A e \in 1 .. last : page.text[e] = body[e]
      <4>1. /\ SubSeq(body, 1, last) \in Seq(Token)
            /\ Len(SubSeq(body, 1, last)) = IF 1 <= last THEN last - 1 + 1 ELSE 0
            /\ \A e \in 1 .. last - 1 + 1 : SubSeq(body, 1, last)[e] = body[1 + e - 1]
        BY <3>1, SubSeqProperties
      <4> QED
        BY <2>5, <3>1, <4>1
    <3>3. DOMAIN page.text = 1 .. last
      BY <3>2, LenProperties
    <3>4. \A e \in 1 .. last : page.text[e] = <<i, e>>
      BY <1>5, <1>7, <2>5, <3>2
    <3> QED
      BY <3>3, <3>4 DEF ToSet
  <2>8. \A l \in 1 .. LabelSize : at + l \in 1 .. last
    BY <1>5, <2>5, <2>6
  <2> QED
    BY <2>7, <2>8
<1>13. Len(units) # 0
  BY <1>8
<1> QED
  BY <1>2, <1>11, <1>12, <1>13 DEF IsPage

(* The text of a page is a part of its tokens. *)
LEMMA PageTexts ==
  ASSUME NEW units \in Seq(Seq(Token)), NEW c, NEW max, NEW page,
         IsPage(units, c, max, page)
  PROVE  page.text \in Seq(Token) /\ Len(page.text) <= page.tokens
<1>1. CASE page.text = <<>>
  BY <1>1, EmptySeq DEF IsPage
<1>2. CASE At(units, c) /\ \E frame \in Nat : IsWhole(units, c, frame, max, page)
  <2>1. PICK frame \in Nat, m \in c.unit .. Len(units) :
          /\ page.text = FlattenSeq(SubSeq(units, c.unit, m))
          /\ page.tokens = frame + Len(page.text)
    BY <1>2 DEF IsWhole
  <2>2. SubSeq(units, c.unit, m) \in Seq(Seq(Token))
    BY <1>2, <2>1, SubSeqProperties, ElementOfSeq DEF At
  <2>3. page.text \in Seq(Token)
    BY <2>1, <2>2, FlattenTyped
  <2>4. Len(page.text) \in Nat
    BY <2>3, LenProperties
  <2> QED
    BY <2>1, <2>3, <2>4
<1>3. CASE At(units, c) /\ IsFragment(units, c, max, page)
  <2>1. PICK unit, t : unit = units[c.unit] /\ t = c.token
    OBVIOUS
  <2>2. unit \in Seq(Token) /\ Len(unit) \in Nat /\ t \in Nat
    BY <1>3, <2>1, ElementOfSeq, LenProperties DEF At
  <2>3. PICK last \in t + 1 .. Len(unit) :
          /\ page.text = SubSeq(unit, t + 1, last)
          /\ page.tokens = FragmentFrame + last - t
    BY <1>3, <2>1 DEF IsFragment
  <2>4. /\ SubSeq(unit, t + 1, last) \in Seq(Token)
        /\ Len(SubSeq(unit, t + 1, last)) = last - t
    <3>1. \A e \in t + 1 .. last : unit[e] \in Token
      BY <2>2, <2>3, ElementOfSeq
    <3>2. t + 1 \in Nat /\ last \in Nat
      BY <2>2, <2>3
    <3>3. /\ SubSeq(unit, t + 1, last) \in Seq(Token)
          /\ Len(SubSeq(unit, t + 1, last)) =
               IF t + 1 <= last THEN last - (t + 1) + 1 ELSE 0
      BY <2>2, <3>1, <3>2, SubSeqProperties
    <3> QED
      BY <2>2, <2>3, <3>3
  <2> QED
    BY <2>2, <2>3, <2>4, Budgets
<1> QED
  BY <1>1, <1>2, <1>3 DEF IsPage

(* A page has room for every label it cites: the labels that stand in it are  *)
(* different ones, and each takes LabelSize of its tokens.                    *)
LEMMA CountText ==
  ASSUME NEW content \in Seq(Token)
  PROVE  IsFiniteSet(ToSet(content)) /\ Cardinality(ToSet(content)) <= Len(content)
<1>1. Len(content) \in Nat /\ DOMAIN content = 1 .. Len(content)
  BY LenProperties
<1>2. PICK S, T, f : S = 1 .. Len(content) /\ T = ToSet(content)
                     /\ f = [n \in S |-> content[n]]
  OBVIOUS
<1>3. f \in Surjection(S, T)
  <2>1. f \in [S -> T] /\ \A t \in T : \E n \in S : f[n] = t
    BY <1>1, <1>2 DEF ToSet
  <2> QED
    BY <2>1, Fun_IsSurj
<1>4. IsFiniteSet(S) /\ Cardinality(S) = Len(content)
  BY <1>1, <1>2, FS_Interval
<1>5. IsFiniteSet(T) /\ Cardinality(T) <= Cardinality(S)
  BY <1>3, <1>4, FS_Surjection
<1> QED
  BY <1>2, <1>4, <1>5

LEMMA CitationsFit ==
  ASSUME NEW p \in Payload, NEW content \in Seq(Token)
  PROVE  /\ Cardinality(Visible(p, content)) \in Nat
         /\ Cardinality(Visible(p, content)) * LabelSize <= Len(content)
<1>1. PICK V, S, T : V = Visible(p, content) /\ S = 1 .. LabelSize /\ T = ToSet(content)
  OBVIOUS
<1> DEFINE Of(label) == CHOOSE i \in DOMAIN p.items :
             /\ p.items[i].cite = label
             /\ \A n \in S : <<i, p.items[i].at + n>> \in T
<1>2. \A label \in V : /\ Of(label) \in DOMAIN p.items
                       /\ p.items[Of(label)].cite = label
                       /\ \A n \in S : <<Of(label), p.items[Of(label)].at + n>> \in T
  <2>1. \A label \in V : \E i \in DOMAIN p.items :
          /\ p.items[i].cite = label
          /\ \A n \in S : <<i, p.items[i].at + n>> \in T
    BY <1>1 DEF Visible
  <2> QED
    BY <2>1
<1> HIDE DEF Of
<1>3. \A label \in V : p.items[Of(label)].at \in Nat
  BY <1>2, ItemSizes DEF Item
<1>4. /\ LabelSize \in Nat \ {0} /\ S \subseteq Nat
      /\ IsFiniteSet(S) /\ Cardinality(S) = LabelSize
  BY <1>1, Budgets, FS_Interval
<1>5. IsFiniteSet(T) /\ Cardinality(T) \in Nat /\ Cardinality(T) <= Len(content)
        /\ Len(content) \in Nat
  BY <1>1, CountText, FS_CardinalityType, LenProperties
<1>6. IsFiniteSet(V \X S) /\ Cardinality(V \X S) <= Cardinality(T)
  <2>1. PICK f : f = [x \in V \X S |-> <<Of(x[1]), p.items[Of(x[1])].at + x[2]>>]
    OBVIOUS
  <2>2. \A x \in V \X S : x[1] \in V /\ x[2] \in S /\ x = <<x[1], x[2]>>
    OBVIOUS
  <2>3. f \in [V \X S -> T]
    BY <1>2, <2>1, <2>2
  <2>4. ASSUME NEW x \in V \X S, NEW y \in V \X S, f[x] = f[y] PROVE x = y
    <3>1. PICK a, b, m, n : a = x[1] /\ m = x[2] /\ b = y[1] /\ n = y[2]
      OBVIOUS
    <3>2. a \in V /\ b \in V /\ m \in S /\ n \in S /\ x = <<a, m>> /\ y = <<b, n>>
      BY <2>2, <3>1
    <3>3. /\ f[x] = <<Of(a), p.items[Of(a)].at + m>>
          /\ f[y] = <<Of(b), p.items[Of(b)].at + n>>
      BY <2>1, <3>1
    <3>4. Of(a) = Of(b) /\ p.items[Of(a)].at + m = p.items[Of(b)].at + n
      <4>1. PICK i, j, k, l : /\ i = Of(a) /\ k = p.items[Of(a)].at + m
                              /\ j = Of(b) /\ l = p.items[Of(b)].at + n
        OBVIOUS
      <4>2. <<i, k>> = <<j, l>>
        BY <2>4, <3>3, <4>1
      <4>3. i = j /\ k = l
        BY <4>2
      <4> QED
        BY <4>1, <4>3
    <3>5. a = b
      BY <1>2, <3>2, <3>4
    <3>6. m = n
      <4>1. PICK k : k = p.items[Of(a)].at
        OBVIOUS
      <4>2. k \in Nat /\ m \in Nat /\ n \in Nat /\ k + m = k + n
        BY <1>3, <1>4, <3>2, <3>4, <3>5, <4>1
      <4> QED
        BY <4>2
    <3> QED
      BY <3>2, <3>5, <3>6
  <2>5. f \in Injection(V \X S, T)
    BY <2>3, <2>4, Fun_IsInj
  <2> QED
    BY <1>5, <2>5, FS_Injection
<1>7. IsFiniteSet(V)
  <2>1. 1 \in S
    BY <1>1, <1>4
  <2>2. PICK g : g = [label \in V |-> <<label, 1>>]
    OBVIOUS
  <2>3. g \in [V -> V \X S] /\ \A a, b \in V : g[a] = g[b] => a = b
    BY <2>1, <2>2
  <2>4. g \in Injection(V, V \X S)
    BY <2>3, Fun_IsInj
  <2> QED
    BY <1>6, <2>4, FS_Injection
<1>8. Cardinality(V) \in Nat /\ Cardinality(V \X S) = Cardinality(V) * LabelSize
  BY <1>4, <1>7, FS_CardinalityType, FS_Product
<1>9. Cardinality(V) * LabelSize \in Nat
  BY <1>4, <1>8
<1> QED
  BY <1>1, <1>5, <1>6, <1>8, <1>9

-----------------------------------------------------------------------------
(* The results of a session.                                                 *)

(* What read_artifact may bring: the fields around a page, the page, and its  *)
(* citations.                                                                *)
MaxSlice == Envelope + Cap + CitationSize * (Cap \div LabelSize)

LEMMA SliceFits ==
  ASSUME NEW n \in Nat, NEW labels \in Nat, labels * LabelSize <= n, n <= Cap
  PROVE  /\ Envelope + n + CitationSize * labels \in Nat
         /\ Envelope + n + CitationSize * labels <= MaxSlice
<1>1. /\ CitationSize \in Nat /\ Envelope \in Nat /\ Cap \in Nat
      /\ LabelSize \in Nat \ {0}
  BY Budgets
<1>2. PICK q : q = Cap \div LabelSize
  OBVIOUS
<1>3. q \in Nat /\ labels <= q
  <2>1. labels * LabelSize \in Nat /\ labels * LabelSize <= Cap
    BY <1>1
  <2>2. /\ q \in Int /\ LabelSize * q <= Cap /\ Cap < LabelSize * q + LabelSize
    BY <1>1, <1>2, SMT
  <2>3. ASSUME labels > q PROVE FALSE
    <3>1. labels >= q + 1
      BY <2>2, <2>3
    <3>2. labels * LabelSize >= (q + 1) * LabelSize
      BY <1>1, <2>2, <3>1, SMT
    <3>3. (q + 1) * LabelSize = LabelSize * q + LabelSize
      BY <1>1, <2>2
    <3> QED
      BY <1>1, <2>1, <2>2, <3>2, <3>3
  <2> QED
    BY <2>2, <2>3
<1>4. CitationSize * labels <= CitationSize * q /\ CitationSize * labels \in Nat
        /\ CitationSize * q \in Nat
  BY <1>1, <1>3, SMT
<1> QED
  BY <1>1, <1>2, <1>4 DEF MaxSlice

Res == [of : Payload, shown : SUBSET Nat, handle : {"none", "id", "reference"},
        tokens : Nat, offloaded : BOOLEAN]

(* An answer of another tool as materialize keeps it, or one of read_artifact. *)
Standing(r) ==
  \/ r.of.tool # "read_artifact" /\ r.of \in Payloads /\ Kept(r.of, r)
  \/ /\ r.of.tool = "read_artifact" /\ r.of.items = <<>>
     /\ r.handle = "none" /\ ~ r.offloaded /\ r.tokens <= MaxSlice

TokensIn(rs) == [k \in DOMAIN rs |-> rs[k].tokens]
IsInline(r) == ~ r.offloaded /\ r.of.tool # "read_artifact"
InlineIn(rs) == {k \in DOMAIN rs : IsInline(rs[k])}

LEMMA KeptTyped ==
  ASSUME NEW p \in Payloads, NEW r, Kept(p, r),
         r = [of |-> r.of, shown |-> r.shown, handle |-> r.handle,
              tokens |-> r.tokens, offloaded |-> r.offloaded]
  PROVE  r \in Res /\ Standing(r)
<1>1. p \in Payload /\ p.tool # "read_artifact" /\ r.of = p
  BY Answered DEF Kept
<1>2. r.shown \subseteq Nat
  <2>1. DOMAIN p.items = 1 .. Len(p.items) /\ Len(p.items) \in Nat
    BY <1>1, ItemSizes
  <2> QED
    BY <2>1 DEF Kept
<1>3. Standing(r)
  BY <1>1 DEF Standing
<1>4. /\ r.of \in Payload /\ r.shown \in SUBSET Nat
      /\ r.handle \in {"none", "id", "reference"} /\ r.tokens \in Nat
      /\ r.offloaded \in BOOLEAN
  BY <1>1, <1>2 DEF Kept
<1> HIDE DEF Payload
<1>5. r \in Res
  BY <1>4 DEF Res
<1> QED
  BY <1>3, <1>5

LEMMA MaterializedTyped ==
  ASSUME NEW p \in Payloads, Accumulated \in Nat
  PROVE  \E r \in Res :
           /\ r = Materialized(p) /\ Standing(r)
           /\ IsInline(r) => r.tokens + Accumulated <= MaxTotal + Wrapper
<1>1. PICK r : r = Materialized(p)
  OBVIOUS
<1>2. /\ Kept(p, r)
      /\ ~ r.offloaded => r.tokens + Accumulated <= MaxTotal + Wrapper
  BY <1>1, MaterializedIs
<1>3. r = [of |-> r.of, shown |-> r.shown, handle |-> r.handle,
           tokens |-> r.tokens, offloaded |-> r.offloaded]
  <2>1. Materialized(p) \in {AsIs(p), Offloaded(p), Inline(p)}
    BY DEF Materialized
  <2>2. CASE r = AsIs(p)
    BY <2>2 DEF AsIs, Result
  <2>3. CASE r = Offloaded(p)
    BY <2>3 DEF Offloaded, Result
  <2>4. CASE r = Inline(p)
    BY <2>4 DEF Inline, Result
  <2> QED
    BY <1>1, <2>1, <2>2, <2>3, <2>4
<1>4. r \in Res /\ Standing(r)
  BY <1>2, <1>3, KeptTyped
<1> QED
  BY <1>1, <1>2, <1>4 DEF IsInline

LEMMA SliceIs ==
  ASSUME NEW page, NEW citations, page.tokens \in Nat, page.tokens <= Cap,
         Cardinality(citations) \in Nat,
         Cardinality(citations) * LabelSize <= page.tokens
  PROVE  \E r \in Res : r = AsIs(Slice(page, citations)) /\ Standing(r) /\ ~ IsInline(r)
<1>0. PICK n : n = Envelope + page.tokens + CitationSize * Cardinality(citations)
  OBVIOUS
<1>1. PICK p : p = Slice(page, citations)
  OBVIOUS
<1>2. p = [tool |-> "read_artifact", binary |-> FALSE, items |-> <<>>, head |-> n]
  BY <1>0, <1>1 DEF Slice
<1>3. p.tool = "read_artifact" /\ p.head = n /\ p.items = <<>>
  BY <1>2
<1>13. n \in Nat /\ n <= MaxSlice
  BY <1>0, SliceFits
<1>4. p \in Payload
  <2>1. <<>> \in Seq(Item) /\ "read_artifact" \in Tool
    BY EmptySeq DEF Tool, PartsOf
  <2> QED
    BY <1>2, <1>13, <2>1 DEF Payload
<1>5. DOMAIN p.items = {}
  BY <1>3
<1>6. Tokens(p) = n
  <2>1. Size(p, DOMAIN p.items) = 0
    BY <1>4, <1>5, SizeNone
  <2> QED
    BY <1>3, <1>13, <2>1 DEF Tokens
<1>7. PICK r : r = AsIs(p)
  OBVIOUS
<1>8. r = [of |-> p, shown |-> {}, handle |-> "none", tokens |-> n, offloaded |-> FALSE]
  BY <1>5, <1>6, <1>7 DEF AsIs, Result
<1>9. r \in Res
  BY <1>4, <1>8, <1>13 DEF Res
<1>10. /\ r.of = p /\ r.handle = "none" /\ r.tokens = n /\ r.offloaded = FALSE
  BY <1>8
<1>11. Standing(r) /\ ~ IsInline(r)
  BY <1>3, <1>10, <1>13 DEF Standing, IsInline
<1> QED
  BY <1>1, <1>7, <1>9, <1>11

LEMMA TokensTyped ==
  ASSUME NEW rs \in Seq(Res)
  PROVE  /\ TokensIn(rs) \in Seq(Nat) /\ Len(TokensIn(rs)) = Len(rs)
         /\ Len(rs) \in Nat /\ DOMAIN rs = 1 .. Len(rs)
         /\ SumAt(TokensIn(rs), InlineIn(rs)) \in Nat
         /\ SumAt(TokensIn(rs), DOMAIN rs) \in Nat
         /\ SumAt(TokensIn(rs), InlineIn(rs)) <= SumAt(TokensIn(rs), DOMAIN rs)
<1>1. Len(rs) \in Nat /\ DOMAIN rs = 1 .. Len(rs)
      /\ \A k \in 1 .. Len(rs) : rs[k] \in Res
  BY LenProperties, ElementOfSeq
<1>2. PICK f : f = TokensIn(rs)
  OBVIOUS
<1>3. f = [k \in 1 .. Len(rs) |-> f[k]] /\ \A k \in 1 .. Len(rs) : f[k] \in Nat
  BY <1>1, <1>2 DEF TokensIn, Res
<1>4. f \in Seq(Nat) /\ Len(f) = Len(rs)
  BY <1>1, <1>3, MapTyped
<1>5. InlineIn(rs) \subseteq DOMAIN rs
  BY DEF InlineIn
<1>6. /\ SumAt(f, InlineIn(rs)) \in Nat /\ SumAt(f, DOMAIN rs) \in Nat
      /\ SumAt(f, InlineIn(rs)) <= SumAt(f, DOMAIN rs)
  BY <1>4, <1>5, SumNat, SumMono
<1> QED
  BY <1>1, <1>2, <1>4, <1>6

LEMMA TokensAppend ==
  ASSUME NEW rs \in Seq(Res), NEW r \in Res
  PROVE  SumAt(TokensIn(Append(rs, r)), InlineIn(Append(rs, r))) =
           SumAt(TokensIn(rs), InlineIn(rs)) + (IF IsInline(r) THEN r.tokens ELSE 0)
<1>1. PICK rt : rt = Append(rs, r)
  OBVIOUS
<1>2. /\ rt \in Seq(Res) /\ Len(rt) = Len(rs) + 1 /\ rt[Len(rs) + 1] = r
      /\ \A k \in 1 .. Len(rs) : rt[k] = rs[k]
  BY <1>1, AppendProperties
<1>3. PICK s, t, n : s = TokensIn(rs) /\ t = TokensIn(rt) /\ n = Len(rs)
  OBVIOUS
<1>4. /\ s \in Seq(Nat) /\ Len(s) = n /\ n \in Nat /\ DOMAIN rs = 1 .. n
      /\ t \in Seq(Nat) /\ Len(t) = n + 1 /\ DOMAIN rt = 1 .. n + 1
  BY <1>2, <1>3, TokensTyped
<1>5. r.tokens \in Nat
  BY DEF Res
<1>6. t = Append(s, r.tokens)
  <2>1. /\ \A k \in 1 .. n : t[k] = s[k]
        /\ t[n + 1] = r.tokens
    BY <1>2, <1>3, <1>4 DEF TokensIn
  <2>2. t = Append(s, t[Len(t)])
    BY <1>4, <2>1, Extended
  <2> QED
    BY <1>4, <2>1, <2>2
<1>7. PICK J, K : J = InlineIn(rs) /\ K = InlineIn(rt)
  OBVIOUS
<1>8. \A k \in 1 .. Len(s) : k \in J <=> k \in K
  BY <1>2, <1>3, <1>4, <1>7 DEF InlineIn
<1>9. Len(s) + 1 \in K <=> IsInline(r)
  BY <1>2, <1>3, <1>4, <1>7 DEF InlineIn
<1>10. SumAt(Append(s, r.tokens), K) =
         SumAt(s, J) + (IF Len(s) + 1 \in K THEN r.tokens ELSE 0)
  BY <1>4, <1>5, <1>8, SumAppend
<1> QED
  BY <1>1, <1>3, <1>6, <1>7, <1>9, <1>10

-----------------------------------------------------------------------------
(* The invariant.                                                            *)

(* Every result stands as materialize left it, and those kept inline stay     *)
(* within the session's budget.                                              *)
SessionKept ==
  /\ results \in Seq(Res)
  /\ \A k \in DOMAIN results : Standing(results[k])
  /\ SumAt(TokensIn(results), InlineIn(results)) <= MaxTotal + Wrapper

(* What was read of a view is its text up to the cursor, and the citable      *)
(* items of it, up to the cursor, are cited.                                 *)
PagesKept(p, v, c, read, labels) ==
  /\ c = Done \/ At(Units(p, v), c)
  /\ read = ReadTo(Units(p, v), c)
  /\ v # Full =>
       \A n \in 1 .. Len(Listed(p, v)) :
         Passed(c, n) /\ Citable(p, Listed(p, v)[n]) =>
           p.items[Listed(p, v)[n]].cite \in labels

ReadKept ==
  /\ artifact = 0 => cursor = Done
  /\ artifact # 0 =>
       /\ artifact \in DOMAIN results /\ results[artifact].of \in Payloads
       /\ PagesKept(results[artifact].of, view, cursor, text, cited)

SessionInv == SessionKept /\ ReadKept

LEMMA PageKept ==
  ASSUME NEW p \in Payloads, NEW v, NEW c, c # Done, NEW max \in Asks,
         NEW page, page = PageOf(p, v, c, max), page # NoPage,
         NEW before, NEW labels,
         (c = Start /\ before = <<>>) \/ PagesKept(p, v, c, before, labels)
  PROVE  /\ page.tokens \in Nat /\ page.tokens <= max
         /\ Cardinality(Visible(p, page.text)) \in Nat
         /\ Cardinality(Visible(p, page.text)) * LabelSize <= page.tokens
         /\ PagesKept(p, v, page.next, before \o page.text,
                      labels \cup Visible(p, page.text))
<1>1. p \in Payload /\ max \in Nat
  BY Answered, Budgets
<1>2. c = Start \/ At(Units(p, v), c)
  BY DEF PagesKept
<1>3. IsPage(Units(p, v), c, max, page)
  BY <1>1, <1>2, PageOfIs
<1>4. before = IF c = Start THEN <<>> ELSE ReadTo(Units(p, v), c)
  <2>1. Units(p, v) \in Seq(Seq(Token))
    BY <1>1, UnitsAre
  <2>2. CASE c = Start /\ ~ (before = <<>>)
    <3>1. At(Units(p, v), Start) /\ Start # Done /\ before = ReadTo(Units(p, v), Start)
      BY <2>2 DEF PagesKept
    <3> QED
      BY <2>1, <2>2, <3>1, NoneBefore
  <2>3. CASE c # Start
    BY <2>3 DEF PagesKept
  <2> QED
    BY <2>2, <2>3
<1>5. /\ page.next = Done \/ At(Units(p, v), page.next)
      /\ ReadTo(Units(p, v), page.next) = before \o page.text
  <2>1. PICK units : units = Units(p, v)
    OBVIOUS
  <2>2. units \in Seq(Seq(Token)) /\ IsPage(units, c, max, page)
    BY <1>1, <1>3, <2>1, UnitsAre
  <2>3. (c = Start => before = <<>>) /\ (c # Start => before = ReadTo(units, c))
    BY <1>4, <2>1
  <2>4. /\ page.next = Done \/ At(units, page.next)
        /\ c = Start => ReadTo(units, page.next) = <<>> \o page.text
        /\ c # Start => ReadTo(units, page.next) = ReadTo(units, c) \o page.text
    BY <1>1, <2>2, PageReads
  <2> QED
    BY <2>1, <2>3, <2>4
<1>6. PICK seen : seen = labels \cup Visible(p, page.text)
  OBVIOUS
<1>7. ASSUME v # Full, NEW n \in 1 .. Len(Listed(p, v)), Passed(page.next, n),
             Citable(p, Listed(p, v)[n])
      PROVE  p.items[Listed(p, v)[n]].cite \in seen
  <2>1. CASE Passed(c, n) /\ ~ (c = Start)
    BY <1>6, <1>7, <2>1 DEF PagesKept
  <2>2. CASE ~ Passed(c, n)
    <3>1. PICK i : i = Listed(p, v)[n]
      OBVIOUS
    <3>2. p.items[i].cite \in Visible(p, page.text)
      BY <1>3, <1>7, <2>2, <3>1, PageCites
    <3> QED
      BY <1>6, <3>1, <3>2
  <2>3. CASE Passed(c, n) /\ c = Start
    <3>1. n \in Nat /\ 1 <= n
      <4>1. Listed(p, v) \in Seq(1 .. Len(p.items))
        BY <1>1, ListedIs
      <4>2. Len(Listed(p, v)) \in Nat
        BY <4>1, LenProperties
      <4> QED
        BY <4>2
    <3> QED
      BY <2>3, <3>1 DEF Passed, Start
  <2> QED
    BY <2>1, <2>2, <2>3
<1>8. PagesKept(p, v, page.next, before \o page.text, seen)
  BY <1>5, <1>7 DEF PagesKept
<1>9. page.tokens \in Nat /\ page.tokens <= max
  BY <1>3 DEF IsPage
<1>10. page.text \in Seq(Token) /\ Len(page.text) <= page.tokens
  BY <1>1, <1>3, PageTexts, UnitsAre
<1>11. PICK labelled : labelled = Cardinality(Visible(p, page.text))
  OBVIOUS
<1>12. labelled \in Nat /\ labelled * LabelSize <= Len(page.text)
  BY <1>1, <1>10, <1>11, CitationsFit
<1>13. labelled * LabelSize <= page.tokens
  <2>1. labelled * LabelSize \in Nat /\ Len(page.text) \in Nat
    BY <1>10, <1>12, Budgets, LenProperties
  <2> QED
    BY <1>9, <1>10, <1>12, <2>1
<1> QED
  BY <1>6, <1>8, <1>9, <1>11, <1>12, <1>13

LEMMA AppendKept ==
  ASSUME SessionKept, NEW r \in Res, Standing(r),
         IsInline(r) =>
           r.tokens + SumAt(TokensIn(results), DOMAIN results) <= MaxTotal + Wrapper,
         results' = Append(results, r)
  PROVE  /\ SessionKept'
         /\ \A k \in DOMAIN results : k \in DOMAIN results' /\ results'[k] = results[k]
<1>1. PICK rs : rs = results
  OBVIOUS
<1>2. PICK rt : rt = Append(rs, r)
  OBVIOUS
<1>3. /\ rs \in Seq(Res) /\ \A k \in DOMAIN rs : Standing(rs[k])
      /\ SumAt(TokensIn(rs), InlineIn(rs)) <= MaxTotal + Wrapper
      /\ IsInline(r) => r.tokens + SumAt(TokensIn(rs), DOMAIN rs) <= MaxTotal + Wrapper
  BY <1>1 DEF SessionKept
<1>4. /\ rt \in Seq(Res) /\ Len(rt) = Len(rs) + 1 /\ rt[Len(rs) + 1] = r
      /\ \A k \in 1 .. Len(rs) : rt[k] = rs[k]
  BY <1>2, <1>3, AppendProperties
<1>5. /\ Len(rs) \in Nat /\ DOMAIN rs = 1 .. Len(rs) /\ DOMAIN rt = 1 .. Len(rs) + 1
      /\ SumAt(TokensIn(rs), InlineIn(rs)) \in Nat
      /\ SumAt(TokensIn(rs), DOMAIN rs) \in Nat
      /\ SumAt(TokensIn(rs), InlineIn(rs)) <= SumAt(TokensIn(rs), DOMAIN rs)
  BY <1>3, <1>4, TokensTyped
<1>6. \A k \in DOMAIN rt : Standing(rt[k])
  <2>1. ASSUME NEW k \in DOMAIN rt PROVE Standing(rt[k])
    <3>1. CASE k \in 1 .. Len(rs)
      BY <1>3, <1>4, <1>5, <3>1
    <3>2. CASE k = Len(rs) + 1
      BY <1>4, <3>2
    <3> QED
      BY <1>5, <3>1, <3>2
  <2> QED
    BY <2>1
<1>7. SumAt(TokensIn(rt), InlineIn(rt)) <= MaxTotal + Wrapper
  <2>1. SumAt(TokensIn(rt), InlineIn(rt)) =
          SumAt(TokensIn(rs), InlineIn(rs)) + (IF IsInline(r) THEN r.tokens ELSE 0)
    BY <1>2, <1>3, TokensAppend
  <2>2. r.tokens \in Nat /\ MaxTotal \in Nat /\ Wrapper \in Nat
    BY Budgets DEF Res
  <2> QED
    BY <1>3, <1>5, <2>1, <2>2
<1>8. results' = rt
  BY <1>1, <1>2
<1>9. SessionKept'
  BY <1>4, <1>6, <1>7, <1>8 DEF SessionKept
<1>10. \A k \in DOMAIN rs : k \in DOMAIN rt /\ rt[k] = rs[k]
  BY <1>4, <1>5
<1> QED
  BY <1>1, <1>8, <1>9, <1>10

LEMMA ReadStep ==
  ASSUME SessionInv, NEW k \in DOMAIN results, results[k].of \in Payloads,
         NEW v, NEW c, c # Done, NEW max \in Asks, NEW before, NEW labels,
         (c = Start /\ before = <<>>) \/ PagesKept(results[k].of, v, c, before, labels),
         ReadArtifact(k, v, c, max, before, labels)
  PROVE  SessionInv'
<1>1. PICK p \in Payloads : p = results[k].of
  OBVIOUS
<1>2. PICK page : page = PageOf(p, v, c, max)
  OBVIOUS
<1>3. /\ Cap \in Nat \ {0} /\ max \in Nat
  BY Budgets
<1>4. k # 0
  <2>1. results \in Seq(Res)
    BY DEF SessionInv, SessionKept
  <2> QED
    BY <2>1, LenProperties
<1>5. CASE max > Cap \/ page = NoPage
  <2>1. /\ results' = Append(results, AsIs(Slice(NoPage, {})))
        /\ artifact' = artifact /\ view' = view /\ cursor' = cursor
        /\ text' = text /\ cited' = cited
    BY <1>1, <1>2, <1>5 DEF ReadArtifact, readVars
  <2>2. PICK r \in Res : r = AsIs(Slice(NoPage, {})) /\ Standing(r) /\ ~ IsInline(r)
    <3>1. Cardinality({}) = 0 /\ NoPage.tokens = 0
      BY FS_EmptySet DEF NoPage
    <3>2. LabelSize \in Nat
      BY Budgets
    <3>3. 0 * LabelSize <= 0 /\ 0 <= Cap
      BY <1>3, <3>2
    <3> QED
      BY <3>1, <3>3, SliceIs
  <2>3. /\ SessionKept'
        /\ \A j \in DOMAIN results : j \in DOMAIN results' /\ results'[j] = results[j]
    BY <2>1, <2>2, AppendKept DEF SessionInv
  <2>4. ReadKept'
    BY <2>1, <2>3 DEF SessionInv, ReadKept
  <2> QED
    BY <2>3, <2>4 DEF SessionInv
<1>6. CASE ~ (max > Cap \/ page = NoPage)
  <2>1. /\ results' = Append(results, AsIs(Slice(page, Visible(p, page.text))))
        /\ artifact' = k /\ view' = v /\ cursor' = page.next
        /\ text' = before \o page.text
        /\ cited' = labels \cup Visible(p, page.text)
    BY <1>1, <1>2, <1>6 DEF ReadArtifact
  <2>2. /\ page.tokens \in Nat /\ page.tokens <= max
        /\ Cardinality(Visible(p, page.text)) \in Nat
        /\ Cardinality(Visible(p, page.text)) * LabelSize <= page.tokens
        /\ PagesKept(p, v, page.next, before \o page.text,
                     labels \cup Visible(p, page.text))
    BY <1>1, <1>2, <1>6, PageKept
  <2>3. PICK r \in Res : /\ r = AsIs(Slice(page, Visible(p, page.text)))
                        /\ Standing(r) /\ ~ IsInline(r)
    <3>1. page.tokens <= Cap
      BY <1>3, <1>6, <2>2
    <3> QED
      BY <2>2, <3>1, SliceIs
  <2>4. /\ SessionKept'
        /\ \A j \in DOMAIN results : j \in DOMAIN results' /\ results'[j] = results[j]
    BY <2>1, <2>3, AppendKept DEF SessionInv
  <2>5. ReadKept'
    <3>1. k \in DOMAIN results' /\ results'[k].of = p
      BY <1>1, <2>4
    <3> QED
      BY <1>4, <2>1, <2>2, <3>1 DEF ReadKept
  <2> QED
    BY <2>4, <2>5 DEF SessionInv
<1> QED
  BY <1>5, <1>6

(* Whatever the tools answer and however artifacts are read, results stand    *)
(* as materialize left them and pages follow one another (ToolResults).       *)
LEMMA SessionInvHolds == Spec => []SessionInv
<1>1. Init => SessionInv
  <2> SUFFICES ASSUME Init PROVE SessionInv
    OBVIOUS
  <2>1. results = <<>> /\ artifact = 0 /\ cursor = Done
    BY DEF Init
  <2>2. results \in Seq(Res) /\ DOMAIN results = {}
    BY <2>1, EmptySeq
  <2>3. SumAt(TokensIn(results), InlineIn(results)) = 0
    <3>1. PICK f, K : f = TokensIn(results) /\ K = InlineIn(results)
      OBVIOUS
    <3>2. f \in Seq(Nat) /\ K = {}
      BY <2>2, <3>1, TokensTyped DEF InlineIn
    <3>3. SumAt(f, {}) = 0
      BY <3>2, SumNone
    <3> QED
      BY <3>1, <3>2, <3>3
  <2>4. SessionKept
    BY <2>2, <2>3, Budgets DEF SessionKept
  <2> QED
    BY <2>1, <2>4 DEF SessionInv, ReadKept
<1>2. SessionInv /\ [Next]_vars => SessionInv'
  <2> SUFFICES ASSUME SessionInv, [Next]_vars PROVE SessionInv'
    OBVIOUS
  <2>1. ASSUME NEW p \in Payloads, CallTool(p) PROVE SessionInv'
    <3>1. /\ results' = Append(results, Materialized(p))
          /\ artifact' = artifact /\ view' = view /\ cursor' = cursor
          /\ text' = text /\ cited' = cited
      BY <2>1 DEF CallTool, readVars
    <3>2. /\ results \in Seq(Res)
          /\ Accumulated = SumAt(TokensIn(results), DOMAIN results)
      BY DEF SessionInv, SessionKept, Accumulated, TokensOf, TokensIn
    <3>3. Accumulated \in Nat
      <4>1. PICK rs \in Seq(Res) : rs = results
        BY <3>2
      <4>2. SumAt(TokensIn(rs), DOMAIN rs) \in Nat
        BY TokensTyped
      <4> QED
        BY <3>2, <4>1, <4>2
    <3>4. PICK r \in Res :
            /\ r = Materialized(p) /\ Standing(r)
            /\ IsInline(r) => r.tokens + Accumulated <= MaxTotal + Wrapper
      BY <3>3, MaterializedTyped
    <3>5. /\ SessionKept'
          /\ \A j \in DOMAIN results : j \in DOMAIN results' /\ results'[j] = results[j]
      BY <3>1, <3>2, <3>4, AppendKept DEF SessionInv
    <3>6. ReadKept'
      BY <3>1, <3>5 DEF SessionInv, ReadKept
    <3> QED
      BY <3>5, <3>6 DEF SessionInv
  <2>2. ASSUME NEW max \in Asks, NEW k \in DOMAIN results,
               NEW v \in ViewsOf(results[k].of), Open(k, v, max)
        PROVE  SessionInv'
    <3>1. /\ results[k].handle # "none"
          /\ ReadArtifact(k, v, Start, max, <<>>, {})
      BY <2>2 DEF Open
    <3>2. results[k].of \in Payloads
      BY <3>1 DEF SessionInv, SessionKept, Standing
    <3>3. Start # Done
      BY DEF Start, Done
    <3> QED
      BY <3>1, <3>2, <3>3, ReadStep
  <2>3. ASSUME NEW max \in Asks, Continue(max) PROVE SessionInv'
    <3>1. PICK k, v, c, before, labels :
            /\ k = artifact /\ v = view /\ c = cursor /\ before = text /\ labels = cited
      OBVIOUS
    <3>2. c # Done /\ ReadArtifact(k, v, c, max, before, labels)
      BY <2>3, <3>1 DEF Continue, ReadArtifact
    <3>3. /\ k \in DOMAIN results /\ results[k].of \in Payloads
          /\ PagesKept(results[k].of, v, c, before, labels)
      BY <3>1, <3>2 DEF SessionInv, ReadKept
    <3> QED
      BY <3>2, <3>3, ReadStep
  <2>4. CASE UNCHANGED vars
    BY <2>4 DEF vars, SessionInv, SessionKept, ReadKept
  <2> QED
    BY <2>1, <2>2, <2>3, <2>4 DEF Next
<1> QED
  BY <1>1, <1>2, PTL DEF Spec

-----------------------------------------------------------------------------
(* What follows.                                                             *)

(* The pages of a view, joined in the order of their cursors, are its text    *)
(* up to the cursor, whatever max_tokens each was asked with                  *)
(* (ToolResults.PagesAreLossless).                                           *)
THEOREM PagesLossless == Spec => []PagesAreLossless
<1>1. SessionInv => PagesAreLossless
  <2> SUFFICES ASSUME SessionInv, artifact # 0
               PROVE  text = ReadTo(Units(results[artifact].of, view), cursor)
    BY Zenon DEF PagesAreLossless, ReadTo
  <2> QED
    BY DEF SessionInv, ReadKept, PagesKept
<1> QED
  BY <1>1, SessionInvHolds, PTL

(* Who has read a list of an artifact to its end, in pages that hold at least *)
(* an item up to its label, can cite every item of it                        *)
(* (ToolResults.ReadItemsAreCitable).                                        *)
THEOREM ReadItemsCitable == Spec => []ReadItemsAreCitable
<1>1. SessionInv => ReadItemsAreCitable
  <2> SUFFICES ASSUME SessionInv, artifact # 0, cursor = Done, view # Full
               PROVE  LET p == results[artifact].of
                          listed == ToSet(Listed(p, view))
                      IN  (\A i \in listed : \A max \in Asks :
                             FragmentFrame + p.items[i].at + LabelSize <= max)
                          => {p.items[i].cite : i \in listed} \cap Manifest(p)
                               \subseteq cited
    BY DEF ReadItemsAreCitable
  <2>1. PICK p \in Payloads : p = results[artifact].of
    BY DEF SessionInv, ReadKept
  <2>2. PagesKept(p, view, cursor, text, cited)
    BY <2>1 DEF SessionInv, ReadKept
  <2>3. PICK seq : seq = Listed(p, view)
    OBVIOUS
  <2>4. DOMAIN seq = 1 .. Len(seq)
    <3>1. p \in Payload
      BY Answered
    <3>2. seq \in Seq(1 .. Len(p.items))
      BY <2>3, <3>1, ListedIs
    <3> QED
      BY <3>2, LenProperties
  <2>5. \A n \in 1 .. Len(seq) : Citable(p, seq[n]) => p.items[seq[n]].cite \in cited
    BY <2>2, <2>3 DEF PagesKept, Passed
  <2>6. ASSUME \A i \in ToSet(seq) : \A max \in Asks :
                 FragmentFrame + p.items[i].at + LabelSize <= max,
               NEW i \in ToSet(seq), p.items[i].cite \in Manifest(p)
        PROVE  p.items[i].cite \in cited
    <3>1. PICK n \in 1 .. Len(seq) : i = seq[n]
      BY <2>4 DEF ToSet
    <3>2. Citable(p, i)
      BY <2>6 DEF Citable
    <3> QED
      BY <2>5, <3>1, <3>2
  <2>7. (\A i \in ToSet(seq) : \A max \in Asks :
           FragmentFrame + p.items[i].at + LabelSize <= max)
        => {p.items[i].cite : i \in ToSet(seq)} \cap Manifest(p) \subseteq cited
    BY <2>6
  <2> QED
    BY <2>1, <2>3, <2>7, Zenon
<1> QED
  BY <1>1, SessionInvHolds, PTL

(* A stored result keeps its handle, and of a result kept inline the model    *)
(* misses nothing but what its view leaves out and what a cut at the margin   *)
(* of its budget takes (ToolResults.OmittedItemsAreReachable).                *)
THEOREM OmittedReachable == Spec => []OmittedItemsAreReachable
<1>1. SessionInv => OmittedItemsAreReachable
  <2> SUFFICES ASSUME SessionInv, NEW k \in DOMAIN results
               PROVE  /\ results[k].offloaded => results[k].handle # "none"
                      /\ ~ results[k].offloaded =>
                           \A i \in DOMAIN results[k].of.items \ results[k].shown :
                             Lost(results[k].of, i)
    BY Zenon DEF OmittedItemsAreReachable, Lost
  <2>1. PICK r : r = results[k]
    OBVIOUS
  <2>2. Standing(r)
    BY <2>1 DEF SessionInv, SessionKept
  <2>3. CASE r.of.tool = "read_artifact"
    BY <2>1, <2>2, <2>3 DEF Standing
  <2>4. CASE r.of.tool # "read_artifact"
    BY <2>1, <2>2, <2>4 DEF Standing, Kept
  <2> QED
    BY <2>3, <2>4
<1> QED
  BY <1>1, SessionInvHolds, PTL

(* No result is larger than its budget, unless a handle alone is; a page      *)
(* brings its citations on top of its own, no more than it has room for       *)
(* labels.  The results kept inline never take the sum over the session's     *)
(* budget but by the fields of one view (ToolResults.ToolTokensAreBounded).   *)
THEOREM TokensBounded == Spec => []ToolTokensAreBounded
<1>1. SessionInv => ToolTokensAreBounded
  <2> SUFFICES ASSUME SessionInv PROVE ToolTokensAreBounded
    OBVIOUS
  <2>1. ASSUME NEW k \in DOMAIN results
        PROVE  results[k].tokens <=
                 IF results[k].of.tool = "read_artifact"
                   THEN Envelope + Cap + CitationSize * (Cap \div LabelSize)
                 ELSE IF results[k].offloaded THEN Greater(Preview, IdSize)
                 ELSE MaxInline
    <3>1. PICK r : r = results[k]
      OBVIOUS
    <3>2. Standing(r)
      BY <3>1 DEF SessionInv, SessionKept
    <3>3. CASE r.of.tool = "read_artifact"
      BY <3>1, <3>2, <3>3 DEF Standing, MaxSlice
    <3>4. CASE r.of.tool # "read_artifact" /\ r.offloaded
      BY <3>1, <3>2, <3>4 DEF Standing, Kept
    <3>5. CASE r.of.tool # "read_artifact" /\ ~ r.offloaded
      BY <3>1, <3>2, <3>5 DEF Standing, Kept
    <3> QED
      BY <3>3, <3>4, <3>5
  <2>2. TokensOf({k \in DOMAIN results :
                   ~ results[k].offloaded /\ results[k].of.tool # "read_artifact"})
          = SumAt(TokensIn(results), InlineIn(results))
    BY Zenon DEF TokensOf, TokensIn, InlineIn, IsInline
  <2>3. SumAt(TokensIn(results), InlineIn(results)) <= MaxTotal + Wrapper
    BY DEF SessionInv, SessionKept
  <2> QED
    BY <2>1, <2>2, <2>3 DEF ToolTokensAreBounded
<1> QED
  BY <1>1, SessionInvHolds, PTL

-----------------------------------------------------------------------------
(* ArtifactStore: where the artifacts are.                                   *)

LEMMA RowTypes ==
  ASSUME NEW t \in 0 .. MaxTime, NEW w \in Row
  PROVE  /\ SavedRow(t) \in Row
         /\ ExpiredIfOverdue(w, t) \in Row
  BY RetentionAssumption, MaxTimeAssumption
  DEF SavedRow, ExpiredIfOverdue, Row, RowStatus

(* A flush makes the row active, or leaves it the status it has when that is *)
(* not the one it was selected with.                                         *)
LEMMA RefreshedIs ==
  ASSUME NEW t \in 0 .. MaxTime, NEW w \in Row, NEW read \in Row
  PROVE  LET new == Refreshed(w, read, SavedRow(t)) IN
           /\ new \in Row
           /\ new.status = "active" \/ new.status = w.status
<1>1. SavedRow(t) \in Row /\ SavedRow(t).status = "active"
  BY RowTypes DEF SavedRow
<1> QED
  BY <1>1 DEF Refreshed, Row

(* Type correctness: every file, row and client stays in a state the         *)
(* service knows.                                                            *)
THEOREM TypeCorrect == StoreSpec => []TypeOK
<1>1. StoreInit => TypeOK
  BY MaxTimeAssumption
  DEF StoreInit, TypeOK, BlobState, NoRow, Row, RowStatus, PC, Outcome
<1>0. NoRow \in Row
  BY DEF NoRow, Row, RowStatus
<1>2. TypeOK /\ [StoreNext]_storeVars => TypeOK'
  <2> SUFFICES ASSUME TypeOK, [StoreNext]_storeVars PROVE TypeOK'
    OBVIOUS
  <2> USE DEF clientVars, historyVars
  <2>1. ASSUME NEW p \in Clients, NEW a \in Artifact, NEW entry \in PC,
               Call(p, a, entry)
        PROVE  TypeOK'
    BY <2>1 DEF TypeOK, Call, Outcome
  <2>2. ASSUME NEW p \in Clients, Lookup(p) \/ Verify(p) PROVE TypeOK'
    BY <1>0, <2>2, ZenonT(60) DEF TypeOK, Lookup, Verify, Proceed, End, PC, Outcome
  <2>3. ASSUME NEW p \in Clients, Put(p) PROVE TypeOK'
    BY <1>0, <2>3 DEF TypeOK, Put, Proceed, End, PC, Outcome, BlobState
  <2>4. ASSUME NEW p \in Clients, Save(p) PROVE TypeOK'
    <3>1. SavedRow(now[p]) \in Row /\ row[on[p]] \in Row
      BY RowTypes DEF TypeOK
    <3> QED
      BY <1>0, <2>4, <3>1 DEF TypeOK, Save, End, PC, Outcome
  <2>14. ASSUME NEW p \in Clients, Flush(p) PROVE TypeOK'
    <3>1. /\ Refreshed(row[on[p]], loaded[p], SavedRow(now[p])) \in Row
          /\ on[p] \in Artifact
      BY RefreshedIs DEF TypeOK
    <3> QED
      BY <1>0, <2>14, <3>1 DEF TypeOK, Flush, End, PC, Outcome
  <2>5. ASSUME NEW p \in Clients, Load(p) PROVE TypeOK'
    BY <2>5 DEF TypeOK, Load, PC, Outcome
  <2>6. ASSUME NEW p \in Clients, MarkExpired(p) PROVE TypeOK'
    <3>1. \A a \in Artifact : ExpiredIfOverdue(row[a], now[p]) \in Row
      BY RowTypes DEF TypeOK
    <3> QED
      BY <1>0, <2>6, <3>1 DEF TypeOK, MarkExpired, End, PC, Outcome
  <2>7. ASSUME NEW p \in Clients, Fetch(p) \/ Crash(p) PROVE TypeOK'
    BY <1>0, <2>7 DEF TypeOK, Fetch, Crash, Proceed, End, PC, Outcome
  <2>8. ASSUME NEW p \in Clients, MarkCorrupt(p) PROVE TypeOK'
    BY <1>0, <2>8 DEF TypeOK, MarkCorrupt, End, PC, Outcome, Row, RowStatus
  <2>9. ASSUME NEW c \in Content, Damage(c) PROVE TypeOK'
    BY <2>9 DEF TypeOK, Damage, BlobState
  <2>10. CASE Tick
    BY <2>10, MaxTimeAssumption DEF TypeOK, Tick
  <2>11. CASE UNCHANGED storeVars
    BY <2>11 DEF TypeOK, storeVars
  <2>12. ASSUME NEW p \in Clients, NEW a \in Artifact,
                Materialize(p, a) \/ ReadSlice(p, a)
         PROVE  TypeOK'
    BY <2>12, <2>1 DEF Materialize, ReadSlice, PC
  <2>13. ASSUME NEW p \in Clients, Search(p) PROVE TypeOK'
    <3>1. on[p] \in Artifact
      BY DEF TypeOK
    <3> QED
      BY <2>13, <2>1, <3>1 DEF Search, PC
  <2> QED
    BY <2>2, <2>3, <2>4, <2>5, <2>6, <2>7, <2>8, <2>9, <2>10, <2>11, <2>12,
       <2>13, <2>14 DEF StoreNext, Step
<1> QED
  BY <1>1, <1>2, PTL DEF StoreSpec

-----------------------------------------------------------------------------
(* Blobs come before rows. *)

LEMMA ExpiryKeepsRows ==
  ASSUME NEW w \in Row, NEW t
  PROVE  /\ ExpiredIfOverdue(w, t).status = "absent" <=> w.status = "absent"
         /\ ExpiredIfOverdue(w, t).status = "corrupt" <=> w.status = "corrupt"
  BY DEF ExpiredIfOverdue, Row

(* Nobody but the disk takes an artifact away: as long as its file is not    *)
(* damaged, one that has a row has its blob and is readable, whichever       *)
(* clients race or die (ArtifactService.materialize, read_slice).            *)
THEOREM UndamagedArtifactsReadable == StoreSpec => []UndamagedArtifactsStayReadable
<1>1. StoreInit => BlobsBeforeRows
  BY DEF StoreInit, BlobsBeforeRows, UndamagedArtifactsStayReadable, SoundClient, NoRow
<1>2. TypeOK /\ BlobsBeforeRows /\ [StoreNext]_storeVars => BlobsBeforeRows'
  <2> SUFFICES ASSUME TypeOK, BlobsBeforeRows, [StoreNext]_storeVars PROVE BlobsBeforeRows'
    OBVIOUS
  <2> USE DEF clientVars, historyVars
  <2> USE DEF BlobsBeforeRows, UndamagedArtifactsStayReadable, SoundClient, BlobOf
  <2>0. /\ \A a \in Artifact : ContentOf[a] \in Content
        /\ \A p \in Clients : on[p] \in Artifact
    BY ContentOfAssumption DEF TypeOK
  <2>1. ASSUME NEW p \in Clients, NEW a \in Artifact,
               NEW entry \in {"lookup", "load", "sweep"}, Call(p, a, entry)
        PROVE  BlobsBeforeRows'
    BY <2>0, <2>1 DEF TypeOK, Call
  <2>2. ASSUME NEW p \in Clients, Lookup(p) PROVE BlobsBeforeRows'
    BY <2>0, <2>2 DEF TypeOK, Lookup, Proceed, Active
  <2>3. ASSUME NEW p \in Clients, Verify(p) PROVE BlobsBeforeRows'
    BY <2>0, <2>3 DEF TypeOK, Verify, Proceed, End
  <2>4. ASSUME NEW p \in Clients, Put(p) PROVE BlobsBeforeRows'
    <3>1. CASE BlobOf(p) = "undecodable"
      BY <2>0, <2>4, <3>1 DEF TypeOK, Put, End
    <3>2. CASE BlobOf(p) # "undecodable"
      <4>1. /\ blob' = [blob EXCEPT ![ContentOf[on[p]]] = "intact"]
            /\ pc' = [pc EXCEPT ![p] = "save"]
            /\ UNCHANGED <<on, outcome, row, spoiled>>
        BY <2>4, <3>2 DEF Put, Proceed, Sound
      <4> QED
        BY <2>0, <4>1 DEF TypeOK
    <3> QED
      BY <3>1, <3>2
  <2>5. ASSUME NEW p \in Clients, Save(p) PROVE BlobsBeforeRows'
    <3>1. SavedRow(now[p]).status = "active"
      BY DEF SavedRow
    <3> QED
      BY <2>0, <2>5, <3>1 DEF TypeOK, Save, End
  <2>13. ASSUME NEW p \in Clients, Flush(p) PROVE BlobsBeforeRows'
    <3> DEFINE new == Refreshed(row[on[p]], loaded[p], SavedRow(now[p]))
    <3>1. new.status = "active" \/ new.status = row[on[p]].status
      BY RefreshedIs DEF TypeOK
    <3>2. row' = [row EXCEPT ![on[p]] = new]
      BY <2>13 DEF Flush
    <3> HIDE DEF new
    <3> QED
      BY <2>0, <2>13, <3>1, <3>2 DEF TypeOK, Flush, End
  <2>6. ASSUME NEW p \in Clients, Load(p) PROVE BlobsBeforeRows'
    BY <2>0, <2>6 DEF TypeOK, Load
  <2>7. ASSUME NEW p \in Clients, MarkExpired(p) PROVE BlobsBeforeRows'
    <3>1. \A a \in Artifact :
            /\ row'[a].status = "absent" <=> row[a].status = "absent"
            /\ row'[a].status = "corrupt" <=> row[a].status = "corrupt"
      BY <2>7, ExpiryKeepsRows DEF TypeOK, MarkExpired
    <3> QED
      BY <2>0, <2>7, <3>1 DEF TypeOK, MarkExpired, End
  <2>8. ASSUME NEW p \in Clients, Fetch(p) PROVE BlobsBeforeRows'
    BY <2>0, <2>8 DEF TypeOK, Fetch, Proceed, End
  <2>9. ASSUME NEW p \in Clients, MarkCorrupt(p) PROVE BlobsBeforeRows'
    BY <2>0, <2>9 DEF TypeOK, MarkCorrupt, End, Row
  <2>10. ASSUME NEW p \in Clients, Crash(p) PROVE BlobsBeforeRows'
    BY <2>0, <2>10 DEF TypeOK, Crash, End
  <2>11. ASSUME NEW c \in Content, Damage(c) PROVE BlobsBeforeRows'
    BY <2>0, <2>11 DEF TypeOK, Damage
  <2>12. CASE Tick \/ UNCHANGED storeVars
    BY <2>12 DEF Tick, storeVars
  <2> QED
    BY <2>0, <2>1, <2>2, <2>3, <2>4, <2>5, <2>6, <2>7, <2>8, <2>9, <2>10,
       <2>11, <2>12, <2>13
    DEF StoreNext, Step, Materialize, ReadSlice, Search
<1>3. BlobsBeforeRows => UndamagedArtifactsStayReadable
  BY DEF BlobsBeforeRows
<1> QED
  BY <1>1, <1>2, <1>3, TypeCorrect, PTL DEF StoreSpec

-----------------------------------------------------------------------------
(* Expiry. *)

ClocksAgree ==
  ExpiredRowsAreOverdue /\ \A p \in Clients : now[p] <= clock

(* No row is expired before its time, although readers decide from a row     *)
(* that may have been refreshed since (repository.mark_expired), but for one *)
(* that expired while a save had read it and not yet written it              *)
(* (repository.save).                                                        *)
THEOREM ExpiryIsDeserved == StoreSpec => []ExpiredRowsAreOverdue
<1>1. StoreInit => ClocksAgree
  BY DEF StoreInit, ClocksAgree, ExpiredRowsAreOverdue, NoRow
<1>2. TypeOK /\ ClocksAgree /\ [StoreNext]_storeVars => ClocksAgree'
  <2> SUFFICES ASSUME TypeOK, ClocksAgree, [StoreNext]_storeVars PROVE ClocksAgree'
    OBVIOUS
  <2> USE DEF clientVars, historyVars
  <2> USE DEF ClocksAgree, ExpiredRowsAreOverdue
  <2>1. clock \in Nat /\ \A p \in Clients : now[p] \in Nat
    BY MaxTimeAssumption DEF TypeOK
  <2>2. ASSUME NEW p \in Clients, NEW a \in Artifact, NEW entry, Call(p, a, entry)
        PROVE  ClocksAgree'
    BY <2>1, <2>2 DEF TypeOK, Call
  <2>3. ASSUME NEW p \in Clients, Lookup(p) \/ Verify(p) \/ Put(p) \/ Fetch(p) \/ Crash(p)
        PROVE  ClocksAgree'
    BY <2>3 DEF Lookup, Verify, Put, Fetch, Crash, Proceed, End
  <2>4. ASSUME NEW p \in Clients, Save(p) PROVE ClocksAgree'
    BY <2>4 DEF TypeOK, Save, End, SavedRow
  <2>12. ASSUME NEW p \in Clients, Flush(p) PROVE ClocksAgree'
    <3> DEFINE new == Refreshed(row[on[p]], loaded[p], SavedRow(now[p]))
    <3>1. /\ row' = [row EXCEPT ![on[p]] = new]
          /\ new.status = "active" \/ on[p] \in overlooked'
          /\ \A a \in Artifact \ {on[p]} : a \in overlooked' <=> a \in overlooked
          /\ UNCHANGED <<clock, now>>
      BY <2>12 DEF Flush, End, TypeOK
    <3> HIDE DEF new
    <3>2. ASSUME NEW a \in Artifact \ overlooked', row'[a].status = "expired"
          PROVE  row'[a].expires < clock
      <4>1. a # on[p]
        BY <3>1, <3>2 DEF TypeOK
      <4> QED
        BY <3>1, <3>2, <4>1 DEF TypeOK
    <3> QED
      BY <3>1, <3>2
  <2>5. ASSUME NEW p \in Clients, Load(p) PROVE ClocksAgree'
    BY <2>1, <2>5 DEF TypeOK, Load
  <2>6. ASSUME NEW p \in Clients, MarkExpired(p) PROVE ClocksAgree'
    <3>1. ASSUME NEW a \in Artifact \ overlooked, row'[a].status = "expired"
          PROVE  row'[a].expires < clock
      <4>1. row'[a] = ExpiredIfOverdue(row[a], now[p]) /\ row[a] \in Row
        BY <2>6 DEF TypeOK, MarkExpired
      <4>2. row[a].expires \in Nat /\ row'[a].expires = row[a].expires
        BY <4>1 DEF ExpiredIfOverdue, Row
      <4>3. row[a].status = "expired" \/ row[a].expires < now[p]
        BY <3>1, <4>1 DEF ExpiredIfOverdue, Row
      <4> QED
        BY <2>1, <4>2, <4>3
    <3> QED
      BY <2>6, <3>1 DEF MarkExpired, End
  <2>7. ASSUME NEW p \in Clients, MarkCorrupt(p) PROVE ClocksAgree'
    BY <2>7 DEF TypeOK, MarkCorrupt, End, Row
  <2>8. ASSUME NEW c \in Content, Damage(c) PROVE ClocksAgree'
    BY <2>8 DEF Damage
  <2>9. CASE Tick
    <3>1. \A a \in Artifact : row[a].expires \in Nat
      BY DEF TypeOK, Row
    <3> QED
      BY <2>1, <2>9, <3>1 DEF Tick
  <2>10. CASE UNCHANGED storeVars
    BY <2>10 DEF storeVars
  <2>11. \A p \in Clients : on[p] \in Artifact
    BY DEF TypeOK
  <2> QED
    BY <2>2, <2>3, <2>4, <2>5, <2>6, <2>7, <2>8, <2>9, <2>10, <2>11, <2>12
    DEF StoreNext, Step, Materialize, ReadSlice, Search
<1>3. ClocksAgree => ExpiredRowsAreOverdue
  BY DEF ClocksAgree
<1> QED
  BY <1>1, <1>2, <1>3, TypeCorrect, PTL DEF StoreSpec

-----------------------------------------------------------------------------
(* Returned descriptors. *)

(* A descriptor is only returned for an artifact that has its row and a      *)
(* sound blob, repaired if it was not, until somebody damages the file again *)
(* (ArtifactService.materialize, blob_store.put).                            *)
THEOREM DescriptorsAreBacked == StoreSpec => []ReturnedArtifactsAreIntact
<1> DEFINE Inv == \A p \in Clients : Backed(p)
<1>1. StoreInit => Inv
  BY DEF StoreInit, Backed
<1>2. TypeOK /\ Inv /\ [StoreNext]_storeVars => Inv'
  <2> SUFFICES ASSUME TypeOK, Inv, [StoreNext]_storeVars PROVE Inv'
    OBVIOUS
  <2> USE DEF clientVars, historyVars, Backed, BlobOf
  <2>0. /\ \A a \in Artifact : ContentOf[a] \in Content
        /\ \A p \in Clients : on[p] \in Artifact
    BY ContentOfAssumption DEF TypeOK
  <2>1. ASSUME NEW p \in Clients, NEW a \in Artifact,
               NEW entry \in {"lookup", "load", "sweep"}, Call(p, a, entry)
        PROVE  Inv'
    BY <2>0, <2>1 DEF TypeOK, Call
  <2>2. ASSUME NEW p \in Clients, Lookup(p) PROVE Inv'
    BY <2>0, <2>2 DEF TypeOK, Lookup, Proceed, Active
  <2>3. ASSUME NEW p \in Clients, Verify(p) PROVE Inv'
    BY <2>0, <2>3 DEF TypeOK, Verify, Proceed, End
  <2>4. ASSUME NEW p \in Clients, Put(p) PROVE Inv'
    <3>1. CASE BlobOf(p) = "undecodable"
      BY <2>0, <2>4, <3>1 DEF TypeOK, Put, End
    <3>2. CASE BlobOf(p) # "undecodable"
      <4>1. /\ blob' = [blob EXCEPT ![ContentOf[on[p]]] = "intact"]
            /\ pc' = [pc EXCEPT ![p] = "save"]
            /\ disturbed' = [disturbed EXCEPT ![p] = FALSE]
            /\ UNCHANGED <<on, outcome, row>>
        BY <2>4, <3>2 DEF Put, Proceed, Sound
      <4>2. outcome[p] = "none"
        BY <2>4 DEF Put
      <4>3. /\ \A c \in Content : blob[c] = "intact" => blob'[c] = "intact"
            /\ blob'[ContentOf[on[p]]] = "intact"
        BY <2>0, <4>1 DEF TypeOK
      <4>4. ASSUME NEW q \in Clients PROVE Backed(q)'
        <5>1. CASE q = p
          BY <2>0, <4>1, <4>2, <4>3, <5>1 DEF TypeOK
        <5>2. CASE q # p
          BY <2>0, <4>1, <4>3, <5>2 DEF TypeOK
        <5> QED
          BY <5>1, <5>2
      <4> QED
        BY <4>4
    <3> QED
      BY <3>1, <3>2
  <2>5. ASSUME NEW p \in Clients, Save(p) PROVE Inv'
    <3>1. SavedRow(now[p]).status = "active"
      BY DEF SavedRow
    <3> QED
      BY <2>0, <2>5, <3>1 DEF TypeOK, Save, End
  <2>12. ASSUME NEW p \in Clients, Flush(p) PROVE Inv'
    <3> DEFINE new == Refreshed(row[on[p]], loaded[p], SavedRow(now[p]))
    <3>1. new.status = "active" \/ new.status = row[on[p]].status
      BY RefreshedIs DEF TypeOK
    <3>2. row' = [row EXCEPT ![on[p]] = new]
      BY <2>12 DEF Flush
    <3> HIDE DEF new
    <3> QED
      BY <2>0, <2>12, <3>1, <3>2 DEF TypeOK, Flush, End
  <2>6. ASSUME NEW p \in Clients, Load(p) PROVE Inv'
    BY <2>0, <2>6 DEF TypeOK, Load
  <2>7. ASSUME NEW p \in Clients, MarkExpired(p) PROVE Inv'
    <3>1. \A a \in Artifact : row'[a].status = "absent" <=> row[a].status = "absent"
      BY <2>7, ExpiryKeepsRows DEF TypeOK, MarkExpired
    <3> QED
      BY <2>0, <2>7, <3>1 DEF TypeOK, MarkExpired, End
  <2>8. ASSUME NEW p \in Clients, Fetch(p) \/ Crash(p) PROVE Inv'
    BY <2>0, <2>8 DEF TypeOK, Fetch, Crash, Proceed, End
  <2>9. ASSUME NEW p \in Clients, MarkCorrupt(p) PROVE Inv'
    BY <2>0, <2>9 DEF TypeOK, MarkCorrupt, End, Row
  <2>10. ASSUME NEW c \in Content, Damage(c) PROVE Inv'
    BY <2>0, <2>10 DEF TypeOK, Damage
  <2>11. CASE Tick \/ UNCHANGED storeVars
    BY <2>11 DEF Tick, storeVars
  <2> QED
    BY <2>0, <2>1, <2>2, <2>3, <2>4, <2>5, <2>6, <2>7, <2>8, <2>9, <2>10, <2>11,
       <2>12
    DEF StoreNext, Step, Materialize, ReadSlice, Search
<1>3. Inv => ReturnedArtifactsAreIntact
  BY DEF ReturnedArtifactsAreIntact, Backed
<1> QED
  BY <1>1, <1>2, <1>3, TypeCorrect, PTL DEF StoreSpec
=============================================================================
