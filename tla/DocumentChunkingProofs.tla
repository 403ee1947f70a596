------------------------ MODULE DocumentChunkingProofs ------------------------
(***************************************************************************)
(* Theorems about DocumentChunking, for every set of blocks, all limits and *)
(* documents of any length.  The texts of the model are concatenations, so  *)
(* the first part is about FlattenSeq; the induction over sequences it      *)
(* takes is AppendInduction, stated of a set of sequences.                  *)
(***************************************************************************)
EXTENDS DocumentChunking, SequenceTheorems, NaturalsInduction,
        WellFoundedInduction, TLAPS

-----------------------------------------------------------------------------
(* Induction.                                                                *)

Below == OpToRel(<, Nat)

LEMMA Least ==
  ASSUME NEW S \in SUBSET Nat, S # {}
  PROVE  \E m \in S : \A n \in S : m <= n
<1>1. IsWellFoundedOn(Below, Nat)
  BY NatLessThanWellFounded DEF Below
<1>2. PICK m \in S : \A n \in S : ~ (<<n, m>> \in Below)
  BY <1>1, WFMin
<1>3. \A n \in Nat : n < m => <<n, m>> \in Below
  BY DEF Below, OpToRel
<1>4. ASSUME NEW n \in S PROVE m <= n
  <2>1. ~ (n < m)
    BY <1>2, <1>3
  <2> QED
    BY <2>1
<1> QED
  BY <1>4

LEMMA NatSetInduction ==
  ASSUME NEW P, 0 \in P, \A n \in Nat : n \in P => n + 1 \in P
  PROVE  Nat \subseteq P
<1> DEFINE Bad == {n \in Nat : n \notin P}
<1> SUFFICES ASSUME Bad # {} PROVE FALSE
  OBVIOUS
<1>1. PICK n \in Bad : \A k \in Bad : n <= k
  <2>1. Bad \in SUBSET Nat
    OBVIOUS
  <2> HIDE DEF Bad
  <2> QED
    BY <2>1, Least
<1>2. n # 0 /\ n - 1 \in Nat /\ n - 1 \in P
  BY <1>1
<1> QED
  BY <1>1, <1>2

(* A set that has the empty sequence and every extension of a member has all. *)
LEMMA AppendInduction ==
  ASSUME NEW S, NEW P, <<>> \in P,
         \A s \in Seq(S), e \in S : s \in P => Append(s, e) \in P
  PROVE  Seq(S) \subseteq P
<1> DEFINE Bad == {n \in Nat : \E s \in Seq(S) : Len(s) = n /\ s \notin P}
<1> SUFFICES ASSUME Bad # {} PROVE FALSE
  <2>1. \A s \in Seq(S) : Len(s) \in Nat
    BY LenProperties
  <2> QED
    BY <2>1
<1>1. PICK n \in Bad : \A k \in Bad : n <= k
  <2>1. Bad \in SUBSET Nat
    OBVIOUS
  <2> HIDE DEF Bad
  <2> QED
    BY <2>1, Least
<1>2. PICK s \in Seq(S) : Len(s) = n /\ s \notin P
  BY <1>1
<1>3. PICK t \in Seq(S), e \in S : s = Append(t, e)
  BY <1>2, SequenceEmptyOrAppend
<1>4. Len(t) \in Nat /\ Len(s) = Len(t) + 1
  BY <1>3, LenProperties, AppendProperties
<1>5. t \notin P
  BY <1>2, <1>3
<1>6. Len(t) \in Bad
  BY <1>4, <1>5
<1> QED
  BY <1>1, <1>2, <1>4, <1>6

-----------------------------------------------------------------------------
(* FlattenSeq.                                                               *)

(* f[i] is the concatenation of the first i sequences. *)
Partials(ss, f) ==
  f = [i \in 1 .. Len(ss) |-> IF i = 1 THEN ss[i] ELSE f[i - 1] \o ss[i]]

LEMMA PartialsExist ==
  ASSUME NEW S, NEW ss \in Seq(S)
  PROVE  \E f : Partials(ss, f)
<1> DEFINE P == {s \in Seq(S) : \E f : Partials(s, f)}
<1>1. <<>> \in P
  <2>1. Partials(<<>>, [i \in {} |-> {}])
    BY DEF Partials
  <2> QED
    BY <2>1
<1>2. ASSUME NEW s \in Seq(S), NEW e \in S, s \in P
      PROVE  Append(s, e) \in P
  <2>1. PICK f : Partials(s, f)
    BY <1>2
  <2> DEFINE n == Len(s) + 1
             t == Append(s, e)
             g == [i \in 1 .. n |-> IF i = n THEN (IF i = 1 THEN e ELSE f[i - 1] \o e)
                                    ELSE f[i]]
  <2>2. /\ t \in Seq(S) /\ Len(t) = n /\ t[n] = e /\ n \in Nat
        /\ \A i \in 1 .. Len(s) : t[i] = s[i]
    BY AppendProperties, LenProperties
  <2>3. \A i \in 1 .. Len(s) : f[i] = IF i = 1 THEN s[i] ELSE f[i - 1] \o s[i]
    BY <2>1, Zenon DEF Partials
  <2>4. \A i \in 1 .. n : g[i] = IF i = 1 THEN t[i] ELSE g[i - 1] \o t[i]
    BY <2>2, <2>3
  <2>5. g = [i \in 1 .. n |-> IF i = 1 THEN t[i] ELSE g[i - 1] \o t[i]]
    BY <2>4, Zenon
  <2>6. Partials(t, g)
    BY <2>2, <2>5 DEF Partials
  <2> HIDE DEF g
  <2> QED
    BY <2>2, <2>6
<1> HIDE DEF P
<1>3. Seq(S) \subseteq P
  BY <1>1, <1>2, AppendInduction
<1> QED
  BY <1>3 DEF P

LEMMA FlattenIs ==
  ASSUME NEW S, NEW ss \in Seq(S), ss # <<>>
  PROVE  \E f : Partials(ss, f) /\ FlattenSeq(ss) = f[Len(ss)]
<1> DEFINE h == CHOOSE f : Partials(ss, f)
<1>1. Partials(ss, h)
  BY PartialsExist
<1>2. Len(ss) # 0
  BY EmptySeq
<1>3. FlattenSeq(ss) = h[Len(ss)]
  BY Zenon, <1>2 DEF FlattenSeq, Partials
<1> QED
  BY <1>1, <1>3

LEMMA FlattenEmpty == FlattenSeq(<<>>) = <<>>
BY DEF FlattenSeq

(* The functions of a sequence and of its extension agree. *)
LEMMA PartialsAgree ==
  ASSUME NEW S, NEW s \in Seq(S), NEW e \in S, NEW f, NEW g,
         Partials(s, f), Partials(Append(s, e), g)
  PROVE  \A i \in 1 .. Len(s) : f[i] = g[i]
<1> DEFINE Bad == {i \in 1 .. Len(s) : f[i] # g[i]}
<1> SUFFICES ASSUME Bad # {} PROVE FALSE
  OBVIOUS
<1>1. Len(s) \in Nat /\ Len(Append(s, e)) = Len(s) + 1
      /\ \A i \in 1 .. Len(s) : Append(s, e)[i] = s[i]
  BY LenProperties, AppendProperties
<1>2. PICK i \in Bad : \A j \in Bad : i <= j
  <2>1. Bad \in SUBSET Nat
    BY <1>1
  <2> HIDE DEF Bad
  <2> QED
    BY <2>1, Least
<1>3. f[i] = IF i = 1 THEN s[i] ELSE f[i - 1] \o s[i]
  <2>1. i \in 1 .. Len(s)
    BY <1>2
  <2> HIDE DEF Bad
  <2> QED
    BY <2>1, Zenon DEF Partials
<1>4. g[i] = IF i = 1 THEN s[i] ELSE g[i - 1] \o s[i]
  <2>1. i \in 1 .. Len(s) /\ i \in 1 .. Len(Append(s, e))
    BY <1>1, <1>2
  <2>2. g[i] = IF i = 1 THEN Append(s, e)[i] ELSE g[i - 1] \o Append(s, e)[i]
    <3> HIDE DEF Bad
    <3> QED
      BY <2>1, Zenon DEF Partials
  <2> QED
    BY <1>1, <2>1, <2>2
<1>5. i # 1 => f[i - 1] = g[i - 1]
  BY <1>1, <1>2
<1> QED
  BY <1>2, <1>3, <1>4, <1>5

LEMMA FlattenAppend ==
  ASSUME NEW S, NEW ss \in Seq(Seq(S)), NEW e \in Seq(S)
  PROVE  FlattenSeq(Append(ss, e)) = FlattenSeq(ss) \o e
<1> DEFINE tt == Append(ss, e)
           n == Len(ss) + 1
<1>1. tt \in Seq(Seq(S)) /\ tt # <<>> /\ Len(tt) = n /\ tt[n] = e /\ Len(ss) \in Nat
  BY AppendProperties, LenProperties
<1>2. PICK g : Partials(tt, g) /\ FlattenSeq(tt) = g[n]
  BY <1>1, FlattenIs
<1>3. g[n] = IF n = 1 THEN e ELSE g[n - 1] \o e
  <2>1. n \in 1 .. Len(tt)
    BY <1>1
  <2>2. g[n] = IF n = 1 THEN tt[n] ELSE g[n - 1] \o tt[n]
    <3> HIDE DEF tt, n
    <3> QED
      BY <1>2, <2>1, Zenon DEF Partials
  <2> QED
    BY <1>1, <2>2
<1>4. CASE ss = <<>>
  <2>1. n = 1
    BY <1>4
  <2>2. FlattenSeq(tt) = e
    BY <1>2, <1>3, <2>1
  <2> QED
    BY <1>4, <2>2, FlattenEmpty, ConcatEmptySeq
<1>5. CASE ss # <<>>
  <2>1. PICK f : Partials(ss, f) /\ FlattenSeq(ss) = f[Len(ss)]
    BY <1>5, FlattenIs
  <2>2. Len(ss) # 0
    BY <1>5, EmptySeq
  <2>3. Len(ss) \in 1 .. Len(ss) /\ n # 1 /\ n - 1 = Len(ss)
    BY <1>1, <2>2
  <2>4. f[Len(ss)] = g[Len(ss)]
    BY <1>2, <2>1, <2>3, PartialsAgree
  <2> QED
    BY <1>2, <1>3, <2>1, <2>3, <2>4
<1> QED
  BY <1>4, <1>5

LEMMA FlattenTyped ==
  ASSUME NEW S, NEW ss \in Seq(Seq(S))
  PROVE  FlattenSeq(ss) \in Seq(S)
<1> DEFINE P == {s \in Seq(Seq(S)) : FlattenSeq(s) \in Seq(S)}
<1>1. <<>> \in P
  BY FlattenEmpty, EmptySeq
<1>2. ASSUME NEW s \in Seq(Seq(S)), NEW e \in Seq(S), s \in P
      PROVE  Append(s, e) \in P
  <2>1. Append(s, e) \in Seq(Seq(S))
    BY AppendProperties
  <2>2. FlattenSeq(s) \o e \in Seq(S)
    BY <1>2, ConcatProperties
  <2> QED
    BY <2>1, <2>2, FlattenAppend
<1> HIDE DEF P
<1>3. Seq(Seq(S)) \subseteq P
  BY <1>1, <1>2, AppendInduction
<1> QED
  BY <1>3 DEF P

LEMMA FlattenConcat ==
  ASSUME NEW S, NEW ss \in Seq(Seq(S)), NEW tt \in Seq(Seq(S))
  PROVE  FlattenSeq(ss \o tt) = FlattenSeq(ss) \o FlattenSeq(tt)
<1> DEFINE P == {t \in Seq(Seq(S)) : FlattenSeq(ss \o t) = FlattenSeq(ss) \o FlattenSeq(t)}
<1>1. <<>> \in P
  BY FlattenEmpty, FlattenTyped, ConcatEmptySeq
<1>2. ASSUME NEW t \in Seq(Seq(S)), NEW e \in Seq(S), t \in P
      PROVE  Append(t, e) \in P
  <2>1. /\ Append(t, e) \in Seq(Seq(S)) /\ ss \o t \in Seq(Seq(S))
        /\ <<e>> \in Seq(Seq(S))
    BY AppendProperties, ConcatProperties
  <2>2. ss \o Append(t, e) = Append(ss \o t, e)
    BY <2>1, AppendIsConcat, ConcatAssociative, SMTT(30)
  <2>3. FlattenSeq(ss \o Append(t, e)) = (FlattenSeq(ss) \o FlattenSeq(t)) \o e
    BY <1>2, <2>1, <2>2, FlattenAppend
  <2>4. @ = FlattenSeq(ss) \o (FlattenSeq(t) \o e)
    BY FlattenTyped, ConcatAssociative, SMTT(30)
  <2>5. @ = FlattenSeq(ss) \o FlattenSeq(Append(t, e))
    BY FlattenAppend
  <2> QED
    BY <2>1, <2>3, <2>4, <2>5
<1> HIDE DEF P
<1>3. Seq(Seq(S)) \subseteq P
  BY <1>1, <1>2, AppendInduction
<1> QED
  BY <1>3 DEF P

LEMMA FlattenOne ==
  ASSUME NEW S, NEW e \in Seq(S)
  PROVE  FlattenSeq(<<e>>) = e
<1>1. <<e>> = Append(<<>>, e) /\ <<>> \in Seq(Seq(S))
  BY AppendIsConcat, ConcatEmptySeq
<1>2. FlattenSeq(Append(<<>>, e)) = FlattenSeq(<<>>) \o e
  BY <1>1, FlattenAppend
<1>3. FlattenSeq(<<>>) \o e = e
  BY FlattenEmpty, ConcatEmptySeq
<1> QED
  BY <1>1, <1>2, <1>3

LEMMA FlattenHead ==
  ASSUME NEW S, NEW ss \in Seq(Seq(S)), ss # <<>>
  PROVE  FlattenSeq(ss) = Head(ss) \o FlattenSeq(Tail(ss))
<1>1. Head(ss) \in Seq(S) /\ Tail(ss) \in Seq(Seq(S)) /\ <<Head(ss)>> \in Seq(Seq(S))
  BY HeadTailProperties
<1>2. ss = <<Head(ss)>> \o Tail(ss)
  OBVIOUS
<1>3. FlattenSeq(<<Head(ss)>> \o Tail(ss)) = FlattenSeq(<<Head(ss)>>) \o FlattenSeq(Tail(ss))
  BY <1>1, FlattenConcat
<1>4. FlattenSeq(<<Head(ss)>>) = Head(ss)
  BY <1>1, FlattenOne
<1> QED
  BY <1>2, <1>3, <1>4

(* A sequence with one element more. *)
LEMMA Extended ==
  ASSUME NEW S, NEW s \in Seq(S), NEW t \in Seq(S), Len(t) = Len(s) + 1,
         \A i \in 1 .. Len(s) : t[i] = s[i]
  PROVE  t = Append(s, t[Len(t)])
<1>1. Len(s) \in Nat /\ t[Len(t)] \in S
  BY LenProperties, ElementOfSeq
<1>2. /\ Append(s, t[Len(t)]) \in Seq(S) /\ Len(Append(s, t[Len(t)])) = Len(t)
      /\ \A i \in 1 .. Len(t) : Append(s, t[Len(t)])[i] = t[i]
  BY <1>1, AppendProperties
<1> QED
  BY <1>2, SeqEqual

LEMMA MapTyped ==
  ASSUME NEW S, NEW n \in Nat, NEW f, f = [i \in 1 .. n |-> f[i]],
         \A i \in 1 .. n : f[i] \in S
  PROVE  f \in Seq(S) /\ Len(f) = n
<1>1. f \in [1 .. n -> S]
  OBVIOUS
<1>2. f \in Seq(S)
  BY <1>1, SeqDef
<1> QED
  BY <1>1, <1>2, LenProperties

LEMMA FlattenFlatten ==
  ASSUME NEW S, NEW sss \in Seq(Seq(Seq(S)))
  PROVE  /\ [i \in DOMAIN sss |-> FlattenSeq(sss[i])] \in Seq(Seq(S))
         /\ FlattenSeq(FlattenSeq(sss)) =
              FlattenSeq([i \in DOMAIN sss |-> FlattenSeq(sss[i])])
<1> DEFINE Each(s) == [i \in DOMAIN s |-> FlattenSeq(s[i])]
           P == {s \in Seq(Seq(Seq(S))) : FlattenSeq(FlattenSeq(s)) = FlattenSeq(Each(s))}
<1>1. ASSUME NEW s \in Seq(Seq(Seq(S)))
      PROVE  Each(s) \in Seq(Seq(S)) /\ Len(Each(s)) = Len(s)
  <2>1. Len(s) \in Nat /\ DOMAIN s = 1 .. Len(s)
    BY LenProperties
  <2>2. \A i \in 1 .. Len(s) : FlattenSeq(s[i]) \in Seq(S)
    BY ElementOfSeq, FlattenTyped
  <2> QED
    BY <2>1, <2>2, MapTyped
<1>2. <<>> \in P
  <2>1. Each(<<>>) = <<>>
    OBVIOUS
  <2> QED
    BY <2>1, FlattenEmpty, EmptySeq
<1>3. ASSUME NEW s \in Seq(Seq(Seq(S))), NEW e \in Seq(Seq(S)), s \in P
      PROVE  Append(s, e) \in P
  <2>1. Append(s, e) \in Seq(Seq(Seq(S))) /\ FlattenSeq(e) \in Seq(S)
        /\ FlattenSeq(s) \in Seq(Seq(S))
    BY AppendProperties, FlattenTyped
  <2>2. Each(Append(s, e)) = Append(Each(s), FlattenSeq(e))
    <3>1. /\ Each(Append(s, e)) \in Seq(Seq(S)) /\ Len(Each(Append(s, e))) = Len(s) + 1
          /\ Each(s) \in Seq(Seq(S)) /\ Len(Each(s)) = Len(s)
      BY <1>1, <2>1, AppendProperties
    <3>2. /\ \A i \in 1 .. Len(s) : Append(s, e)[i] = s[i]
          /\ Append(s, e)[Len(s) + 1] = e /\ Len(s) \in Nat
          /\ DOMAIN s = 1 .. Len(s) /\ DOMAIN Append(s, e) = 1 .. Len(s) + 1
      BY <2>1, AppendProperties, LenProperties
    <3>3. /\ \A i \in 1 .. Len(s) : Each(Append(s, e))[i] = Each(s)[i]
          /\ Each(Append(s, e))[Len(s) + 1] = FlattenSeq(e)
      BY <3>2
    <3> HIDE DEF Each
    <3> QED
      BY <3>1, <3>3, Extended
  <2>3. FlattenSeq(FlattenSeq(Append(s, e))) = FlattenSeq(FlattenSeq(s)) \o FlattenSeq(e)
    <3>1. FlattenSeq(Append(s, e)) = FlattenSeq(s) \o e
      BY FlattenAppend
    <3> QED
      BY <2>1, <3>1, FlattenConcat
  <2>4. FlattenSeq(Append(Each(s), FlattenSeq(e))) = FlattenSeq(Each(s)) \o FlattenSeq(e)
    BY <1>1, <2>1, FlattenAppend
  <2> HIDE DEF Each
  <2> QED
    BY <1>3, <2>1, <2>2, <2>3, <2>4
<1> HIDE DEF P
<1>4. Seq(Seq(Seq(S))) \subseteq P
  BY <1>2, <1>3, AppendInduction
<1> QED
  BY <1>1, <1>4 DEF P

(* What is in the concatenation. *)
LEMMA FlattenMembers ==
  ASSUME NEW S, NEW ss \in Seq(Seq(S))
  PROVE  ToSet(FlattenSeq(ss)) = UNION {ToSet(ss[i]) : i \in 1 .. Len(ss)}
<1> DEFINE Members(s) == UNION {ToSet(s[i]) : i \in 1 .. Len(s)}
           P == {s \in Seq(Seq(S)) : ToSet(FlattenSeq(s)) = Members(s)}
<1>1. <<>> \in P
  BY FlattenEmpty, EmptySeq DEF ToSet
<1>2. ASSUME NEW s \in Seq(Seq(S)), NEW e \in Seq(S), s \in P
      PROVE  Append(s, e) \in P
  <2>1. /\ Append(s, e) \in Seq(Seq(S)) /\ FlattenSeq(s) \in Seq(S)
        /\ Len(Append(s, e)) = Len(s) + 1 /\ Len(s) \in Nat
        /\ \A i \in 1 .. Len(s) : Append(s, e)[i] = s[i]
        /\ Append(s, e)[Len(s) + 1] = e
    BY AppendProperties, FlattenTyped, LenProperties
  <2>2. ToSet(FlattenSeq(s) \o e) = ToSet(FlattenSeq(s)) \cup ToSet(e)
    <3> DEFINE a == FlattenSeq(s)
    <3>1. /\ a \o e \in Seq(S) /\ Len(a \o e) = Len(a) + Len(e)
          /\ Len(a) \in Nat /\ Len(e) \in Nat
          /\ \A i \in 1 .. Len(a) + Len(e) :
               (a \o e)[i] = IF i <= Len(a) THEN a[i] ELSE e[i - Len(a)]
          /\ DOMAIN a = 1 .. Len(a) /\ DOMAIN e = 1 .. Len(e)
          /\ DOMAIN (a \o e) = 1 .. Len(a) + Len(e)
      BY <2>1, ConcatProperties, LenProperties
    <3> HIDE DEF a
    <3>2. ToSet(a \o e) \subseteq ToSet(a) \cup ToSet(e)
      BY <3>1 DEF ToSet
    <3>3. ToSet(a) \subseteq ToSet(a \o e)
      BY <3>1 DEF ToSet
    <3>4. \A i \in 1 .. Len(e) : i + Len(a) \in 1 .. Len(a) + Len(e) /\ (a \o e)[i + Len(a)] = e[i]
      BY <3>1
    <3>5. ToSet(e) \subseteq ToSet(a \o e)
      BY <3>1, <3>4, ZenonT(30) DEF ToSet
    <3> QED
      BY <3>2, <3>3, <3>5 DEF a
  <2>3. Members(Append(s, e)) = Members(s) \cup ToSet(e)
    <3> DEFINE t == Append(s, e)
    <3>1. \A i \in 1 .. Len(t) : i \in 1 .. Len(s) \/ i = Len(s) + 1
      BY <2>1
    <3>2. 1 .. Len(s) \subseteq 1 .. Len(t) /\ Len(s) + 1 \in 1 .. Len(t)
      BY <2>1
    <3> HIDE DEF t
    <3>3. ASSUME NEW x \in Members(t) PROVE x \in Members(s) \cup ToSet(e)
      BY <2>1, <3>1, Zenon DEF t
    <3>4. ASSUME NEW x \in Members(s) \cup ToSet(e) PROVE x \in Members(t)
      BY <2>1, <3>2, Zenon DEF t
    <3> QED
      BY <3>3, <3>4 DEF t
  <2> HIDE DEF Members
  <2> QED
    BY <1>2, <2>1, <2>2, <2>3, FlattenAppend
<1> HIDE DEF P
<1>3. Seq(Seq(S)) \subseteq P
  BY <1>1, <1>2, AppendInduction
<1> QED
  BY <1>3 DEF P

(* Apply(h, s) is the concatenation of what h makes of the elements of s. *)
Maps(G, S) == [G -> Seq(S)]
Image(h, e) == h[e]
Each(h, s) == [i \in DOMAIN s |-> h[s[i]]]
Apply(h, s) == FlattenSeq(Each(h, s))

LEMMA ApplyTyped ==
  ASSUME NEW S, NEW G, NEW h \in Maps(G, S), NEW s \in Seq(G)
  PROVE  /\ Each(h, s) \in Seq(Seq(S)) /\ Len(Each(h, s)) = Len(s)
         /\ Apply(h, s) \in Seq(S)
         /\ \A i \in 1 .. Len(s) : Each(h, s)[i] = h[s[i]] /\ h[s[i]] \in Seq(S)
<1> DEFINE m == Each(h, s)
<1>1. Len(s) \in Nat /\ DOMAIN s = 1 .. Len(s)
  BY LenProperties
<1>2. \A i \in 1 .. Len(s) : m[i] = h[s[i]] /\ m[i] \in Seq(S)
  BY <1>1, ElementOfSeq DEF Maps, Each
<1>3. m = [i \in 1 .. Len(s) |-> m[i]]
  BY <1>1 DEF Each
<1> HIDE DEF m
<1>4. m \in Seq(Seq(S)) /\ Len(m) = Len(s)
  BY <1>1, <1>2, <1>3, MapTyped
<1>5. FlattenSeq(m) \in Seq(S)
  BY <1>4, FlattenTyped
<1> QED
  BY <1>2, <1>4, <1>5 DEF Apply, m

LEMMA MapAt ==
  ASSUME NEW S, NEW G, NEW h \in Maps(G, S), NEW e \in G
  PROVE  Image(h, e) \in Seq(S)
BY DEF Maps, Image

LEMMA ApplyEmpty ==
  ASSUME NEW h
  PROVE  Apply(h, <<>>) = <<>>
<1>1. Each(h, <<>>) = <<>>
  BY DEF Each
<1> QED
  BY <1>1, FlattenEmpty DEF Apply

LEMMA ApplyAppend ==
  ASSUME NEW S, NEW G, NEW h \in Maps(G, S), NEW s \in Seq(G), NEW e \in G
  PROVE  Apply(h, Append(s, e)) = Apply(h, s) \o Image(h, e)
<1> DEFINE t == Append(s, e)
           m == Each(h, s)
           k == Each(h, t)
<1>1. /\ t \in Seq(G) /\ Len(t) = Len(s) + 1 /\ Len(s) \in Nat
      /\ \A i \in 1 .. Len(s) : t[i] = s[i]
      /\ t[Len(s) + 1] = e
      /\ DOMAIN s = 1 .. Len(s) /\ DOMAIN t = 1 .. Len(s) + 1
  BY AppendProperties, LenProperties
<1>2. m \in Seq(Seq(S)) /\ Len(m) = Len(s) /\ Image(h, e) \in Seq(S)
  BY ApplyTyped, MapAt
<1>3. k \in Seq(Seq(S)) /\ Len(k) = Len(s) + 1
  <2>1. t \in Seq(G)
    BY <1>1
  <2> HIDE DEF t
  <2>2. k \in Seq(Seq(S)) /\ Len(k) = Len(t)
    BY <2>1, ApplyTyped
  <2> QED
    BY <1>1, <2>2 DEF t
<1>4. (\A i \in 1 .. Len(s) : k[i] = m[i]) /\ k[Len(s) + 1] = Image(h, e)
  BY <1>1 DEF Each, Image
<1> HIDE DEF m, k
<1>5. k = Append(m, Image(h, e))
  BY <1>2, <1>3, <1>4, Extended
<1>6. FlattenSeq(k) = FlattenSeq(m) \o Image(h, e)
  BY <1>2, <1>5, FlattenAppend
<1> QED
  BY <1>6 DEF Apply, m, k

LEMMA ApplyOne ==
  ASSUME NEW S, NEW G, NEW h \in Maps(G, S), NEW e \in G
  PROVE  Apply(h, <<e>>) = Image(h, e)
<1>1. <<e>> = Append(<<>>, e) /\ <<>> \in Seq(G)
  OBVIOUS
<1>2. Apply(h, Append(<<>>, e)) = Apply(h, <<>>) \o Image(h, e)
  <2> DEFINE z == <<>>
  <2>1. z \in Seq(G)
    OBVIOUS
  <2> HIDE DEF z
  <2>2. Apply(h, Append(z, e)) = Apply(h, z) \o Image(h, e)
    BY <2>1, ApplyAppend
  <2> QED
    BY <2>2 DEF z
<1>3. Apply(h, <<>>) = <<>>
  BY ApplyEmpty
<1>4. Image(h, e) \in Seq(S)
  BY MapAt
<1>5. <<>> \o Image(h, e) = Image(h, e)
  BY <1>4, ConcatEmptySeq
<1> QED
  BY <1>1, <1>2, <1>3, <1>5

LEMMA ApplyConcat ==
  ASSUME NEW S, NEW G, NEW h \in Maps(G, S), NEW s \in Seq(G), NEW t \in Seq(G)
  PROVE  Apply(h, s \o t) = Apply(h, s) \o Apply(h, t)
<1> DEFINE P == {u \in Seq(G) : Apply(h, s \o u) = Apply(h, s) \o Apply(h, u)}
<1>1. <<>> \in P
  <2>1. s \o <<>> = s /\ Apply(h, s) \o <<>> = Apply(h, s)
    BY ApplyTyped, ConcatEmptySeq
  <2> QED
    BY <2>1, ApplyEmpty, EmptySeq
<1>2. ASSUME NEW u \in Seq(G), NEW e \in G, u \in P
      PROVE  Append(u, e) \in P
  <2>1. /\ Append(u, e) \in Seq(G) /\ s \o u \in Seq(G) /\ <<e>> \in Seq(G)
    BY AppendProperties, ConcatProperties
  <2>2. s \o Append(u, e) = Append(s \o u, e)
    BY <2>1, AppendIsConcat, ConcatAssociative
  <2>3. Apply(h, Append(s \o u, e)) = Apply(h, s \o u) \o Image(h, e)
    <3> DEFINE v == s \o u
    <3>1. v \in Seq(G)
      BY <2>1
    <3> HIDE DEF v
    <3>2. Apply(h, Append(v, e)) = Apply(h, v) \o Image(h, e)
      BY <3>1, ApplyAppend
    <3> QED
      BY <3>2 DEF v
  <2>4. /\ Apply(h, s) \in Seq(S) /\ Apply(h, u) \in Seq(S) /\ Image(h, e) \in Seq(S)
    BY ApplyTyped, MapAt
  <2>5. (Apply(h, s) \o Apply(h, u)) \o Image(h, e) = Apply(h, s) \o (Apply(h, u) \o Image(h, e))
    BY <2>4, ConcatAssociative, SMTT(30)
  <2>6. Apply(h, Append(u, e)) = Apply(h, u) \o Image(h, e)
    BY ApplyAppend
  <2>7. Apply(h, s \o u) = Apply(h, s) \o Apply(h, u)
    BY <1>2
  <2> QED
    BY <2>1, <2>2, <2>3, <2>5, <2>6, <2>7
<1> HIDE DEF P
<1>3. Seq(G) \subseteq P
  BY <1>1, <1>2, AppendInduction
<1> QED
  BY <1>3 DEF P

LEMMA ApplyHead ==
  ASSUME NEW S, NEW G, NEW h \in Maps(G, S), NEW s \in Seq(G), s # <<>>
  PROVE  Apply(h, s) = Image(h, Head(s)) \o Apply(h, Tail(s))
<1>1. Head(s) \in G /\ Tail(s) \in Seq(G) /\ <<Head(s)>> \in Seq(G)
  BY HeadTailProperties
<1>2. s = <<Head(s)>> \o Tail(s)
  OBVIOUS
<1> DEFINE a == <<Head(s)>>
           b == Tail(s)
<1>3. a \in Seq(G) /\ b \in Seq(G)
  BY <1>1
<1>4. Apply(h, a) = Image(h, Head(s))
  BY <1>1, ApplyOne
<1> HIDE DEF a, b
<1>5. Apply(h, a \o b) = Apply(h, a) \o Apply(h, b)
  BY <1>3, ApplyConcat
<1> QED
  BY <1>2, <1>4, <1>5 DEF a, b

(* Apply to a concatenation is the concatenation of what it makes of each. *)
LEMMA ApplyFlatten ==
  ASSUME NEW S, NEW G, NEW h \in Maps(G, S), NEW ss \in Seq(Seq(G))
  PROVE  /\ [i \in DOMAIN ss |-> Apply(h, ss[i])] \in Seq(Seq(S))
         /\ Apply(h, FlattenSeq(ss)) = FlattenSeq([i \in DOMAIN ss |-> Apply(h, ss[i])])
<1> DEFINE a == [s \in Seq(G) |-> Apply(h, s)]
           P == {s \in Seq(Seq(G)) : Apply(h, FlattenSeq(s)) = Apply(a, s)}
<1>1. a \in Maps(Seq(G), S)
  BY ApplyTyped DEF Maps
<1>2. <<>> \in P
  BY FlattenEmpty, ApplyEmpty, EmptySeq
<1>3. ASSUME NEW s \in Seq(Seq(G)), NEW e \in Seq(G), s \in P
      PROVE  Append(s, e) \in P
  <2>1. Append(s, e) \in Seq(Seq(G)) /\ FlattenSeq(s) \in Seq(G) /\ Image(a, e) = Apply(h, e)
    BY AppendProperties, FlattenTyped DEF Image
  <2> HIDE DEF a
  <2>2. Apply(h, FlattenSeq(Append(s, e))) = Apply(h, FlattenSeq(s) \o e)
    BY FlattenAppend
  <2>3. @ = Apply(h, FlattenSeq(s)) \o Apply(h, e)
    BY <2>1, ApplyConcat
  <2>4. @ = Apply(a, s) \o Image(a, e)
    BY <1>3, <2>1
  <2>5. @ = Apply(a, Append(s, e))
    BY <1>1, ApplyAppend
  <2> QED
    BY <2>1, <2>2, <2>3, <2>4, <2>5
<1>4. Seq(Seq(G)) \subseteq P
  <2> HIDE DEF P
  <2> QED
    BY <1>2, <1>3, AppendInduction
<1>5. [i \in DOMAIN ss |-> Apply(h, ss[i])] = Each(a, ss)
  <2>1. \A i \in DOMAIN ss : ss[i] \in Seq(G)
    BY LenProperties, ElementOfSeq
  <2> QED
    BY <2>1 DEF Each
<1>6. Each(a, ss) \in Seq(Seq(S))
  <2> HIDE DEF a
  <2> QED
    BY <1>1, ApplyTyped
<1>7. Apply(h, FlattenSeq(ss)) = Apply(a, ss)
  BY <1>4
<1> HIDE DEF a
<1> QED
  BY <1>5, <1>6, <1>7 DEF Apply

(* What is in Apply(h, s). *)
LEMMA ApplyMembers ==
  ASSUME NEW S, NEW G, NEW h \in Maps(G, S), NEW s \in Seq(G)
  PROVE  ToSet(Apply(h, s)) = UNION {ToSet(h[s[i]]) : i \in 1 .. Len(s)}
<1> DEFINE m == Each(h, s)
<1>1. m \in Seq(Seq(S)) /\ Len(m) = Len(s)
  BY ApplyTyped
<1>2. \A i \in 1 .. Len(s) : m[i] = h[s[i]]
  BY ApplyTyped
<1> HIDE DEF m
<1>3. ToSet(FlattenSeq(m)) = UNION {ToSet(m[i]) : i \in 1 .. Len(m)}
  BY <1>1, FlattenMembers
<1>4. {ToSet(m[i]) : i \in 1 .. Len(m)} = {ToSet(h[s[i]]) : i \in 1 .. Len(s)}
  BY <1>1, <1>2
<1> QED
  BY <1>3, <1>4 DEF Apply, m

LEMMA Singletons ==
  ASSUME NEW S, NEW s \in Seq(S)
  PROVE  /\ [i \in DOMAIN s |-> <<s[i]>>] \in Seq(Seq(S))
         /\ Len([i \in DOMAIN s |-> <<s[i]>>]) = Len(s)
         /\ FlattenSeq([i \in DOMAIN s |-> <<s[i]>>]) = s
<1> DEFINE h == [e \in S |-> <<e>>]
           P == {t \in Seq(S) : Apply(h, t) = t}
<1>1. h \in Maps(S, S)
  BY DEF Maps
<1>2. <<>> \in P
  BY ApplyEmpty, EmptySeq
<1>3. ASSUME NEW t \in Seq(S), NEW e \in S, t \in P
      PROVE  Append(t, e) \in P
  <2>1. Image(h, e) = <<e>> /\ Append(t, e) \in Seq(S) /\ Append(t, e) = t \o <<e>>
    BY AppendProperties, AppendIsConcat DEF Image
  <2> HIDE DEF h
  <2>2. Apply(h, Append(t, e)) = Apply(h, t) \o Image(h, e)
    BY <1>1, ApplyAppend
  <2> QED
    BY <1>3, <2>1, <2>2
<1>4. Seq(S) \subseteq P
  <2> HIDE DEF P
  <2> QED
    BY <1>2, <1>3, AppendInduction
<1>5. [i \in DOMAIN s |-> <<s[i]>>] = Each(h, s)
  <2>1. \A i \in DOMAIN s : s[i] \in S
    BY LenProperties, ElementOfSeq
  <2> QED
    BY <2>1 DEF Each
<1>6. Apply(h, s) = s
  BY <1>4
<1> HIDE DEF h
<1> QED
  BY <1>1, <1>5, <1>6, ApplyTyped, SMTT(30) DEF Apply

(* Two maps, one after the other. *)
LEMMA ApplyTwice ==
  ASSUME NEW S, NEW G, NEW T, NEW h \in Maps(G, S), NEW k \in Maps(S, T),
         NEW hk \in Maps(G, T), \A e \in G : hk[e] = Apply(k, h[e]),
         NEW s \in Seq(G)
  PROVE  Apply(k, Apply(h, s)) = Apply(hk, s)
<1> DEFINE ss == Each(h, s)
           c == [i \in DOMAIN ss |-> Apply(k, ss[i])]
<1>1. ss \in Seq(Seq(S)) /\ Len(ss) = Len(s)
  BY ApplyTyped
<1>2. DOMAIN ss = DOMAIN s
  BY DEF Each
<1>3. Apply(k, FlattenSeq(ss)) = FlattenSeq(c)
  <2> HIDE DEF ss
  <2> QED
    BY <1>1, ApplyFlatten
<1>4. \A i \in DOMAIN s : s[i] \in G
  BY LenProperties, ElementOfSeq
<1>5. \A i \in DOMAIN s : ss[i] = h[s[i]]
  BY DEF Each
<1> HIDE DEF ss
<1>6. \A i \in DOMAIN s : c[i] = hk[s[i]]
  BY <1>2, <1>4, <1>5
<1>7. c = [i \in DOMAIN s |-> c[i]]
  BY <1>2
<1> HIDE DEF c
<1>8. c = Each(hk, s)
  BY <1>6, <1>7 DEF Each
<1> QED
  BY <1>3, <1>8 DEF Apply, ss

(* Maps that agree on the members of s. *)
LEMMA ApplySame ==
  ASSUME NEW s, NEW h, NEW k, \A i \in DOMAIN s : h[s[i]] = k[s[i]]
  PROVE  Apply(h, s) = Apply(k, s)
BY DEF Apply, Each

(* A concatenation with nothing in it, and with one part. *)
LEMMA FlattenNothing ==
  ASSUME NEW S, NEW ss \in Seq(Seq(S)), \A i \in 1 .. Len(ss) : ss[i] = <<>>
  PROVE  FlattenSeq(ss) = <<>>
<1>1. ToSet(FlattenSeq(ss)) = UNION {ToSet(ss[i]) : i \in 1 .. Len(ss)}
  BY FlattenMembers
<1>2. ToSet(<<>>) = {}
  BY DEF ToSet
<1>3. UNION {ToSet(ss[i]) : i \in 1 .. Len(ss)} = {}
  BY <1>2, Zenon
<1> DEFINE f == FlattenSeq(ss)
<1>4. f \in Seq(S)
  BY FlattenTyped
<1>5. ToSet(f) = {}
  BY <1>1, <1>3
<1> HIDE DEF f
<1>6. SUFFICES ASSUME f # <<>> PROVE FALSE
  BY DEF f
<1>7. 1 \in DOMAIN f
  BY <1>4, <1>6, EmptySeq, LenProperties
<1>8. f[1] \in ToSet(f)
  BY <1>7 DEF ToSet
<1> QED
  BY <1>5, <1>8

LEMMA FlattenOnly ==
  ASSUME NEW S, NEW ss \in Seq(Seq(S)), NEW k \in 1 .. Len(ss),
         \A i \in 1 .. Len(ss) : i # k => ss[i] = <<>>
  PROVE  FlattenSeq(ss) = ss[k]
<1> DEFINE P == {s \in Seq(Seq(S)) :
                   \A n \in 1 .. Len(s) :
                     (\A i \in 1 .. Len(s) : i # n => s[i] = <<>>) => FlattenSeq(s) = s[n]}
<1>1. <<>> \in P
  BY EmptySeq
<1>2. ASSUME NEW s \in Seq(Seq(S)), NEW e \in Seq(S), s \in P
      PROVE  Append(s, e) \in P
  <2> DEFINE t == Append(s, e)
  <2>1. /\ t \in Seq(Seq(S)) /\ Len(t) = Len(s) + 1 /\ Len(s) \in Nat
        /\ \A i \in 1 .. Len(s) : t[i] = s[i]
        /\ t[Len(s) + 1] = e
    BY AppendProperties, LenProperties
  <2>2. FlattenSeq(t) = FlattenSeq(s) \o e
    BY FlattenAppend
  <2>3. FlattenSeq(s) \in Seq(S)
    BY FlattenTyped
  <2> HIDE DEF t
  <2>4. ASSUME NEW n \in 1 .. Len(t), \A i \in 1 .. Len(t) : i # n => t[i] = <<>>
        PROVE  FlattenSeq(t) = t[n]
    <3>1. CASE n = Len(s) + 1
      <4>1. ASSUME NEW i \in 1 .. Len(s) PROVE s[i] = <<>>
        <5>1. i \in 1 .. Len(t) /\ i # n
          BY <2>1, <3>1
        <5> QED
          BY <2>1, <2>4, <5>1
      <4>2. FlattenSeq(s) = <<>>
        BY <4>1, FlattenNothing
      <4> QED
        BY <2>1, <2>2, <3>1, <4>2, ConcatEmptySeq
    <3>2. CASE n \in 1 .. Len(s)
      <4>1. ASSUME NEW i \in 1 .. Len(s), i # n PROVE s[i] = <<>>
        <5>1. i \in 1 .. Len(t)
          BY <2>1
        <5> QED
          BY <2>1, <2>4, <4>1, <5>1
      <4>2. FlattenSeq(s) = s[n]
        BY <1>2, <3>2, <4>1
      <4>3. e = <<>>
        BY <2>1, <2>4, <3>2, SMTT(30)
      <4> QED
        BY <2>1, <2>2, <2>3, <3>2, <4>2, <4>3, ConcatEmptySeq
    <3> QED
      BY <2>1, <2>4, <3>1, <3>2
  <2> QED
    BY <2>1, <2>4 DEF t
<1> HIDE DEF P
<1>3. Seq(Seq(S)) \subseteq P
  BY <1>1, <1>2, AppendInduction
<1> QED
  BY <1>3 DEF P

(* The first elements of a sequence. *)
LEMMA FirstOnes ==
  ASSUME NEW S, NEW s \in Seq(S), NEW i \in 1 .. Len(s)
  PROVE  /\ s[i] \in S /\ i - 1 \in 0 .. Len(s)
         /\ SubSeq(s, 1, i - 1) \in Seq(S) /\ Len(SubSeq(s, 1, i - 1)) = i - 1
         /\ SubSeq(s, 1, i) \in Seq(S) /\ Len(SubSeq(s, 1, i)) = i
         /\ SubSeq(s, 1, i) = Append(SubSeq(s, 1, i - 1), s[i])
<1>1. Len(s) \in Nat /\ \A j \in 1 .. Len(s) : s[j] \in S
  BY LenProperties, ElementOfSeq
<1> DEFINE a == SubSeq(s, 1, i - 1)
           b == SubSeq(s, 1, i)
<1> i \in Nat \ {0}
  BY <1>1
<1>2. /\ a \in Seq(S) /\ Len(a) = i - 1 /\ \A j \in 1 .. i - 1 : a[j] = s[j]
  <2>1. /\ 1 \in Int /\ i - 1 \in Int /\ \A j \in 1 .. i - 1 : s[j] \in S
    BY <1>1
  <2>2. /\ a \in Seq(S) /\ Len(a) = (IF 1 <= i - 1 THEN (i - 1) - 1 + 1 ELSE 0)
        /\ \A j \in 1 .. (i - 1) - 1 + 1 : a[j] = s[1 + j - 1]
    BY <2>1, SubSeqProperties
  <2> HIDE DEF a
  <2>3. (i - 1) - 1 + 1 = i - 1 /\ (IF 1 <= i - 1 THEN (i - 1) - 1 + 1 ELSE 0) = i - 1
    OBVIOUS
  <2>4. ASSUME NEW j \in 1 .. i - 1 PROVE a[j] = s[j]
    <3>1. 1 + j - 1 = j
      OBVIOUS
    <3> QED
      BY <2>2, <2>3, <3>1
  <2>5. Len(a) = i - 1
    BY <2>2, <2>3
  <2> QED
    BY <2>2, <2>4, <2>5
<1>3. /\ b \in Seq(S) /\ Len(b) = i /\ \A j \in 1 .. i : b[j] = s[j]
  <2>1. /\ 1 \in Int /\ i \in Int /\ \A j \in 1 .. i : s[j] \in S
    BY <1>1
  <2>2. /\ b \in Seq(S) /\ Len(b) = (IF 1 <= i THEN i - 1 + 1 ELSE 0)
        /\ \A j \in 1 .. i - 1 + 1 : b[j] = s[1 + j - 1]
    BY <2>1, SubSeqProperties
  <2> HIDE DEF b
  <2> QED
    BY <2>2
<1> HIDE DEF a, b
<1>4. b = Append(a, b[Len(b)])
  <2>1. Len(b) = Len(a) + 1 /\ \A j \in 1 .. Len(a) : b[j] = a[j]
    BY <1>1, <1>2, <1>3
  <2> QED
    BY <1>2, <1>3, <2>1, Extended
<1>5. b[Len(b)] = s[i] /\ i - 1 \in 0 .. Len(s) /\ s[i] \in S
  BY <1>1, <1>3
<1> QED
  BY <1>2, <1>3, <1>4, <1>5 DEF a, b

LEMMA FrontLast ==
  ASSUME NEW S, NEW s \in Seq(S), s # <<>>
  PROVE  /\ Front(s) \in Seq(S) /\ Last(s) \in S /\ s = Append(Front(s), Last(s))
         /\ Len(s) \in Nat \ {0} /\ Len(Front(s)) = Len(s) - 1
         /\ \A i \in 1 .. Len(s) - 1 : Front(s)[i] = s[i]
<1>1. Len(s) \in Nat \ {0}
  BY EmptySeq
<1>2. Len(s) \in 1 .. Len(s)
  BY <1>1
<1>3. SubSeq(s, 1, Len(s)) = s
  BY SubSeqFull
<1>4. /\ s[Len(s)] \in S
      /\ SubSeq(s, 1, Len(s) - 1) \in Seq(S) /\ Len(SubSeq(s, 1, Len(s) - 1)) = Len(s) - 1
      /\ SubSeq(s, 1, Len(s)) = Append(SubSeq(s, 1, Len(s) - 1), s[Len(s)])
  BY <1>2, FirstOnes
<1>5. s = Append(Front(s), Last(s)) /\ Front(s) \in Seq(S) /\ Last(s) \in S
      /\ Len(Front(s)) = Len(s) - 1
  BY <1>3, <1>4 DEF Front, Last
<1>6. \A i \in 1 .. Len(Front(s)) : Append(Front(s), Last(s))[i] = Front(s)[i]
  BY <1>5, AppendProperties
<1> QED
  BY <1>1, <1>5, <1>6

(* A function that is defined from its value at the number before. *)
Steps(a, n, F, f) == f = [i \in 0 .. n |-> IF i = 0 THEN a ELSE F[i][f[i - 1]]]

LEMMA StepsExist ==
  ASSUME NEW a, NEW n \in Nat, NEW F
  PROVE  \E f : Steps(a, n, F, f)
<1> DEFINE Upto(m, f) == Steps(a, m, F, f)
           P == {m \in Nat : \E f : Upto(m, f)}
<1>1. 0 \in P
  <2>1. Upto(0, [i \in 0 .. 0 |-> a])
    BY DEF Steps
  <2> QED
    BY <2>1
<1>2. ASSUME NEW m \in Nat, m \in P PROVE m + 1 \in P
  <2>1. PICK f : Upto(m, f)
    BY <1>2
  <2> DEFINE g == [i \in 0 .. m + 1 |-> IF i = m + 1 THEN F[m + 1][f[m]] ELSE f[i]]
  <2>2. \A i \in 0 .. m : f[i] = IF i = 0 THEN a ELSE F[i][f[i - 1]]
    BY <2>1, Zenon DEF Steps
  <2>3. \A i \in 0 .. m + 1 : g[i] = IF i = 0 THEN a ELSE F[i][g[i - 1]]
    <3>1. ASSUME NEW i \in 0 .. m + 1 PROVE g[i] = IF i = 0 THEN a ELSE F[i][g[i - 1]]
      <4>1. CASE i = m + 1
        BY <4>1
      <4>2. CASE i \in 0 .. m
        BY <2>2, <4>2
      <4> QED
        BY <4>1, <4>2
    <3> QED
      BY <3>1
  <2>4. g = [i \in 0 .. m + 1 |-> IF i = 0 THEN a ELSE F[i][g[i - 1]]]
    BY <2>3, Zenon
  <2>5. Upto(m + 1, g)
    BY <2>4 DEF Steps
  <2> HIDE DEF g, Upto
  <2> QED
    BY <2>5
<1> HIDE DEF P
<1>3. Nat \subseteq P
  BY <1>1, <1>2, NatSetInduction
<1> QED
  BY <1>3 DEF P

LEMMA StepsTyped ==
  ASSUME NEW A, NEW a \in A, NEW n \in Nat, NEW F, NEW f,
         Steps(a, n, F, f),
         \A i \in 1 .. n, x \in A : F[i][x] \in A
  PROVE  \A i \in 0 .. n : f[i] \in A
<1> DEFINE P == {m \in Nat : m <= n => f[m] \in A}
<1>1. \A i \in 0 .. n : f[i] = IF i = 0 THEN a ELSE F[i][f[i - 1]]
  BY Zenon DEF Steps
<1>2. 0 \in P
  BY <1>1
<1>3. ASSUME NEW m \in Nat, m \in P PROVE m + 1 \in P
  <2>1. SUFFICES ASSUME m + 1 <= n PROVE f[m + 1] \in A
    OBVIOUS
  <2>2. m + 1 \in 0 .. n /\ m + 1 # 0 /\ (m + 1) - 1 = m /\ m + 1 \in 1 .. n
    BY <2>1
  <2>3. f[m + 1] = F[m + 1][f[m]]
    BY <1>1, <2>2
  <2>4. f[m] \in A
    BY <1>3, <2>1
  <2> QED
    BY <2>2, <2>3, <2>4
<1> HIDE DEF P
<1>4. Nat \subseteq P
  BY <1>2, <1>3, NatSetInduction
<1> QED
  BY <1>4 DEF P

-----------------------------------------------------------------------------
(* Packing and splitting texts.                                              *)

Bounded(texts) == \A i \in 1 .. Len(texts) : Len(texts[i]) <= HardMax

LEMMA HardMaxNat == HardMax \in Nat \ {0} /\ Target \in Nat \ {0} /\ MinFill \in Nat \ {0}
BY LimitsAssumption

LEMMA JoinedKeeps ==
  ASSUME NEW S, NEW tt \in Seq(Seq(S)), NEW e \in Seq(S)
  PROVE  /\ Joined(tt, e) \in Seq(Seq(S))
         /\ FlattenSeq(Joined(tt, e)) = FlattenSeq(tt) \o e
         /\ Bounded(tt) /\ Len(e) <= HardMax => Bounded(Joined(tt, e))
<1>1. CASE tt = <<>>
  <2>1. Joined(tt, e) = <<e>>
    BY <1>1 DEF Joined
  <2>2. <<e>> \in Seq(Seq(S)) /\ Len(<<e>>) = 1 /\ <<e>>[1] = e
    OBVIOUS
  <2>3. FlattenSeq(<<e>>) = e
    BY FlattenOne
  <2>4. FlattenSeq(tt) \o e = e
    BY <1>1, FlattenEmpty, ConcatEmptySeq
  <2>5. Len(e) <= HardMax => Bounded(<<e>>)
    BY <2>2 DEF Bounded
  <2> QED
    BY <2>1, <2>2, <2>3, <2>4, <2>5
<1>2. CASE tt # <<>>
  <2> DEFINE f == Front(tt)
             l == Last(tt)
  <2>1. /\ f \in Seq(Seq(S)) /\ l \in Seq(S) /\ tt = Append(f, l)
        /\ Len(tt) \in Nat \ {0} /\ Len(f) = Len(tt) - 1
        /\ \A i \in 1 .. Len(tt) - 1 : f[i] = tt[i]
    BY <1>2, FrontLast
  <2>2. Len(l) \in Nat /\ Len(e) \in Nat /\ HardMax \in Nat
    BY <2>1, LenProperties, HardMaxNat
  <2>3. CASE Len(l) + Len(e) > HardMax
    <3>1. Joined(tt, e) = Append(tt, e)
      BY <1>2, <2>3 DEF Joined
    <3>2. /\ Append(tt, e) \in Seq(Seq(S)) /\ Len(Append(tt, e)) = Len(tt) + 1
          /\ \A i \in 1 .. Len(tt) : Append(tt, e)[i] = tt[i]
          /\ Append(tt, e)[Len(tt) + 1] = e
      BY AppendProperties
    <3>3. FlattenSeq(Append(tt, e)) = FlattenSeq(tt) \o e
      BY FlattenAppend
    <3>4. ASSUME Bounded(tt), Len(e) <= HardMax PROVE Bounded(Append(tt, e))
      <4> SUFFICES ASSUME NEW i \in 1 .. Len(tt) + 1
                   PROVE  Len(Append(tt, e)[i]) <= HardMax
        BY <3>2 DEF Bounded
      <4>1. CASE i = Len(tt) + 1
        BY <3>2, <3>4, <4>1
      <4>2. CASE i \in 1 .. Len(tt)
        BY <3>2, <3>4, <4>2 DEF Bounded
      <4> QED
        BY <2>1, <4>1, <4>2
    <3> QED
      BY <3>1, <3>2, <3>3, <3>4
  <2>4. CASE ~ (Len(l) + Len(e) > HardMax)
    <3>1. Joined(tt, e) = Append(f, l \o e)
      BY <1>2, <2>4 DEF Joined
    <3>2. l \o e \in Seq(S) /\ Len(l \o e) = Len(l) + Len(e)
      BY <2>1, ConcatProperties
    <3> DEFINE le == l \o e
    <3> HIDE DEF le
    <3>3. le \in Seq(S) /\ Len(le) <= HardMax
      BY <2>2, <2>4, <3>2 DEF le
    <3> HIDE DEF f, l
    <3>4. /\ Append(f, le) \in Seq(Seq(S)) /\ Len(Append(f, le)) = Len(f) + 1
          /\ \A i \in 1 .. Len(f) : Append(f, le)[i] = f[i]
          /\ Append(f, le)[Len(f) + 1] = le
      BY <2>1, <3>3, AppendProperties
    <3>5. FlattenSeq(Append(f, le)) = FlattenSeq(f) \o le
      BY <2>1, <3>3, FlattenAppend
    <3>6. FlattenSeq(f) \in Seq(S)
      BY <2>1, FlattenTyped
    <3>7. FlattenSeq(f) \o (l \o e) = (FlattenSeq(f) \o l) \o e
      BY <2>1, <3>6, ConcatAssociative, SMTT(30)
    <3>8. FlattenSeq(tt) = FlattenSeq(f) \o l
      BY <2>1, FlattenAppend
    <3>9. ASSUME Bounded(tt) PROVE Bounded(Append(f, le))
      <4> SUFFICES ASSUME NEW i \in 1 .. Len(f) + 1
                   PROVE  Len(Append(f, le)[i]) <= HardMax
        BY <3>4 DEF Bounded
      <4>1. CASE i = Len(f) + 1
        BY <3>3, <3>4, <4>1
      <4>2. CASE i \in 1 .. Len(f)
        BY <2>1, <3>4, <3>9, <4>2 DEF Bounded
      <4> QED
        BY <2>1, <4>1, <4>2
    <3> QED
      BY <3>1, <3>4, <3>5, <3>7, <3>8, <3>9 DEF le
  <2> QED
    BY <2>3, <2>4
<1> QED
  BY <1>1, <1>2

PackSteps(texts, f) ==
  f = [i \in 0 .. Len(texts) |-> IF i = 0 THEN <<>> ELSE Joined(f[i - 1], texts[i])]

LEMMA PackedIs ==
  ASSUME NEW S, NEW texts \in Seq(Seq(S))
  PROVE  \E f : PackSteps(texts, f) /\ Packed(texts) = f[Len(texts)]
<1> DEFINE A == Seq(Seq(S))
           n == Len(texts)
           F == [i \in 1 .. n |-> [x \in A |-> Joined(x, texts[i])]]
           h == CHOOSE f : PackSteps(texts, f)
<1>1. n \in Nat /\ <<>> \in A
  BY LenProperties, EmptySeq
<1>2. \A i \in 1 .. n, x \in A : F[i][x] = Joined(x, texts[i]) /\ F[i][x] \in A
  <2>1. \A i \in 1 .. n : texts[i] \in Seq(S)
    BY ElementOfSeq
  <2> QED
    BY <2>1, JoinedKeeps
<1> HIDE DEF F, n
<1>3. PICK f : Steps(<<>>, n, F, f)
  BY <1>1, StepsExist, Zenon
<1>4. \A i \in 0 .. n : f[i] \in A
  <2> HIDE DEF A
  <2> QED
    BY <1>1, <1>2, <1>3, StepsTyped
<1>5. \A i \in 0 .. n : f[i] = IF i = 0 THEN <<>> ELSE Joined(f[i - 1], texts[i])
  <2>1. ASSUME NEW i \in 0 .. n
        PROVE  f[i] = IF i = 0 THEN <<>> ELSE Joined(f[i - 1], texts[i])
    <3>1. f[i] = IF i = 0 THEN <<>> ELSE F[i][f[i - 1]]
      BY <1>3, Zenon DEF Steps
    <3>2. i # 0 => i \in 1 .. n /\ f[i - 1] \in A
      BY <1>1, <1>4
    <3> HIDE DEF A
    <3> QED
      BY <1>2, <3>1, <3>2
  <2> QED
    BY <2>1
<1>6. PackSteps(texts, f)
  <2>1. f = [i \in 0 .. n |-> f[i]]
    BY <1>3 DEF Steps
  <2> QED
    BY <1>5, <2>1, Zenon DEF PackSteps, n
<1>7. PackSteps(texts, h)
  BY <1>6
<1>8. Packed(texts) = h[Len(texts)]
  BY Zenon DEF Packed, PackSteps
<1> QED
  BY <1>7, <1>8

LEMMA PackedKeeps ==
  ASSUME NEW S, NEW texts \in Seq(Seq(S))
  PROVE  /\ Packed(texts) \in Seq(Seq(S))
         /\ FlattenSeq(Packed(texts)) = FlattenSeq(texts)
         /\ Bounded(texts) => Bounded(Packed(texts))
<1>1. PICK f : PackSteps(texts, f) /\ Packed(texts) = f[Len(texts)]
  BY PackedIs
<1> DEFINE n == Len(texts)
           P == {m \in Nat : m <= n =>
                   /\ f[m] \in Seq(Seq(S))
                   /\ FlattenSeq(f[m]) = FlattenSeq(SubSeq(texts, 1, m))
                   /\ Bounded(texts) => Bounded(f[m])}
<1>2. \A i \in 0 .. n : f[i] = IF i = 0 THEN <<>> ELSE Joined(f[i - 1], texts[i])
  BY <1>1, Zenon DEF PackSteps
<1>3. n \in Nat /\ SubSeq(texts, 1, n) = texts
  BY LenProperties, SubSeqFull
<1>4. 0 \in P
  <2>1. f[0] = <<>>
    BY <1>2, <1>3
  <2>2. SubSeq(texts, 1, 0) = <<>>
    BY SubSeqEmpty
  <2>3. Bounded(<<>>)
    BY DEF Bounded
  <2> QED
    BY <2>1, <2>2, <2>3, EmptySeq
<1>5. ASSUME NEW m \in Nat, m \in P PROVE m + 1 \in P
  <2>1. SUFFICES ASSUME m + 1 <= n
                 PROVE  /\ f[m + 1] \in Seq(Seq(S))
                        /\ FlattenSeq(f[m + 1]) = FlattenSeq(SubSeq(texts, 1, m + 1))
                        /\ Bounded(texts) => Bounded(f[m + 1])
    OBVIOUS
  <2> DEFINE k == m + 1
  <2>2. k \in 1 .. n /\ k \in 0 .. n /\ k # 0 /\ k - 1 = m /\ m <= n
    BY <1>3, <2>1
  <2>3. f[k] = Joined(f[m], texts[k])
    BY <1>2, <2>2
  <2>4. /\ f[m] \in Seq(Seq(S))
        /\ FlattenSeq(f[m]) = FlattenSeq(SubSeq(texts, 1, m))
        /\ Bounded(texts) => Bounded(f[m])
    BY <1>5, <2>2
  <2> HIDE DEF k, P
  <2>5. /\ texts[k] \in Seq(S) /\ SubSeq(texts, 1, m) \in Seq(Seq(S))
        /\ SubSeq(texts, 1, k) = Append(SubSeq(texts, 1, m), texts[k])
    <3>1. /\ texts[k] \in Seq(S) /\ SubSeq(texts, 1, k - 1) \in Seq(Seq(S))
          /\ SubSeq(texts, 1, k) = Append(SubSeq(texts, 1, k - 1), texts[k])
      BY <2>2, FirstOnes
    <3> QED
      BY <2>2, <3>1
  <2>6. FlattenSeq(SubSeq(texts, 1, k)) = FlattenSeq(SubSeq(texts, 1, m)) \o texts[k]
    BY <2>5, FlattenAppend
  <2>7. /\ Joined(f[m], texts[k]) \in Seq(Seq(S))
        /\ FlattenSeq(Joined(f[m], texts[k])) = FlattenSeq(f[m]) \o texts[k]
        /\ Bounded(f[m]) /\ Len(texts[k]) <= HardMax => Bounded(Joined(f[m], texts[k]))
    BY <2>4, <2>5, JoinedKeeps
  <2>8. Bounded(texts) => Len(texts[k]) <= HardMax
    BY <2>2 DEF Bounded
  <2>9. /\ f[k] \in Seq(Seq(S))
        /\ FlattenSeq(f[k]) = FlattenSeq(SubSeq(texts, 1, k))
        /\ Bounded(texts) => Bounded(f[k])
    BY <2>3, <2>4, <2>6, <2>7, <2>8
  <2> QED
    BY <2>9 DEF k
<1> HIDE DEF P
<1>6. Nat \subseteq P
  BY <1>4, <1>5, NatSetInduction
<1>7. n \in P /\ n <= n
  BY <1>3, <1>6
<1>8. /\ f[n] \in Seq(Seq(S))
      /\ FlattenSeq(f[n]) = FlattenSeq(SubSeq(texts, 1, n))
      /\ Bounded(texts) => Bounded(f[n])
  BY <1>7 DEF P
<1> QED
  BY <1>1, <1>3, <1>8

-----------------------------------------------------------------------------
(* The section tree.                                                         *)

TreeType ==
  /\ doc \in Seq(Blocks)
  /\ placed \in 0 .. Len(doc)
  /\ sections \in Seq(Section)
  /\ stack \in Seq(Nat)

(* The stack holds the last section and those around it, outermost first: the *)
(* i-th is at level i, below the one before it, and nothing after it is at     *)
(* its level or above.                                                       *)
StackInv ==
  /\ stack = <<>> <=> sections = <<>>
  /\ stack # <<>> => stack[Len(stack)] = Len(sections)
  /\ \A i \in 1 .. Len(stack) :
       /\ stack[i] \in 1 .. Len(sections)
       /\ sections[stack[i]].level = i
       /\ sections[stack[i]].path = [j \in 1 .. i |-> sections[stack[j]].title]
       /\ \A t \in stack[i] + 1 .. Len(sections) : sections[t].level > i

BlocksInv ==
  /\ BlocksInOrder
  /\ \A s \in 1 .. Len(sections) : sections[s].blocks # <<>>

LEMMA BlockFields ==
  ASSUME TreeType, placed < Len(doc)
  PROVE  /\ doc[placed + 1] \in Blocks
         /\ doc[placed + 1].level \in 0 .. 6 /\ doc[placed + 1].title \in Titles
         /\ Len(doc) \in Nat /\ placed + 1 \in 0 .. Len(doc)
<1>1. Len(doc) \in Nat /\ placed + 1 \in 1 .. Len(doc)
  BY LenProperties DEF TreeType
<1>2. doc[placed + 1] \in Blocks
  BY <1>1, ElementOfSeq DEF TreeType
<1> QED
  BY <1>1, <1>2, BlocksAssumption DEF Block

(* The level a heading gets is at most one below the open section. *)
LEMMA LevelFits ==
  ASSUME TreeType, StackInv, placed < Len(doc), doc[placed + 1].level # 0
  PROVE  LET l == LevelOf(doc[placed + 1])
         IN  l \in 1 .. 6 /\ l <= Len(stack) + 1 /\ Len(stack) \in Nat
<1>1. doc[placed + 1].level \in 1 .. 6
  BY BlockFields
<1>2. Len(stack) \in Nat
  BY LenProperties DEF TreeType
<1>3. stack = <<>> => Len(stack) = 0
  OBVIOUS
<1> QED
  BY <1>1, <1>2, <1>3 DEF LevelOf

LEMMA AroundIs ==
  ASSUME NEW l \in Nat, l >= 1, TreeType, l <= Len(stack) + 1
  PROVE  /\ Around(l) \in Seq(Nat) /\ Len(Around(l)) = l - 1
         /\ \A i \in 1 .. l - 1 : Around(l)[i] = stack[i]
         /\ Around(l) = <<>> <=> l = 1
<1>1. Len(stack) \in Nat /\ \A i \in 1 .. l - 1 : stack[i] \in Nat
  BY LenProperties, ElementOfSeq DEF TreeType
<1>2. /\ Around(l) \in Seq(Nat)
      /\ Len(Around(l)) = IF 1 <= l - 1 THEN l - 1 - 1 + 1 ELSE 0
      /\ \A i \in 1 .. l - 1 - 1 + 1 : Around(l)[i] = stack[1 + i - 1]
  BY <1>1, SubSeqProperties DEF Around
<1>3. Len(Around(l)) = l - 1
  BY <1>2
<1>4. \A i \in 1 .. l - 1 : Around(l)[i] = stack[i]
  BY <1>2
<1> QED
  BY <1>2, <1>3, <1>4, EmptySeq

LEMMA HeadedIs ==
  ASSUME TreeType, StackInv, placed < Len(doc), doc[placed + 1].level # 0
  PROVE  LET b == doc[placed + 1]
             l == LevelOf(b)
         IN  /\ Headed(b) \in Section
             /\ Headed(b).level = l /\ Headed(b).title = b.title
             /\ Headed(b).parent = IF l = 1 THEN 0 ELSE stack[l - 1]
             /\ Headed(b).path = Append([i \in 1 .. l - 1 |-> sections[stack[i]].title], b.title)
             /\ Headed(b).blocks = <<placed + 1>>
<1> DEFINE b == doc[placed + 1]
           l == LevelOf(b)
           a == Around(l)
<1>1. l \in 1 .. 6 /\ l <= Len(stack) + 1 /\ Len(stack) \in Nat
  BY LevelFits
<1> HIDE DEF l
<1>2. /\ a \in Seq(Nat) /\ Len(a) = l - 1 /\ (a = <<>> <=> l = 1)
      /\ \A i \in 1 .. l - 1 : a[i] = stack[i]
  <2>1. l \in Nat /\ l >= 1
    BY <1>1
  <2> QED
    BY <1>1, <2>1, AroundIs
<1>3. ASSUME NEW i \in 1 .. l - 1
      PROVE  stack[i] \in 1 .. Len(sections) /\ sections[stack[i]] \in Section
  <2>1. i \in 1 .. Len(stack)
    BY <1>1
  <2>2. stack[i] \in 1 .. Len(sections)
    BY <2>1 DEF StackInv
  <2> QED
    BY <2>2, ElementOfSeq DEF TreeType
<1>4. l # 1 => a[Len(a)] = stack[l - 1] /\ stack[l - 1] \in Nat
  BY <1>1, <1>2, <1>3
<1> HIDE DEF a
<1>5. [i \in 1 .. Len(a) |-> sections[a[i]].title] = [i \in 1 .. l - 1 |-> sections[stack[i]].title]
  BY <1>2
<1>6. [i \in 1 .. l - 1 |-> sections[stack[i]].title] \in Seq(Titles \cup {FrontMatter})
  BY <1>1, <1>3, MapTyped, SMTT(30) DEF Section
<1>7. b.title \in Titles /\ placed + 1 \in Nat
  BY BlockFields
<1>8. /\ Append([i \in 1 .. l - 1 |-> sections[stack[i]].title], b.title)
           \in Seq(Titles \cup {FrontMatter})
      /\ <<placed + 1>> \in Seq(Nat)
  BY <1>6, <1>7, AppendProperties
<1>9. Headed(b) = [title |-> b.title, level |-> l,
                   parent |-> IF a = <<>> THEN 0 ELSE a[Len(a)],
                   path |-> Append([i \in 1 .. Len(a) |-> sections[a[i]].title], b.title),
                   blocks |-> <<placed + 1>>]
  BY DEF Headed, l, a
<1>10. (IF a = <<>> THEN 0 ELSE a[Len(a)]) = IF l = 1 THEN 0 ELSE stack[l - 1]
  BY <1>2, <1>4
<1>11. Headed(b) = [title |-> b.title, level |-> l,
                    parent |-> IF l = 1 THEN 0 ELSE stack[l - 1],
                    path |-> Append([i \in 1 .. l - 1 |-> sections[stack[i]].title], b.title),
                    blocks |-> <<placed + 1>>]
  BY <1>5, <1>9, <1>10
<1>12. Headed(b) \in Section
  BY <1>1, <1>4, <1>7, <1>8, <1>11 DEF Section
<1>13. /\ Headed(b).level = l /\ Headed(b).title = b.title
       /\ Headed(b).parent = IF l = 1 THEN 0 ELSE stack[l - 1]
       /\ Headed(b).path = Append([i \in 1 .. l - 1 |-> sections[stack[i]].title], b.title)
       /\ Headed(b).blocks = <<placed + 1>>
  <2> DEFINE p == Append([i \in 1 .. l - 1 |-> sections[stack[i]].title], b.title)
             r == IF l = 1 THEN 0 ELSE stack[l - 1]
             h == Headed(b)
  <2>1. h = [title |-> b.title, level |-> l, parent |-> r, path |-> p,
             blocks |-> <<placed + 1>>]
    BY <1>11
  <2> HIDE DEF p, r, h, b
  <2>2. /\ h.level = l /\ h.title = b.title /\ h.parent = r /\ h.path = p
        /\ h.blocks = <<placed + 1>>
    BY <2>1
  <2> QED
    BY <2>2 DEF p, r, h
<1> QED
  BY <1>12, <1>13, Zenon DEF l

TreeInv == TreeType /\ StackInv /\ ParentsEnclose /\ BlocksInv

BlocksOf(ss) == [s \in DOMAIN ss |-> ss[s].blocks]

LEMMA BlocksOfTyped ==
  ASSUME NEW ss \in Seq(Section)
  PROVE  /\ BlocksOf(ss) \in Seq(Seq(Nat)) /\ Len(BlocksOf(ss)) = Len(ss)
         /\ Len(ss) \in Nat /\ DOMAIN ss = 1 .. Len(ss)
         /\ \A s \in 1 .. Len(ss) : ss[s] \in Section /\ BlocksOf(ss)[s] = ss[s].blocks
<1>1. Len(ss) \in Nat /\ DOMAIN ss = 1 .. Len(ss)
  BY LenProperties
<1>2. \A s \in 1 .. Len(ss) : ss[s] \in Section
  BY ElementOfSeq
<1>3. \A s \in 1 .. Len(ss) : ss[s].blocks \in Seq(Nat)
  BY <1>2 DEF Section
<1>4. BlocksOf(ss) = [s \in 1 .. Len(ss) |-> ss[s].blocks]
  BY <1>1 DEF BlocksOf
<1>5. BlocksOf(ss) = [s \in 1 .. Len(ss) |-> BlocksOf(ss)[s]]
  BY <1>4
<1> QED
  BY <1>1, <1>2, <1>3, <1>4, <1>5, MapTyped

LEMMA OneMore ==
  ASSUME NEW n \in Nat
  PROVE  [b \in 1 .. n |-> b] \o <<n + 1>> = [b \in 1 .. n + 1 |-> b]
<1> DEFINE u == [b \in 1 .. n |-> b]
           v == [b \in 1 .. n + 1 |-> b]
<1>1. /\ u \in Seq(Nat) /\ Len(u) = n /\ v \in Seq(Nat) /\ Len(v) = n + 1
      /\ \A i \in 1 .. n : v[i] = u[i]
      /\ v[n + 1] = n + 1
  BY MapTyped
<1> HIDE DEF u, v
<1>2. v = Append(u, n + 1)
  BY <1>1, Extended
<1> QED
  BY <1>1, <1>2, AppendIsConcat DEF u, v

LEMMA HeadingSections ==
  ASSUME TreeInv, PlaceHeading
  PROVE  LET b == doc[placed + 1]
             l == LevelOf(b)
             n == Len(sections)
         IN  /\ placed < Len(doc) /\ b.level # 0
             /\ sections' \in Seq(Section) /\ Len(sections') = n + 1 /\ n \in Nat
             /\ \A s \in 1 .. n : sections'[s] = sections[s]
             /\ sections'[n + 1] = Headed(b)
             /\ l \in 1 .. 6 /\ l <= Len(stack) + 1 /\ Len(stack) \in Nat
             /\ stack' \in Seq(Nat) /\ Len(stack') = l
             /\ \A i \in 1 .. l - 1 : stack'[i] = stack[i]
             /\ stack'[l] = n + 1
<1> DEFINE b == doc[placed + 1]
           l == LevelOf(b)
           n == Len(sections)
           h == Headed(b)
<1>1. /\ placed < Len(doc) /\ b.level # 0
      /\ sections' = Append(sections, h) /\ stack' = Append(Around(l), n + 1)
  BY DEF PlaceHeading
<1>2. l \in 1 .. 6 /\ l <= Len(stack) + 1 /\ Len(stack) \in Nat
  BY <1>1, LevelFits DEF TreeInv
<1>3. h \in Section
  BY <1>1, HeadedIs DEF TreeInv
<1>4. sections \in Seq(Section) /\ n \in Nat
  BY LenProperties DEF TreeInv, TreeType
<1> HIDE DEF l, h
<1>5. /\ sections' \in Seq(Section) /\ Len(sections') = n + 1
      /\ \A s \in 1 .. n : sections'[s] = sections[s]
      /\ sections'[n + 1] = h
  BY <1>1, <1>3, <1>4, AppendProperties
<1>6. /\ Around(l) \in Seq(Nat) /\ Len(Around(l)) = l - 1
      /\ \A i \in 1 .. l - 1 : Around(l)[i] = stack[i]
  <2>1. l \in Nat /\ l >= 1
    BY <1>2
  <2> QED
    BY <1>2, <2>1, AroundIs DEF TreeInv
<1>7. /\ stack' \in Seq(Nat) /\ Len(stack') = l
      /\ \A i \in 1 .. l - 1 : stack'[i] = stack[i]
      /\ stack'[l] = n + 1
  <2>1. n + 1 \in Nat /\ l - 1 + 1 = l
    BY <1>2, <1>4
  <2> QED
    BY <1>1, <1>6, <2>1, AppendProperties
<1> QED
  BY <1>1, <1>2, <1>4, <1>5, <1>7 DEF l, h

LEMMA HeadingStack ==
  ASSUME TreeInv, PlaceHeading
  PROVE  StackInv' /\ ParentsEnclose'
<1> DEFINE b == doc[placed + 1]
           l == LevelOf(b)
           n == Len(sections)
           h == Headed(b)
<1>1. /\ placed < Len(doc) /\ b.level # 0
      /\ sections' \in Seq(Section) /\ Len(sections') = n + 1 /\ n \in Nat
      /\ \A s \in 1 .. n : sections'[s] = sections[s]
      /\ sections'[n + 1] = h
      /\ l \in 1 .. 6 /\ l <= Len(stack) + 1 /\ Len(stack) \in Nat
      /\ stack' \in Seq(Nat) /\ Len(stack') = l
      /\ \A i \in 1 .. l - 1 : stack'[i] = stack[i]
      /\ stack'[l] = n + 1
  BY HeadingSections
<1>2. /\ h.level = l /\ h.title = b.title
      /\ h.parent = IF l = 1 THEN 0 ELSE stack[l - 1]
      /\ h.path = Append([i \in 1 .. l - 1 |-> sections[stack[i]].title], b.title)
  BY <1>1, HeadedIs DEF TreeInv
<1>3. DOMAIN sections = 1 .. n /\ DOMAIN sections' = 1 .. n + 1
  BY <1>1, BlocksOfTyped, LenProperties DEF TreeInv, TreeType
<1> HIDE DEF b, l, n, h
<1>4. ASSUME NEW i \in 1 .. l - 1
      PROVE  /\ i \in 1 .. Len(stack) /\ stack[i] \in 1 .. n
             /\ sections[stack[i]].level = i
             /\ sections[stack[i]].path = [j \in 1 .. i |-> sections[stack[j]].title]
             /\ \A t \in stack[i] + 1 .. n : sections[t].level > i
             /\ sections'[stack'[i]] = sections[stack[i]]
  <2>1. i \in 1 .. Len(stack)
    BY <1>1
  <2>2. StackInv
    BY DEF TreeInv
  <2> QED
    BY <1>1, <2>1, <2>2 DEF StackInv, n
<1>5. ASSUME NEW i \in 1 .. l - 1
      PROVE  [j \in 1 .. i |-> sections'[stack'[j]].title] =
             [j \in 1 .. i |-> sections[stack[j]].title]
  <2>1. \A j \in 1 .. i : j \in 1 .. l - 1
    BY <1>1
  <2> QED
    BY <1>4, <2>1
<1>6. h.path = [j \in 1 .. l |-> sections'[stack'[j]].title]
  <2> DEFINE p == [i \in 1 .. l - 1 |-> sections[stack[i]].title]
             q == [j \in 1 .. l |-> sections'[stack'[j]].title]
             T == Titles \cup {FrontMatter}
  <2>1. ASSUME NEW i \in 1 .. l - 1 PROVE sections[stack[i]].title \in T
    <3>1. sections[stack[i]] \in Section
      BY <1>4, BlocksOfTyped DEF TreeInv, TreeType, n
    <3> QED
      BY <3>1 DEF Section
  <2>2. p \in Seq(T) /\ Len(p) = l - 1 /\ \A i \in 1 .. l - 1 : p[i] \in T
    <3>1. l - 1 \in Nat
      BY <1>1
    <3> QED
      BY <2>1, <3>1, MapTyped
  <2>3. b.title \in T
    BY <1>1, BlockFields DEF TreeInv, b
  <2>4. ASSUME NEW j \in 1 .. l PROVE q[j] = IF j = l THEN b.title ELSE p[j]
    <3>1. CASE j = l
      <4>1. sections'[stack'[l]].title = b.title
        BY <1>1, <1>2
      <4> QED
        BY <3>1, <4>1
    <3>2. CASE j # l
      <4>1. j \in 1 .. l - 1
        BY <1>1, <3>2
      <4>2. sections'[stack'[j]].title = sections[stack[j]].title
        BY <1>4, <4>1
      <4> QED
        BY <3>2, <4>1, <4>2
    <3> QED
      BY <3>1, <3>2
  <2>5. q \in Seq(T) /\ Len(q) = l
    <3>1. q = [j \in 1 .. l |-> q[j]]
      OBVIOUS
    <3> HIDE DEF p, q, T
    <3>2. ASSUME NEW j \in 1 .. l PROVE q[j] \in T
      <4>1. j # l => j \in 1 .. l - 1
        BY <1>1
      <4> QED
        BY <2>2, <2>3, <2>4, <4>1
    <3>3. l \in Nat
      BY <1>1
    <3> QED
      BY <3>1, <3>2, <3>3, MapTyped
  <2> HIDE DEF p, q, T
  <2>6. q = Append(p, q[Len(q)])
    <3>1. Len(q) = Len(p) + 1 /\ \A j \in 1 .. Len(p) : q[j] = p[j]
      BY <1>1, <2>2, <2>4, <2>5
    <3> QED
      BY <2>2, <2>5, <3>1, Extended
  <2>7. q[Len(q)] = b.title
    BY <1>1, <2>4, <2>5
  <2> QED
    BY <1>2, <2>6, <2>7 DEF p, q
<1>7. StackInv'
  <2>1. stack' # <<>> /\ sections' # <<>> /\ stack'[Len(stack')] = Len(sections')
    BY <1>1, EmptySeq
  <2>2. ASSUME NEW i \in 1 .. l - 1
        PROVE  /\ stack'[i] \in 1 .. n + 1
               /\ sections'[stack'[i]].level = i
               /\ sections'[stack'[i]].path = [j \in 1 .. i |-> sections'[stack'[j]].title]
               /\ \A t \in stack'[i] + 1 .. n + 1 : sections'[t].level > i
    <3>1. stack'[i] = stack[i] /\ stack[i] \in 1 .. n + 1
      <4>1. stack'[i] = stack[i] /\ n \in Nat
        BY <1>1
      <4>2. stack[i] \in 1 .. n
        BY <1>4
      <4> QED
        BY <4>1, <4>2
    <3>2. ASSUME NEW t \in stack[i] + 1 .. n + 1 PROVE sections'[t].level > i
      <4>1. CASE t \in stack[i] + 1 .. n
        <5>1. t \in 1 .. n
          BY <1>1, <1>4, <4>1
        <5> QED
          BY <1>1, <1>4, <4>1, <5>1
      <4>2. CASE t = n + 1
        BY <1>1, <1>2, <4>2
      <4> QED
        BY <1>1, <1>4, <4>1, <4>2
    <3> QED
      BY <1>4, <1>5, <3>1, <3>2
  <2>3. /\ stack'[l] \in 1 .. n + 1
        /\ sections'[stack'[l]].level = l
        /\ sections'[stack'[l]].path = [j \in 1 .. l |-> sections'[stack'[j]].title]
        /\ \A t \in stack'[l] + 1 .. n + 1 : sections'[t].level > l
    BY <1>1, <1>2, <1>6
  <2>4. \A i \in 1 .. l : i \in 1 .. l - 1 \/ i = l
    BY <1>1
  <2>5. \A i \in 1 .. Len(stack') :
          /\ stack'[i] \in 1 .. Len(sections')
          /\ sections'[stack'[i]].level = i
          /\ sections'[stack'[i]].path = [j \in 1 .. i |-> sections'[stack'[j]].title]
          /\ \A t \in stack'[i] + 1 .. Len(sections') : sections'[t].level > i
    BY <1>1, <2>2, <2>3, <2>4, ZenonT(30)
  <2> QED
    BY <2>1, <2>5 DEF StackInv
<1>8. ParentsEnclose'
  <2> DEFINE Enclosed(f, s) ==
        IF f[s].parent = 0
          THEN f[s].level = 1 /\ f[s].path = <<f[s].title>>
          ELSE /\ f[s].parent < s
               /\ f[s].level = f[f[s].parent].level + 1
               /\ f[s].path = Append(f[f[s].parent].path, f[s].title)
               /\ \A t \in f[s].parent + 1 .. s - 1 : f[t].level > f[f[s].parent].level
  <2>1. ASSUME NEW s \in 1 .. n PROVE Enclosed(sections', s)
    <3>1. Enclosed(sections, s)
      BY <1>3 DEF TreeInv, ParentsEnclose
    <3>2. sections[s].parent \in Nat
      BY BlocksOfTyped DEF TreeInv, TreeType, Section, n
    <3>3. sections'[s] = sections[s]
      BY <1>1
    <3>4. CASE sections[s].parent = 0
      BY <3>1, <3>3, <3>4
    <3>5. CASE sections[s].parent # 0
      <4>1. sections[s].parent < s
        BY <3>1, <3>5
      <4>2. sections[s].parent \in 1 .. n /\ \A t \in sections[s].parent + 1 .. s - 1 : t \in 1 .. n
        BY <1>1, <3>2, <3>5, <4>1
      <4> QED
        BY <1>1, <3>1, <3>3, <3>5, <4>2
    <3> QED
      BY <3>4, <3>5
  <2>2. Enclosed(sections', n + 1)
    <3>1. CASE l = 1
      <4>1. [i \in 1 .. l - 1 |-> sections[stack[i]].title] = <<>>
        BY <3>1
      <4>2. h.path = <<h.title>> /\ h.level = 1 /\ h.parent = 0
        BY <1>2, <3>1, <4>1
      <4> QED
        BY <1>1, <4>2
    <3>2. CASE l # 1
      <4> DEFINE p == stack[l - 1]
      <4>1. l - 1 \in 1 .. l - 1
        BY <1>1, <3>2
      <4>2. p \in 1 .. n /\ sections[p].level = l - 1
            /\ sections[p].path = [j \in 1 .. l - 1 |-> sections[stack[j]].title]
            /\ \A t \in p + 1 .. n : sections[t].level > l - 1
        BY <1>4, <4>1
      <4>3. h.parent = p
        BY <1>2, <3>2
      <4> HIDE DEF p
      <4>4. p # 0 /\ p < n + 1 /\ sections'[p] = sections[p]
            /\ \A t \in p + 1 .. n : sections'[t] = sections[t]
        BY <1>1, <4>2
      <4>5. h.level = sections[p].level + 1
        BY <1>1, <1>2, <4>2
      <4>6. h.path = Append(sections[p].path, h.title)
        BY <1>2, <4>2
      <4>7. /\ sections'[n + 1].parent = p
            /\ sections'[n + 1].level = sections'[p].level + 1
            /\ sections'[n + 1].path = Append(sections'[p].path, sections'[n + 1].title)
        BY <1>1, <4>3, <4>4, <4>5, <4>6
      <4>8. \A t \in p + 1 .. n : sections'[t].level > sections'[p].level
        BY <4>2, <4>4
      <4>9. \A t \in p + 1 .. (n + 1) - 1 : sections'[t].level > sections'[p].level
        BY <1>1, <4>8
      <4> QED
        BY <4>4, <4>7, <4>9
    <3> QED
      BY <3>1, <3>2
  <2> HIDE DEF Enclosed
  <2>3. \A s \in 1 .. n + 1 : Enclosed(sections', s)
    <3>1. \A s \in 1 .. n + 1 : s \in 1 .. n \/ s = n + 1
      BY <1>1
    <3> QED
      BY <2>1, <2>2, <3>1
  <2> QED
    BY <1>3, <2>3 DEF ParentsEnclose, Enclosed
<1> QED
  BY <1>7, <1>8

(* A section that is opened holds the next block. *)
LEMMA SectionOpened ==
  ASSUME TreeInv, TreeType', placed' = placed + 1, Len(sections') = Len(sections) + 1,
         \A s \in 1 .. Len(sections) : sections'[s] = sections[s],
         sections'[Len(sections) + 1].blocks = <<placed + 1>>
  PROVE  BlocksInv'
<1> DEFINE n == Len(sections)
           a == BlocksOf(sections)
           c == BlocksOf(sections')
<1>1. /\ a \in Seq(Seq(Nat)) /\ Len(a) = n /\ n \in Nat
      /\ \A s \in 1 .. n : a[s] = sections[s].blocks
  BY BlocksOfTyped DEF TreeInv, TreeType
<1>2. /\ c \in Seq(Seq(Nat)) /\ Len(c) = n + 1
      /\ \A s \in 1 .. n + 1 : c[s] = sections'[s].blocks
  BY BlocksOfTyped DEF TreeType
<1>3. placed \in Nat /\ <<placed + 1>> \in Seq(Nat)
  BY LenProperties DEF TreeInv, TreeType
<1>4. FlattenSeq(a) = [b \in 1 .. placed |-> b]
  BY DEF TreeInv, BlocksInv, BlocksInOrder, BlocksOf
<1> HIDE DEF a, c
<1>5. c = Append(a, <<placed + 1>>)
  <2>1. /\ \A s \in 1 .. n : c[s] = a[s]
        /\ c[n + 1] = <<placed + 1>>
    <3>1. \A s \in 1 .. n : s \in 1 .. n + 1
      BY <1>1
    <3>2. n + 1 \in 1 .. n + 1
      BY <1>1
    <3> QED
      BY <1>1, <1>2, <3>1, <3>2
  <2> QED
    BY <1>1, <1>2, <2>1, Extended
<1>6. FlattenSeq(c) = [b \in 1 .. placed' |-> b]
  <2>1. FlattenSeq(c) = [b \in 1 .. placed |-> b] \o <<placed + 1>>
    BY <1>1, <1>3, <1>4, <1>5, FlattenAppend
  <2> QED
    BY <1>3, <2>1, OneMore
<1>7. BlocksInOrder'
  BY <1>6 DEF BlocksInOrder, BlocksOf, c
<1>8. ASSUME NEW s \in 1 .. Len(sections') PROVE sections'[s].blocks # <<>>
  <2>1. CASE s \in 1 .. n
    <3>1. sections[s].blocks # <<>>
      BY <2>1 DEF TreeInv, BlocksInv
    <3> QED
      BY <2>1, <3>1
  <2>2. CASE s = n + 1
    <3>1. <<placed + 1>> # <<>>
      OBVIOUS
    <3>2. sections'[n + 1].blocks = <<placed + 1>>
      OBVIOUS
    <3> HIDE DEF n
    <3> QED
      BY <2>2, <3>1, <3>2
  <2> QED
    BY <1>1, <2>1, <2>2
<1> QED
  BY <1>7, <1>8 DEF BlocksInv

LEMMA HeadingTree ==
  ASSUME TreeInv, PlaceHeading
  PROVE  TreeInv'
<1>1. /\ placed < Len(doc) /\ doc[placed + 1].level # 0
      /\ sections' \in Seq(Section) /\ Len(sections') = Len(sections) + 1
      /\ \A s \in 1 .. Len(sections) : sections'[s] = sections[s]
      /\ sections'[Len(sections) + 1] = Headed(doc[placed + 1])
      /\ stack' \in Seq(Nat)
  BY HeadingSections
<1>2. placed' = placed + 1 /\ doc' = doc
  BY DEF PlaceHeading
<1>3. TreeType'
  BY <1>1, <1>2, BlockFields DEF TreeInv, TreeType
<1>4. Headed(doc[placed + 1]).blocks = <<placed + 1>>
  BY <1>1, HeadedIs DEF TreeInv
<1>5. BlocksInv'
  BY <1>1, <1>2, <1>3, <1>4, SectionOpened
<1> QED
  BY <1>3, <1>5, HeadingStack DEF TreeInv

LEMMA FrontMatterTree ==
  ASSUME TreeInv, PlaceFrontMatter
  PROVE  TreeInv'
<1>1. /\ placed < Len(doc) /\ sections = <<>> /\ sections' = <<Unheaded>> /\ stack' = <<1>>
      /\ placed' = placed + 1 /\ doc' = doc
  BY DEF PlaceFrontMatter
<1>2. placed + 1 \in Nat
  BY LenProperties DEF TreeInv, TreeType
<1>3. /\ Unheaded \in Section /\ Unheaded.level = 1 /\ Unheaded.parent = 0
      /\ Unheaded.title = FrontMatter /\ Unheaded.path = <<FrontMatter>>
      /\ Unheaded.blocks = <<placed + 1>>
  BY <1>2 DEF Unheaded, Section
<1>4. /\ sections' \in Seq(Section) /\ Len(sections') = 1 /\ sections'[1] = Unheaded
      /\ stack' \in Seq(Nat) /\ Len(stack') = 1 /\ stack'[1] = 1
      /\ Len(sections) = 0 /\ DOMAIN sections' = 1 .. 1
  BY <1>1, <1>3
<1>5. TreeType'
  BY <1>1, <1>4, BlockFields DEF TreeInv, TreeType
<1>6. StackInv'
  <2>1. stack' # <<>> /\ sections' # <<>>
    BY <1>1
  <2>2. [j \in 1 .. 1 |-> sections'[stack'[j]].title] = <<FrontMatter>>
    BY <1>3, <1>4
  <2>3. \A i \in 1 .. Len(stack') :
          /\ stack'[i] \in 1 .. Len(sections')
          /\ sections'[stack'[i]].level = i
          /\ sections'[stack'[i]].path = [j \in 1 .. i |-> sections'[stack'[j]].title]
          /\ \A t \in stack'[i] + 1 .. Len(sections') : sections'[t].level > i
    <3>1. \A i \in 1 .. Len(stack') : i = 1
      BY <1>4
    <3>2. stack'[1] + 1 .. Len(sections') = {}
      BY <1>4
    <3>3. /\ stack'[1] \in 1 .. Len(sections') /\ sections'[stack'[1]].level = 1
          /\ sections'[stack'[1]].path = [j \in 1 .. 1 |-> sections'[stack'[j]].title]
      BY <1>3, <1>4, <2>2
    <3> QED
      BY <3>1, <3>2, <3>3
  <2> QED
    BY <1>4, <2>1, <2>3 DEF StackInv
<1>7. ParentsEnclose'
  <2>1. \A s \in DOMAIN sections' : sections'[s] = Unheaded
    BY <1>4
  <2> QED
    BY <1>3, <2>1 DEF ParentsEnclose
<1>8. BlocksInv'
  BY <1>1, <1>3, <1>4, <1>5, SectionOpened
<1> QED
  BY <1>5, <1>6, <1>7, <1>8 DEF TreeInv

(* A block that is added to the last section changes nothing but its blocks. *)
LEMMA BlockSections ==
  ASSUME TreeInv, PlaceBlock
  PROVE  LET n == Len(sections)
         IN  /\ n \in Nat \ {0} /\ Len(sections') = n
             /\ sections' \in Seq(Section)
             /\ DOMAIN sections = 1 .. n /\ DOMAIN sections' = 1 .. n
             /\ \A s \in 1 .. n : /\ sections'[s].level = sections[s].level
                                  /\ sections'[s].title = sections[s].title
                                  /\ sections'[s].parent = sections[s].parent
                                  /\ sections'[s].path = sections[s].path
             /\ \A s \in 1 .. n - 1 : sections'[s] = sections[s]
             /\ sections'[n].blocks = Append(sections[n].blocks, placed + 1)
             /\ sections[n].blocks \in Seq(Nat)
<1> DEFINE n == Len(sections)
           e == [sections[n] EXCEPT !.blocks = Append(@, placed + 1)]
<1>1. n \in Nat \ {0} /\ DOMAIN sections = 1 .. n /\ n \in 1 .. n
      /\ sections[n] \in Section
  <2>1. sections # <<>>
    BY DEF PlaceBlock
  <2> QED
    BY <2>1, BlocksOfTyped, EmptySeq DEF TreeInv, TreeType
<1>2. sections' = [sections EXCEPT ![n] = e]
  BY DEF PlaceBlock
<1>3. placed + 1 \in Nat
  BY LenProperties DEF TreeInv, TreeType
<1>4. /\ e \in Section /\ e.level = sections[n].level /\ e.title = sections[n].title
      /\ e.parent = sections[n].parent /\ e.path = sections[n].path
      /\ e.blocks = Append(sections[n].blocks, placed + 1)
      /\ sections[n].blocks \in Seq(Nat)
  <2> DEFINE q == sections[n]
  <2>1. q \in Section
    BY <1>1
  <2> HIDE DEF q
  <2>2. q.blocks \in Seq(Nat)
    BY <2>1 DEF Section
  <2>3. Append(q.blocks, placed + 1) \in Seq(Nat)
    BY <1>3, <2>2, AppendProperties
  <2>4. e = [q EXCEPT !.blocks = Append(q.blocks, placed + 1)]
    BY DEF q
  <2> HIDE DEF e
  <2>5. /\ e \in Section /\ e.level = q.level /\ e.title = q.title
        /\ e.parent = q.parent /\ e.path = q.path
        /\ e.blocks = Append(q.blocks, placed + 1)
    BY <2>1, <2>3, <2>4 DEF Section
  <2> QED
    BY <2>2, <2>5 DEF q
<1> HIDE DEF e
<1>5. sections' \in Seq(Section) /\ Len(sections') = n
      /\ \A j \in 1 .. n : sections'[j] = IF j = n THEN e ELSE sections[j]
  BY <1>1, <1>2, <1>4, ExceptSeq DEF TreeInv, TreeType
<1>6. DOMAIN sections' = 1 .. n
  BY <1>5, LenProperties
<1>7. \A s \in 1 .. n - 1 : s \in 1 .. n /\ s # n
  <2>1. n \in Nat
    BY <1>1
  <2> HIDE DEF n
  <2> QED
    BY <2>1
<1>8. /\ \A s \in 1 .. n - 1 : sections'[s] = sections[s]
      /\ sections'[n] = e
  BY <1>1, <1>5, <1>7
<1>9. ASSUME NEW s \in 1 .. n
      PROVE  /\ sections'[s].level = sections[s].level
             /\ sections'[s].title = sections[s].title
             /\ sections'[s].parent = sections[s].parent
             /\ sections'[s].path = sections[s].path
  BY <1>4, <1>5
<1> QED
  BY <1>1, <1>4, <1>5, <1>6, <1>8, <1>9

LEMMA BlockTree ==
  ASSUME TreeInv, PlaceBlock
  PROVE  TreeInv'
<1> DEFINE n == Len(sections)
<1>1. /\ n \in Nat \ {0} /\ Len(sections') = n
      /\ sections' \in Seq(Section)
      /\ DOMAIN sections = 1 .. n /\ DOMAIN sections' = 1 .. n
      /\ \A s \in 1 .. n : /\ sections'[s].level = sections[s].level
                           /\ sections'[s].title = sections[s].title
                           /\ sections'[s].parent = sections[s].parent
                           /\ sections'[s].path = sections[s].path
      /\ \A s \in 1 .. n - 1 : sections'[s] = sections[s]
      /\ sections'[n].blocks = Append(sections[n].blocks, placed + 1)
      /\ sections[n].blocks \in Seq(Nat)
  BY BlockSections
<1>2. placed < Len(doc) /\ placed' = placed + 1 /\ doc' = doc /\ stack' = stack
  BY DEF PlaceBlock
<1>3. TreeType'
  BY <1>1, <1>2, BlockFields DEF TreeInv, TreeType
<1>4. StackInv'
  <2>1. sections # <<>> /\ sections' # <<>> /\ StackInv
    <3>1. Len(sections') # 0
      BY <1>1
    <3> QED
      BY <3>1 DEF PlaceBlock, TreeInv
  <2>2. ASSUME NEW i \in 1 .. Len(stack)
        PROVE  /\ stack[i] \in 1 .. n
               /\ sections'[stack[i]].level = i
               /\ sections'[stack[i]].path = [j \in 1 .. i |-> sections'[stack[j]].title]
               /\ \A t \in stack[i] + 1 .. n : sections'[t].level > i
    <3>1. \A j \in 1 .. i : j \in 1 .. Len(stack)
      <4>1. Len(stack) \in Nat
        BY LenProperties DEF TreeInv, TreeType
      <4> QED
        BY <4>1
    <3>2. \A j \in 1 .. i : stack[j] \in 1 .. n
      BY <2>1, <3>1 DEF StackInv
    <3>3. [j \in 1 .. i |-> sections'[stack[j]].title] = [j \in 1 .. i |-> sections[stack[j]].title]
      BY <1>1, <3>2
    <3>4. /\ stack[i] \in 1 .. n
          /\ sections[stack[i]].level = i
          /\ sections[stack[i]].path = [j \in 1 .. i |-> sections[stack[j]].title]
          /\ \A t \in stack[i] + 1 .. n : sections[t].level > i
      BY <2>1 DEF StackInv
    <3>5. \A t \in stack[i] + 1 .. n : t \in 1 .. n
      BY <3>4
    <3> HIDE DEF n
    <3>6. sections'[stack[i]].level = i
          /\ sections'[stack[i]].path = [j \in 1 .. i |-> sections'[stack[j]].title]
      BY <1>1, <3>3, <3>4
    <3>7. \A t \in stack[i] + 1 .. n : sections'[t].level > i
      BY <1>1, <3>4, <3>5
    <3> QED
      BY <3>4, <3>6, <3>7
  <2> QED
    BY <1>1, <1>2, <2>1, <2>2 DEF StackInv
<1>5. ParentsEnclose'
  <2> SUFFICES ASSUME NEW s \in 1 .. n
               PROVE  IF sections'[s].parent = 0
                      THEN sections'[s].level = 1 /\ sections'[s].path = <<sections'[s].title>>
                      ELSE LET p == sections'[s].parent
                           IN  /\ p < s
                               /\ sections'[s].level = sections'[p].level + 1
                               /\ sections'[s].path = Append(sections'[p].path, sections'[s].title)
                               /\ \A t \in p + 1 .. s - 1 : sections'[t].level > sections'[p].level
    BY <1>1 DEF ParentsEnclose
  <2> DEFINE q == sections[s].parent
  <2>1. q \in Nat
    BY BlocksOfTyped DEF TreeInv, TreeType, Section
  <2>2. IF q = 0 THEN sections[s].level = 1 /\ sections[s].path = <<sections[s].title>>
        ELSE /\ q < s
             /\ sections[s].level = sections[q].level + 1
             /\ sections[s].path = Append(sections[q].path, sections[s].title)
             /\ \A t \in q + 1 .. s - 1 : sections[t].level > sections[q].level
    BY <1>1 DEF TreeInv, ParentsEnclose
  <2>3. sections'[s].parent = q
    BY <1>1
  <2> HIDE DEF q, n
  <2>4. CASE q = 0
    BY <1>1, <2>2, <2>3, <2>4
  <2>5. CASE q # 0
    <3>1. q \in 1 .. n /\ \A t \in q + 1 .. s - 1 : t \in 1 .. n
      BY <1>1, <2>1, <2>2, <2>5
    <3>2. \A t \in q + 1 .. s - 1 : sections'[t].level > sections'[q].level
      BY <1>1, <2>2, <2>5, <3>1
    <3>3. /\ q < s /\ sections'[s].level = sections'[q].level + 1
          /\ sections'[s].path = Append(sections'[q].path, sections'[s].title)
      BY <1>1, <2>2, <2>5, <3>1
    <3> QED
      BY <2>3, <2>5, <3>2, <3>3
  <2> QED
    BY <2>4, <2>5
<1>6. BlocksInv'
  <2> DEFINE a == BlocksOf(sections)
             c == BlocksOf(sections')
             p == placed + 1
  <2>1. /\ a \in Seq(Seq(Nat)) /\ Len(a) = n
        /\ \A s \in 1 .. n : a[s] = sections[s].blocks
    BY BlocksOfTyped DEF TreeInv, TreeType
  <2>2. /\ c \in Seq(Seq(Nat)) /\ Len(c) = n
        /\ \A s \in 1 .. n : c[s] = sections'[s].blocks
    BY <1>1, BlocksOfTyped
  <2>3. placed \in Nat /\ p \in Nat
    BY LenProperties DEF TreeInv, TreeType
  <2>4. FlattenSeq(a) = [b \in 1 .. placed |-> b]
    BY DEF TreeInv, BlocksInv, BlocksInOrder, BlocksOf
  <2> HIDE DEF a, c, n
  <2>5. n \in 1 .. n /\ a # <<>>
    BY <1>1, <2>1, EmptySeq
  <2>6. PICK f \in Seq(Seq(Nat)), e \in Seq(Nat) : a = Append(f, e)
    BY <2>1, <2>5, SequenceEmptyOrAppend
  <2>7. /\ Len(f) = n - 1 /\ e = sections[n].blocks
        /\ \A s \in 1 .. n - 1 : f[s] = sections[s].blocks
    <3>1. /\ Len(a) = Len(f) + 1 /\ Len(f) \in Nat /\ a[Len(f) + 1] = e
          /\ \A s \in 1 .. Len(f) : a[s] = f[s]
      BY <2>6, AppendProperties, LenProperties
    <3>2. Len(f) = n - 1 /\ Len(f) + 1 = n
      BY <1>1, <2>1, <3>1
    <3>3. \A s \in 1 .. n - 1 : s \in 1 .. n
      BY <1>1
    <3> QED
      BY <2>1, <2>5, <3>1, <3>2, <3>3
  <2>8. Append(e, p) \in Seq(Nat)
    BY <2>3, AppendProperties
  <2>9. c = Append(f, Append(e, p))
    <3>1. \A s \in 1 .. n - 1 : s \in 1 .. n
      BY <1>1
    <3>2. \A s \in 1 .. Len(f) : c[s] = f[s]
      BY <1>1, <2>2, <2>7, <3>1
    <3>3. c[n] = Append(e, p)
      BY <1>1, <2>2, <2>5, <2>7
    <3>4. Len(c) = Len(f) + 1
      BY <1>1, <2>2, <2>7
    <3> QED
      BY <2>2, <3>2, <3>3, <3>4, Extended
  <2>10. FlattenSeq(c) = FlattenSeq(a) \o <<p>>
    <3>1. FlattenSeq(f) \in Seq(Nat) /\ <<p>> \in Seq(Nat)
      BY <2>3, FlattenTyped
    <3>2. FlattenSeq(c) = FlattenSeq(f) \o Append(e, p)
      BY <2>8, <2>9, FlattenAppend
    <3>3. Append(e, p) = e \o <<p>>
      BY <2>3, AppendIsConcat
    <3>4. FlattenSeq(f) \o (e \o <<p>>) = (FlattenSeq(f) \o e) \o <<p>>
      BY <3>1, ConcatAssociative, SMTT(30)
    <3>5. FlattenSeq(a) = FlattenSeq(f) \o e
      BY <2>6, FlattenAppend
    <3> QED
      BY <3>2, <3>3, <3>4, <3>5
  <2>11. FlattenSeq(c) = [b \in 1 .. placed' |-> b]
    BY <1>2, <2>3, <2>4, <2>10, OneMore
  <2>12. BlocksInOrder'
    BY <2>11 DEF BlocksInOrder, BlocksOf, c
  <2>13. ASSUME NEW s \in 1 .. n PROVE sections'[s].blocks # <<>>
    <3>1. CASE s \in 1 .. n - 1
      BY <1>1, <3>1 DEF TreeInv, BlocksInv, n
    <3>2. CASE s = n
      BY <1>1, <2>3, <3>2, AppendProperties
    <3> QED
      BY <1>1, <3>1, <3>2
  <2> QED
    BY <1>1, <2>12, <2>13 DEF BlocksInv, n
<1> QED
  BY <1>3, <1>4, <1>5, <1>6 DEF TreeInv

LEMMA InitTree == Init => TreeInv
<1> SUFFICES ASSUME Init PROVE TreeInv
  OBVIOUS
<1>1. placed = 0 /\ sections = <<>> /\ stack = <<>>
  BY DEF Init
<1>2. doc \in Seq(Blocks)
  <2>1. PICK n \in 1 .. MaxBlocks : doc \in [1 .. n -> Blocks]
    BY DEF Init
  <2> QED
    BY <2>1, SeqDef, LimitsAssumption
<1>3. TreeType
  BY <1>1, <1>2, LenProperties, EmptySeq DEF TreeType
<1>4. DOMAIN sections = {} /\ Len(sections) = 0 /\ Len(stack) = 0
  BY <1>1
<1>5. StackInv /\ ParentsEnclose
  BY <1>1, <1>4 DEF StackInv, ParentsEnclose
<1>6. [s \in DOMAIN sections |-> sections[s].blocks] = <<>> /\ [b \in 1 .. placed |-> b] = <<>>
  BY <1>1
<1>7. BlocksInOrder
  BY <1>6, FlattenEmpty DEF BlocksInOrder
<1> QED
  BY <1>3, <1>4, <1>5, <1>7 DEF TreeInv, BlocksInv

LEMMA TreeFrame ==
  ASSUME TreeInv, UNCHANGED <<doc, placed, sections, stack>>
  PROVE  TreeInv'
<1>1. /\ doc' = doc /\ placed' = placed /\ sections' = sections /\ stack' = stack
      /\ TreeType /\ StackInv /\ ParentsEnclose /\ BlocksInv
  BY DEF TreeInv
<1>2. TreeType'
  BY <1>1 DEF TreeType
<1>3. StackInv'
  BY <1>1 DEF StackInv
<1>4. ParentsEnclose'
  BY <1>1 DEF ParentsEnclose
<1>5. BlocksInv'
  BY <1>1, Zenon DEF BlocksInv, BlocksInOrder
<1> QED
  BY <1>2, <1>3, <1>4, <1>5 DEF TreeInv

LEMMA TreeInvariant == Spec => []TreeInv
<1>1. TreeInv /\ [Next]_vars => TreeInv'
  <2> SUFFICES ASSUME TreeInv, [Next]_vars PROVE TreeInv'
    OBVIOUS
  <2>1. CASE PlaceHeading
    BY <2>1, HeadingTree
  <2>2. CASE PlaceFrontMatter
    BY <2>2, FrontMatterTree
  <2>3. CASE PlaceBlock
    BY <2>3, BlockTree
  <2>4. CASE UNCHANGED <<doc, placed, sections, stack>>
    BY <2>4, TreeFrame
  <2> QED
    BY <2>1, <2>2, <2>3, <2>4
    DEF Next, BuildGroups, TakeSection, AddPart, StartChunk, EndSection, Finish, treeVars, vars
<1> QED
  BY <1>1, InitTree, PTL DEF Spec

(* Whatever levels the headings of a document claim, its sections are a tree   *)
(* in reading order and hold every block once (SectionTreeBuilder), for        *)
(* documents of any length.                                                   *)
THEOREM SectionsAreATree == Spec => []SectionsFormATree
<1>1. TreeInv => SectionsFormATree
  BY DEF TreeInv, BlocksInv, SectionsFormATree
<1> QED
  BY <1>1, TreeInvariant, PTL

-----------------------------------------------------------------------------
(* The texts of blocks, groups and parts.                                    *)

Tokens == Nat \X Nat \X Nat
Places == 1 .. Len(doc)

BlockSentences == [b \in Places |-> Sentences(b)]
BlockText == [b \in Places |-> FlattenSeq(Sentences(b))]
PartText == [p \in Part |-> p.text]

LEMMA SentencesTyped ==
  ASSUME doc \in Seq(Blocks), NEW b \in Places
  PROVE  /\ Sentences(b) \in Seq(Seq(Tokens))
         /\ Len(Sentences(b)) = Len(doc[b].sentences)
         /\ \A s \in 1 .. Len(Sentences(b)) : Len(Sentences(b)[s]) = doc[b].sentences[s]
<1> DEFINE ss == doc[b].sentences
           m == Sentences(b)
<1>1. doc[b] \in Block
  BY ElementOfSeq, BlocksAssumption DEF Places
<1>2. ss \in Seq(Nat \ {0}) /\ b \in Nat
  BY <1>1 DEF Block, Places
<1>3. m = [s \in DOMAIN ss |-> [n \in 1 .. ss[s] |-> <<b, s, n>>]]
  BY DEF Sentences
<1> HIDE DEF ss, m
<1>4. /\ Len(ss) \in Nat /\ DOMAIN ss = 1 .. Len(ss)
      /\ \A s \in 1 .. Len(ss) : ss[s] \in Nat
  BY <1>2, LenProperties, ElementOfSeq
<1>5. ASSUME NEW s \in 1 .. Len(ss) PROVE m[s] \in Seq(Tokens) /\ Len(m[s]) = ss[s]
  <2> DEFINE q == m[s]
  <2>1. ss[s] \in Nat /\ s \in Nat
    BY <1>4
  <2>2. q = [n \in 1 .. ss[s] |-> <<b, s, n>>]
    BY <1>3, <1>4
  <2> HIDE DEF q
  <2>3. \A n \in 1 .. ss[s] : q[n] \in Tokens
    BY <1>2, <2>1, <2>2 DEF Tokens
  <2>4. q = [n \in 1 .. ss[s] |-> q[n]]
    BY <2>2
  <2>5. q \in Seq(Tokens) /\ Len(q) = ss[s]
    BY <2>1, <2>3, <2>4, MapTyped
  <2> QED
    BY <2>5 DEF q
<1>6. m = [s \in 1 .. Len(ss) |-> m[s]]
  BY <1>3, <1>4
<1>7. m \in Seq(Seq(Tokens)) /\ Len(m) = Len(ss)
  BY <1>4, <1>5, <1>6, MapTyped
<1> QED
  BY <1>5, <1>7 DEF m, ss

LEMMA BlockMaps ==
  ASSUME doc \in Seq(Blocks)
  PROVE  /\ BlockSentences \in Maps(Places, Seq(Tokens))
         /\ BlockText \in Maps(Places, Tokens)
         /\ \A b \in Places : /\ BlockSentences[b] = Sentences(b)
                              /\ BlockText[b] = FlattenSeq(Sentences(b))
                              /\ Sentences(b) \in Seq(Seq(Tokens))
<1>1. \A b \in Places : Sentences(b) \in Seq(Seq(Tokens))
  BY SentencesTyped
<1>2. \A b \in Places : FlattenSeq(Sentences(b)) \in Seq(Tokens)
  BY <1>1, FlattenTyped
<1>3. BlockSentences \in Maps(Places, Seq(Tokens))
  BY <1>1 DEF BlockSentences, Maps
<1>4. BlockText \in Maps(Places, Tokens)
  BY <1>2 DEF BlockText, Maps
<1> QED
  BY <1>1, <1>3, <1>4 DEF BlockSentences, BlockText

LEMMA TextIs ==
  ASSUME doc \in Seq(Blocks), NEW blocks \in Seq(Places)
  PROVE  /\ TextOf(blocks) = Apply(BlockText, blocks)
         /\ TextOf(blocks) \in Seq(Tokens)
         /\ FlattenSeq([i \in DOMAIN blocks |-> Sentences(blocks[i])]) \in Seq(Seq(Tokens))
         /\ FlattenSeq(FlattenSeq([i \in DOMAIN blocks |-> Sentences(blocks[i])]))
              = TextOf(blocks)
<1> DEFINE m == [i \in DOMAIN blocks |-> Sentences(blocks[i])]
           k == [i \in DOMAIN blocks |-> FlattenSeq(Sentences(blocks[i]))]
<1>1. \A i \in DOMAIN blocks : blocks[i] \in Places
  BY LenProperties, ElementOfSeq
<1>2. m = Each(BlockSentences, blocks) /\ k = Each(BlockText, blocks)
  BY <1>1, BlockMaps DEF Each
<1>3. TextOf(blocks) = FlattenSeq(k)
  BY DEF TextOf
<1>4. k = [i \in DOMAIN m |-> FlattenSeq(m[i])]
  OBVIOUS
<1> HIDE DEF m, k
<1>5. m \in Seq(Seq(Seq(Tokens)))
  BY <1>2, BlockMaps, ApplyTyped
<1>6. FlattenSeq(FlattenSeq(m)) = FlattenSeq([i \in DOMAIN m |-> FlattenSeq(m[i])])
  BY <1>5, FlattenFlatten
<1>7. FlattenSeq(m) \in Seq(Seq(Tokens))
  BY <1>5, FlattenTyped
<1>8. Apply(BlockText, blocks) \in Seq(Tokens)
  BY BlockMaps, ApplyTyped
<1>9. Apply(BlockText, blocks) = FlattenSeq(k)
  BY <1>2 DEF Apply
<1> QED
  BY <1>3, <1>4, <1>6, <1>7, <1>8, <1>9 DEF m

LEMMA WordPartsKeep ==
  ASSUME NEW S, NEW text \in Seq(S)
  PROVE  /\ WordParts(text) \in Seq(Seq(S))
         /\ FlattenSeq(WordParts(text)) = text
         /\ Bounded(WordParts(text))
<1>1. CASE Len(text) <= HardMax
  <2>1. WordParts(text) = <<text>>
    BY <1>1 DEF WordParts
  <2>2. <<text>> \in Seq(Seq(S)) /\ Len(<<text>>) = 1 /\ <<text>>[1] = text
    OBVIOUS
  <2>3. FlattenSeq(<<text>>) = text
    BY FlattenOne
  <2> QED
    BY <1>1, <2>1, <2>2, <2>3 DEF Bounded
<1>2. CASE ~ (Len(text) <= HardMax)
  <2> DEFINE w == [i \in DOMAIN text |-> <<text[i]>>]
  <2>1. WordParts(text) = Packed(w)
    BY <1>2 DEF WordParts
  <2>2. w \in Seq(Seq(S)) /\ Len(w) = Len(text) /\ FlattenSeq(w) = text
    BY Singletons
  <2>3. \A i \in 1 .. Len(text) : Len(w[i]) = 1
    BY LenProperties
  <2> HIDE DEF w
  <2>4. 1 <= HardMax
    BY HardMaxNat
  <2>5. \A i \in 1 .. Len(w) : Len(w[i]) <= HardMax
    BY <2>2, <2>3, <2>4
  <2>6. Bounded(w)
    BY <2>5 DEF Bounded
  <2> QED
    BY <2>1, <2>2, <2>6, PackedKeeps
<1> QED
  BY <1>1, <1>2

LEMMA SplitKeeps ==
  ASSUME doc \in Seq(Blocks), NEW g, g.blocks \in Seq(Places)
  PROVE  /\ SplitText(g) \in Seq(Seq(Tokens))
         /\ FlattenSeq(SplitText(g)) = TextOf(g.blocks)
         /\ Bounded(SplitText(g))
<1> DEFINE ss == FlattenSeq([i \in DOMAIN g.blocks |-> Sentences(g.blocks[i])])
           texts == Packed(ss)
           W == [t \in Seq(Tokens) |-> WordParts(t)]
           m == [i \in DOMAIN texts |-> WordParts(texts[i])]
<1>1. ss \in Seq(Seq(Tokens)) /\ FlattenSeq(ss) = TextOf(g.blocks)
  BY TextIs
<1>2. SplitText(g) = FlattenSeq(m)
  BY DEF SplitText
<1> HIDE DEF ss
<1>3. texts \in Seq(Seq(Tokens)) /\ FlattenSeq(texts) = TextOf(g.blocks)
  BY <1>1, PackedKeeps
<1> HIDE DEF texts
<1>4. \A i \in DOMAIN texts : texts[i] \in Seq(Tokens)
  BY <1>3, LenProperties, ElementOfSeq
<1>5. \A i \in DOMAIN texts : /\ m[i] \in Seq(Seq(Tokens)) /\ FlattenSeq(m[i]) = texts[i]
                              /\ Bounded(m[i])
  BY <1>4, WordPartsKeep
<1>6. m = [i \in DOMAIN texts |-> m[i]] /\ DOMAIN m = DOMAIN texts
  OBVIOUS
<1>7. Len(texts) \in Nat /\ DOMAIN texts = 1 .. Len(texts)
  BY <1>3, LenProperties
<1> HIDE DEF m
<1>8. m \in Seq(Seq(Seq(Tokens))) /\ Len(m) = Len(texts)
  BY <1>5, <1>6, <1>7, MapTyped
<1>9. FlattenSeq(m) \in Seq(Seq(Tokens))
  BY <1>8, FlattenTyped
<1>10. FlattenSeq(FlattenSeq(m)) = TextOf(g.blocks)
  <2>1. FlattenSeq(FlattenSeq(m)) = FlattenSeq([i \in DOMAIN m |-> FlattenSeq(m[i])])
    BY <1>8, FlattenFlatten
  <2>2. [i \in DOMAIN m |-> FlattenSeq(m[i])] = [i \in DOMAIN texts |-> texts[i]]
    BY <1>5, <1>6
  <2>3. texts = [i \in DOMAIN texts |-> texts[i]]
    BY <1>3, <1>7, LenProperties
  <2> QED
    BY <1>3, <2>1, <2>2, <2>3
<1>11. Bounded(FlattenSeq(m))
  <2> DEFINE f == FlattenSeq(m)
  <2>1. ToSet(f) = UNION {ToSet(m[i]) : i \in 1 .. Len(m)}
    BY <1>8, FlattenMembers
  <2>2. \A i \in 1 .. Len(m) : \A t \in ToSet(m[i]) : Len(t) <= HardMax
    <3> SUFFICES ASSUME NEW i \in 1 .. Len(m), NEW t \in ToSet(m[i]) PROVE Len(t) <= HardMax
      OBVIOUS
    <3>1. Bounded(m[i]) /\ m[i] \in Seq(Seq(Tokens))
      BY <1>5, <1>7, <1>8
    <3> DEFINE q == m[i]
    <3>2. DOMAIN q = 1 .. Len(q)
      BY <3>1, LenProperties
    <3> QED
      BY <3>1, <3>2 DEF Bounded, ToSet
  <2>3. f \in Seq(Seq(Tokens))
    BY <1>9
  <2> HIDE DEF f
  <2>4. ASSUME NEW j \in 1 .. Len(f) PROVE Len(f[j]) <= HardMax
    <3>1. f[j] \in ToSet(f)
      BY <2>3, LenProperties DEF ToSet
    <3> QED
      BY <2>1, <2>2, <3>1
  <2> QED
    BY <2>4 DEF Bounded, f
<1> QED
  BY <1>2, <1>9, <1>10, <1>11

(* Groups whose blocks are blocks of the document. *)
Grouped == {g \in Group : g.blocks \in Seq(Places)}

TextParts(g, texts) == [i \in DOMAIN texts |-> [group |-> g, text |-> texts[i]]]

LEMMA PartTextTyped ==
  /\ PartText \in Maps(Part, Tokens)
  /\ \A p \in Part : PartText[p] = p.text
BY DEF PartText, Part, Maps, Tokens

LEMMA TextOfPartsIs ==
  ASSUME NEW ps \in Seq(Part)
  PROVE  TextOfParts(ps) = Apply(PartText, ps) /\ TextOfParts(ps) \in Seq(Tokens)
<1>1. \A i \in DOMAIN ps : ps[i] \in Part
  BY LenProperties, ElementOfSeq
<1>2. [i \in DOMAIN ps |-> ps[i].text] = Each(PartText, ps)
  BY <1>1, PartTextTyped DEF Each
<1>3. TextOfParts(ps) = Apply(PartText, ps)
  BY <1>2 DEF TextOfParts, Apply
<1>4. Apply(PartText, ps) \in Seq(Tokens)
  BY PartTextTyped, ApplyTyped
<1> QED
  BY <1>3, <1>4

LEMMA TextPartsAre ==
  ASSUME NEW g \in Group, NEW texts \in Seq(Seq(Tokens))
  PROVE  /\ TextParts(g, texts) \in Seq(Part) /\ Len(TextParts(g, texts)) = Len(texts)
         /\ TextOfParts(TextParts(g, texts)) = FlattenSeq(texts)
         /\ \A i \in 1 .. Len(texts) : /\ TextParts(g, texts)[i].group = g
                                       /\ TextParts(g, texts)[i].text = texts[i]
<1> DEFINE m == TextParts(g, texts)
<1>1. Len(texts) \in Nat /\ DOMAIN texts = 1 .. Len(texts)
  BY LenProperties
<1>2. \A i \in 1 .. Len(texts) : texts[i] \in Seq(Tokens)
  BY ElementOfSeq
<1>3. m = [i \in 1 .. Len(texts) |-> [group |-> g, text |-> texts[i]]]
  BY <1>1 DEF TextParts
<1> HIDE DEF m
<1>4. \A i \in 1 .. Len(texts) : m[i] \in Part /\ m[i].group = g /\ m[i].text = texts[i]
  BY <1>2, <1>3 DEF Part, Tokens
<1>5. m = [i \in 1 .. Len(texts) |-> m[i]]
  BY <1>3
<1>6. m \in Seq(Part) /\ Len(m) = Len(texts)
  BY <1>1, <1>4, <1>5, MapTyped
<1>7. DOMAIN m = 1 .. Len(texts)
  BY <1>3
<1>8. [i \in DOMAIN m |-> m[i].text] = [i \in 1 .. Len(texts) |-> texts[i]]
  BY <1>4, <1>7
<1>9. texts = [i \in 1 .. Len(texts) |-> texts[i]]
  BY <1>1, LenProperties
<1>10. TextOfParts(m) = FlattenSeq(texts)
  BY <1>8, <1>9 DEF TextOfParts
<1> QED
  BY <1>4, <1>6, <1>10 DEF m

(* The parts of a group hold its text; only those of an element may be too    *)
(* long, and an element has one part.                                        *)
LEMMA PartsKeep ==
  ASSUME doc \in Seq(Blocks), NEW g \in Grouped
  PROVE  /\ PartsOf(g) \in Seq(Part)
         /\ TextOfParts(PartsOf(g)) = TextOf(g.blocks)
         /\ \A i \in 1 .. Len(PartsOf(g)) :
              /\ PartsOf(g)[i].group = g
              /\ Len(PartsOf(g)[i].text) <= HardMax \/ Dependency(g)
         /\ Dependency(g) => /\ Len(PartsOf(g)) = 1
                             /\ PartsOf(g)[1].text = TextOf(g.blocks)
<1> DEFINE text == TextOf(g.blocks)
           texts == IF Dependency(g) \/ Len(text) <= HardMax THEN <<text>> ELSE SplitText(g)
<1>1. g \in Group /\ g.blocks \in Seq(Places)
  BY DEF Grouped
<1>2. text \in Seq(Tokens)
  BY <1>1, TextIs
<1>3. PartsOf(g) = TextParts(g, texts)
  BY DEF PartsOf, TextParts
<1> HIDE DEF text
<1>4. /\ texts \in Seq(Seq(Tokens)) /\ FlattenSeq(texts) = text
      /\ Dependency(g) \/ Bounded(texts)
      /\ Dependency(g) => Len(texts) = 1 /\ texts[1] = text
  <2>1. CASE Dependency(g) \/ Len(text) <= HardMax
    <3>1. texts = <<text>>
      BY <2>1
    <3>2. <<text>> \in Seq(Seq(Tokens)) /\ Len(<<text>>) = 1 /\ <<text>>[1] = text
      BY <1>2
    <3>3. FlattenSeq(<<text>>) = text
      BY <1>2, FlattenOne
    <3>4. Len(text) <= HardMax => Bounded(<<text>>)
      BY <3>2 DEF Bounded
    <3> HIDE DEF texts
    <3> QED
      BY <2>1, <3>1, <3>2, <3>3, <3>4
  <2>2. CASE ~ (Dependency(g) \/ Len(text) <= HardMax)
    <3>1. texts = SplitText(g)
      BY <2>2
    <3>2. /\ SplitText(g) \in Seq(Seq(Tokens)) /\ FlattenSeq(SplitText(g)) = text
          /\ Bounded(SplitText(g))
      BY <1>1, SplitKeeps DEF text
    <3> HIDE DEF texts
    <3> QED
      BY <2>2, <3>1, <3>2
  <2> QED
    BY <2>1, <2>2
<1> HIDE DEF texts
<1>5. /\ TextParts(g, texts) \in Seq(Part) /\ Len(TextParts(g, texts)) = Len(texts)
      /\ TextOfParts(TextParts(g, texts)) = FlattenSeq(texts)
      /\ \A i \in 1 .. Len(texts) : /\ TextParts(g, texts)[i].group = g
                                    /\ TextParts(g, texts)[i].text = texts[i]
  BY <1>1, <1>4, TextPartsAre
<1>6. \A i \in 1 .. Len(texts) : Len(texts[i]) <= HardMax \/ Dependency(g)
  BY <1>4 DEF Bounded
<1>7. Dependency(g) => Len(texts) = 1 /\ TextParts(g, texts)[1].text = text
  BY <1>4, <1>5
<1> QED
  BY <1>3, <1>4, <1>5, <1>6, <1>7 DEF text

-----------------------------------------------------------------------------
(* The merged spans of a section.                                            *)

SpanStep(blocks, i, spans) ==
  IF i > 1 /\ Tied(blocks, i - 1)
    THEN Append(Front(spans), Append(Last(spans), blocks[i]))
  ELSE Append(spans, <<blocks[i]>>)

SpanSteps(blocks, f) ==
  f = [i \in 0 .. Len(blocks) |->
         IF i = 0 THEN <<>>
         ELSE IF i > 1 /\ Tied(blocks, i - 1)
           THEN Append(Front(f[i - 1]), Append(Last(f[i - 1]), blocks[i]))
         ELSE Append(f[i - 1], <<blocks[i]>>)]

(* One step: the spans stay in order, and the new block is in the last one, *)
(* with the block before it when the two are tied.                           *)
LEMMA SpanGrows ==
  ASSUME NEW S, NEW blocks \in Seq(S), NEW i \in 1 .. Len(blocks),
         NEW spans \in Seq(Seq(S)), i > 1 => spans # <<>>
  PROVE  LET new == SpanStep(blocks, i, spans)
         IN  /\ new \in Seq(Seq(S)) /\ new # <<>>
             /\ FlattenSeq(new) = Append(FlattenSeq(spans), blocks[i])
             /\ blocks[i] \in ToSet(Last(new))
             /\ i > 1 /\ Tied(blocks, i - 1) => ToSet(Last(spans)) \subseteq ToSet(Last(new))
             /\ \A k \in 1 .. Len(spans) :
                  k \in 1 .. Len(new) /\ ToSet(spans[k]) \subseteq ToSet(new[k])
<1> DEFINE b == blocks[i]
<1>1. b \in S
  BY ElementOfSeq
<1> HIDE DEF b
<1>2. FlattenSeq(spans) \in Seq(S) /\ Len(spans) \in Nat
  BY FlattenTyped, LenProperties
<1>3. CASE i > 1 /\ Tied(blocks, i - 1)
  <2> DEFINE f == Front(spans)
             l == Last(spans)
             lb == Append(l, b)
             new == Append(f, lb)
  <2>1. /\ f \in Seq(Seq(S)) /\ l \in Seq(S) /\ spans = Append(f, l)
        /\ Len(spans) \in Nat \ {0} /\ Len(f) = Len(spans) - 1
        /\ \A k \in 1 .. Len(spans) - 1 : f[k] = spans[k]
    BY <1>3, FrontLast
  <2>2. SpanStep(blocks, i, spans) = new
    BY <1>3 DEF SpanStep, b
  <2>3. l = spans[Len(spans)]
    BY DEF Last
  <2> HIDE DEF f, l
  <2>4. /\ lb \in Seq(S) /\ Len(lb) = Len(l) + 1 /\ Len(l) \in Nat
        /\ (\A k \in 1 .. Len(l) : lb[k] = l[k]) /\ lb[Len(l) + 1] = b
        /\ lb = l \o <<b>>
    BY <1>1, <2>1, AppendProperties, AppendIsConcat, LenProperties
  <2>5. ToSet(l) \subseteq ToSet(lb) /\ b \in ToSet(lb)
    <3>1. DOMAIN lb = 1 .. Len(l) + 1 /\ DOMAIN l = 1 .. Len(l)
      BY <2>1, <2>4, LenProperties
    <3> HIDE DEF lb
    <3>2. \A k \in DOMAIN l : k \in DOMAIN lb /\ lb[k] = l[k]
      BY <2>4, <3>1
    <3>3. Len(l) + 1 \in DOMAIN lb
      BY <2>4, <3>1
    <3>4. ToSet(l) \subseteq ToSet(lb)
      BY <3>2 DEF ToSet
    <3>5. b \in ToSet(lb)
      BY <2>4, <3>3, Zenon DEF ToSet
    <3> QED
      BY <3>4, <3>5
  <2> HIDE DEF lb
  <2>6. /\ new \in Seq(Seq(S)) /\ new # <<>> /\ Len(new) = Len(f) + 1
        /\ (\A k \in 1 .. Len(f) : new[k] = f[k]) /\ new[Len(f) + 1] = lb
    BY <2>1, <2>4, AppendProperties, SMTT(30)
  <2>7. FlattenSeq(new) = FlattenSeq(f) \o lb
    BY <2>1, <2>4, FlattenAppend
  <2>8. FlattenSeq(f) \in Seq(S) /\ <<b>> \in Seq(S)
    BY <1>1, <2>1, FlattenTyped
  <2>9. FlattenSeq(f) \o (l \o <<b>>) = (FlattenSeq(f) \o l) \o <<b>>
    BY <2>1, <2>8, ConcatAssociative, SMTT(30)
  <2>10. FlattenSeq(spans) = FlattenSeq(f) \o l
    BY <2>1, FlattenAppend
  <2>11. Append(FlattenSeq(spans), b) = FlattenSeq(spans) \o <<b>>
    BY <1>1, <1>2, AppendIsConcat
  <2> HIDE DEF new
  <2>12. FlattenSeq(new) = Append(FlattenSeq(spans), b)
    BY <2>4, <2>7, <2>9, <2>10, <2>11
  <2>13. Last(new) = lb
    BY <2>1, <2>6 DEF Last
  <2>14. \A k \in 1 .. Len(spans) : k \in 1 .. Len(new) /\ ToSet(spans[k]) \subseteq ToSet(new[k])
    <3> SUFFICES ASSUME NEW k \in 1 .. Len(spans)
                 PROVE  k \in 1 .. Len(new) /\ ToSet(spans[k]) \subseteq ToSet(new[k])
      OBVIOUS
    <3>1. CASE k = Len(spans)
      BY <2>1, <2>3, <2>5, <2>6, <3>1
    <3>2. CASE k \in 1 .. Len(spans) - 1
      BY <2>1, <2>6, <3>2
    <3> QED
      BY <2>1, <3>1, <3>2
  <2> QED
    BY <2>2, <2>5, <2>6, <2>12, <2>13, <2>14 DEF b, l
<1>4. CASE ~ (i > 1 /\ Tied(blocks, i - 1))
  <2> DEFINE one == <<b>>
             new == Append(spans, one)
  <2>1. SpanStep(blocks, i, spans) = new
    BY <1>4 DEF SpanStep, b
  <2>2. one \in Seq(S) /\ ToSet(one) = {b}
    BY <1>1 DEF ToSet
  <2>3. Append(FlattenSeq(spans), b) = FlattenSeq(spans) \o one
    BY <1>1, <1>2, AppendIsConcat
  <2> HIDE DEF one
  <2>4. /\ new \in Seq(Seq(S)) /\ new # <<>> /\ Len(new) = Len(spans) + 1
        /\ (\A k \in 1 .. Len(spans) : new[k] = spans[k]) /\ new[Len(spans) + 1] = one
    BY <2>2, AppendProperties, SMTT(30)
  <2>5. FlattenSeq(new) = FlattenSeq(spans) \o one
    BY <2>2, FlattenAppend
  <2> HIDE DEF new
  <2>6. Last(new) = one
    BY <1>2, <2>4 DEF Last
  <2>7. \A k \in 1 .. Len(spans) : k \in 1 .. Len(new) /\ ToSet(spans[k]) \subseteq ToSet(new[k])
    BY <1>2, <2>4
  <2> QED
    BY <1>4, <2>1, <2>2, <2>3, <2>4, <2>5, <2>6, <2>7 DEF b
<1> QED
  BY <1>3, <1>4

LEMMA SpansAre ==
  ASSUME NEW S, NEW blocks \in Seq(S)
  PROVE  \E f : /\ Spans(blocks) = f[Len(blocks)]
                /\ f[0] = <<>>
                /\ \A i \in 1 .. Len(blocks) : f[i] = SpanStep(blocks, i, f[i - 1])
<1> DEFINE A == Seq(Seq(S))
           n == Len(blocks)
           F == [i \in 1 .. n |-> [x \in A |-> SpanStep(blocks, i, x)]]
           h == CHOOSE f : SpanSteps(blocks, f)
<1>1. n \in Nat
  BY LenProperties
<1>2. \A i \in 1 .. n, x \in A : F[i][x] = SpanStep(blocks, i, x)
  OBVIOUS
<1> HIDE DEF F
<1>3. PICK f : Steps(<<>>, n, F, f)
  <2> HIDE DEF n
  <2> QED
    BY <1>1, StepsExist, Zenon
<1>4. \A i \in 0 .. n : f[i] = IF i = 0 THEN <<>> ELSE F[i][f[i - 1]]
  BY <1>3, Zenon DEF Steps
<1> DEFINE P == {m \in Nat : m <= n => f[m] \in A /\ (m > 0 => f[m] # <<>>)}
<1>5. 0 \in P
  <2>1. 0 \in 0 .. n
    BY <1>1
  <2>2. f[0] = <<>>
    BY <1>4, <2>1, Zenon
  <2>3. <<>> \in A
    OBVIOUS
  <2> HIDE DEF A
  <2> QED
    BY <2>2, <2>3
<1>6. ASSUME NEW m \in Nat, m \in P PROVE m + 1 \in P
  <2> DEFINE k == m + 1
  <2>1. SUFFICES ASSUME k <= n PROVE f[k] \in A /\ f[k] # <<>>
    OBVIOUS
  <2>2. k \in 1 .. n /\ k \in 0 .. n /\ k # 0 /\ k - 1 = m /\ m <= n /\ (k > 1 => m > 0)
    BY <1>1, <2>1
  <2>3. f[m] \in A /\ (m > 0 => f[m] # <<>>)
    BY <1>6, <2>2
  <2> HIDE DEF k, P
  <2>4. f[k] = SpanStep(blocks, k, f[m])
    <3>1. f[k] = F[k][f[k - 1]]
      BY <1>4, <2>2
    <3> HIDE DEF A
    <3> QED
      BY <1>2, <2>2, <2>3, <3>1
  <2>5. SpanStep(blocks, k, f[m]) \in A /\ SpanStep(blocks, k, f[m]) # <<>>
    BY <2>2, <2>3, SpanGrows
  <2> QED
    BY <2>4, <2>5
<1>7. Nat \subseteq P
  <2> HIDE DEF P
  <2> QED
    BY <1>5, <1>6, NatSetInduction
<1>8. \A i \in 0 .. n : f[i] \in A
  BY <1>1, <1>7
<1>9. \A i \in 1 .. n : f[i] = SpanStep(blocks, i, f[i - 1])
  <2> SUFFICES ASSUME NEW i \in 1 .. n PROVE f[i] = SpanStep(blocks, i, f[i - 1])
    OBVIOUS
  <2>1. i \in 0 .. n /\ i # 0 /\ i - 1 \in 0 .. n
    BY <1>1
  <2> HIDE DEF A
  <2> QED
    BY <1>2, <1>4, <1>8, <2>1
<1>10. \A i \in 0 .. n :
         f[i] = IF i = 0 THEN <<>>
                ELSE IF i > 1 /\ Tied(blocks, i - 1)
                  THEN Append(Front(f[i - 1]), Append(Last(f[i - 1]), blocks[i]))
                ELSE Append(f[i - 1], <<blocks[i]>>)
  <2> SUFFICES ASSUME NEW i \in 0 .. n
               PROVE  f[i] = IF i = 0 THEN <<>>
                ELSE IF i > 1 /\ Tied(blocks, i - 1)
                  THEN Append(Front(f[i - 1]), Append(Last(f[i - 1]), blocks[i]))
                ELSE Append(f[i - 1], <<blocks[i]>>)
    OBVIOUS
  <2>1. CASE i = 0
    BY <1>4, <2>1
  <2>2. CASE i # 0
    <3>1. i \in 1 .. n
      BY <1>1, <2>2
    <3>2. f[i] = SpanStep(blocks, i, f[i - 1])
      BY <1>9, <3>1
    <3> QED
      BY <2>2, <3>2, Zenon DEF SpanStep
  <2> QED
    BY <2>1, <2>2
<1>11. SpanSteps(blocks, f)
  <2>1. f = [i \in 0 .. n |-> f[i]]
    BY <1>3 DEF Steps
  <2> QED
    BY <1>10, <2>1, Zenon DEF SpanSteps, n
<1>12. SpanSteps(blocks, h)
  BY <1>11
<1>13. Spans(blocks) = h[Len(blocks)]
  BY Zenon DEF Spans, SpanSteps
<1>14. \A i \in 0 .. n :
         h[i] = IF i = 0 THEN <<>>
                ELSE IF i > 1 /\ Tied(blocks, i - 1)
                  THEN Append(Front(h[i - 1]), Append(Last(h[i - 1]), blocks[i]))
                ELSE Append(h[i - 1], <<blocks[i]>>)
  <2> HIDE DEF h
  <2> QED
    BY <1>12, Zenon DEF SpanSteps
<1> HIDE DEF h
<1>15. h[0] = <<>>
  <2>1. 0 \in 0 .. n
    BY <1>1
  <2> QED
    BY <1>14, <2>1, Zenon
<1>16. ASSUME NEW i \in 1 .. n PROVE h[i] = SpanStep(blocks, i, h[i - 1])
  <2>1. i \in 0 .. n /\ i # 0
    BY <1>1
  <2> QED
    BY <1>14, <2>1, Zenon DEF SpanStep
<1> QED
  BY <1>13, <1>15, <1>16

(* The spans of a section are its blocks in order, and neighbours that are    *)
(* tied are in one span.                                                     *)
LEMMA SpansKeep ==
  ASSUME NEW S, NEW blocks \in Seq(S)
  PROVE  /\ Spans(blocks) \in Seq(Seq(S))
         /\ FlattenSeq(Spans(blocks)) = blocks
         /\ \A i \in 1 .. Len(blocks) - 1 :
              Tied(blocks, i) =>
                \E k \in 1 .. Len(Spans(blocks)) :
                  {blocks[i], blocks[i + 1]} \subseteq ToSet(Spans(blocks)[k])
<1> DEFINE n == Len(blocks)
<1>1. PICK f : /\ Spans(blocks) = f[n]
               /\ f[0] = <<>>
               /\ \A i \in 1 .. n : f[i] = SpanStep(blocks, i, f[i - 1])
  BY SpansAre
<1>2. n \in Nat /\ SubSeq(blocks, 1, n) = blocks
  BY LenProperties, SubSeqFull
<1> DEFINE Together(spans, i) ==
             \E k \in 1 .. Len(spans) : {blocks[i], blocks[i + 1]} \subseteq ToSet(spans[k])
           Good(m) ==
             /\ f[m] \in Seq(Seq(S))
             /\ FlattenSeq(f[m]) = SubSeq(blocks, 1, m)
             /\ m > 0 => f[m] # <<>> /\ blocks[m] \in ToSet(Last(f[m]))
             /\ \A i \in 1 .. m - 1 : Tied(blocks, i) => Together(f[m], i)
           P == {m \in Nat : m <= n => Good(m)}
<1>3. 0 \in P
  <2>1. SubSeq(blocks, 1, 0) = <<>>
    BY SubSeqEmpty
  <2>2. \A i \in 1 .. 0 - 1 : FALSE
    OBVIOUS
  <2>3. <<>> \in Seq(Seq(S)) /\ ~ (0 > 0)
    OBVIOUS
  <2>4. Good(0)
    BY <1>1, <2>1, <2>2, <2>3, FlattenEmpty, Zenon
  <2> HIDE DEF Good
  <2> QED
    BY <2>4
<1>4. ASSUME NEW m \in Nat, m \in P PROVE m + 1 \in P
  <2> DEFINE k == m + 1
             new == SpanStep(blocks, k, f[m])
  <2>1. SUFFICES ASSUME k <= n PROVE Good(k)
    OBVIOUS
  <2>2. k \in 1 .. n /\ k - 1 = m /\ m <= n /\ (k > 1 => m > 0)
    BY <1>2, <2>1
  <2>3. Good(m)
    BY <1>4, <2>2
  <2>4. f[k] = new
    BY <1>1, <2>2
  <2> HIDE DEF P, new, k
  <2>5. /\ f[m] \in Seq(Seq(S))
        /\ FlattenSeq(f[m]) = SubSeq(blocks, 1, m)
        /\ m > 0 => f[m] # <<>> /\ blocks[m] \in ToSet(Last(f[m]))
    BY <2>3
  <2>6. /\ new \in Seq(Seq(S)) /\ new # <<>>
        /\ FlattenSeq(new) = Append(FlattenSeq(f[m]), blocks[k])
        /\ blocks[k] \in ToSet(Last(new))
        /\ k > 1 /\ Tied(blocks, m) => ToSet(Last(f[m])) \subseteq ToSet(Last(new))
        /\ \A j \in 1 .. Len(f[m]) :
             j \in 1 .. Len(new) /\ ToSet(f[m][j]) \subseteq ToSet(new[j])
    <3>1. k > 1 => f[m] # <<>>
      BY <2>2, <2>5
    <3> HIDE DEF Good
    <3> QED
      BY <2>2, <2>5, <3>1, SpanGrows DEF new
  <2>7. FlattenSeq(new) = SubSeq(blocks, 1, k)
    <3>1. SubSeq(blocks, 1, k) = Append(SubSeq(blocks, 1, k - 1), blocks[k])
      BY <2>2, FirstOnes
    <3> QED
      BY <2>2, <2>5, <2>6, <3>1
  <2>8. ASSUME NEW i \in 1 .. k - 1, Tied(blocks, i) PROVE Together(new, i)
    <3>1. CASE i = m
      <4>1. m > 0 /\ k > 1 /\ m + 1 = k
        BY <2>2, <3>1 DEF k
      <4>2. {blocks[i], blocks[i + 1]} \subseteq ToSet(Last(new))
        BY <2>5, <2>6, <2>8, <3>1, <4>1
      <4>3. Len(new) \in 1 .. Len(new) /\ Last(new) = new[Len(new)]
        BY <2>6, EmptySeq DEF Last
      <4> QED
        BY <4>2, <4>3
    <3>2. CASE i \in 1 .. m - 1
      <4>1. Together(f[m], i)
        BY <2>3, <2>8, <3>2
      <4>2. PICK j \in 1 .. Len(f[m]) : {blocks[i], blocks[i + 1]} \subseteq ToSet(f[m][j])
        BY <4>1
      <4>3. j \in 1 .. Len(new) /\ ToSet(f[m][j]) \subseteq ToSet(new[j])
        BY <2>6
      <4> QED
        BY <4>2, <4>3
    <3> QED
      BY <2>2, <3>1, <3>2
  <2> HIDE DEF Together
  <2>9. \A i \in 1 .. k - 1 : Tied(blocks, i) => Together(f[k], i)
    BY <2>4, <2>8
  <2> QED
    BY <2>4, <2>6, <2>7, <2>9
<1>5. Nat \subseteq P
  <2> HIDE DEF P
  <2> QED
    BY <1>3, <1>4, NatSetInduction
<1>6. Good(n)
  <2> HIDE DEF Good
  <2> QED
    BY <1>2, <1>5
<1> QED
  BY <1>1, <1>2, <1>6

-----------------------------------------------------------------------------
(* The groups of the sections.                                               *)

(* What BuildGroups makes: groups of blocks of the document. *)
Whole == {g \in Grouped : g.elements = {b \in ToSet(g.blocks) : IsElement(b)}}

SpanText == [span \in Seq(Places) |-> TextOf(span)]
GroupMap(s) ==
  [span \in Seq(Places) |-> IF TextOf(span) = <<>> THEN <<>> ELSE <<GroupOf(s, span)>>]
PartsFor(s) == [g \in Whole |-> IF g.section = s THEN PartsOf(g) ELSE <<>>]
TextFor(s) == [g \in Whole |-> IF g.section = s THEN TextOf(g.blocks) ELSE <<>>]

LEMMA GroupOfIs ==
  ASSUME NEW s \in Nat, NEW span \in Seq(Places)
  PROVE  /\ GroupOf(s, span) \in Whole
         /\ GroupOf(s, span).section = s /\ GroupOf(s, span).blocks = span
<1>1. Len(span) \in Nat /\ DOMAIN span = 1 .. Len(span)
      /\ \A i \in 1 .. Len(span) : span[i] \in Places /\ span[i] \in Nat
  BY LenProperties, ElementOfSeq DEF Places
<1>2. ToSet(span) \subseteq Nat
  BY <1>1 DEF ToSet
<1>3. span \in Seq(Nat)
  BY SeqMonotonic DEF Places
<1> DEFINE g == GroupOf(s, span)
<1>4. g = [section |-> s, blocks |-> span, elements |-> {b \in ToSet(span) : IsElement(b)}]
  BY DEF GroupOf
<1> HIDE DEF g
<1>5. g \in Group
  BY <1>2, <1>3, <1>4 DEF Group
<1>6. /\ g.section = s /\ g.blocks = span
      /\ g.elements = {b \in ToSet(g.blocks) : IsElement(b)}
  BY <1>4
<1> QED
  BY <1>5, <1>6 DEF Whole, Grouped, g

LEMMA GroupMaps ==
  ASSUME doc \in Seq(Blocks), NEW s \in Nat
  PROVE  /\ GroupMap(s) \in Maps(Seq(Places), Whole)
         /\ SpanText \in Maps(Seq(Places), Tokens)
         /\ PartsFor(s) \in Maps(Whole, Part)
         /\ TextFor(s) \in Maps(Whole, Tokens)
<1>1. GroupMap(s) \in Maps(Seq(Places), Whole)
  <2>1. \A span \in Seq(Places) : GroupOf(s, span) \in Whole
    BY GroupOfIs
  <2>2. \A g \in Whole : <<g>> \in Seq(Whole)
    OBVIOUS
  <2>3. <<>> \in Seq(Whole)
    BY EmptySeq
  <2> QED
    BY <2>1, <2>2, <2>3, Zenon DEF Maps, GroupMap
<1>2. SpanText \in Maps(Seq(Places), Tokens)
  <2>1. \A span \in Seq(Places) : TextOf(span) \in Seq(Tokens)
    BY TextIs
  <2> QED
    BY <2>1 DEF Maps, SpanText
<1>3. PartsFor(s) \in Maps(Whole, Part)
  <2>1. \A g \in Whole : PartsOf(g) \in Seq(Part)
    BY PartsKeep DEF Whole
  <2>2. <<>> \in Seq(Part)
    BY EmptySeq
  <2> QED
    BY <2>1, <2>2, Zenon DEF Maps, PartsFor
<1>4. TextFor(s) \in Maps(Whole, Tokens)
  <2>1. \A g \in Whole : TextOf(g.blocks) \in Seq(Tokens)
    BY TextIs DEF Whole, Grouped
  <2>2. <<>> \in Seq(Tokens)
    BY EmptySeq
  <2> QED
    BY <2>1, <2>2, Zenon DEF Maps, TextFor
<1> QED
  BY <1>1, <1>2, <1>3, <1>4

(* The groups of a section hold its text, and a group is of its section. *)
LEMMA GroupsOfIs ==
  ASSUME doc \in Seq(Blocks), NEW s \in Nat, sections[s].blocks \in Seq(Places)
  PROVE  /\ GroupsOf(s) \in Seq(Whole)
         /\ \A j \in 1 .. Len(GroupsOf(s)) : GroupsOf(s)[j].section = s
         /\ Apply(TextFor(s), GroupsOf(s)) = TextOf(sections[s].blocks)
         /\ \A t \in Nat : t # s => Apply(TextFor(t), GroupsOf(s)) = <<>>
<1> DEFINE bl == sections[s].blocks
           spans == Spans(bl)
           gs == GroupsOf(s)
           h == GroupMap(s)
<1>1. spans \in Seq(Seq(Places)) /\ FlattenSeq(spans) = bl
  BY SpansKeep
<1>2. \A k \in DOMAIN spans : spans[k] \in Seq(Places)
  BY <1>1, LenProperties, ElementOfSeq
<1>3. gs = FlattenSeq([k \in DOMAIN spans |->
                    IF TextOf(spans[k]) = <<>> THEN <<>> ELSE <<GroupOf(s, spans[k])>>])
  BY DEF GroupsOf
<1> HIDE DEF bl, spans, gs
<1>4. [k \in DOMAIN spans |->
         IF TextOf(spans[k]) = <<>> THEN <<>> ELSE <<GroupOf(s, spans[k])>>] = Each(h, spans)
  BY <1>2, Zenon DEF Each, GroupMap
<1>5. gs = Apply(h, spans)
  BY <1>3, <1>4 DEF Apply
<1>6. \A span \in Seq(Places) :
        h[span] = IF TextOf(span) = <<>> THEN <<>> ELSE <<GroupOf(s, span)>>
  BY Zenon DEF GroupMap
<1>7. h \in Maps(Seq(Places), Whole)
  BY GroupMaps
<1> HIDE DEF h
<1>8. gs \in Seq(Whole)
  BY <1>1, <1>5, <1>7, ApplyTyped
<1>9. ASSUME NEW j \in 1 .. Len(gs) PROVE gs[j].section = s
  <2>1. ToSet(gs) = UNION {ToSet(h[spans[i]]) : i \in 1 .. Len(spans)}
    BY <1>1, <1>5, <1>7, ApplyMembers
  <2>2. gs[j] \in ToSet(gs)
    BY <1>8, LenProperties DEF ToSet
  <2>3. PICK i \in 1 .. Len(spans) : gs[j] \in ToSet(h[spans[i]])
    BY <2>1, <2>2
  <2>4. spans[i] \in Seq(Places)
    BY <1>1, ElementOfSeq
  <2> DEFINE span == spans[i]
             g == GroupOf(s, span)
  <2> HIDE DEF span
  <2>5. h[span] = <<>> \/ h[span] = <<g>>
    BY <1>6, <2>4, Zenon DEF span
  <2>6. g.section = s
    BY <2>4, GroupOfIs DEF span
  <2> HIDE DEF g
  <2>7. gs[j] = g
    BY <2>3, <2>5 DEF ToSet, span
  <2> QED
    BY <2>6, <2>7
<1>10. Apply(TextFor(s), gs) = TextOf(bl)
  <2> DEFINE k == TextFor(s)
  <2>1. k \in Maps(Whole, Tokens) /\ SpanText \in Maps(Seq(Places), Tokens)
    BY GroupMaps
  <2>2. \A g \in Whole : k[g] = IF g.section = s THEN TextOf(g.blocks) ELSE <<>>
    BY Zenon DEF TextFor
  <2> HIDE DEF k
  <2>3. ASSUME NEW span \in Seq(Places) PROVE SpanText[span] = Apply(k, h[span])
    <3>1. SpanText[span] = TextOf(span)
      BY DEF SpanText
    <3>2. CASE TextOf(span) = <<>>
      <4>1. h[span] = <<>>
        BY <1>6, <3>2
      <4> QED
        BY <3>1, <3>2, <4>1, ApplyEmpty
    <3>3. CASE TextOf(span) # <<>>
      <4> DEFINE g == GroupOf(s, span)
      <4>1. h[span] = <<g>>
        BY <1>6, <3>3
      <4>2. g \in Whole /\ g.section = s /\ g.blocks = span
        BY GroupOfIs
      <4> HIDE DEF g
      <4>3. Apply(k, <<g>>) = Image(k, g)
        BY <2>1, <4>2, ApplyOne
      <4>4. k[g] = TextOf(span)
        BY <2>2, <4>2
      <4> QED
        BY <3>1, <4>1, <4>3, <4>4 DEF Image
    <3> QED
      BY <3>2, <3>3
  <2>4. Apply(k, Apply(h, spans)) = Apply(SpanText, spans)
    BY <1>1, <1>7, <2>1, <2>3, ApplyTwice
  <2>5. Apply(BlockText, FlattenSeq(spans)) =
          FlattenSeq([i \in DOMAIN spans |-> Apply(BlockText, spans[i])])
    BY <1>1, BlockMaps, ApplyFlatten
  <2>6. \A i \in DOMAIN spans : SpanText[spans[i]] = Apply(BlockText, spans[i])
    BY <1>2, TextIs DEF SpanText
  <2>7. Apply(SpanText, spans) = FlattenSeq([i \in DOMAIN spans |-> Apply(BlockText, spans[i])])
    BY <2>6 DEF Apply, Each
  <2>8. TextOf(bl) = Apply(BlockText, bl)
    BY TextIs DEF bl
  <2> QED
    BY <1>1, <1>5, <2>4, <2>5, <2>7, <2>8 DEF k
<1>11. ASSUME NEW t \in Nat, t # s PROVE Apply(TextFor(t), gs) = <<>>
  <2> DEFINE k == TextFor(t)
             m == Each(k, gs)
  <2>1. k \in Maps(Whole, Tokens)
    BY GroupMaps
  <2>2. \A g \in Whole : k[g] = IF g.section = t THEN TextOf(g.blocks) ELSE <<>>
    BY Zenon DEF TextFor
  <2> HIDE DEF k
  <2>3. m \in Seq(Seq(Tokens)) /\ Len(m) = Len(gs)
        /\ \A i \in 1 .. Len(gs) : m[i] = k[gs[i]]
    BY <1>8, <2>1, ApplyTyped
  <2>4. \A i \in 1 .. Len(gs) : gs[i] \in Whole
    BY <1>8, ElementOfSeq
  <2> HIDE DEF m
  <2>5. \A i \in 1 .. Len(m) : m[i] = <<>>
    BY <1>9, <1>11, <2>2, <2>3, <2>4
  <2>6. FlattenSeq(m) = <<>>
    BY <2>3, <2>5, FlattenNothing
  <2> QED
    BY <2>6 DEF Apply, m, k
<1> QED
  BY <1>8, <1>9, <1>10, <1>11 DEF gs, bl

(* More blocks have more text. *)
LEMMA TextGrows ==
  ASSUME doc \in Seq(Blocks), NEW few \in Seq(Places), NEW more \in Seq(Places),
         ToSet(few) \subseteq ToSet(more)
  PROVE  ToSet(TextOf(few)) \subseteq ToSet(TextOf(more))
<1> DEFINE h == BlockText
<1>1. h \in Maps(Places, Tokens)
  BY BlockMaps
<1>2. TextOf(few) = Apply(h, few) /\ TextOf(more) = Apply(h, more)
  BY TextIs
<1> HIDE DEF h
<1>3. ToSet(Apply(h, few)) = UNION {ToSet(h[few[i]]) : i \in 1 .. Len(few)}
  BY <1>1, ApplyMembers
<1>4. ToSet(Apply(h, more)) = UNION {ToSet(h[more[i]]) : i \in 1 .. Len(more)}
  BY <1>1, ApplyMembers
<1>5. DOMAIN few = 1 .. Len(few) /\ DOMAIN more = 1 .. Len(more)
  BY LenProperties
<1>6. ASSUME NEW i \in 1 .. Len(few) PROVE \E j \in 1 .. Len(more) : more[j] = few[i]
  <2>1. few[i] \in ToSet(few)
    BY <1>5 DEF ToSet
  <2>2. few[i] \in ToSet(more)
    BY <2>1
  <2> QED
    BY <1>5, <2>2 DEF ToSet
<1>7. ASSUME NEW x \in ToSet(Apply(h, few)) PROVE x \in ToSet(Apply(h, more))
  <2>1. PICK i \in 1 .. Len(few) : x \in ToSet(h[few[i]])
    BY <1>3
  <2>2. PICK j \in 1 .. Len(more) : more[j] = few[i]
    BY <1>6
  <2> QED
    BY <1>4, <2>1, <2>2
<1> QED
  BY <1>2, <1>7

LEMMA NoMembers ==
  ASSUME NEW S, NEW s \in Seq(S)
  PROVE  ToSet(s) = {} <=> s = <<>>
<1>1. Len(s) \in Nat /\ DOMAIN s = 1 .. Len(s)
  BY LenProperties
<1>2. ASSUME s # <<>> PROVE ToSet(s) # {}
  <2>1. 1 \in DOMAIN s
    BY <1>1, <1>2, EmptySeq
  <2>2. s[1] \in ToSet(s)
    BY <2>1 DEF ToSet
  <2> QED
    BY <2>2
<1>3. ToSet(<<>>) = {}
  BY DEF ToSet
<1> QED
  BY <1>2, <1>3

(* Neighbours that are tied and have text are in one group. *)
LEMMA GroupsTie ==
  ASSUME doc \in Seq(Blocks), NEW s \in Nat, sections[s].blocks \in Seq(Places),
         NEW i \in 1 .. Len(sections[s].blocks) - 1, Tied(sections[s].blocks, i),
         TextOf(<<sections[s].blocks[i], sections[s].blocks[i + 1]>>) # <<>>
  PROVE  \E g \in ToSet(GroupsOf(s)) :
           {sections[s].blocks[i], sections[s].blocks[i + 1]} \subseteq ToSet(g.blocks)
<1> DEFINE bl == sections[s].blocks
           spans == Spans(bl)
           gs == GroupsOf(s)
           h == GroupMap(s)
           b == bl[i]
           n == bl[i + 1]
<1>1. /\ spans \in Seq(Seq(Places)) /\ FlattenSeq(spans) = bl
      /\ \A j \in 1 .. Len(bl) - 1 :
           Tied(bl, j) => \E k \in 1 .. Len(spans) : {bl[j], bl[j + 1]} \subseteq ToSet(spans[k])
  BY SpansKeep
<1>2. PICK k \in 1 .. Len(spans) : {b, n} \subseteq ToSet(spans[k])
  BY <1>1
<1>3. b \in Places /\ n \in Places
  <2>1. Len(bl) \in Nat
    BY LenProperties
  <2>2. i \in 1 .. Len(bl) /\ i + 1 \in 1 .. Len(bl)
    BY <2>1
  <2> HIDE DEF bl
  <2> QED
    BY <2>2, ElementOfSeq DEF bl
<1>4. \A j \in DOMAIN spans : spans[j] \in Seq(Places)
  BY <1>1, LenProperties, ElementOfSeq
<1>5. gs = FlattenSeq([j \in DOMAIN spans |->
                    IF TextOf(spans[j]) = <<>> THEN <<>> ELSE <<GroupOf(s, spans[j])>>])
  BY DEF GroupsOf
<1>6. TextOf(<<b, n>>) # <<>>
  OBVIOUS
<1> HIDE DEF bl, spans, gs, b, n
<1>7. [j \in DOMAIN spans |->
         IF TextOf(spans[j]) = <<>> THEN <<>> ELSE <<GroupOf(s, spans[j])>>] = Each(h, spans)
  BY <1>4, Zenon DEF Each, GroupMap
<1>8. gs = Apply(h, spans)
  BY <1>5, <1>7 DEF Apply
<1>9. h \in Maps(Seq(Places), Whole)
  BY GroupMaps
<1> DEFINE span == spans[k]
           g == GroupOf(s, span)
<1>10. span \in Seq(Places)
  BY <1>1, ElementOfSeq
<1>11. TextOf(span) # <<>>
  <2>1. <<b, n>> \in Seq(Places) /\ ToSet(<<b, n>>) = {b, n}
    BY <1>3 DEF ToSet
  <2> DEFINE two == <<b, n>>
  <2> HIDE DEF two
  <2>2. ToSet(TextOf(two)) \subseteq ToSet(TextOf(span))
    BY <1>2, <1>10, <2>1, TextGrows DEF two
  <2>3. TextOf(two) \in Seq(Tokens) /\ TextOf(span) \in Seq(Tokens)
    BY <1>10, <2>1, TextIs DEF two
  <2>4. ToSet(TextOf(two)) # {}
    BY <1>6, <2>3, NoMembers DEF two
  <2> QED
    BY <2>2, <2>3, <2>4, NoMembers
<1> HIDE DEF span
<1>12. h[span] = <<g>>
  BY <1>10, <1>11, Zenon DEF GroupMap
<1>13. g.blocks = span
  BY <1>10, GroupOfIs
<1> HIDE DEF h, g
<1>14. g \in ToSet(h[span])
  <2>1. 1 \in DOMAIN <<g>> /\ <<g>>[1] = g
    OBVIOUS
  <2> QED
    BY <1>12, <2>1, Zenon DEF ToSet
<1>15. ToSet(gs) = UNION {ToSet(h[spans[j]]) : j \in 1 .. Len(spans)}
  BY <1>1, <1>8, <1>9, ApplyMembers, SMTT(30)
<1>16. g \in ToSet(gs)
  BY <1>14, <1>15 DEF span
<1> QED
  BY <1>2, <1>13, <1>16 DEF gs, b, n, bl, span

(* The blocks of a section are blocks of the document. *)
LEMMA SectionPlaces ==
  ASSUME TreeInv, NEW s \in 1 .. Len(sections)
  PROVE  sections[s].blocks \in Seq(Places)
<1> DEFINE ss == BlocksOf(sections)
           bl == sections[s].blocks
<1>1. /\ doc \in Seq(Blocks) /\ placed \in 0 .. Len(doc) /\ sections \in Seq(Section)
      /\ BlocksInOrder
  BY DEF TreeInv, TreeType, BlocksInv
<1>2. Len(doc) \in Nat
  BY <1>1, LenProperties
<1>3. ss \in Seq(Seq(Nat)) /\ Len(ss) = Len(sections) /\ ss[s] = bl /\ bl \in Seq(Nat)
  BY <1>1, BlocksOfTyped, ElementOfSeq
<1>4. FlattenSeq(ss) = [b \in 1 .. placed |-> b]
  BY <1>1 DEF BlocksInOrder, BlocksOf
<1> HIDE DEF ss, bl
<1>5. ToSet(FlattenSeq(ss)) = UNION {ToSet(ss[i]) : i \in 1 .. Len(ss)}
  BY <1>3, FlattenMembers
<1>6. ToSet([b \in 1 .. placed |-> b]) = 1 .. placed
  BY DEF ToSet
<1>7. ToSet(bl) \subseteq 1 .. placed
  BY <1>3, <1>4, <1>5, <1>6
<1>8. 1 .. placed \subseteq Places
  BY <1>1, <1>2 DEF Places
<1>9. Len(bl) \in Nat /\ DOMAIN bl = 1 .. Len(bl) /\ bl \in [1 .. Len(bl) -> Nat]
  BY <1>3, LenProperties
<1>10. \A i \in 1 .. Len(bl) : bl[i] \in Places
  BY <1>7, <1>8, <1>9 DEF ToSet
<1>11. bl = [i \in 1 .. Len(bl) |-> bl[i]]
  BY <1>9
<1>12. bl \in Seq(Places)
  BY <1>9, <1>10, <1>11, MapTyped
<1> QED
  BY <1>12 DEF bl

(* The groups gs hold the text of each section, and what is tied in a section *)
(* is in one of them.                                                        *)
GroupsHold(gs) ==
  /\ gs \in Seq(Whole)
  /\ \A s \in 1 .. Len(sections) : Apply(TextFor(s), gs) = TextOf(sections[s].blocks)
  /\ \A s \in 1 .. Len(sections) : \A i \in 1 .. Len(sections[s].blocks) - 1 :
       /\ Tied(sections[s].blocks, i)
       /\ TextOf(<<sections[s].blocks[i], sections[s].blocks[i + 1]>>) # <<>>
       => \E g \in ToSet(gs) :
            /\ g.section = s
            /\ {sections[s].blocks[i], sections[s].blocks[i + 1]} \subseteq ToSet(g.blocks)

LEMMA GroupsBuilt ==
  ASSUME TreeInv
  PROVE  GroupsHold(FlattenSeq([s \in DOMAIN sections |-> GroupsOf(s)]))
<1> DEFINE m == [s \in DOMAIN sections |-> GroupsOf(s)]
           gs == FlattenSeq(m)
           n == Len(sections)
<1>1. /\ doc \in Seq(Blocks) /\ sections \in Seq(Section)
      /\ n \in Nat /\ DOMAIN sections = 1 .. n
  BY LenProperties DEF TreeInv, TreeType
<1>2. \A s \in 1 .. n : sections[s].blocks \in Seq(Places) /\ s \in Nat
  BY <1>1, SectionPlaces
<1>3. \A s \in 1 .. n : m[s] = GroupsOf(s) /\ m[s] \in Seq(Whole)
  BY <1>1, <1>2, GroupsOfIs
<1>4. m = [s \in 1 .. n |-> m[s]]
  BY <1>1
<1> HIDE DEF m, n
<1>5. m \in Seq(Seq(Whole)) /\ Len(m) = n
  BY <1>1, <1>3, <1>4, MapTyped
<1>6. gs \in Seq(Whole)
  BY <1>5, FlattenTyped
<1>7. ASSUME NEW s \in 1 .. n PROVE Apply(TextFor(s), gs) = TextOf(sections[s].blocks)
  <2> DEFINE k == TextFor(s)
             a == [i \in DOMAIN m |-> Apply(k, m[i])]
  <2>1. s \in Nat
    BY <1>2
  <2>2. k \in Maps(Whole, Tokens)
    BY <1>1, <2>1, GroupMaps
  <2> HIDE DEF k
  <2>3. a \in Seq(Seq(Tokens)) /\ Apply(k, gs) = FlattenSeq(a)
    <3>1. m \in Seq(Seq(Whole))
      BY <1>5
    <3>2. /\ [i \in DOMAIN m |-> Apply(k, m[i])] \in Seq(Seq(Tokens))
          /\ Apply(k, FlattenSeq(m)) = FlattenSeq([i \in DOMAIN m |-> Apply(k, m[i])])
      <4> HIDE DEF gs, a
      <4> QED
        BY <2>2, <3>1, ApplyFlatten
    <3> QED
      BY <3>2
  <2>4. DOMAIN m = 1 .. n
    BY <1>4
  <2>5. \A i \in 1 .. n : a[i] = Apply(k, m[i])
    BY <2>4
  <2>6. Len(a) = n
    BY <1>1, <2>3, <2>4, LenProperties
  <2> HIDE DEF a
  <2>7. a[s] = TextOf(sections[s].blocks)
    <3>1. Apply(TextFor(s), GroupsOf(s)) = TextOf(sections[s].blocks)
      BY <1>1, <1>2, <2>1, GroupsOfIs
    <3> QED
      BY <1>3, <2>5, <3>1 DEF k
  <2>8. ASSUME NEW i \in 1 .. n, i # s PROVE a[i] = <<>>
    <3>1. Apply(TextFor(s), GroupsOf(i)) = <<>>
      BY <1>1, <1>2, <2>1, <2>8, GroupsOfIs
    <3> QED
      BY <1>3, <2>5, <3>1 DEF k
  <2>9. FlattenSeq(a) = a[s]
    BY <2>3, <2>6, <2>8, FlattenOnly
  <2> QED
    BY <2>3, <2>7, <2>9 DEF k
<1>8. ToSet(gs) = UNION {ToSet(m[s]) : s \in 1 .. Len(m)}
  BY <1>5, FlattenMembers
<1>9. ASSUME NEW s \in 1 .. n, NEW i \in 1 .. Len(sections[s].blocks) - 1,
             Tied(sections[s].blocks, i),
             TextOf(<<sections[s].blocks[i], sections[s].blocks[i + 1]>>) # <<>>
      PROVE  \E g \in ToSet(gs) :
               /\ g.section = s
               /\ {sections[s].blocks[i], sections[s].blocks[i + 1]} \subseteq ToSet(g.blocks)
  <2>1. s \in Nat /\ sections[s].blocks \in Seq(Places) /\ m[s] = GroupsOf(s)
    BY <1>2, <1>3
  <2>2. PICK g \in ToSet(GroupsOf(s)) :
          {sections[s].blocks[i], sections[s].blocks[i + 1]} \subseteq ToSet(g.blocks)
    BY <1>1, <1>9, <2>1, GroupsTie
  <2>3. g.section = s
    <3>1. GroupsOf(s) \in Seq(Whole)
          /\ \A j \in 1 .. Len(GroupsOf(s)) : GroupsOf(s)[j].section = s
      BY <1>1, <2>1, GroupsOfIs
    <3>2. DOMAIN GroupsOf(s) = 1 .. Len(GroupsOf(s))
      BY <3>1, LenProperties
    <3> QED
      BY <2>2, <3>1, <3>2 DEF ToSet
  <2>4. g \in ToSet(gs)
    BY <1>5, <1>8, <2>1, <2>2
  <2> QED
    BY <2>2, <2>3, <2>4
<1> HIDE DEF gs
<1>10. GroupsHold(gs)
  BY <1>6, <1>7, <1>9, Zenon DEF GroupsHold, n
<1> QED
  BY <1>10 DEF gs, m

(* GroupsHold depends on the document and its sections only. *)
LEMMA GroupsFrame ==
  ASSUME NEW gs, GroupsHold(gs), doc' = doc, sections' = sections
  PROVE  GroupsHold(gs)'
<1>1. Whole' = Whole
  <2>1. Places' = Places
    BY DEF Places
  <2>2. \A b : IsElement(b)' <=> IsElement(b)
    BY DEF IsElement
  <2> QED
    BY <2>1, <2>2, Zenon DEF Whole, Grouped
<1>2. ASSUME NEW blocks PROVE TextOf(blocks)' = TextOf(blocks)
  BY DEF TextOf, Sentences
<1>3. ASSUME NEW s PROVE TextFor(s)' = TextFor(s)
  BY <1>1, <1>2, Zenon DEF TextFor
<1>4. ASSUME NEW blocks, NEW i PROVE Tied(blocks, i)' <=> Tied(blocks, i)
  BY DEF Tied, BindsNext, BindsPrevious, Mentions, Formula, IsElement
<1> QED
  BY <1>1, <1>2, <1>3, <1>4 DEF GroupsHold

-----------------------------------------------------------------------------
(* Sequences of parts.                                                       *)

LEMMA AppendMembers ==
  ASSUME NEW S, NEW s \in Seq(S), NEW e \in S
  PROVE  ToSet(Append(s, e)) = ToSet(s) \cup {e}
<1> DEFINE t == Append(s, e)
<1>1. /\ t \in Seq(S) /\ Len(t) = Len(s) + 1 /\ Len(s) \in Nat
      /\ (\A i \in 1 .. Len(s) : t[i] = s[i]) /\ t[Len(s) + 1] = e
      /\ DOMAIN s = 1 .. Len(s)
  BY AppendProperties, LenProperties
<1>2. DOMAIN t = 1 .. Len(s) + 1
  BY <1>1, LenProperties
<1> HIDE DEF t
<1>3. ToSet(t) \subseteq ToSet(s) \cup {e}
  BY <1>1, <1>2 DEF ToSet
<1>4. \A i \in DOMAIN s : i \in DOMAIN t /\ t[i] = s[i]
  BY <1>1, <1>2
<1>5. ToSet(s) \subseteq ToSet(t)
  BY <1>4 DEF ToSet
<1>6. Len(s) + 1 \in DOMAIN t
  BY <1>1, <1>2
<1>7. e \in ToSet(t)
  BY <1>1, <1>6, Zenon DEF ToSet
<1> QED
  BY <1>3, <1>5, <1>7 DEF t

LEMMA HeadMembers ==
  ASSUME NEW S, NEW s \in Seq(S), s # <<>>
  PROVE  /\ Head(s) \in S /\ Tail(s) \in Seq(S)
         /\ ToSet(s) = {Head(s)} \cup ToSet(Tail(s))
<1> DEFINE t == Tail(s)
           e == Head(s)
<1>1. /\ e \in S /\ t \in Seq(S) /\ Len(t) = Len(s) - 1
      /\ \A i \in 1 .. Len(t) : t[i] = s[i + 1]
  BY HeadTailProperties
<1>2. /\ Len(s) \in Nat \ {0} /\ DOMAIN s = 1 .. Len(s) /\ DOMAIN t = 1 .. Len(s) - 1
  BY <1>1, EmptySeq, LenProperties
<1>3. e = s[1]
  OBVIOUS
<1> HIDE DEF t, e
<1>4. ASSUME NEW i \in DOMAIN s PROVE s[i] \in {e} \cup ToSet(t)
  <2>1. CASE i = 1
    BY <1>3, <2>1
  <2>2. CASE i # 1
    <3>1. i - 1 \in 1 .. Len(t) /\ i - 1 \in DOMAIN t /\ (i - 1) + 1 = i
      BY <1>1, <1>2, <2>2
    <3>2. t[i - 1] = s[i]
      BY <1>1, <3>1
    <3> QED
      BY <3>1, <3>2, Zenon DEF ToSet
  <2> QED
    BY <2>1, <2>2
<1>5. \A i \in DOMAIN t : i + 1 \in DOMAIN s /\ t[i] = s[i + 1]
  BY <1>1, <1>2
<1>6. 1 \in DOMAIN s
  BY <1>2
<1>7. ToSet(s) \subseteq {e} \cup ToSet(t)
  BY <1>4 DEF ToSet
<1>8. ToSet(t) \subseteq ToSet(s)
  BY <1>5 DEF ToSet
<1>9. e \in ToSet(s)
  BY <1>3, <1>6, Zenon DEF ToSet
<1> QED
  BY <1>1, <1>7, <1>8, <1>9 DEF t, e

LEMMA OneMember ==
  ASSUME NEW e
  PROVE  ToSet(<<e>>) = {e} /\ Len(<<e>>) = 1 /\ <<e>>[1] = e /\ <<e>> # <<>>
BY DEF ToSet

LEMMA NoParts == TextOfParts(<<>>) = <<>> /\ ToSet(<<>>) = {}
BY FlattenEmpty DEF TextOfParts, ToSet

LEMMA MoreParts ==
  ASSUME NEW ps \in Seq(Part), NEW p \in Part
  PROVE  /\ TextOfParts(Append(ps, p)) = TextOfParts(ps) \o p.text
         /\ Len(TextOfParts(Append(ps, p))) = Len(TextOfParts(ps)) + Len(p.text)
         /\ Len(TextOfParts(ps)) \in Nat /\ Len(p.text) \in Nat
         /\ p.text \in Seq(Tokens)
<1>1. Append(ps, p) \in Seq(Part)
  BY AppendProperties
<1>2. Apply(PartText, Append(ps, p)) = Apply(PartText, ps) \o Image(PartText, p)
  BY PartTextTyped, ApplyAppend
<1>3. Image(PartText, p) = p.text /\ p.text \in Seq(Tokens)
  BY PartTextTyped DEF Image, Part, Tokens
<1>4. TextOfParts(ps) = Apply(PartText, ps) /\ TextOfParts(ps) \in Seq(Tokens)
  BY TextOfPartsIs
<1>5. TextOfParts(Append(ps, p)) = TextOfParts(ps) \o p.text
  BY <1>1, <1>2, <1>3, <1>4, TextOfPartsIs
<1> DEFINE a == TextOfParts(ps)
           b == p.text
<1> HIDE DEF a, b
<1>6. a \in Seq(Tokens) /\ b \in Seq(Tokens)
  BY <1>3, <1>4 DEF a, b
<1>7. Len(a \o b) = Len(a) + Len(b) /\ Len(a) \in Nat /\ Len(b) \in Nat
  BY <1>6, ConcatProperties, LenProperties
<1> QED
  BY <1>3, <1>5, <1>7 DEF a, b

LEMMA OnePart ==
  ASSUME NEW p \in Part
  PROVE  TextOfParts(<<p>>) = p.text
<1>1. p.text \in Seq(Tokens)
  BY DEF Part, Tokens
<1>2. [i \in DOMAIN <<p>> |-> <<p>>[i].text] = <<p.text>>
  OBVIOUS
<1>3. FlattenSeq(<<p.text>>) = p.text
  BY <1>1, FlattenOne
<1> QED
  BY <1>2, <1>3 DEF TextOfParts

LEMMA FirstPart ==
  ASSUME NEW ps \in Seq(Part), ps # <<>>
  PROVE  TextOfParts(ps) = Head(ps).text \o TextOfParts(Tail(ps))
<1>1. Head(ps) \in Part /\ Tail(ps) \in Seq(Part)
  BY HeadTailProperties
<1>2. Apply(PartText, ps) = Image(PartText, Head(ps)) \o Apply(PartText, Tail(ps))
  BY PartTextTyped, ApplyHead
<1>3. Image(PartText, Head(ps)) = Head(ps).text
  BY <1>1, PartTextTyped DEF Image
<1> QED
  BY <1>1, <1>2, <1>3, TextOfPartsIs

(* The text of a part is in that of the parts. *)
LEMMA PartInText ==
  ASSUME NEW ps \in Seq(Part), NEW p \in ToSet(ps)
  PROVE  ToSet(p.text) \subseteq ToSet(TextOfParts(ps))
<1>1. DOMAIN ps = 1 .. Len(ps) /\ \A i \in 1 .. Len(ps) : ps[i] \in Part
  BY LenProperties, ElementOfSeq
<1>2. PICK i \in 1 .. Len(ps) : p = ps[i]
  BY <1>1 DEF ToSet
<1>3. ToSet(Apply(PartText, ps)) = UNION {ToSet(PartText[ps[j]]) : j \in 1 .. Len(ps)}
  BY PartTextTyped, ApplyMembers
<1>4. PartText[ps[i]] = p.text
  BY <1>1, <1>2, PartTextTyped
<1>5. TextOfParts(ps) = Apply(PartText, ps)
  BY TextOfPartsIs
<1> HIDE DEF PartText
<1> QED
  BY <1>3, <1>4, <1>5

-----------------------------------------------------------------------------
(* The stages, and the parts of the section that is taken.                   *)

Chunk == [section : Nat, text : Seq(Tokens), groups : SUBSET Group]

StageInv ==
  /\ stage \in Stage /\ taken \in 0 .. Len(sections)
  /\ stage = "sections" =>
       groups = <<>> /\ taken = 0 /\ todo = <<>> /\ current = <<>> /\ chunks = <<>>
  /\ stage # "sections" => placed = Len(doc) /\ GroupsHold(groups)
  /\ stage = "chunks" => taken = Len(sections) /\ todo = <<>> /\ current = <<>>

Piece(p) ==
  /\ p.group.section = taken /\ taken > 0
  /\ Len(p.text) <= HardMax \/ Dependency(p.group)

(* The next chunk is within the limit, or it is one group of an element. *)
PartsInv ==
  /\ todo \in Seq(Part) /\ current \in Seq(Part)
  /\ \A p \in ToSet(todo) \cup ToSet(current) : Piece(p)
  /\ \/ Len(TextOfParts(current)) <= HardMax
     \/ \E p \in Part : current = <<p>> /\ Dependency(p.group)

(* In the stage of the groups the parts of the section taken are those of its *)
(* groups.                                                                   *)
LEMMA TakenParts ==
  ASSUME TreeInv, StageInv, TakeSection
  PROVE  /\ taken + 1 \in 1 .. Len(sections) /\ GroupsHold(groups)
         /\ groups \in Seq(Whole)
         /\ todo' = Apply(PartsFor(taken + 1), groups)
         /\ todo' \in Seq(Part)
         /\ \A p \in ToSet(todo') : /\ p.group.section = taken + 1
                                    /\ Len(p.text) <= HardMax \/ Dependency(p.group)
         /\ TextOfParts(todo') = TextOf(sections[taken + 1].blocks)
         /\ \A g \in ToSet(groups) :
              g.section = taken + 1 /\ Dependency(g) =>
                \E p \in ToSet(todo') : p.group = g /\ p.text = TextOf(g.blocks)
<1> DEFINE s == taken + 1
           h == PartsFor(s)
           k == TextFor(s)
<1>1. /\ doc \in Seq(Blocks) /\ sections \in Seq(Section)
      /\ stage = "groups" /\ taken < Len(sections)
      /\ taken \in 0 .. Len(sections) /\ Len(sections) \in Nat
      /\ GroupsHold(groups)
  BY LenProperties DEF TreeInv, TreeType, StageInv, TakeSection
<1>2. s \in 1 .. Len(sections) /\ s \in Nat
  BY <1>1
<1>3. groups \in Seq(Whole) /\ Apply(k, groups) = TextOf(sections[s].blocks)
  BY <1>1, <1>2 DEF GroupsHold
<1>4. DOMAIN groups = 1 .. Len(groups) /\ \A i \in DOMAIN groups : groups[i] \in Whole
  BY <1>3, LenProperties, ElementOfSeq
<1>5. todo' = FlattenSeq([i \in DOMAIN groups |->
                IF groups[i].section = taken + 1 THEN PartsOf(groups[i]) ELSE <<>>])
  BY DEF TakeSection
<1> HIDE DEF s
<1>6. \A g \in Whole : /\ h[g] = IF g.section = s THEN PartsOf(g) ELSE <<>>
                       /\ k[g] = IF g.section = s THEN TextOf(g.blocks) ELSE <<>>
  BY Zenon DEF PartsFor, TextFor
<1>7. h \in Maps(Whole, Part) /\ k \in Maps(Whole, Tokens)
  BY <1>1, <1>2, GroupMaps
<1> HIDE DEF h, k
<1>8. [i \in DOMAIN groups |->
         IF groups[i].section = s THEN PartsOf(groups[i]) ELSE <<>>] = Each(h, groups)
  BY <1>4, <1>6, Zenon DEF Each
<1>9. todo' = Apply(h, groups)
  BY <1>5, <1>8 DEF Apply, s
<1>10. PICK td : td = todo'
  OBVIOUS
<1>11. td \in Seq(Part)
  BY <1>3, <1>7, <1>9, <1>10, ApplyTyped
<1>12. ToSet(td) = UNION {ToSet(h[groups[i]]) : i \in 1 .. Len(groups)}
  BY <1>3, <1>7, <1>9, <1>10, ApplyMembers
<1>13. \A g \in Whole :
         /\ PartsOf(g) \in Seq(Part)
         /\ TextOfParts(PartsOf(g)) = TextOf(g.blocks)
         /\ \A i \in 1 .. Len(PartsOf(g)) :
              /\ PartsOf(g)[i].group = g
              /\ Len(PartsOf(g)[i].text) <= HardMax \/ Dependency(g)
         /\ Dependency(g) => /\ Len(PartsOf(g)) = 1
                             /\ PartsOf(g)[1].text = TextOf(g.blocks)
  BY <1>1, PartsKeep DEF Whole
<1>14. ASSUME NEW p \in ToSet(td)
       PROVE  p.group.section = s /\ (Len(p.text) <= HardMax \/ Dependency(p.group))
  <2>1. PICK i \in 1 .. Len(groups) : p \in ToSet(h[groups[i]])
    BY <1>12
  <2> DEFINE g == groups[i]
             ps == PartsOf(g)
  <2>2. g \in Whole
    BY <1>4
  <2> HIDE DEF g
  <2>3. g.section = s /\ p \in ToSet(ps)
    <3>1. CASE g.section = s
      BY <1>6, <2>1, <2>2, <3>1 DEF g
    <3>2. CASE g.section # s
      <4>1. h[g] = <<>>
        BY <1>6, <2>2, <3>2
      <4> QED
        BY <2>1, <4>1, NoParts DEF g
    <3> QED
      BY <3>1, <3>2
  <2>4. ps \in Seq(Part) /\ \A j \in 1 .. Len(ps) :
          ps[j].group = g /\ (Len(ps[j].text) <= HardMax \/ Dependency(g))
    BY <1>13, <2>2
  <2> HIDE DEF ps
  <2>5. PICK j \in 1 .. Len(ps) : p = ps[j]
    BY <2>3, <2>4, LenProperties DEF ToSet
  <2> QED
    BY <2>3, <2>4, <2>5
<1>15. TextOfParts(td) = TextOf(sections[s].blocks)
  <2>1. \A g \in Whole : k[g] = Apply(PartText, h[g])
    <3> SUFFICES ASSUME NEW g \in Whole PROVE k[g] = Apply(PartText, h[g])
      OBVIOUS
    <3>1. CASE g.section = s
      <4>1. h[g] = PartsOf(g) /\ k[g] = TextOf(g.blocks)
        BY <1>6, <3>1
      <4>2. TextOfParts(PartsOf(g)) = Apply(PartText, PartsOf(g))
        BY <1>13, TextOfPartsIs
      <4> QED
        BY <1>13, <4>1, <4>2
    <3>2. CASE g.section # s
      <4>1. h[g] = <<>> /\ k[g] = <<>>
        BY <1>6, <3>2
      <4> QED
        BY <4>1, ApplyEmpty
    <3> QED
      BY <3>1, <3>2
  <2>2. Apply(PartText, Apply(h, groups)) = Apply(k, groups)
    BY <1>3, <1>7, <2>1, PartTextTyped, ApplyTwice
  <2>3. TextOfParts(td) = Apply(PartText, td)
    BY <1>11, TextOfPartsIs
  <2> QED
    BY <1>3, <1>9, <1>10, <2>2, <2>3
<1>16. ASSUME NEW g \in ToSet(groups), g.section = s, Dependency(g)
       PROVE  \E p \in ToSet(td) : p.group = g /\ p.text = TextOf(g.blocks)
  <2>1. PICK i \in 1 .. Len(groups) : g = groups[i]
    BY <1>4 DEF ToSet
  <2>2. g \in Whole
    BY <1>4, <2>1
  <2> DEFINE ps == PartsOf(g)
  <2>3. ps \in Seq(Part) /\ Len(ps) = 1 /\ ps[1].text = TextOf(g.blocks) /\ ps[1].group = g
    <3>1. /\ ps \in Seq(Part) /\ Len(ps) = 1 /\ ps[1].text = TextOf(g.blocks)
          /\ \A j \in 1 .. Len(ps) : ps[j].group = g
      BY <1>13, <1>16, <2>2
    <3> HIDE DEF ps
    <3> QED
      BY <3>1
  <2>4. h[g] = ps
    BY <1>6, <1>16, <2>2
  <2> HIDE DEF ps
  <2>5. 1 \in DOMAIN ps
    BY <2>3, LenProperties
  <2>6. ps[1] \in ToSet(ps)
    BY <2>5 DEF ToSet
  <2>7. ps[1] \in ToSet(td)
    BY <1>12, <2>1, <2>4, <2>6
  <2> QED
    BY <2>3, <2>7
<1> QED
  BY <1>1, <1>2, <1>3, <1>9, <1>10, <1>11, <1>14, <1>15, <1>16 DEF s, h

ChunkType == chunks \in Seq(Chunk)

PackInv == TreeInv /\ StageInv /\ PartsInv /\ ChunkType

(* What StartChunk and EndSection make of the parts they have. *)
LEMMA MadeChunk ==
  ASSUME PackInv, current # <<>>
  PROVE  /\ MakeChunk(current) \in Chunk
         /\ MakeChunk(current).text = TextOfParts(current)
         /\ MakeChunk(current).groups = {p.group : p \in ToSet(current)}
         /\ PathsDiffer => MakeChunk(current).section = taken
         /\ taken \in 1 .. Len(sections)
<1> DEFINE n == Len(sections)
           path == sections[taken].path
           S == {s \in 1 .. n : sections[s].path = path}
           First(s) == s \in DOMAIN sections /\ sections[s].path = path
                       /\ \A t \in 1 .. s - 1 : sections[t].path # path
           ck == MakeChunk(current)
<1>1. /\ sections \in Seq(Section) /\ n \in Nat /\ DOMAIN sections = 1 .. n
      /\ current \in Seq(Part) /\ taken \in 0 .. n
      /\ \A p \in ToSet(current) : Piece(p)
  BY LenProperties DEF PackInv, TreeInv, TreeType, StageInv, PartsInv
<1>2. Head(current) \in ToSet(current)
  BY <1>1, HeadMembers
<1>3. taken \in 1 .. n
  BY <1>1, <1>2 DEF Piece
<1>4. \E s : First(s)
  <2>1. S # {} /\ S \in SUBSET Nat
    BY <1>1, <1>3
  <2>2. PICK s \in S : \A t \in S : s <= t
    <3> HIDE DEF S
    <3> QED
      BY <2>1, Least
  <2>3. s \in 1 .. n /\ sections[s].path = path
    BY <2>2
  <2>4. ASSUME NEW t \in 1 .. s - 1 PROVE sections[t].path # path
    <3>1. t \in 1 .. n /\ ~ (s <= t)
      BY <1>1, <2>3
    <3> QED
      BY <2>2, <3>1
  <2>5. First(s)
    BY <1>1, <2>3, <2>4
  <2> HIDE DEF First
  <2> QED
    BY <2>5
<1>5. PICK s : First(s) /\ SectionOfPath(path) = s
  <2> DEFINE c == CHOOSE s : First(s)
  <2>1. First(c)
    <3> HIDE DEF First
    <3> QED
      BY <1>4
  <2>2. SectionOfPath(path) = CHOOSE s \in DOMAIN sections :
                                /\ sections[s].path = path
                                /\ \A t \in 1 .. s - 1 : sections[t].path # path
    BY DEF SectionOfPath
  <2>3. First(SectionOfPath(path))
    <3> HIDE DEF path
    <3> QED
      BY <1>4, <2>2, Zenon
  <2> QED
    BY <2>3
<1>6. ck = [section |-> s, text |-> TextOfParts(current),
            groups |-> {current[i].group : i \in DOMAIN current}]
  BY <1>5 DEF MakeChunk
<1>7. {current[i].group : i \in DOMAIN current} = {p.group : p \in ToSet(current)}
  BY DEF ToSet
<1>8. \A p \in ToSet(current) : p.group \in Group
  <2>1. \A i \in DOMAIN current : current[i] \in Part
    BY <1>1, LenProperties, ElementOfSeq
  <2>2. \A p \in ToSet(current) : p \in Part
    BY <2>1 DEF ToSet
  <2> QED
    BY <2>2 DEF Part
<1>9. TextOfParts(current) \in Seq(Tokens)
  BY <1>1, TextOfPartsIs
<1>10. s \in 1 .. n /\ sections[s].path = path
  BY <1>1, <1>5
<1> DEFINE gs == {p.group : p \in ToSet(current)}
           text == TextOfParts(current)
<1>11. gs \in SUBSET Group
  BY <1>8
<1>12. ck = [section |-> s, text |-> text, groups |-> gs]
  BY <1>6, <1>7
<1> HIDE DEF gs, text, ck, n
<1>13. ck \in Chunk
  BY <1>9, <1>10, <1>11, <1>12 DEF Chunk, text
<1>14. ck.section = s /\ ck.text = text /\ ck.groups = gs
  BY <1>12
<1>15. PathsDiffer => s = taken
  BY <1>1, <1>3, <1>10 DEF PathsDiffer
<1> QED
  BY <1>3, <1>13, <1>14, <1>15 DEF ck, text, gs, n

(* The chunk that is closed: one section, and too long only with an element. *)
Full(a, b) ==
  /\ Len(a) + Len(b) > Target
  /\ Len(a) < MinFill => Len(a) + Len(b) > HardMax

ChunkFits(ck) ==
  /\ \A g \in ck.groups : g.section \in 1 .. taken
  /\ InOneSection(ck)
  /\ PathsDiffer => \A g \in ck.groups : g.section = ck.section
  /\ Len(ck.text) > HardMax => \E g \in ck.groups : ck.groups = {g} /\ Dependency(g)

(* A chunk and what comes after it in its section would not fit together: that *)
(* holds of the chunks, and of the last one and the parts of the next.        *)
ChunksFit ==
  /\ \A c \in 1 .. Len(chunks) : ChunkFits(chunks[c])
  /\ \A c \in 1 .. Len(chunks) : c + 1 \in 1 .. Len(chunks) =>
       \A g \in chunks[c].groups, h \in chunks[c + 1].groups :
         g.section = h.section => Full(chunks[c].text, chunks[c + 1].text)
  /\ chunks # <<>> /\ current # <<>> =>
       \A g \in chunks[Len(chunks)].groups :
         g.section = taken => Full(chunks[Len(chunks)].text, TextOfParts(current))
  /\ todo # <<>> /\ current = <<>> =>
       \A c \in 1 .. Len(chunks) : \A g \in chunks[c].groups : g.section # taken

(* Init, and the steps that add no chunk. *)
LEMMA StageSteps ==
  ASSUME PackInv, TreeInv', Next,
         PlaceHeading \/ PlaceFrontMatter \/ PlaceBlock \/ BuildGroups \/ Finish
  PROVE  PackInv' /\ UNCHANGED <<doc, chunkVars>>
<1>1. UNCHANGED <<doc, taken, todo, current, chunks>>
  BY DEF PlaceHeading, PlaceFrontMatter, PlaceBlock, BuildGroups, Finish, chunkVars, treeVars
<1>2. PartsInv'
  BY <1>1 DEF PackInv, PartsInv, Piece
<1>3. ChunkType'
  BY <1>1 DEF PackInv, ChunkType
<1>4. StageInv'
  <2>1. CASE PlaceHeading \/ PlaceFrontMatter \/ PlaceBlock
    <3>1. placed < Len(doc) /\ groups' = groups /\ stage' = stage
      BY <2>1 DEF PlaceHeading, PlaceFrontMatter, PlaceBlock
    <3>2. placed \in 0 .. Len(doc) /\ Len(doc) \in Nat
      BY LenProperties DEF PackInv, TreeInv, TreeType
    <3>3. stage = "sections"
      BY <3>1, <3>2 DEF PackInv, StageInv
    <3>4. 0 \in 0 .. Len(sections')
      BY LenProperties DEF TreeInv, TreeType
    <3> QED
      BY <1>1, <3>1, <3>3, <3>4 DEF PackInv, StageInv
  <2>2. CASE BuildGroups
    <3>1. /\ stage = "sections" /\ placed = Len(doc) /\ stage' = "groups"
          /\ placed' = placed /\ sections' = sections
          /\ groups' = FlattenSeq([s \in DOMAIN sections |-> GroupsOf(s)])
      BY <2>2 DEF BuildGroups, treeVars
    <3>2. PICK gs : gs = groups'
      OBVIOUS
    <3>3. GroupsHold(gs)
      BY <3>1, <3>2, GroupsBuilt DEF PackInv
    <3>4. GroupsHold(gs)'
      BY <1>1, <3>1, <3>3, GroupsFrame
    <3>5. GroupsHold(groups)'
      BY <3>2, <3>4
    <3> QED
      BY <1>1, <3>1, <3>5 DEF PackInv, StageInv, Stage
  <2>3. CASE Finish
    <3>1. /\ stage = "groups" /\ todo = <<>> /\ current = <<>> /\ taken = Len(sections)
          /\ stage' = "chunks" /\ placed' = placed /\ sections' = sections /\ groups' = groups
      BY <2>3 DEF Finish, treeVars
    <3>2. PICK gs : gs = groups
      OBVIOUS
    <3>3. GroupsHold(gs)
      BY <3>1, <3>2 DEF PackInv, StageInv
    <3>4. GroupsHold(gs)'
      BY <1>1, <3>1, <3>3, GroupsFrame
    <3>5. GroupsHold(groups)'
      BY <3>1, <3>2, <3>4
    <3> QED
      BY <1>1, <3>1, <3>5 DEF PackInv, StageInv, Stage
  <2> QED
    BY <2>1, <2>2, <2>3
<1> QED
  BY <1>1, <1>2, <1>3, <1>4 DEF PackInv, chunkVars

LEMMA ChunkFrame ==
  ASSUME PackInv, TakeSection \/ AddPart \/ StartChunk \/ EndSection
  PROVE  /\ doc' = doc /\ placed' = placed /\ sections' = sections /\ stack' = stack
         /\ groups' = groups /\ stage' = stage /\ stage = "groups"
         /\ TreeInv' /\ StageInv' /\ GroupsHold(groups)
         /\ taken \in 0 .. Len(sections) /\ Len(sections) \in Nat
<1>1. /\ doc' = doc /\ placed' = placed /\ sections' = sections /\ stack' = stack
      /\ groups' = groups /\ stage' = stage
  BY DEF TakeSection, AddPart, StartChunk, EndSection, treeVars
<1>2. TreeInv'
  BY <1>1, TreeFrame DEF PackInv
<1>3. stage = "groups"
  BY DEF PackInv, StageInv, Stage, TakeSection, AddPart, StartChunk, EndSection
<1>4. taken \in 0 .. Len(sections) /\ Len(sections) \in Nat /\ GroupsHold(groups)
      /\ placed = Len(doc)
  BY <1>3, LenProperties DEF PackInv, StageInv, TreeInv, TreeType
<1>5. PICK gs : gs = groups
  OBVIOUS
<1>6. GroupsHold(gs)
  BY <1>4, <1>5
<1>7. GroupsHold(gs)'
  BY <1>1, <1>6, GroupsFrame
<1>8. GroupsHold(groups)'
  BY <1>1, <1>5, <1>7
<1>9. taken' \in 0 .. Len(sections')
  BY <1>1, <1>4 DEF TakeSection, AddPart, StartChunk, EndSection
<1>10. StageInv'
  BY <1>1, <1>3, <1>4, <1>8, <1>9 DEF StageInv, Stage
<1> QED
  BY <1>1, <1>2, <1>3, <1>4, <1>10

LEMMA TakeStep ==
  ASSUME PackInv, ChunksFit, TakeSection
  PROVE  PackInv' /\ ChunksFit'
<1>1. /\ sections' = sections /\ TreeInv' /\ StageInv'
      /\ taken \in 0 .. Len(sections) /\ Len(sections) \in Nat
  BY ChunkFrame
<1>2. /\ taken' = taken + 1 /\ current = <<>> /\ current' = <<>> /\ chunks' = chunks
      /\ todo = <<>>
  BY DEF TakeSection
<1>3. /\ todo' \in Seq(Part)
      /\ \A p \in ToSet(todo') : /\ p.group.section = taken + 1
                                 /\ Len(p.text) <= HardMax \/ Dependency(p.group)
  BY TakenParts DEF PackInv
<1>4. PartsInv'
  <2>1. Len(TextOfParts(<<>>)) <= HardMax
    BY NoParts, HardMaxNat
  <2>2. ToSet(<<>>) = {} /\ <<>> \in Seq(Part)
    BY NoParts
  <2>3. taken + 1 > 0
    BY <1>1
  <2> QED
    BY <1>2, <1>3, <2>1, <2>2, <2>3 DEF PartsInv, Piece
<1>5. ChunkType'
  BY <1>2 DEF PackInv, ChunkType
<1>6. ChunksFit'
  <2>1. ASSUME NEW c \in 1 .. Len(chunks)
        PROVE  ChunkFits(chunks[c])' /\ \A g \in chunks[c].groups : g.section # taken'
    <3>1. ChunkFits(chunks[c])
      BY DEF ChunksFit
    <3>2. \A g \in chunks[c].groups : g.section \in 1 .. taken' /\ g.section # taken'
      BY <1>1, <1>2, <3>1 DEF ChunkFits
    <3>3. PathsDiffer' <=> PathsDiffer
      BY <1>1 DEF PathsDiffer
    <3>4. chunks'[c] = chunks[c]
      BY <1>2
    <3> QED
      BY <3>1, <3>2, <3>3, <3>4 DEF ChunkFits, InOneSection
  <2>2. \A c \in 1 .. Len(chunks') : ChunkFits(chunks[c])'
    BY <1>2, <2>1
  <2>3. \A c \in 1 .. Len(chunks') : \A g \in chunks'[c].groups : g.section # taken'
    BY <1>2, <2>1
  <2>4. \A c \in 1 .. Len(chunks') : c + 1 \in 1 .. Len(chunks') =>
          \A g \in chunks'[c].groups, h \in chunks'[c + 1].groups :
            g.section = h.section => Full(chunks'[c].text, chunks'[c + 1].text)
    BY <1>2 DEF ChunksFit
  <2>5. current' = <<>>
    BY <1>2
  <2> QED
    BY <2>2, <2>3, <2>4, <2>5 DEF ChunksFit, Full
<1> QED
  BY <1>1, <1>4, <1>5, <1>6 DEF PackInv

LEMMA AddStep ==
  ASSUME PackInv, ChunksFit, AddPart
  PROVE  PackInv' /\ ChunksFit'
<1> DEFINE p == Head(todo)
<1>1. /\ sections' = sections /\ TreeInv' /\ StageInv'
  BY ChunkFrame
<1>2. /\ todo # <<>> /\ Fits(p) /\ current' = Append(current, p) /\ todo' = Tail(todo)
      /\ taken' = taken /\ chunks' = chunks
  BY DEF AddPart
<1>3. /\ todo \in Seq(Part) /\ current \in Seq(Part)
      /\ \A q \in ToSet(todo) \cup ToSet(current) : Piece(q)
      /\ \/ Len(TextOfParts(current)) <= HardMax
         \/ \E q \in Part : current = <<q>> /\ Dependency(q.group)
  BY DEF PackInv, PartsInv
<1>4. p \in Part /\ todo' \in Seq(Part) /\ ToSet(todo) = {p} \cup ToSet(todo')
  BY <1>2, <1>3, HeadMembers
<1> HIDE DEF p
<1>5. current' \in Seq(Part) /\ current' # <<>> /\ ToSet(current') = ToSet(current) \cup {p}
  BY <1>2, <1>3, <1>4, AppendProperties, AppendMembers
<1>6. /\ Len(TextOfParts(current')) = Len(TextOfParts(current)) + Len(p.text)
      /\ Len(TextOfParts(current)) \in Nat /\ Len(p.text) \in Nat
  BY <1>2, <1>3, <1>4, MoreParts
<1>7. \/ current = <<>>
      \/ Len(TextOfParts(current)) + Len(p.text) <= Target
      \/ Len(TextOfParts(current)) + Len(p.text) <= HardMax
  BY <1>2 DEF Fits
<1>8. \A q \in ToSet(todo') \cup ToSet(current') : Piece(q)'
  BY <1>2, <1>3, <1>4, <1>5 DEF Piece
<1>9. \/ Len(TextOfParts(current')) <= HardMax
      \/ \E q \in Part : current' = <<q>> /\ Dependency(q.group)
  <2>1. CASE current = <<>>
    <3>1. current' = <<p>>
      BY <1>2, <2>1
    <3>2. Len(p.text) <= HardMax \/ Dependency(p.group)
      BY <1>3, <1>4 DEF Piece
    <3>3. TextOfParts(current') = p.text
      BY <1>4, <3>1, OnePart
    <3> QED
      BY <1>4, <3>1, <3>2, <3>3
  <2>2. CASE current # <<>>
    BY <1>6, <1>7, <2>2, LimitsAssumption
  <2> QED
    BY <2>1, <2>2
<1>10. PartsInv'
  BY <1>4, <1>5, <1>8, <1>9 DEF PartsInv
<1>11. ChunkType'
  BY <1>2 DEF PackInv, ChunkType
<1>12. ChunksFit'
  <2>1. ASSUME NEW c \in 1 .. Len(chunks) PROVE ChunkFits(chunks[c])'
    <3>1. PathsDiffer' <=> PathsDiffer
      BY <1>1 DEF PathsDiffer
    <3> QED
      BY <1>2, <3>1 DEF ChunksFit, ChunkFits, InOneSection
  <2>2. ASSUME chunks # <<>>, NEW g \in chunks[Len(chunks)].groups, g.section = taken
        PROVE  Full(chunks[Len(chunks)].text, TextOfParts(current'))
    <3>1. Len(chunks) \in 1 .. Len(chunks) /\ chunks[Len(chunks)] \in Chunk
      BY <2>2, EmptySeq, ElementOfSeq DEF PackInv, ChunkType
    <3>2. current # <<>>
      BY <1>2, <2>2, <3>1 DEF ChunksFit
    <3>3. Full(chunks[Len(chunks)].text, TextOfParts(current))
      BY <2>2, <3>2 DEF ChunksFit
    <3>4. Len(chunks[Len(chunks)].text) \in Nat
      BY <3>1, LenProperties DEF Chunk
    <3> DEFINE a == Len(chunks[Len(chunks)].text)
               x == Len(TextOfParts(current))
               y == Len(p.text)
               z == Len(TextOfParts(current'))
    <3>5. a + x > Target /\ (a < MinFill => a + x > HardMax)
      BY <3>3 DEF Full
    <3>6. z = x + y /\ a \in Nat /\ x \in Nat /\ y \in Nat
      BY <1>6, <3>4
    <3> HIDE DEF a, x, y, z
    <3>7. a + z > Target /\ (a < MinFill => a + z > HardMax)
      BY <3>5, <3>6, HardMaxNat
    <3> QED
      BY <3>7 DEF Full, a, z
  <2> QED
    BY <1>2, <1>5, <2>1, <2>2 DEF ChunksFit, Full
<1> QED
  BY <1>1, <1>10, <1>11, <1>12 DEF PackInv

(* A chunk is closed: it fits, and so does what comes before it. *)
LEMMA CloseChunk ==
  ASSUME PackInv, ChunksFit, current # <<>>, taken' = taken, sections' = sections,
         chunks' = Append(chunks, MakeChunk(current))
  PROVE  LET ck == MakeChunk(current)
             n == Len(chunks)
         IN  /\ chunks' \in Seq(Chunk) /\ Len(chunks') = n + 1 /\ n \in Nat
             /\ chunks'[n + 1] = ck /\ \A c \in 1 .. n : chunks'[c] = chunks[c]
             /\ \A c \in 1 .. n + 1 : ChunkFits(chunks[c])'
             /\ \A c \in 1 .. n + 1 : c + 1 \in 1 .. n + 1 =>
                  \A g \in chunks'[c].groups, h \in chunks'[c + 1].groups :
                    g.section = h.section => Full(chunks'[c].text, chunks'[c + 1].text)
             /\ ck.text = TextOfParts(current) /\ ck \in Chunk
             /\ \A g \in ck.groups : g.section = taken
<1> DEFINE n == Len(chunks)
<1>1. PICK ck : ck = MakeChunk(current)
  OBVIOUS
<1>2. /\ ck \in Chunk /\ ck.text = TextOfParts(current)
      /\ ck.groups = {p.group : p \in ToSet(current)}
      /\ PathsDiffer => ck.section = taken
      /\ taken \in 1 .. Len(sections)
  BY <1>1, MadeChunk
<1>3. /\ chunks \in Seq(Chunk) /\ current \in Seq(Part)
      /\ \A p \in ToSet(current) : Piece(p)
      /\ \/ Len(TextOfParts(current)) <= HardMax
         \/ \E p \in Part : current = <<p>> /\ Dependency(p.group)
      /\ sections \in Seq(Section)
  BY DEF PackInv, ChunkType, PartsInv, TreeInv, TreeType
<1>4. PICK new : new = chunks'
  OBVIOUS
<1>5. /\ new \in Seq(Chunk) /\ Len(new) = n + 1 /\ n \in Nat
      /\ new[n + 1] = ck /\ \A c \in 1 .. n : new[c] = chunks[c]
  BY <1>1, <1>2, <1>3, <1>4, AppendProperties, LenProperties
<1>6. \A g \in ck.groups : g.section = taken
  BY <1>2, <1>3 DEF Piece
<1>7. taken \in 1 .. taken
  BY <1>2
<1>8. Len(ck.text) > HardMax => \E g \in ck.groups : ck.groups = {g} /\ Dependency(g)
  <2> SUFFICES ASSUME Len(ck.text) > HardMax
               PROVE  \E g \in ck.groups : ck.groups = {g} /\ Dependency(g)
    OBVIOUS
  <2>1. Len(TextOfParts(current)) \in Nat
    BY <1>3, TextOfPartsIs, LenProperties
  <2>2. PICK p \in Part : current = <<p>> /\ Dependency(p.group)
    BY <1>2, <1>3, <2>1, HardMaxNat
  <2>3. ToSet(current) = {p}
    BY <2>2, OneMember
  <2>4. ck.groups = {p.group}
    BY <1>2, <2>3
  <2> QED
    BY <2>2, <2>4
<1>9. PathsDiffer' <=> PathsDiffer
  BY DEF PathsDiffer
<1>10. ChunkFits(ck)'
  BY <1>2, <1>6, <1>7, <1>8, <1>9 DEF ChunkFits, InOneSection
<1>11. ASSUME NEW c \in 1 .. n PROVE ChunkFits(chunks[c]) /\ ChunkFits(new[c])'
  <2>1. PICK old : old = chunks[c]
    OBVIOUS
  <2>2. ChunkFits(old)
    BY <2>1 DEF ChunksFit
  <2>3. ChunkFits(old)'
    BY <1>9, <2>2 DEF ChunkFits
  <2>4. old = new[c]
    BY <1>5, <2>1
  <2> QED
    BY <2>1, <2>2, <2>3, <2>4
<1>12. ASSUME NEW c \in 1 .. n + 1 PROVE ChunkFits(new[c])'
  BY <1>5, <1>10, <1>11
<1>13. ASSUME NEW c \in 1 .. n + 1, c + 1 \in 1 .. n + 1,
              NEW g \in new[c].groups, NEW h \in new[c + 1].groups, g.section = h.section
       PROVE  Full(new[c].text, new[c + 1].text)
  <2>1. c \in 1 .. n /\ new[c] = chunks[c]
    BY <1>5, <1>13
  <2>2. CASE c + 1 \in 1 .. n
    BY <1>5, <1>13, <2>1, <2>2 DEF ChunksFit
  <2>3. CASE c = n
    <3>1. chunks # <<>>
      BY <1>5, <2>1, EmptySeq
    <3>2. new[c + 1] = ck /\ g.section = taken
      BY <1>5, <1>6, <1>13, <2>3
    <3>3. g \in chunks[Len(chunks)].groups
      BY <1>13, <2>1, <2>3
    <3>4. Full(chunks[Len(chunks)].text, TextOfParts(current))
      BY <3>1, <3>2, <3>3 DEF ChunksFit
    <3> QED
      BY <1>2, <2>1, <2>3, <3>2, <3>4
  <2> QED
    BY <1>5, <1>13, <2>1, <2>2, <2>3
<1>14. ASSUME NEW c \in 1 .. n + 1 PROVE ChunkFits(chunks[c])'
  <2>1. PICK x : x = new[c]
    OBVIOUS
  <2>2. ChunkFits(x)'
    BY <1>12, <2>1
  <2>3. x = chunks'[c]
    BY <1>4, <2>1
  <2> QED
    BY <2>2, <2>3
<1> QED
  BY <1>1, <1>2, <1>4, <1>5, <1>6, <1>13, <1>14

LEMMA StartStep ==
  ASSUME PackInv, ChunksFit, StartChunk
  PROVE  PackInv' /\ ChunksFit'
<1> DEFINE p == Head(todo)
           n == Len(chunks)
<1>1. /\ sections' = sections /\ TreeInv' /\ StageInv'
  BY ChunkFrame
<1>2. /\ todo # <<>> /\ ~ Fits(p) /\ current' = <<p>> /\ todo' = Tail(todo)
      /\ taken' = taken /\ chunks' = Append(chunks, MakeChunk(current))
  BY DEF StartChunk
<1>3. /\ todo \in Seq(Part) /\ current \in Seq(Part)
      /\ \A q \in ToSet(todo) \cup ToSet(current) : Piece(q)
  BY DEF PackInv, PartsInv
<1>4. p \in Part /\ todo' \in Seq(Part) /\ ToSet(todo) = {p} \cup ToSet(todo')
  BY <1>2, <1>3, HeadMembers
<1> HIDE DEF p
<1>5. current # <<>>
  BY <1>2 DEF Fits
<1>6. PICK ck : ck = MakeChunk(current)
  OBVIOUS
<1>7. /\ chunks' \in Seq(Chunk) /\ Len(chunks') = n + 1 /\ n \in Nat
      /\ chunks'[n + 1] = ck /\ \A c \in 1 .. n : chunks'[c] = chunks[c]
      /\ \A c \in 1 .. n + 1 : ChunkFits(chunks[c])'
      /\ \A c \in 1 .. n + 1 : c + 1 \in 1 .. n + 1 =>
           \A g \in chunks'[c].groups, h \in chunks'[c + 1].groups :
             g.section = h.section => Full(chunks'[c].text, chunks'[c + 1].text)
      /\ ck.text = TextOfParts(current) /\ ck \in Chunk
      /\ \A g \in ck.groups : g.section = taken
  BY <1>1, <1>2, <1>5, <1>6, CloseChunk
<1>8. /\ current' \in Seq(Part) /\ current' # <<>> /\ ToSet(current') = {p}
      /\ TextOfParts(current') = p.text
  BY <1>2, <1>4, OneMember, OnePart
<1>9. \A q \in ToSet(todo') \cup ToSet(current') : Piece(q)'
  BY <1>2, <1>3, <1>4, <1>8 DEF Piece
<1>10. PartsInv'
  <2>1. Len(p.text) <= HardMax \/ Dependency(p.group)
    BY <1>3, <1>4 DEF Piece
  <2> QED
    BY <1>2, <1>4, <1>8, <1>9, <2>1 DEF PartsInv
<1>11. ChunkType'
  BY <1>7 DEF ChunkType
<1>12. Full(ck.text, p.text)
  <2>1. /\ Len(TextOfParts(current)) \in Nat /\ Len(p.text) \in Nat
    BY <1>3, <1>4, MoreParts
  <2> DEFINE x == Len(TextOfParts(current))
             y == Len(p.text)
  <2>2. ~ (x + y <= Target) /\ ~ (x + y <= HardMax /\ x < MinFill)
    BY <1>2, <1>5 DEF Fits
  <2>3. x \in Nat /\ y \in Nat
    BY <2>1
  <2> HIDE DEF x, y
  <2>4. x + y > Target /\ (x < MinFill => x + y > HardMax)
    BY <2>2, <2>3, HardMaxNat
  <2> QED
    BY <1>7, <2>4 DEF Full, x, y
<1>13. chunks'[Len(chunks')] = ck
  BY <1>7
<1>14. ChunksFit'
  BY <1>2, <1>7, <1>8, <1>12, <1>13 DEF ChunksFit, Full
<1> QED
  BY <1>1, <1>10, <1>11, <1>14 DEF PackInv

LEMMA EndStep ==
  ASSUME PackInv, ChunksFit, EndSection
  PROVE  PackInv' /\ ChunksFit'
<1> DEFINE n == Len(chunks)
<1>1. /\ sections' = sections /\ TreeInv' /\ StageInv'
  BY ChunkFrame
<1>2. /\ todo = <<>> /\ todo' = todo /\ current # <<>> /\ current' = <<>>
      /\ taken' = taken /\ chunks' = Append(chunks, MakeChunk(current))
  BY DEF EndSection
<1>3. PICK ck : ck = MakeChunk(current)
  OBVIOUS
<1>4. /\ chunks' \in Seq(Chunk) /\ Len(chunks') = n + 1 /\ n \in Nat
      /\ \A c \in 1 .. n + 1 : ChunkFits(chunks[c])'
      /\ \A c \in 1 .. n + 1 : c + 1 \in 1 .. n + 1 =>
           \A g \in chunks'[c].groups, h \in chunks'[c + 1].groups :
             g.section = h.section => Full(chunks'[c].text, chunks'[c + 1].text)
  BY <1>1, <1>2, CloseChunk
<1>5. PartsInv'
  BY <1>2, NoParts, HardMaxNat, EmptySeq DEF PartsInv
<1>6. ChunkType'
  BY <1>4 DEF ChunkType
<1>7. ChunksFit'
  BY <1>2, <1>4 DEF ChunksFit, Full
<1> QED
  BY <1>1, <1>5, <1>6, <1>7 DEF PackInv

LEMMA PackInvariant == Spec => [](PackInv /\ ChunksFit)
<1>1. Init => PackInv /\ ChunksFit
  <2> SUFFICES ASSUME Init PROVE PackInv /\ ChunksFit
    OBVIOUS
  <2>1. /\ groups = <<>> /\ taken = 0 /\ todo = <<>> /\ current = <<>> /\ chunks = <<>>
        /\ stage = "sections" /\ sections = <<>>
    BY DEF Init
  <2>2. TreeInv
    BY InitTree
  <2>3. StageInv
    BY <2>1 DEF StageInv, Stage
  <2>4. PartsInv
    BY <2>1, NoParts, HardMaxNat, EmptySeq DEF PartsInv
  <2>5. ChunkType
    BY <2>1, EmptySeq DEF ChunkType
  <2>6. ChunksFit
    <3>1. \A c : ~ (c \in 1 .. Len(chunks))
      BY <2>1
    <3> QED
      BY <2>1, <3>1 DEF ChunksFit
  <2> QED
    BY <2>2, <2>3, <2>4, <2>5, <2>6 DEF PackInv
<1>2. TreeInv' /\ PackInv /\ ChunksFit /\ [Next]_vars => (PackInv /\ ChunksFit)'
  <2> SUFFICES ASSUME TreeInv', PackInv, ChunksFit, [Next]_vars PROVE (PackInv /\ ChunksFit)'
    OBVIOUS
  <2>1. CASE PlaceHeading \/ PlaceFrontMatter \/ PlaceBlock \/ BuildGroups \/ Finish
    <3>1. PackInv' /\ taken' = taken /\ todo' = todo /\ current' = current /\ chunks' = chunks
      BY <2>1, StageSteps DEF Next, chunkVars
    <3>2. ChunksFit'
      <4>1. CASE chunks = <<>> /\ todo = <<>>
        <5>1. \A c : ~ (c \in 1 .. Len(chunks'))
          BY <3>1, <4>1
        <5> QED
          BY <3>1, <4>1, <5>1 DEF ChunksFit
      <4>2. CASE ~ (chunks = <<>> /\ todo = <<>>)
        <5>1. sections' = sections
          BY <2>1, <4>2, LenProperties
          DEF PlaceHeading, PlaceFrontMatter, PlaceBlock, BuildGroups, Finish, treeVars,
              PackInv, StageInv, TreeInv, TreeType
        <5>2. PathsDiffer' <=> PathsDiffer
          BY <5>1 DEF PathsDiffer
        <5> QED
          BY <3>1, <5>2 DEF ChunksFit, ChunkFits
      <4> QED
        BY <4>1, <4>2
    <3> QED
      BY <3>1, <3>2
  <2>2. CASE TakeSection
    BY <2>2, TakeStep
  <2>3. CASE AddPart
    BY <2>3, AddStep
  <2>4. CASE StartChunk
    BY <2>4, StartStep
  <2>5. CASE EndSection
    BY <2>5, EndStep
  <2>6. CASE UNCHANGED vars
    <3>1. /\ doc' = doc /\ placed' = placed /\ sections' = sections /\ stack' = stack
          /\ groups' = groups /\ taken' = taken /\ todo' = todo /\ current' = current
          /\ chunks' = chunks /\ stage' = stage
      BY <2>6 DEF vars, treeVars, chunkVars
    <3>2. StageInv'
      <4>1. PICK gs : gs = groups
        OBVIOUS
      <4>2. GroupsHold(gs) => GroupsHold(gs)'
        BY <3>1, GroupsFrame
      <4>3. GroupsHold(groups) => GroupsHold(groups)'
        BY <3>1, <4>1, <4>2
      <4> QED
        BY <3>1, <4>3 DEF PackInv, StageInv
    <3>3. PartsInv' /\ ChunkType'
      BY <3>1 DEF PackInv, PartsInv, Piece, ChunkType
    <3>4. PathsDiffer' <=> PathsDiffer
      BY <3>1 DEF PathsDiffer
    <3>5. ChunksFit'
      BY <3>1, <3>4 DEF ChunksFit, ChunkFits
    <3> QED
      BY <3>2, <3>3, <3>5 DEF PackInv
  <2> QED
    BY <2>1, <2>2, <2>3, <2>4, <2>5, <2>6 DEF Next
<1> QED
  BY <1>1, <1>2, TreeInvariant, PTL DEF Spec

(* A chunk stays in one section and names it, it is above the hard limit only  *)
(* when it is one group of an element, and it is closed early only because     *)
(* what follows in its section would not fit (SemanticChunker.chunk): for all  *)
(* limits, however long the document and its sentences are.                   *)
THEOREM ChunksStayBounded == Spec => []ChunksAreBounded
<1>1. PackInv /\ ChunksFit => ChunksAreBounded
  <2> SUFFICES ASSUME PackInv, ChunksFit, NEW c \in DOMAIN chunks
               PROVE  LET ck == chunks[c]
                          next == chunks[c + 1]
                      IN  /\ InOneSection(ck)
                          /\ PathsDiffer => \A g \in ck.groups : g.section = ck.section
                          /\ Len(ck.text) > HardMax =>
                               \E g \in ck.groups : ck.groups = {g} /\ Dependency(g)
                          /\ c < Len(chunks) =>
                               \A g \in ck.groups, h \in next.groups :
                                 g.section = h.section =>
                                   /\ Len(ck.text) + Len(next.text) > Target
                                   /\ Len(ck.text) < MinFill =>
                                        Len(ck.text) + Len(next.text) > HardMax
    BY DEF ChunksAreBounded
  <2>1. chunks \in Seq(Chunk) /\ Len(chunks) \in Nat /\ DOMAIN chunks = 1 .. Len(chunks)
    BY LenProperties DEF PackInv, ChunkType
  <2>2. c \in 1 .. Len(chunks) /\ (c < Len(chunks) => c + 1 \in 1 .. Len(chunks))
    BY <2>1
  <2>3. ChunkFits(chunks[c])
    BY <2>2 DEF ChunksFit
  <2>4. c < Len(chunks) =>
          \A g \in chunks[c].groups, h \in chunks[c + 1].groups :
            g.section = h.section => Full(chunks[c].text, chunks[c + 1].text)
    BY <2>2 DEF ChunksFit
  <2> QED
    BY <2>3, <2>4 DEF ChunkFits, Full
<1> QED
  BY <1>1, PackInvariant, PTL

-----------------------------------------------------------------------------
(* The text of the chunks.                                                   *)

ChunkTexts(cs) == [c \in DOMAIN cs |-> cs[c].text]
ReadBlocks(ss, t) == FlattenSeq([s \in 1 .. t |-> ss[s].blocks])

LEMMA ChunkTextsAre ==
  ASSUME NEW cs \in Seq(Chunk)
  PROVE  ChunkTexts(cs) \in Seq(Seq(Tokens)) /\ Len(ChunkTexts(cs)) = Len(cs)
         /\ FlattenSeq(ChunkTexts(cs)) \in Seq(Tokens)
<1> DEFINE m == ChunkTexts(cs)
<1>1. /\ Len(cs) \in Nat /\ DOMAIN cs = 1 .. Len(cs)
      /\ \A c \in 1 .. Len(cs) : cs[c] \in Chunk
  BY LenProperties, ElementOfSeq
<1>2. \A c \in 1 .. Len(cs) : m[c] \in Seq(Tokens)
  BY <1>1 DEF ChunkTexts, Chunk
<1>3. m = [c \in 1 .. Len(cs) |-> m[c]]
  BY <1>1 DEF ChunkTexts
<1> HIDE DEF m
<1>4. m \in Seq(Seq(Tokens)) /\ Len(m) = Len(cs)
  BY <1>1, <1>2, <1>3, MapTyped
<1> QED
  BY <1>4, FlattenTyped DEF m

LEMMA MoreChunks ==
  ASSUME NEW cs \in Seq(Chunk), NEW ck \in Chunk
  PROVE  FlattenSeq(ChunkTexts(Append(cs, ck))) = FlattenSeq(ChunkTexts(cs)) \o ck.text
<1> DEFINE ds == Append(cs, ck)
           m == ChunkTexts(cs)
           k == ChunkTexts(ds)
<1>1. /\ ds \in Seq(Chunk) /\ Len(ds) = Len(cs) + 1 /\ Len(cs) \in Nat
      /\ (\A c \in 1 .. Len(cs) : ds[c] = cs[c]) /\ ds[Len(cs) + 1] = ck
      /\ DOMAIN cs = 1 .. Len(cs)
  BY AppendProperties, LenProperties
<1>2. DOMAIN ds = 1 .. Len(cs) + 1
  BY <1>1, LenProperties
<1> HIDE DEF ds
<1>3. m \in Seq(Seq(Tokens)) /\ Len(m) = Len(cs)
  BY ChunkTextsAre
<1>4. k \in Seq(Seq(Tokens)) /\ Len(k) = Len(cs) + 1
  BY <1>1, ChunkTextsAre
<1>5. (\A c \in 1 .. Len(cs) : k[c] = m[c]) /\ k[Len(cs) + 1] = ck.text
  BY <1>1, <1>2 DEF ChunkTexts
<1>6. ck.text \in Seq(Tokens)
  BY DEF Chunk
<1> HIDE DEF m, k
<1>7. k = Append(m, ck.text)
  BY <1>3, <1>4, <1>5, Extended
<1>8. FlattenSeq(k) = FlattenSeq(m) \o ck.text
  BY <1>3, <1>6, <1>7, FlattenAppend
<1> QED
  BY <1>8 DEF m, k, ds

LEMMA MoreText ==
  ASSUME doc \in Seq(Blocks), NEW a \in Seq(Places), NEW b \in Seq(Places)
  PROVE  a \o b \in Seq(Places) /\ TextOf(a \o b) = TextOf(a) \o TextOf(b)
<1> DEFINE h == BlockText
           ab == a \o b
<1>1. h \in Maps(Places, Tokens)
  BY BlockMaps
<1>2. ab \in Seq(Places)
  BY ConcatProperties
<1>3. Apply(h, a \o b) = Apply(h, a) \o Apply(h, b)
  <2> HIDE DEF h
  <2> QED
    BY <1>1, ApplyConcat
<1>4. TextOf(a) = Apply(h, a) /\ TextOf(b) = Apply(h, b)
  BY TextIs
<1> HIDE DEF ab
<1>5. TextOf(ab) = Apply(h, ab)
  BY <1>2, TextIs
<1> QED
  BY <1>2, <1>3, <1>4, <1>5 DEF ab

(* The blocks of the sections up to the t-th. *)
LEMMA ReadIs ==
  ASSUME TreeInv, NEW t \in 0 .. Len(sections)
  PROVE  /\ ReadBlocks(sections, t) \in Seq(Places)
         /\ t + 1 \in 1 .. Len(sections) =>
              TextOf(ReadBlocks(sections, t + 1)) =
                TextOf(ReadBlocks(sections, t)) \o TextOf(sections[t + 1].blocks)
<1> DEFINE upTo(n) == [s \in 1 .. n |-> sections[s].blocks]
<1>1. /\ doc \in Seq(Blocks) /\ sections \in Seq(Section) /\ Len(sections) \in Nat
  BY LenProperties DEF TreeInv, TreeType
<1>2. ASSUME NEW n \in 0 .. Len(sections)
      PROVE  upTo(n) \in Seq(Seq(Places)) /\ Len(upTo(n)) = n
  <2>1. \A s \in 1 .. n : sections[s].blocks \in Seq(Places)
    BY <1>1, SectionPlaces
  <2>2. n \in Nat
    BY <1>1
  <2> DEFINE m == upTo(n)
  <2>3. (\A s \in 1 .. n : m[s] \in Seq(Places)) /\ m = [s \in 1 .. n |-> m[s]]
    BY <2>1
  <2> HIDE DEF m
  <2>4. m \in Seq(Seq(Places)) /\ Len(m) = n
    BY <2>2, <2>3, MapTyped
  <2> QED
    BY <2>4 DEF m
<1>3. ReadBlocks(sections, t) = FlattenSeq(upTo(t))
  BY DEF ReadBlocks
<1>4. upTo(t) \in Seq(Seq(Places)) /\ Len(upTo(t)) = t
  BY <1>2
<1>5. FlattenSeq(upTo(t)) \in Seq(Places)
  <2> HIDE DEF upTo
  <2> QED
    BY <1>4, FlattenTyped
<1>6. ASSUME t + 1 \in 1 .. Len(sections)
      PROVE  TextOf(ReadBlocks(sections, t + 1)) =
               TextOf(ReadBlocks(sections, t)) \o TextOf(sections[t + 1].blocks)
  <2> DEFINE n == t + 1
             a == upTo(t)
             b == upTo(n)
             e == sections[n].blocks
  <2>1. n \in 0 .. Len(sections) /\ n \in 1 .. Len(sections) /\ t \in Nat
    BY <1>1, <1>6
  <2>2. b \in Seq(Seq(Places)) /\ Len(b) = n
    BY <1>2, <2>1
  <2>3. (\A s \in 1 .. t : b[s] = a[s]) /\ b[n] = e
    BY <2>1
  <2>4. ReadBlocks(sections, n) = FlattenSeq(b)
    BY DEF ReadBlocks
  <2>5. e \in Seq(Places)
    BY <2>1, SectionPlaces
  <2>6. a \in Seq(Seq(Places)) /\ Len(a) = t /\ FlattenSeq(a) \in Seq(Places)
    BY <1>4, <1>5
  <2> HIDE DEF a, b, e
  <2>7. b = Append(a, e)
    BY <2>1, <2>2, <2>3, <2>6, Extended
  <2>8. FlattenSeq(b) = FlattenSeq(a) \o e
    BY <2>5, <2>6, <2>7, FlattenAppend
  <2>9. TextOf(FlattenSeq(a) \o e) = TextOf(FlattenSeq(a)) \o TextOf(e)
    <3> DEFINE f == FlattenSeq(a)
    <3> HIDE DEF f
    <3>1. f \in Seq(Places)
      BY <2>6 DEF f
    <3>2. TextOf(f \o e) = TextOf(f) \o TextOf(e)
      BY <1>1, <2>5, <3>1, MoreText
    <3> QED
      BY <3>2 DEF f
  <2> QED
    BY <1>3, <2>4, <2>8, <2>9 DEF a, e
<1> QED
  BY <1>3, <1>5, <1>6

AllText(cs, cu, td) == FlattenSeq(ChunkTexts(cs)) \o TextOfParts(cu) \o TextOfParts(td)
ReadText == TextOf(ReadBlocks(sections, taken))

LEMMA KeepIs ==
  /\ ChunksKeepTheText <=> AllText(chunks, current, todo) = ReadText
  /\ ChunksKeepTheText' <=> AllText(chunks', current', todo') = ReadText'
BY DEF ChunksKeepTheText, AllText, ReadText, ReadBlocks, ChunkTexts, TextOfParts

LEMMA ReadFrame ==
  ASSUME doc' = doc, sections' = sections, taken' = taken
  PROVE  ReadText' = ReadText
<1>1. ASSUME NEW blocks PROVE TextOf(blocks)' = TextOf(blocks)
  BY DEF TextOf, Sentences
<1>2. PICK blocks : blocks = ReadBlocks(sections, taken)
  OBVIOUS
<1>3. ReadText = TextOf(blocks) /\ ReadText' = TextOf(blocks)'
  BY <1>2 DEF ReadText
<1> QED
  BY <1>1, <1>3

(* Before the groups are built there is nothing to keep. *)
LEMMA NothingRead ==
  ASSUME taken' = 0, todo' = <<>>, current' = <<>>, chunks' = <<>>
  PROVE  ChunksKeepTheText'
<1>1. ChunkTexts(<<>>) = <<>> /\ TextOfParts(<<>>) = <<>>
  BY NoParts DEF ChunkTexts
<1>2. AllText(<<>>, <<>>, <<>>) = <<>>
  BY <1>1, FlattenEmpty, EmptySeq, ConcatEmptySeq DEF AllText
<1>3. \A ss : ReadBlocks(ss, 0) = <<>>
  <2>1. \A ss : [s \in 1 .. 0 |-> ss[s].blocks] = <<>>
    OBVIOUS
  <2> QED
    BY <2>1, FlattenEmpty DEF ReadBlocks
<1>4. TextOf(<<>>)' = <<>>
  <2>1. [i \in DOMAIN <<>> |-> FlattenSeq(Sentences(<<>>[i]))]' = <<>>
    OBVIOUS
  <2> QED
    BY <2>1, FlattenEmpty DEF TextOf
<1>5. ReadText' = <<>>
  BY <1>3, <1>4 DEF ReadText
<1> QED
  BY <1>2, <1>5, KeepIs

LEMMA Regroup ==
  \A x, y, z \in Seq(Tokens) : (x \o y) \o z = x \o (y \o z)
BY ConcatAssociative

LEMMA KeepSteps ==
  ASSUME PackInv, ChunksKeepTheText, TakeSection \/ AddPart \/ StartChunk \/ EndSection
  PROVE  ChunksKeepTheText'
<1>1. /\ doc' = doc /\ sections' = sections /\ TreeInv
      /\ taken \in 0 .. Len(sections) /\ Len(sections) \in Nat
  BY ChunkFrame DEF PackInv
<1>2. /\ chunks \in Seq(Chunk) /\ current \in Seq(Part) /\ todo \in Seq(Part)
  BY DEF PackInv, ChunkType, PartsInv
<1> DEFINE a == FlattenSeq(ChunkTexts(chunks))
           b == TextOfParts(current)
           c == TextOfParts(todo)
<1>3. a \in Seq(Tokens) /\ b \in Seq(Tokens) /\ c \in Seq(Tokens)
  BY <1>2, ChunkTextsAre, TextOfPartsIs
<1>4. a \o b \o c = ReadText
  BY KeepIs DEF AllText
<1>5. CASE TakeSection
  <2>1. /\ taken' = taken + 1 /\ todo = <<>> /\ current = <<>> /\ current' = <<>>
        /\ chunks' = chunks
    BY <1>5 DEF TakeSection
  <2>2. /\ taken + 1 \in 1 .. Len(sections)
        /\ TextOfParts(todo') = TextOf(sections[taken + 1].blocks)
    BY <1>5, TakenParts DEF PackInv
  <2>3. TextOf(ReadBlocks(sections, taken + 1)) = ReadText \o TextOf(sections[taken + 1].blocks)
    BY <1>1, <2>2, ReadIs DEF ReadText
  <2>4. ReadText' = TextOf(ReadBlocks(sections, taken + 1))
    <3>1. ASSUME NEW blocks PROVE TextOf(blocks)' = TextOf(blocks)
      BY <1>1 DEF TextOf, Sentences
    <3>2. PICK blocks : blocks = ReadBlocks(sections, taken + 1)
      OBVIOUS
    <3>3. blocks = ReadBlocks(sections', taken')
      BY <1>1, <2>1, <3>2
    <3>4. ReadText' = TextOf(blocks)'
      BY <3>3 DEF ReadText
    <3> QED
      BY <3>1, <3>2, <3>4
  <2>5. b = <<>> /\ c = <<>> /\ TextOfParts(current') = <<>>
    BY <2>1, NoParts
  <2>6. AllText(chunks', current', todo') = a \o <<>> \o TextOfParts(todo')
    BY <2>1, <2>5 DEF AllText
  <2> HIDE DEF a, b, c
  <2>7. a \o <<>> = a
    BY <1>3, ConcatEmptySeq
  <2>8. a = ReadText
    BY <1>4, <2>5, <2>7
  <2> QED
    BY <2>2, <2>3, <2>4, <2>6, <2>7, <2>8, KeepIs
<1>6. CASE AddPart
  <2> DEFINE p == Head(todo)
             d == TextOfParts(Tail(todo))
  <2>1. /\ todo # <<>> /\ current' = Append(current, p) /\ todo' = Tail(todo)
        /\ taken' = taken /\ chunks' = chunks
    BY <1>6 DEF AddPart
  <2>2. p \in Part /\ Tail(todo) \in Seq(Part)
    BY <1>2, <2>1, HeadMembers
  <2>3. TextOfParts(current') = b \o p.text /\ p.text \in Seq(Tokens)
    <3> HIDE DEF p
    <3> QED
      BY <1>2, <2>1, <2>2, MoreParts
  <2>4. c = p.text \o d /\ d \in Seq(Tokens)
    BY <1>2, <2>1, <2>2, FirstPart, TextOfPartsIs
  <2>5. AllText(chunks', current', todo') = (a \o (b \o p.text)) \o d
    BY <2>1, <2>3 DEF AllText
  <2> HIDE DEF a, b, c, d, p
  <2> DEFINE t == p.text
  <2>6. t \in Seq(Tokens)
    BY <2>3
  <2> HIDE DEF t
  <2>7. a \o (b \o t) = (a \o b) \o t
    <3>1. a \in Seq(Tokens) /\ b \in Seq(Tokens)
      BY <1>3
    <3> QED
      BY <2>6, <3>1, Regroup
  <2>8. a \o b \in Seq(Tokens)
    BY <1>3, ConcatProperties
  <2>9. ((a \o b) \o t) \o d = (a \o b) \o (t \o d)
    <3>1. d \in Seq(Tokens)
      BY <2>4
    <3> QED
      BY <2>6, <2>8, <3>1, Regroup
  <2>10. ReadText' = ReadText
    BY <1>1, <2>1, ReadFrame
  <2> QED
    BY <1>4, <2>4, <2>5, <2>7, <2>9, <2>10, KeepIs DEF t
<1>7. CASE StartChunk
  <2> DEFINE p == Head(todo)
             d == TextOfParts(Tail(todo))
             ck == MakeChunk(current)
  <2>1. /\ todo # <<>> /\ current' = <<p>> /\ todo' = Tail(todo)
        /\ taken' = taken /\ chunks' = Append(chunks, ck) /\ current # <<>>
    BY <1>7 DEF StartChunk, Fits
  <2>2. p \in Part /\ Tail(todo) \in Seq(Part)
    BY <1>2, <2>1, HeadMembers
  <2>3. TextOfParts(current') = p.text
    <3> HIDE DEF p
    <3> QED
      BY <2>1, <2>2, OnePart
  <2>4. c = p.text \o d /\ d \in Seq(Tokens)
    BY <1>2, <2>1, <2>2, FirstPart, TextOfPartsIs
  <2>5. ck \in Chunk /\ ck.text = b
    BY <2>1, MadeChunk
  <2> HIDE DEF ck
  <2>6. FlattenSeq(ChunkTexts(chunks')) = a \o b
    BY <1>2, <2>1, <2>5, MoreChunks
  <2>7. AllText(chunks', current', todo') = ((a \o b) \o p.text) \o d
    BY <2>1, <2>3, <2>6 DEF AllText
  <2>8. p.text \in Seq(Tokens)
    BY <2>2 DEF Part, Tokens
  <2> HIDE DEF a, b, c, d, p
  <2> DEFINE t == p.text
  <2>9. t \in Seq(Tokens)
    BY <2>8
  <2> HIDE DEF t
  <2>10. a \o b \in Seq(Tokens)
    BY <1>3, ConcatProperties
  <2>11. ((a \o b) \o t) \o d = (a \o b) \o (t \o d)
    <3>1. d \in Seq(Tokens)
      BY <2>4
    <3> QED
      BY <2>9, <2>10, <3>1, Regroup
  <2>12. ReadText' = ReadText
    BY <1>1, <2>1, ReadFrame
  <2> QED
    BY <1>4, <2>4, <2>7, <2>11, <2>12, KeepIs DEF t
<1>8. CASE EndSection
  <2> DEFINE ck == MakeChunk(current)
  <2>1. /\ todo = <<>> /\ current' = <<>> /\ todo' = todo
        /\ taken' = taken /\ chunks' = Append(chunks, ck) /\ current # <<>>
    BY <1>8 DEF EndSection
  <2>2. ck \in Chunk /\ ck.text = b
    BY <2>1, MadeChunk
  <2> HIDE DEF ck
  <2>3. FlattenSeq(ChunkTexts(chunks')) = a \o b
    BY <1>2, <2>1, <2>2, MoreChunks
  <2>4. TextOfParts(current') = <<>>
    BY <2>1, NoParts
  <2>5. AllText(chunks', current', todo') = ((a \o b) \o <<>>) \o c
    BY <2>1, <2>3, <2>4 DEF AllText
  <2> HIDE DEF a, b, c
  <2>6. a \o b \in Seq(Tokens)
    BY <1>3, ConcatProperties
  <2> DEFINE ab == a \o b
  <2>7. ab \o <<>> = ab
    <3> HIDE DEF ab
    <3>1. ab \in Seq(Tokens)
      BY <2>6 DEF ab
    <3> QED
      BY <3>1, ConcatEmptySeq
  <2>8. ReadText' = ReadText
    BY <1>1, <2>1, ReadFrame
  <2> QED
    BY <1>4, <2>5, <2>7, <2>8, KeepIs
<1> QED
  BY <1>5, <1>6, <1>7, <1>8

(* The chunks, the next one and what is still to come are the text of the      *)
(* sections taken up: no token is lost, doubled or moved by grouping,          *)
(* splitting and packing, for every document and all limits.                  *)
THEOREM TextIsKept == Spec => []ChunksKeepTheText
<1>1. Init => ChunksKeepTheText
  <2> SUFFICES ASSUME Init PROVE AllText(chunks, current, todo) = ReadText
    BY KeepIs
  <2>1. taken = 0 /\ todo = <<>> /\ current = <<>> /\ chunks = <<>>
    BY DEF Init
  <2>2. ChunkTexts(<<>>) = <<>> /\ TextOfParts(<<>>) = <<>>
    BY NoParts DEF ChunkTexts
  <2>3. AllText(<<>>, <<>>, <<>>) = <<>>
    BY <2>2, FlattenEmpty, EmptySeq, ConcatEmptySeq DEF AllText
  <2>4. ReadBlocks(sections, 0) = <<>>
    <3>1. [s \in 1 .. 0 |-> sections[s].blocks] = <<>>
      OBVIOUS
    <3> QED
      BY <3>1, FlattenEmpty DEF ReadBlocks
  <2>5. TextOf(<<>>) = <<>>
    <3>1. [i \in DOMAIN <<>> |-> FlattenSeq(Sentences(<<>>[i]))] = <<>>
      OBVIOUS
    <3> QED
      BY <3>1, FlattenEmpty DEF TextOf
  <2> QED
    BY <2>1, <2>3, <2>4, <2>5 DEF ReadText
<1>2. PackInv /\ PackInv' /\ ChunksKeepTheText /\ [Next]_vars => ChunksKeepTheText'
  <2> SUFFICES ASSUME PackInv, PackInv', ChunksKeepTheText, [Next]_vars
               PROVE  ChunksKeepTheText'
    OBVIOUS
  <2>1. CASE PlaceHeading \/ PlaceFrontMatter \/ PlaceBlock \/ BuildGroups
    <3>1. UNCHANGED <<doc, taken, todo, current, chunks>>
      BY <2>1, StageSteps DEF Next, PackInv, chunkVars
    <3>2. placed \in 0 .. Len(doc) /\ Len(doc) \in Nat
      BY LenProperties DEF PackInv, TreeInv, TreeType
    <3>3. stage = "sections"
      BY <2>1, <3>2 DEF PackInv, StageInv, PlaceHeading, PlaceFrontMatter, PlaceBlock,
                        BuildGroups
    <3>4. taken = 0 /\ todo = <<>> /\ current = <<>> /\ chunks = <<>>
      BY <3>3 DEF PackInv, StageInv
    <3> QED
      BY <3>1, <3>4, NothingRead
  <2>2. CASE Finish \/ UNCHANGED vars
    <3>1. UNCHANGED <<doc, sections, taken, todo, current, chunks>>
      BY <2>2 DEF Finish, vars, treeVars, chunkVars
    <3>2. ReadText' = ReadText
      BY <3>1, ReadFrame
    <3>3. AllText(chunks', current', todo') = AllText(chunks, current, todo)
      BY <3>1
    <3> QED
      BY <3>2, <3>3, KeepIs
  <2>3. CASE TakeSection \/ AddPart \/ StartChunk \/ EndSection
    BY <2>3, KeepSteps
  <2> QED
    BY <2>1, <2>2, <2>3 DEF Next
<1> QED
  BY <1>1, <1>2, PackInvariant, PTL DEF Spec

-----------------------------------------------------------------------------
(* The groups of elements.                                                   *)

(* The text t of the group g is a part that waits, or all in one chunk. *)
Kept(g, t, td, cu, cs) ==
  \/ \E p \in ToSet(td) \cup ToSet(cu) : p.group = g /\ p.text = t
  \/ \E c \in 1 .. Len(cs) : ToSet(t) \subseteq ToSet(cs[c].text)

DependentsKept ==
  \A g \in ToSet(groups) :
    Dependency(g) /\ g.section \in 1 .. taken =>
      Kept(g, TextOf(g.blocks), todo, current, chunks)

LEMMA ClosedText ==
  ASSUME PackInv, current # <<>>, chunks' = Append(chunks, MakeChunk(current))
  PROVE  /\ Len(chunks') = Len(chunks) + 1 /\ Len(chunks) \in Nat
         /\ \A c \in 1 .. Len(chunks) : chunks'[c] = chunks[c]
         /\ chunks'[Len(chunks) + 1].text = TextOfParts(current)
<1>1. PICK ck : ck = MakeChunk(current)
  OBVIOUS
<1>2. ck \in Chunk /\ ck.text = TextOfParts(current)
  BY <1>1, MadeChunk
<1>3. chunks \in Seq(Chunk)
  BY DEF PackInv, ChunkType
<1> QED
  BY <1>1, <1>2, <1>3, AppendProperties, LenProperties

(* What is kept stays kept while parts move and chunks are closed. *)
LEMMA KeptMoves ==
  ASSUME PackInv, TakeSection \/ AddPart \/ StartChunk \/ EndSection,
         NEW g, NEW t, Kept(g, t, todo, current, chunks)
  PROVE  Kept(g, t, todo', current', chunks')
<1>1. todo \in Seq(Part) /\ current \in Seq(Part) /\ Len(chunks) \in Nat
  BY LenProperties DEF PackInv, PartsInv, ChunkType
<1>2. CASE TakeSection
  <2>1. todo = <<>> /\ current = <<>> /\ chunks' = chunks
    BY <1>2 DEF TakeSection
  <2>2. ToSet(todo) \cup ToSet(current) = {}
    BY <2>1, NoParts
  <2> QED
    BY <2>1, <2>2 DEF Kept
<1>3. CASE AddPart
  <2>1. /\ todo # <<>> /\ current' = Append(current, Head(todo)) /\ todo' = Tail(todo)
        /\ chunks' = chunks
    BY <1>3 DEF AddPart
  <2>2. Head(todo) \in Part /\ ToSet(todo) = {Head(todo)} \cup ToSet(todo')
    BY <1>1, <2>1, HeadMembers
  <2>3. ToSet(current') = ToSet(current) \cup {Head(todo)}
    BY <1>1, <2>1, <2>2, AppendMembers
  <2>4. ToSet(todo') \cup ToSet(current') = ToSet(todo) \cup ToSet(current)
    BY <2>2, <2>3
  <2> QED
    BY <2>1, <2>4 DEF Kept
<1>4. CASE StartChunk \/ EndSection
  <2>1. /\ current # <<>> /\ chunks' = Append(chunks, MakeChunk(current))
    BY <1>4 DEF StartChunk, EndSection, Fits
  <2>2. /\ Len(chunks') = Len(chunks) + 1
        /\ \A c \in 1 .. Len(chunks) : chunks'[c] = chunks[c]
        /\ chunks'[Len(chunks) + 1].text = TextOfParts(current)
    BY <2>1, ClosedText
  <2>3. ToSet(todo) \subseteq ToSet(todo') \cup ToSet(current')
    <3>1. CASE StartChunk
      <4>1. todo # <<>> /\ current' = <<Head(todo)>> /\ todo' = Tail(todo)
        BY <3>1 DEF StartChunk
      <4>2. ToSet(todo) = {Head(todo)} \cup ToSet(todo')
        BY <1>1, <4>1, HeadMembers
      <4>3. ToSet(current') = {Head(todo)}
        BY <4>1, OneMember
      <4> QED
        BY <4>2, <4>3
    <3>2. CASE EndSection
      BY <3>2, NoParts DEF EndSection
    <3> QED
      BY <1>4, <3>1, <3>2
  <2>4. CASE \E p \in ToSet(todo) : p.group = g /\ p.text = t
    BY <2>3, <2>4 DEF Kept
  <2>5. CASE \E p \in ToSet(current) : p.group = g /\ p.text = t
    <3>1. PICK p \in ToSet(current) : p.text = t
      BY <2>5
    <3>2. ToSet(t) \subseteq ToSet(TextOfParts(current))
      BY <1>1, <3>1, PartInText
    <3>3. Len(chunks) + 1 \in 1 .. Len(chunks')
      BY <1>1, <2>2
    <3> QED
      BY <2>2, <3>2, <3>3 DEF Kept
  <2>6. CASE \E c \in 1 .. Len(chunks) : ToSet(t) \subseteq ToSet(chunks[c].text)
    <3>1. \A c \in 1 .. Len(chunks) : c \in 1 .. Len(chunks')
      BY <1>1, <2>2
    <3> QED
      BY <2>2, <2>6, <3>1 DEF Kept
  <2> QED
    BY <2>4, <2>5, <2>6 DEF Kept
<1> QED
  BY <1>2, <1>3, <1>4

LEMMA DependentsStay == Spec => []DependentsKept
<1>1. Init => DependentsKept
  BY NoParts DEF Init, DependentsKept
<1>2. PackInv /\ PackInv' /\ DependentsKept /\ [Next]_vars => DependentsKept'
  <2> SUFFICES ASSUME PackInv, PackInv', DependentsKept, [Next]_vars
               PROVE  DependentsKept'
    OBVIOUS
  <2>1. CASE PlaceHeading \/ PlaceFrontMatter \/ PlaceBlock \/ BuildGroups
    <3>1. taken' = taken
      BY <2>1, StageSteps DEF Next, PackInv, chunkVars
    <3>2. placed \in 0 .. Len(doc) /\ Len(doc) \in Nat
      BY LenProperties DEF PackInv, TreeInv, TreeType
    <3>3. stage = "sections"
      BY <2>1, <3>2 DEF PackInv, StageInv, PlaceHeading, PlaceFrontMatter, PlaceBlock,
                        BuildGroups
    <3>4. taken' = 0
      BY <3>1, <3>3 DEF PackInv, StageInv
    <3> QED
      BY <3>4 DEF DependentsKept
  <2>2. CASE Finish \/ UNCHANGED vars
    <3>1. UNCHANGED <<doc, groups, taken, todo, current, chunks>>
      BY <2>2 DEF Finish, vars, treeVars, chunkVars
    <3>2. ASSUME NEW blocks PROVE TextOf(blocks)' = TextOf(blocks)
      BY <3>1 DEF TextOf, Sentences
    <3>3. ASSUME NEW g \in ToSet(groups), Dependency(g), g.section \in 1 .. taken
          PROVE  Kept(g, TextOf(g.blocks)', todo', current', chunks')
      <4>1. Kept(g, TextOf(g.blocks), todo, current, chunks)
        BY <3>3 DEF DependentsKept
      <4>2. TextOf(g.blocks)' = TextOf(g.blocks)
        BY <3>2
      <4> QED
        BY <3>1, <4>1, <4>2
    <3> QED
      BY <3>1, <3>3 DEF DependentsKept, Dependency
  <2>3. CASE TakeSection \/ AddPart \/ StartChunk \/ EndSection
    <3>1. doc' = doc /\ groups' = groups /\ taken \in 0 .. Len(sections) /\ Len(sections) \in Nat
      BY <2>3, ChunkFrame
    <3>2. ASSUME NEW blocks PROVE TextOf(blocks)' = TextOf(blocks)
      BY <3>1 DEF TextOf, Sentences
    <3>3. ASSUME NEW g \in ToSet(groups), Dependency(g), g.section \in 1 .. taken'
          PROVE  Kept(g, TextOf(g.blocks), todo', current', chunks')
      <4>1. CASE g.section \in 1 .. taken
        <5>1. Kept(g, TextOf(g.blocks), todo, current, chunks)
          BY <3>3, <4>1 DEF DependentsKept
        <5> QED
          BY <2>3, <5>1, KeptMoves
      <4>2. CASE ~ (g.section \in 1 .. taken)
        <5>1. TakeSection /\ taken' = taken + 1
          BY <2>3, <3>3, <4>2 DEF TakeSection, AddPart, StartChunk, EndSection
        <5>2. g.section = taken + 1
          BY <3>1, <3>3, <4>2, <5>1
        <5>3. \E p \in ToSet(todo') : p.group = g /\ p.text = TextOf(g.blocks)
          BY <3>3, <5>1, <5>2, TakenParts DEF PackInv
        <5> QED
          BY <5>3 DEF Kept
      <4> QED
        BY <4>1, <4>2
    <3>4. ASSUME NEW g \in ToSet(groups), Dependency(g), g.section \in 1 .. taken'
          PROVE  Kept(g, TextOf(g.blocks)', todo', current', chunks')
      BY <3>2, <3>3, <3>4
    <3> QED
      BY <3>1, <3>4 DEF DependentsKept, Dependency
  <2> QED
    BY <2>1, <2>2, <2>3 DEF Next
<1> QED
  BY <1>1, <1>2, PackInvariant, PTL DEF Spec

(* A block with a sentence has text. *)
LEMMA HasText ==
  ASSUME doc \in Seq(Blocks), NEW b \in Places, NEW n \in Places,
         doc[b].sentences # <<>> \/ doc[n].sentences # <<>>
  PROVE  TextOf(<<b, n>>) # <<>>
<1> DEFINE h == BlockText
           two == <<b, n>>
<1>1. two \in Seq(Places) /\ Len(two) = 2 /\ two[1] = b /\ two[2] = n
  OBVIOUS
<1> HIDE DEF two
<1>2. h \in Maps(Places, Tokens) /\ \A x \in Places : h[x] = FlattenSeq(Sentences(x))
  BY BlockMaps
<1>3. TextOf(two) = Apply(h, two) /\ TextOf(two) \in Seq(Tokens)
  BY <1>1, TextIs
<1> HIDE DEF h
<1>4. ToSet(Apply(h, two)) = UNION {ToSet(h[two[i]]) : i \in 1 .. Len(two)}
  BY <1>1, <1>2, ApplyMembers
<1>5. ASSUME NEW i \in {1, 2}, doc[two[i]].sentences # <<>>
      PROVE  TextOf(two) # <<>>
  <2> DEFINE x == two[i]
             ss == Sentences(x)
  <2>1. x \in Places
    BY <1>1
  <2>2. doc[x].sentences \in Seq(Nat \ {0})
    BY <2>1, ElementOfSeq, BlocksAssumption DEF Places, Block
  <2>3. /\ ss \in Seq(Seq(Tokens)) /\ Len(ss) = Len(doc[x].sentences)
        /\ \A s \in 1 .. Len(ss) : Len(ss[s]) = doc[x].sentences[s]
    BY <2>1, SentencesTyped
  <2>4. 1 \in 1 .. Len(ss)
    BY <1>5, <2>2, <2>3, EmptySeq, LenProperties
  <2>5. doc[x].sentences[1] \in Nat \ {0}
    BY <2>2, <2>3, <2>4, ElementOfSeq
  <2>6. ss[1] \in Seq(Tokens) /\ Len(ss[1]) # 0
    BY <2>3, <2>4, <2>5, ElementOfSeq
  <2> HIDE DEF ss, x
  <2>7. ToSet(ss[1]) # {}
    <3>1. ss[1] # <<>>
      BY <2>6, EmptySeq
    <3> QED
      BY <2>6, <3>1, NoMembers
  <2>8. ToSet(FlattenSeq(ss)) = UNION {ToSet(ss[s]) : s \in 1 .. Len(ss)}
    BY <2>3, FlattenMembers
  <2>9. ToSet(FlattenSeq(ss)) # {}
    BY <2>4, <2>7, <2>8
  <2>10. h[two[i]] = FlattenSeq(ss)
    BY <1>2, <2>1 DEF ss, x
  <2>11. i \in 1 .. Len(two)
    BY <1>1
  <2>12. ToSet(Apply(h, two)) # {}
    BY <1>4, <2>9, <2>10, <2>11
  <2>13. TextOf(two) # <<>>
    BY <1>3, <2>12, NoMembers
  <2> QED
    BY <2>13
<1>6. TextOf(two) # <<>>
  BY <1>1, <1>5
<1> QED
  BY <1>6 DEF two

(* An element, the text next to it in its section that names it, and the       *)
(* "where" after an equation are in one chunk, whatever their length           *)
(* (_dependency_spans, _parts): for every document and all limits.            *)
THEOREM ElementsAreWhole == Spec => []ElementsStayTogether
<1>1. PackInv /\ DependentsKept => ElementsStayTogether
  <2> SUFFICES ASSUME PackInv, DependentsKept, stage = "chunks",
                      NEW s \in DOMAIN sections,
                      NEW i \in 1 .. Len(sections[s].blocks) - 1
               PROVE  LET b == sections[s].blocks[i]
                          n == sections[s].blocks[i + 1]
                          both == ToSet(TextOf(<<b, n>>))
                      IN  \/ IsElement(b) /\ (Mentions(n, b) \/ (Formula(b) /\ doc[n].cue))
                          \/ IsElement(n) /\ Mentions(b, n) /\ ~ doc[b].heading
                          => \E c \in DOMAIN chunks : both \subseteq ToSet(chunks[c].text)
    BY DEF ElementsStayTogether
  <2> DEFINE bl == sections[s].blocks
             b == bl[i]
             n == bl[i + 1]
             two == <<b, n>>
  <2>1. /\ doc \in Seq(Blocks) /\ sections \in Seq(Section)
        /\ taken = Len(sections) /\ todo = <<>> /\ current = <<>>
        /\ GroupsHold(groups) /\ chunks \in Seq(Chunk)
    BY DEF PackInv, TreeInv, TreeType, StageInv, ChunkType
  <2>2. s \in 1 .. Len(sections) /\ TreeInv
    BY <2>1, LenProperties DEF PackInv
  <2>3. bl \in Seq(Places)
    BY <2>2, SectionPlaces
  <2>4. b \in Places /\ n \in Places
    <3>1. Len(bl) \in Nat
      BY <2>3, LenProperties
    <3>2. i \in 1 .. Len(bl) /\ i + 1 \in 1 .. Len(bl)
      BY <3>1
    <3> HIDE DEF bl
    <3> QED
      BY <2>3, <3>2, ElementOfSeq
  <2> SUFFICES ASSUME \/ IsElement(b) /\ (Mentions(n, b) \/ (Formula(b) /\ doc[n].cue))
                      \/ IsElement(n) /\ Mentions(b, n) /\ ~ doc[b].heading
               PROVE  \E c \in DOMAIN chunks : ToSet(TextOf(two)) \subseteq ToSet(chunks[c].text)
    OBVIOUS
  <2>5. Tied(bl, i)
    BY DEF Tied, BindsNext, BindsPrevious
  <2>6. IsElement(b) \/ IsElement(n)
    OBVIOUS
  <2>7. doc[b].sentences # <<>> \/ doc[n].sentences # <<>>
    <3>1. doc[b] \in Blocks /\ doc[n] \in Blocks
      BY <2>1, <2>4, ElementOfSeq DEF Places
    <3> HIDE DEF b, n
    <3>2. doc[n].mentions # {} \/ doc[n].cue \/ doc[b].mentions # {}
      BY DEF Mentions
    <3> QED
      BY <3>1, <3>2, BlocksAssumption
  <2>8. TextOf(two) # <<>>
    <3> HIDE DEF b, n
    <3> QED
      BY <2>1, <2>4, <2>7, HasText
  <2>9. PICK g \in ToSet(groups) : g.section = s /\ {b, n} \subseteq ToSet(g.blocks)
    BY <2>1, <2>2, <2>5, <2>8 DEF GroupsHold
  <2>10. g \in Whole
    <3>1. groups \in Seq(Whole)
      BY <2>1 DEF GroupsHold
    <3>2. DOMAIN groups = 1 .. Len(groups) /\ \A k \in 1 .. Len(groups) : groups[k] \in Whole
      BY <3>1, LenProperties, ElementOfSeq
    <3> QED
      BY <3>2 DEF ToSet
  <2> HIDE DEF b, n
  <2>11. Dependency(g)
    <3>1. g.elements = {x \in ToSet(g.blocks) : IsElement(x)}
      BY <2>10 DEF Whole
    <3> QED
      BY <2>6, <2>9, <3>1 DEF Dependency
  <2>12. Kept(g, TextOf(g.blocks), todo, current, chunks)
    BY <2>1, <2>2, <2>9, <2>11 DEF DependentsKept
  <2>13. PICK c \in 1 .. Len(chunks) : ToSet(TextOf(g.blocks)) \subseteq ToSet(chunks[c].text)
    BY <2>1, <2>12, NoParts DEF Kept
  <2>14. ToSet(TextOf(two)) \subseteq ToSet(TextOf(g.blocks))
    <3>1. two \in Seq(Places) /\ ToSet(two) = {b, n}
      BY <2>4 DEF ToSet
    <3>2. g.blocks \in Seq(Places)
      BY <2>10 DEF Whole, Grouped
    <3> HIDE DEF two
    <3> QED
      BY <2>1, <2>9, <3>1, <3>2, TextGrows
  <2>15. c \in DOMAIN chunks
    BY <2>1, LenProperties
  <2> QED
    BY <2>13, <2>14, <2>15
<1> QED
  BY <1>1, PackInvariant, DependentsStay, PTL

(* The types of the sections, the groups, the parts and the chunks. *)
THEOREM TypeCorrect == Spec => []TypeOK
<1>1. PackInv => TypeOK
  <2> SUFFICES ASSUME PackInv PROVE TypeOK
    OBVIOUS
  <2>1. /\ doc \in Seq(Blocks) /\ placed \in 0 .. Len(doc) /\ sections \in Seq(Section)
        /\ taken \in 0 .. Len(sections) /\ stage \in Stage
        /\ todo \in Seq(Part) /\ current \in Seq(Part)
    BY DEF PackInv, TreeInv, TreeType, StageInv, PartsInv
  <2>2. stack \in Seq(Nat \ {0})
    <3>1. stack \in Seq(Nat) /\ \A i \in 1 .. Len(stack) : stack[i] \in 1 .. Len(sections)
      BY DEF PackInv, TreeInv, TreeType, StackInv
    <3>2. Len(sections) \in Nat
      BY <2>1, LenProperties
    <3>3. /\ Len(stack) \in Nat /\ stack = [i \in 1 .. Len(stack) |-> stack[i]]
          /\ \A i \in 1 .. Len(stack) : stack[i] \in Nat \ {0}
      BY <3>1, <3>2, LenProperties
    <3> QED
      BY <3>3, MapTyped
  <2>3. groups \in Seq(Group)
    <3>1. CASE stage = "sections"
      BY <3>1, EmptySeq DEF PackInv, StageInv
    <3>2. CASE stage # "sections"
      <4>1. groups \in Seq(Whole)
        BY <3>2 DEF PackInv, StageInv, GroupsHold
      <4>2. /\ Len(groups) \in Nat
            /\ \A k \in 1 .. Len(groups) : groups[k] \in Group
            /\ groups = [k \in 1 .. Len(groups) |-> groups[k]]
        BY <4>1, LenProperties, ElementOfSeq DEF Whole, Grouped
      <4> QED
        BY <4>2, MapTyped
    <3> QED
      BY <3>1, <3>2
  <2>4. chunks \in Seq([section : Nat, text : Seq(Nat \X Nat \X Nat), groups : SUBSET Group])
    BY DEF PackInv, ChunkType, Chunk, Tokens
  <2> QED
    BY <2>1, <2>2, <2>3, <2>4 DEF TypeOK
<1> QED
  BY <1>1, PackInvariant, PTL

=============================================================================
