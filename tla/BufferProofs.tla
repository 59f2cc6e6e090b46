---------------------------- MODULE BufferProofs ----------------------------
(***************************************************************************)
(* Theorems about the buffers of raw lines and of samples at both ends of  *)
(* the connection: RawStream and RawLog, the panel of live lines and the   *)
(* stream that feeds it, for any boxes, limits, filter and feed; and Store,*)
(* the server's rings, for any sizes, window, spans and clock steps.       *)
(*                                                                         *)
(* A filter is a recursion over its list; what it computes is proved by    *)
(* induction on an explicit set of lengths (Induction).                    *)
(***************************************************************************)
EXTENDS RawLog, Store, SequenceTheorems, FiniteSetTheorems, WellFoundedInduction, TLAPS

(* Filters. *)

\* Induction on a set of naturals.
LEMMA Induction ==
    ASSUME NEW Good, 0 \in Good, \A n \in Nat : n \in Good => n + 1 \in Good
    PROVE  \A n \in Nat : n \in Good
<1> DEFINE Bad == {n \in Nat : n \notin Good}
<1> SUFFICES ASSUME Bad # {} PROVE FALSE
    OBVIOUS
<1>1. PICK least \in Bad : \A n \in Bad : ~(<<n, least>> \in OpToRel(<, Nat))
    <2> HIDE DEF Bad
    <2>1. Bad \subseteq Nat
        BY DEF Bad
    <2> QED
        BY <2>1, NatLessThanWellFounded, WFMin
<1>2. least \in Nat /\ least # 0
    BY <1>1
<1>3. least - 1 \in Nat /\ least - 1 < least /\ (least - 1) + 1 = least
    BY <1>2
<1>4. least - 1 \in Good
    <2>1. <<least - 1, least>> \in OpToRel(<, Nat)
        BY <1>2, <1>3 DEF OpToRel
    <2> QED
        BY <2>1, <1>1, <1>3
<1> QED
    BY <1>1, <1>2, <1>3, <1>4

\* f takes the steps of a filter over s.
Filters(f, s, T) ==
    f = [n \in 0..Len(s) |->
           IF n = 0 THEN <<>>
           ELSE IF s[n] \in T THEN Append(f[n - 1], s[n]) ELSE f[n - 1]]

\* One more member adds one more step.
LEMMA FilterGrows ==
    ASSUME NEW S, NEW s \in Seq(S), NEW x \in S, NEW T, NEW f, Filters(f, s, T)
    PROVE  \E g : /\ Filters(g, Append(s, x), T)
                  /\ g[Len(s) + 1] = IF x \in T THEN Append(f[Len(s)], x) ELSE f[Len(s)]
<1> DEFINE t == Append(s, x)
           last == IF x \in T THEN Append(f[Len(s)], x) ELSE f[Len(s)]
           g == [n \in 0..Len(t) |-> IF n = Len(t) THEN last ELSE f[n]]
<1>1. /\ Len(s) \in Nat /\ Len(t) = Len(s) + 1
      /\ \A n \in 1..Len(s) : t[n] = s[n]
      /\ t[Len(t)] = x
    BY AppendProperties
<1>2. DOMAIN f = 0..Len(s) /\ \A n \in 0..Len(s) : f[n] = IF n = 0 THEN <<>>
           ELSE IF s[n] \in T THEN Append(f[n - 1], s[n]) ELSE f[n - 1]
    BY Zenon DEF Filters
<1> HIDE DEF t, last
<1>3. ASSUME NEW n \in 0..Len(t)
      PROVE  g[n] = IF n = 0 THEN <<>>
                    ELSE IF t[n] \in T THEN Append(g[n - 1], t[n]) ELSE g[n - 1]
    <2>1. CASE n = Len(t)
        <3>1. n # 0 /\ n - 1 \in 0..Len(t) /\ n - 1 # Len(t) /\ n - 1 = Len(s)
            BY <1>1, <2>1
        <3>2. g[n] = last /\ g[n - 1] = f[Len(s)]
            BY <3>1, <2>1
        <3> QED
            BY <3>1, <3>2, <2>1, <1>1, Zenon DEF last
    <2>2. CASE n # Len(t)
        <3>1. n \in 0..Len(s) /\ g[n] = f[n]
            BY <1>1, <2>2
        <3>2. CASE n = 0
            BY <3>1, <3>2, <1>2, Zenon
        <3>3. CASE n # 0
            <4>1. n \in 1..Len(s) /\ n - 1 \in 0..Len(t) /\ n - 1 # Len(t)
                BY <3>1, <3>3, <1>1
            <4>2. t[n] = s[n] /\ g[n - 1] = f[n - 1]
                BY <4>1, <1>1
            <4> QED
                BY <3>1, <3>3, <4>1, <4>2, <1>2, Zenon
        <3> QED
            BY <3>2, <3>3
    <2> QED
        BY <2>1, <2>2
<1>4. Filters(g, t, T)
    <2>1. g = [n \in 0..Len(t) |-> g[n]]
        OBVIOUS
    <2> HIDE DEF g
    <2> QED
        BY <2>1, <1>3, Zenon DEF Filters
<1>5. g[Len(s) + 1] = last
    BY <1>1
<1> QED
    BY <1>4, <1>5, Zenon DEF t, last

LEMMA FilterExists ==
    ASSUME NEW S, NEW T
    PROVE  \A s \in Seq(S) : \E f : Filters(f, s, T)
<1> DEFINE Good == {n \in Nat : \A s \in Seq(S) : Len(s) = n => \E f : Filters(f, s, T)}
<1>1. 0 \in Good
    <2> SUFFICES ASSUME NEW s \in Seq(S), Len(s) = 0 PROVE \E f : Filters(f, s, T)
        OBVIOUS
    <2> DEFINE f == [n \in 0..Len(s) |-> <<>>]
    <2>1. f = [n \in 0..Len(s) |->
           IF n = 0 THEN <<>>
           ELSE IF s[n] \in T THEN Append(f[n - 1], s[n]) ELSE f[n - 1]]
        OBVIOUS
    <2> HIDE DEF f
    <2> QED
        BY <2>1, Zenon DEF Filters
<1>2. ASSUME NEW n \in Nat, n \in Good PROVE n + 1 \in Good
    <2> SUFFICES ASSUME NEW t \in Seq(S), Len(t) = n + 1 PROVE \E f : Filters(f, t, T)
        OBVIOUS
    <2>1. PICK s \in Seq(S), x \in S : t = Append(s, x)
        BY SequenceEmptyOrAppend, EmptySeq
    <2>2. Len(s) = n
        BY <2>1, AppendProperties, LenProperties
    <2>3. PICK f : Filters(f, s, T)
        BY <2>2, <1>2
    <2> QED
        BY <2>1, <2>3, FilterGrows
<1> HIDE DEF Good
<1>3. \A n \in Nat : n \in Good
    BY <1>1, <1>2, Induction
<1> QED
    BY <1>3, LenProperties DEF Good

\* So that Kept is the last step of one.
LEMMA KeptIs ==
    ASSUME NEW S, NEW s \in Seq(S), NEW T
    PROVE  \E f : Filters(f, s, T) /\ Kept(s, T) = f[Len(s)]
<1> DEFINE f == CHOOSE h : Filters(h, s, T)
<1>1. Filters(f, s, T)
    BY FilterExists, Zenon
<1>2. Kept(s, T) = f[Len(s)]
    BY Zenon DEF Kept, Filters
<1> QED
    BY <1>1, <1>2, Zenon

LEMMA FilterUnique ==
    ASSUME NEW S, NEW s \in Seq(S), NEW T, NEW f, Filters(f, s, T), NEW g, Filters(g, s, T)
    PROVE  f[Len(s)] = g[Len(s)]
<1> DEFINE Good == {n \in Nat : n \in 0..Len(s) => f[n] = g[n]}
<1>0. Len(s) \in Nat
    BY LenProperties
<1>1. \A n \in 0..Len(s) :
         /\ f[n] = IF n = 0 THEN <<>>
                   ELSE IF s[n] \in T THEN Append(f[n - 1], s[n]) ELSE f[n - 1]
         /\ g[n] = IF n = 0 THEN <<>>
                   ELSE IF s[n] \in T THEN Append(g[n - 1], s[n]) ELSE g[n - 1]
    BY Zenon DEF Filters
<1>2. 0 \in Good
    BY <1>0, <1>1
<1>3. ASSUME NEW n \in Nat, n \in Good PROVE n + 1 \in Good
    <2> SUFFICES ASSUME n + 1 \in 0..Len(s) PROVE f[n + 1] = g[n + 1]
        OBVIOUS
    <2>1. n \in 0..Len(s) /\ (n + 1) - 1 = n /\ n + 1 # 0
        BY <1>0
    <2>2. f[n] = g[n]
        BY <2>1, <1>3
    <2> QED
        BY <2>1, <2>2, <1>1, Zenon
<1> HIDE DEF Good
<1>4. \A n \in Nat : n \in Good
    BY <1>2, <1>3, Induction
<1> QED
    BY <1>4, <1>0 DEF Good

LEMMA KeptEmpty == ASSUME NEW T PROVE Kept(<<>>, T) = <<>>
<1>1. PICK f : Filters(f, <<>>, T) /\ Kept(<<>>, T) = f[Len(<<>>)]
    <2>1. <<>> \in Seq({})
        OBVIOUS
    <2> QED
        BY <2>1, KeptIs
<1> QED
    BY <1>1 DEF Filters

\* A filter looks at one member at a time.
LEMMA KeptAppend ==
    ASSUME NEW S, NEW s \in Seq(S), NEW x \in S, NEW T
    PROVE  Kept(Append(s, x), T) = IF x \in T THEN Append(Kept(s, T), x) ELSE Kept(s, T)
<1>0. Append(s, x) \in Seq(S) /\ Len(Append(s, x)) = Len(s) + 1
    BY AppendProperties
<1>1. PICK f : Filters(f, s, T) /\ Kept(s, T) = f[Len(s)]
    BY KeptIs
<1>2. PICK g : /\ Filters(g, Append(s, x), T)
               /\ g[Len(s) + 1] = IF x \in T THEN Append(f[Len(s)], x) ELSE f[Len(s)]
    BY <1>1, FilterGrows
<1>3. PICK h : Filters(h, Append(s, x), T) /\ Kept(Append(s, x), T) = h[Len(Append(s, x))]
    BY <1>0, KeptIs
<1>4. h[Len(Append(s, x))] = g[Len(Append(s, x))]
    BY <1>0, <1>2, <1>3, FilterUnique
<1> QED
    BY <1>0, <1>1, <1>2, <1>3, <1>4, Zenon

\* u is what is left of s when some of its members are dropped.
Within(u, s) ==
    \E p \in [1..Len(u) -> 1..Len(s)] :
       /\ \A i, j \in 1..Len(u) : i < j => p[i] < p[j]
       /\ \A k \in 1..Len(u) : u[k] = s[p[k]]

LEMMA WithinGrows ==
    ASSUME NEW S, NEW s \in Seq(S), NEW u \in Seq(S), NEW x \in S, Within(u, s)
    PROVE  Within(u, Append(s, x)) /\ Within(Append(u, x), Append(s, x))
<1>1. PICK p \in [1..Len(u) -> 1..Len(s)] :
         /\ \A i, j \in 1..Len(u) : i < j => p[i] < p[j]
         /\ \A k \in 1..Len(u) : u[k] = s[p[k]]
    BY DEF Within
<1> DEFINE t == Append(s, x)
           v == Append(u, x)
<1>2. /\ Len(s) \in Nat /\ Len(t) = Len(s) + 1
      /\ Len(u) \in Nat /\ Len(v) = Len(u) + 1
      /\ \A n \in 1..Len(s) : t[n] = s[n]
      /\ t[Len(s) + 1] = x
      /\ \A n \in 1..Len(u) : v[n] = u[n]
      /\ v[Len(u) + 1] = x
    BY AppendProperties
<1> HIDE DEF t, v
<1>3. Within(u, t)
    <2>1. p \in [1..Len(u) -> 1..Len(t)]
        BY <1>2
    <2>2. \A k \in 1..Len(u) : u[k] = t[p[k]]
        BY <1>1, <1>2
    <2> QED
        BY <2>1, <2>2, <1>1 DEF Within
<1>4. Within(v, t)
    <2> DEFINE q == [k \in 1..Len(v) |-> IF k = Len(u) + 1 THEN Len(s) + 1 ELSE p[k]]
    <2>1. ASSUME NEW k \in 1..Len(v)
          PROVE  \/ k = Len(u) + 1 /\ q[k] = Len(s) + 1
                 \/ k \in 1..Len(u) /\ q[k] = p[k] /\ p[k] \in 1..Len(s)
        <3>1. CASE k = Len(u) + 1
            BY <3>1
        <3>2. CASE k # Len(u) + 1
            <4>1. k \in 1..Len(u)
                BY <3>2, <1>2
            <4> QED
                BY <4>1, <3>2, <1>1
        <3> QED
            BY <3>1, <3>2
    <2> HIDE DEF q
    <2>2. q \in [1..Len(v) -> 1..Len(t)]
        <3>1. \A k \in 1..Len(v) : q[k] \in 1..Len(t)
            BY <2>1, <1>2
        <3> QED
            BY <3>1 DEF q
    <2>3. ASSUME NEW i \in 1..Len(v), NEW j \in 1..Len(v), i < j PROVE q[i] < q[j]
        BY <2>1, <1>1, <1>2, <2>3
    <2>4. ASSUME NEW k \in 1..Len(v) PROVE v[k] = t[q[k]]
        BY <2>1, <1>1, <1>2
    <2> QED
        BY <2>2, <2>3, <2>4 DEF Within
<1> QED
    BY <1>3, <1>4 DEF t, v

\* What is kept is in the set, in the order it was in.
LEMMA KeptIsWithin ==
    ASSUME NEW S, NEW T
    PROVE  \A s \in Seq(S) : /\ Kept(s, T) \in Seq(S \cap T)
                             /\ Len(Kept(s, T)) <= Len(s)
                             /\ Within(Kept(s, T), s)
<1> DEFINE P(s) == /\ Kept(s, T) \in Seq(S \cap T)
                   /\ Len(Kept(s, T)) <= Len(s)
                   /\ Within(Kept(s, T), s)
           Good == {n \in Nat : \A s \in Seq(S) : Len(s) = n => P(s)}
<1>1. 0 \in Good
    <2> SUFFICES ASSUME NEW s \in Seq(S), Len(s) = 0 PROVE P(s)
        OBVIOUS
    <2>1. s = <<>>
        BY EmptySeq
    <2>2. Kept(s, T) = <<>>
        BY <2>1, KeptEmpty
    <2>3. Within(<<>>, <<>>)
        <3>0. \A k \in 1..0 : FALSE
            OBVIOUS
        <3>1. PICK e \in [1..0 -> 1..0] : TRUE
            <4>1. [k \in 1..0 |-> k] \in [1..0 -> 1..0]
                BY Zenon
            <4> QED
                BY <4>1, Zenon
        <3>2. Len(<<>>) = 0 /\ 1..0 = {}
            OBVIOUS
        <3> QED
            BY <3>0, <3>1, <3>2, Zenon DEF Within
    <2>4. <<>> \in Seq(S \cap T) /\ Len(<<>>) = 0
        OBVIOUS
    <2>5. Len(s) = 0 /\ 0 <= 0
        OBVIOUS
    <2> QED
        BY <2>1, <2>2, <2>3, <2>4, <2>5, Zenon
<1>2. ASSUME NEW n \in Nat, n \in Good PROVE n + 1 \in Good
    <2> SUFFICES ASSUME NEW t \in Seq(S), Len(t) = n + 1 PROVE P(t)
        OBVIOUS
    <2>1. PICK s \in Seq(S), x \in S : t = Append(s, x)
        BY SequenceEmptyOrAppend, EmptySeq
    <2>2. Len(s) = n
        BY <2>1, AppendProperties, LenProperties
    <2>3. P(s)
        BY <2>2, <1>2
    <2>4. Kept(t, T) = IF x \in T THEN Append(Kept(s, T), x) ELSE Kept(s, T)
        BY <2>1, KeptAppend
    <2>5. Kept(s, T) \in Seq(S)
        BY <2>3, SeqMonotonic
    <2>6. Within(Kept(s, T), t) /\ Within(Append(Kept(s, T), x), t)
        BY <2>1, <2>3, <2>5, WithinGrows
    <2>7. CASE x \in T
        <3>1. x \in S \cap T
            BY <2>7
        <3>2. /\ Append(Kept(s, T), x) \in Seq(S \cap T)
              /\ Len(Append(Kept(s, T), x)) = Len(Kept(s, T)) + 1
            BY <3>1, <2>3, AppendProperties
        <3>3. Len(Kept(s, T)) \in Nat
            BY <2>5, LenProperties
        <3> QED
            BY <3>2, <3>3, <2>2, <2>3, <2>4, <2>6, <2>7
    <2>8. CASE x \notin T
        <3>3. Len(Kept(s, T)) \in Nat
            BY <2>5, LenProperties
        <3> QED
            BY <3>3, <2>2, <2>3, <2>4, <2>6, <2>8
    <2> QED
        BY <2>7, <2>8
<1> HIDE DEF Good
<1>3. \A n \in Nat : n \in Good
    BY <1>1, <1>2, Induction
<1> QED
    BY <1>3, LenProperties DEF Good

\* A filter that everything passes changes nothing.
LEMMA KeptAll ==
    ASSUME NEW S, NEW T, S \subseteq T
    PROVE  \A s \in Seq(S) : Kept(s, T) = s
<1> DEFINE Good == {n \in Nat : \A s \in Seq(S) : Len(s) = n => Kept(s, T) = s}
<1>1. 0 \in Good
    BY KeptEmpty, EmptySeq
<1>2. ASSUME NEW n \in Nat, n \in Good PROVE n + 1 \in Good
    <2> SUFFICES ASSUME NEW t \in Seq(S), Len(t) = n + 1 PROVE Kept(t, T) = t
        OBVIOUS
    <2>1. PICK s \in Seq(S), x \in S : t = Append(s, x)
        BY SequenceEmptyOrAppend, EmptySeq
    <2>2. Len(s) = n
        BY <2>1, AppendProperties, LenProperties
    <2> QED
        BY <2>1, <2>2, <1>2, KeptAppend
<1> HIDE DEF Good
<1>3. \A n \in Nat : n \in Good
    BY <1>1, <1>2, Induction
<1> QED
    BY <1>3, LenProperties DEF Good

\* The first member is judged like any other.
LEMMA KeptHead ==
    ASSUME NEW S, NEW T
    PROVE  \A s \in Seq(S) : s # <<>> =>
              Kept(s, T) = IF s[1] \in T THEN <<s[1]>> \o Kept(Tail(s), T)
                           ELSE Kept(Tail(s), T)
<1> DEFINE P(s) == Kept(s, T) = IF s[1] \in T THEN <<s[1]>> \o Kept(Tail(s), T)
                                ELSE Kept(Tail(s), T)
           Good == {n \in Nat : \A s \in Seq(S) : Len(s) = n + 1 => P(s)}
<1>1. 0 \in Good
    <2> SUFFICES ASSUME NEW t \in Seq(S), Len(t) = 1 PROVE P(t)
        OBVIOUS
    <2>1. PICK s \in Seq(S), x \in S : t = Append(s, x)
        BY SequenceEmptyOrAppend, EmptySeq
    <2>2. Len(s) = 0
        BY <2>1, AppendProperties, LenProperties
    <2>3. s = <<>> /\ t[1] = x /\ Tail(t) = <<>>
        BY <2>1, <2>2, EmptySeq, HeadTailAppend, AppendProperties
    <2>4. Kept(t, T) = IF x \in T THEN Append(<<>>, x) ELSE <<>>
        <3>1. Kept(t, T) = IF x \in T THEN Append(Kept(s, T), x) ELSE Kept(s, T)
            BY <2>1, KeptAppend
        <3> QED
            BY <3>1, <2>3, KeptEmpty, Zenon
    <2>5. Append(<<>>, x) = <<x>> \o <<>>
        BY AppendIsConcat, ConcatEmptySeq
    <2> QED
        BY <2>3, <2>4, <2>5, KeptEmpty
<1>2. ASSUME NEW n \in Nat, n \in Good PROVE n + 1 \in Good
    <2> SUFFICES ASSUME NEW t \in Seq(S), Len(t) = n + 1 + 1 PROVE P(t)
        OBVIOUS
    <2>1. PICK s \in Seq(S), x \in S : t = Append(s, x)
        BY SequenceEmptyOrAppend, EmptySeq
    <2>2. Len(s) = n + 1
        BY <2>1, AppendProperties, LenProperties
    <2>3. P(s)
        BY <2>2, <1>2
    <2>4. s # <<>> /\ t[1] = s[1] /\ Tail(t) = Append(Tail(s), x) /\ s[1] \in S
        BY <2>1, <2>2, EmptySeq, HeadTailAppend, AppendProperties, ElementOfSeq
    <2>5. Tail(s) \in Seq(S)
        BY <2>4, HeadTailProperties
    <2>6. Kept(Tail(t), T) = IF x \in T THEN Append(Kept(Tail(s), T), x) ELSE Kept(Tail(s), T)
        <3>1. Kept(Append(Tail(s), x), T)
                = IF x \in T THEN Append(Kept(Tail(s), T), x) ELSE Kept(Tail(s), T)
            BY <2>5, KeptAppend
        <3> QED
            BY <3>1, <2>4
    <2>7. Kept(t, T) = IF x \in T THEN Append(Kept(s, T), x) ELSE Kept(s, T)
        BY <2>1, KeptAppend
    <2>8. Kept(Tail(s), T) \in Seq(S) /\ Kept(s, T) \in Seq(S)
        <3>1. \A u \in Seq(S \cap T) : u \in Seq(S)
            BY SeqMonotonic
        <3> QED
            BY <3>1, <2>5, KeptIsWithin, Zenon
    <2>9. Append(<<s[1]>> \o Kept(Tail(s), T), x) = <<s[1]>> \o Append(Kept(Tail(s), T), x)
        <3>1. <<s[1]>> \in Seq(S) /\ <<x>> \in Seq(S)
            BY <2>4
        <3>2. <<s[1]>> \o Kept(Tail(s), T) \in Seq(S)
            BY <3>1, <2>8, ConcatProperties
        <3> QED
            BY <3>1, <3>2, <2>8, AppendIsConcat, ConcatAssociative
    <2> QED
        BY <2>3, <2>4, <2>6, <2>7, <2>9, Zenon
<1> HIDE DEF Good
<1>3. \A n \in Nat : n \in Good
    BY <1>1, <1>2, Induction
<1>4. ASSUME NEW s \in Seq(S), s # <<>> PROVE P(s)
    <2>1. Len(s) - 1 \in Nat /\ (Len(s) - 1) + 1 = Len(s)
        BY <1>4, EmptySeq
    <2> QED
        BY <2>1, <1>3 DEF Good
<1> QED
    BY <1>4
-----------------------------------------------------------------------------
(* The stream. *)

States == {"disconnected", "connecting", "live", "reconnecting", "refused"}

Streams == [state : States, wanted : BOOLEAN,
            es : {"none", "connecting", "open", "closed"}, held : Int,
            errorTimes : Seq(0..RefuseWindow), retry : BOOLEAN, waited : Nat,
            failures : Nat, late : BOOLEAN]

\* What is left of a stream once its source is dropped.
Unheld(s) == IF s.es \in {"connecting", "open"} THEN s.held - 1 ELSE s.held

LEMMA StopIs ==
    ASSUME NEW s \in Streams
    PROVE  /\ stop(s) \in Streams
           /\ stop(s).es = "none" /\ stop(s).held = Unheld(s) /\ ~stop(s).retry
           /\ stop(s).state = s.state /\ stop(s).wanted = s.wanted
           /\ stop(s).errorTimes = s.errorTimes /\ stop(s).waited = s.waited
           /\ stop(s).failures = s.failures /\ stop(s).late = s.late
<1>1. PICK h \in Int : h = Unheld(s)
    BY DEF Unheld, Streams
<1>2. dropSource(s) = [s EXCEPT !.es = "none", !.held = h]
    BY <1>1 DEF dropSource, Unheld, Streams
<1>3. stop(s) = [[s EXCEPT !.es = "none", !.held = h] EXCEPT !.retry = FALSE]
    BY <1>2 DEF stop
<1>4. stop(s) \in Streams
    BY <1>3 DEF Streams, States
<1> QED
    BY <1>1, <1>3, <1>4 DEF Streams

LEMMA CloseIs ==
    ASSUME NEW s \in Streams
    PROVE  /\ close(s) \in Streams
           /\ close(s).es = "none" /\ close(s).held = Unheld(s) /\ ~close(s).retry
           /\ close(s).state = "disconnected" /\ ~close(s).wanted
           /\ close(s).errorTimes = <<>> /\ close(s).waited = s.waited
           /\ close(s).failures = s.failures /\ close(s).late = s.late
<1>1. stop(s) \in Streams
    BY StopIs
<1>2. PICK none \in Seq(0..RefuseWindow) : none = <<>>
    BY EmptySeq
<1>3. close(s) = [stop(s) EXCEPT !.wanted = FALSE, !.errorTimes = none,
                                 !.state = "disconnected"]
    BY <1>2 DEF close
<1>4. close(s) \in Streams
    BY <1>1, <1>2, <1>3 DEF Streams, States
<1> QED
    BY <1>1, <1>2, <1>3, <1>4, StopIs DEF Streams

LEMMA OpenIs ==
    ASSUME NEW s \in Streams, NEW events
    PROVE  /\ open(s, events) \in Streams
           /\ open(s, events).wanted = s.wanted
           /\ open(s, events).errorTimes = s.errorTimes
           /\ open(s, events).failures = s.failures
           /\ open(s, events).late = s.late
           /\ events = {} =>
                /\ open(s, events).state = "disconnected"
                /\ open(s, events).es = s.es /\ open(s, events).held = s.held
                /\ open(s, events).retry = s.retry /\ open(s, events).waited = s.waited
           /\ events # {} =>
                /\ open(s, events).state \in {"connecting", "reconnecting"}
                /\ open(s, events).es = "connecting"
                /\ open(s, events).held = Unheld(s) + 1
                /\ ~open(s, events).retry /\ open(s, events).waited = 0
<1>1. CASE events = {}
    <2>1. open(s, events) = [s EXCEPT !.state = "disconnected"]
        BY <1>1 DEF open
    <2> QED
        BY <2>1, <1>1 DEF Streams, States
<1>2. CASE events # {}
    <2>1. PICK text \in {"connecting", "reconnecting"} :
             text = IF s.errorTimes = <<>> THEN "connecting" ELSE "reconnecting"
        BY Zenon
    <2>2. open(s, events) = [stop(s) EXCEPT !.state = text, !.es = "connecting",
                                            !.held = @ + 1, !.waited = 0]
        BY <1>2, <2>1, Zenon DEF open
    <2>3. Unheld(s) \in Int
        BY DEF Unheld, Streams
    <2>4. open(s, events) \in Streams
        <3>1. PICK r \in Streams, h \in Int : r = stop(s) /\ h = r.held + 1
            <4>1. stop(s) \in Streams /\ stop(s).held + 1 \in Int
                BY StopIs, <2>3
            <4> QED
                BY <4>1
        <3>2. open(s, events) = [r EXCEPT !.state = text, !.es = "connecting",
                                          !.held = h, !.waited = 0]
            BY <2>2, <3>1
        <3>3. open(s, events) =
                 [state |-> text, wanted |-> r.wanted, es |-> "connecting", held |-> h,
                  errorTimes |-> r.errorTimes, retry |-> r.retry, waited |-> 0,
                  failures |-> r.failures, late |-> r.late]
            BY <3>1, <3>2 DEF Streams
        <3>4. text \in States
            BY <2>1 DEF States
        <3> QED
            BY <3>1, <3>3, <3>4 DEF Streams
    <2> QED
        BY <2>1, <2>2, <2>3, <2>4, <1>2, StopIs DEF Streams
<1> QED
    BY <1>1, <1>2

LEMMA ConnectIs ==
    ASSUME NEW s \in Streams, NEW events
    PROVE  /\ connect(s, events) \in Streams
           /\ connect(s, events).wanted
           /\ connect(s, events).errorTimes = <<>>
           /\ connect(s, events).failures = 0 /\ ~connect(s, events).late
           /\ events = {} =>
                /\ connect(s, events).state = "disconnected"
                /\ connect(s, events).es = s.es /\ connect(s, events).held = s.held
                /\ connect(s, events).retry = s.retry
                /\ connect(s, events).waited = s.waited
           /\ events # {} =>
                /\ connect(s, events).state \in {"connecting", "reconnecting"}
                /\ connect(s, events).es = "connecting"
                /\ connect(s, events).held = Unheld(s) + 1
                /\ ~connect(s, events).retry /\ connect(s, events).waited = 0
<1>1. PICK none \in Seq(0..RefuseWindow) : none = <<>>
    BY EmptySeq
<1>2. PICK r : r = [s EXCEPT !.wanted = TRUE, !.errorTimes = none, !.failures = 0,
                             !.late = FALSE]
    OBVIOUS
<1>3. /\ r \in Streams
      /\ r.wanted /\ r.errorTimes = none /\ r.failures = 0 /\ ~r.late /\ r.es = s.es
      /\ r.held = s.held /\ r.retry = s.retry /\ r.waited = s.waited
    BY <1>1, <1>2 DEF Streams
<1>4. connect(s, events) = open(r, events)
    BY <1>1, <1>2, Zenon DEF connect
<1>5. Unheld(r) = Unheld(s)
    BY <1>3 DEF Unheld
<1>6. /\ open(r, events) \in Streams
      /\ open(r, events).wanted /\ open(r, events).errorTimes = <<>>
      /\ open(r, events).failures = 0 /\ ~open(r, events).late
    BY <1>1, <1>3, OpenIs
<1>7. CASE events = {}
    BY <1>3, <1>4, <1>6, <1>7, OpenIs
<1>8. CASE events # {}
    BY <1>3, <1>4, <1>5, <1>6, <1>8, OpenIs
<1> QED
    BY <1>7, <1>8

\* Errors that are recent are all kept.
LEMMA AllRecent ==
    ASSUME NEW ages \in Seq(0..RefuseWindow), \A k \in 1..Len(ages) : ages[k] < RefuseWindow
    PROVE  Recent(ages) = ages
<1>1. RefuseWindow \in Nat
    BY ConstantsAssumption
<1>2. \A k \in 1..Len(ages) : ages[k] \in 0..(RefuseWindow - 1)
    BY <1>1, ElementOfSeq
<1>3. ages \in Seq(0..(RefuseWindow - 1))
    <2>1. ages = [k \in 1..Len(ages) |-> ages[k]] /\ Len(ages) \in Nat
        BY LenProperties
    <2>2. ages \in [1..Len(ages) -> 0..(RefuseWindow - 1)]
        BY <2>1, <1>2
    <2>3. Seq(0..(RefuseWindow - 1)) = UNION {[1..n -> 0..(RefuseWindow - 1)] : n \in Nat}
        BY SeqDef
    <2> QED
        BY <2>1, <2>2, <2>3, Zenon
<1> QED
    BY <1>3, KeptAll DEF Recent

LEMMA RecentIs ==
    ASSUME NEW ages \in Seq(0..RefuseWindow)
    PROVE  Recent(ages) \in Seq(0..RefuseWindow) /\ Len(Recent(ages)) <= Len(ages)
<1>1. \A u \in Seq((0..RefuseWindow) \cap (0..(RefuseWindow - 1))) : u \in Seq(0..RefuseWindow)
    BY SeqMonotonic
<1> QED
    BY <1>1, KeptIsWithin, Zenon DEF Recent

LEMMA ErrorIs ==
    ASSUME NEW s \in Streams, NEW times, times = Append(Recent(s.errorTimes), 0)
    PROVE  /\ onError(s) \in Streams
           /\ onError(s).errorTimes = times /\ times \in Seq(0..RefuseWindow)
           /\ onError(s).failures = (IF s.failures > RefuseErrors THEN s.failures
                                     ELSE s.failures + 1)
           /\ onError(s).waited = 0 /\ onError(s).late = s.late
           /\ Len(times) >= RefuseErrors =>
                /\ onError(s).state = "refused" /\ ~onError(s).wanted
                /\ onError(s).es = "none" /\ onError(s).held = Unheld(s)
                /\ ~onError(s).retry
           /\ Len(times) < RefuseErrors =>
                /\ onError(s).state = "reconnecting" /\ onError(s).wanted = s.wanted
                /\ s.es = "closed" => /\ onError(s).es = "none" /\ onError(s).retry
                                      /\ onError(s).held = s.held
                /\ s.es # "closed" => /\ onError(s).es = s.es
                                      /\ onError(s).retry = s.retry
                                      /\ onError(s).held = s.held
<1>0. RefuseErrors \in Nat /\ RefuseWindow \in Nat
    BY ConstantsAssumption
<1>1. times \in Seq(0..RefuseWindow) /\ Len(times) \in Nat
    <2>1. s.errorTimes \in Seq(0..RefuseWindow)
        BY DEF Streams
    <2> QED
        BY <2>1, <1>0, RecentIs, AppendProperties
<1>2. PICK count \in Nat : count = IF s.failures > RefuseErrors THEN s.failures
                                  ELSE s.failures + 1
    <2>1. s.failures \in Nat
        BY DEF Streams
    <2> QED
        BY <2>1
<1>3. PICK e : e = [s EXCEPT !.errorTimes = times, !.failures = count,
                             !.state = "reconnecting", !.waited = 0]
    OBVIOUS
<1>4. /\ e \in Streams /\ e.errorTimes = times /\ e.failures = count
      /\ e.state = "reconnecting" /\ e.waited = 0 /\ e.wanted = s.wanted
      /\ e.es = s.es /\ e.held = s.held /\ e.retry = s.retry /\ e.late = s.late
    BY <1>1, <1>2, <1>3 DEF Streams, States
<1>5. onError(s) = IF Len(times) >= RefuseErrors
                   THEN [stop(e) EXCEPT !.wanted = FALSE, !.state = "refused"]
                   ELSE IF e.es = "closed" THEN [dropSource(e) EXCEPT !.retry = TRUE]
                   ELSE e
    <2>1. e = [s EXCEPT !.errorTimes = Append(Recent(@), 0),
                        !.failures = IF @ > RefuseErrors THEN @ ELSE @ + 1,
                        !.state = "reconnecting", !.waited = 0]
        BY <1>2, <1>3 DEF Streams
    <2> QED
        BY <2>1, <1>4, Zenon DEF onError
<1>6. CASE Len(times) >= RefuseErrors
    <2>1. onError(s) = [stop(e) EXCEPT !.wanted = FALSE, !.state = "refused"]
        BY <1>5, <1>6
    <2>2. Unheld(e) = Unheld(s)
        BY <1>4 DEF Unheld
    <2>3. onError(s) \in Streams
        BY <2>1, <1>4, StopIs DEF Streams, States
    <2>4. ~(Len(times) < RefuseErrors)
        BY <1>0, <1>1, <1>6
    <2> QED
        BY <2>1, <2>2, <2>3, <2>4, <1>1, <1>2, <1>4, StopIs DEF Streams
<1>7. CASE ~(Len(times) >= RefuseErrors) /\ e.es = "closed"
    <2>1. onError(s) = [dropSource(e) EXCEPT !.retry = TRUE]
        BY <1>5, <1>7
    <2> QED
        BY <2>1, <1>1, <1>2, <1>4, <1>7 DEF dropSource, Streams
<1>8. CASE ~(Len(times) >= RefuseErrors) /\ e.es # "closed"
    BY <1>1, <1>2, <1>4, <1>5, <1>8
<1> QED
    BY <1>6, <1>7, <1>8

\* The longest time between two failures in a row that are prompt.
Gap == Prompt + 1

\* The errors remembered are as many as the failures, and none is too old to count.
Counted(s) ==
    /\ s.es = "connecting" \/ s.retry =>
          /\ s.failures = Len(s.errorTimes)
          /\ \A k \in 1..Len(s.errorTimes) :
                s.errorTimes[k] <= (Len(s.errorTimes) - k) * Gap + s.waited
                                     + (IF s.retry THEN 0 ELSE 1)
    /\ s.failures <= RefuseErrors

\* Fewer errors than are refused are remembered while the stream is tried, and all the
\* failures in a row if they were prompt.
ErrorsFit(s) ==
    /\ s.es = "open" => s.errorTimes = <<>> /\ s.failures = 0
    /\ s.retry => s.waited <= 1
    /\ s.es = "connecting" => s.waited <= MaxAnswer /\ (~s.late => s.waited <= Prompt)
    /\ s.es = "connecting" \/ s.retry => Len(s.errorTimes) < RefuseErrors
    /\ ~s.late => Counted(s)

Held(s) == s.held = IF s.es = "none" THEN 0 ELSE 1

\* What holds of the stream between two events.
Sound(s) ==
    /\ s \in Streams /\ s.es # "closed"
    /\ Len(s.errorTimes) <= RefuseErrors
    /\ Held(s)
    /\ s.state = "live" <=> s.es = "open"
    /\ s.retry => s.es = "none" /\ s.wanted
    /\ s.es # "none" => s.wanted
    /\ s.wanted => s.state # "refused"
    /\ ErrorsFit(s)

LEMMA ConstantTypes ==
    /\ RefuseErrors \in Nat \ {0} /\ RefuseWindow \in Nat \ {0}
    /\ MaxAnswer \in Nat /\ Prompt \in Nat
BY ConstantsAssumption

LEMMA NewSound == Sound(New) /\ ~New.wanted /\ New.held = 0 /\ New.es = "none"
<1>1. PICK none \in Seq(0..RefuseWindow) : none = <<>>
    BY EmptySeq
<1>2. Len(none) = 0 /\ New \in Streams
    BY <1>1 DEF New, Streams, States
<1> QED
    BY <1>1, <1>2, ConstantTypes DEF New, Sound, Held, ErrorsFit, Counted

LEMMA CloseSound ==
    ASSUME NEW s, Sound(s)
    PROVE  Sound(close(s))
<1>1. /\ s \in Streams /\ Held(s) /\ s.es # "closed"
      /\ ~s.late => s.failures <= RefuseErrors
    BY DEF Sound, ErrorsFit, Counted
<1>2. Unheld(s) = 0
    BY <1>1 DEF Held, Unheld, Streams
<1>3. Len(<<>>) = 0
    OBVIOUS
<1>4. PICK r \in Streams : r = close(s)
    BY <1>1, CloseIs
<1>5. /\ r.es = "none" /\ r.held = 0 /\ ~r.retry /\ r.state = "disconnected"
      /\ ~r.wanted /\ r.errorTimes = <<>> /\ r.failures = s.failures /\ r.late = s.late
    BY <1>1, <1>2, <1>4, CloseIs
<1>6. ErrorsFit(r)
    BY <1>1, <1>5 DEF ErrorsFit, Counted
<1> QED
    BY <1>3, <1>4, <1>5, <1>6, ConstantTypes DEF Sound, Held

LEMMA ConnectSound ==
    ASSUME NEW s \in Streams, NEW events, s.es # "closed", Held(s),
           events = {} => s.es = "none" /\ ~s.retry
    PROVE  Sound(connect(s, events)) /\ connect(s, events).wanted
<1>1. Unheld(s) = 0
    BY DEF Held, Unheld, Streams
<1>2. Len(<<>>) = 0
    OBVIOUS
<1>3. PICK r \in Streams : r = connect(s, events)
    BY ConnectIs
<1>4. r.wanted /\ r.errorTimes = <<>> /\ r.failures = 0
    BY <1>3, ConnectIs
<1>5. \/ /\ r.state = "disconnected" /\ r.es = "none" /\ r.held = 0 /\ ~r.retry
      \/ /\ r.state \in {"connecting", "reconnecting"} /\ r.es = "connecting"
         /\ r.held = 1 /\ ~r.retry /\ r.waited = 0
    <2>1. CASE events = {}
        <3>1. s.held = 0
            BY <2>1 DEF Held
        <3> QED
            BY <2>1, <3>1, <1>3, ConnectIs
    <2>2. CASE events # {}
        <3>1. connect(s, events).held = 1
            BY <2>2, <1>1, ConnectIs
        <3> QED
            BY <2>2, <3>1, <1>3, ConnectIs
    <2> QED
        BY <2>1, <2>2
<1>6. ErrorsFit(r)
    BY <1>2, <1>4, <1>5, ConstantTypes DEF ErrorsFit, Counted
<1>7. Held(r) /\ Len(r.errorTimes) <= RefuseErrors
    BY <1>2, <1>4, <1>5, ConstantTypes DEF Held
<1> QED
    BY <1>3, <1>4, <1>5, <1>6, <1>7 DEF Sound

LEMMA OpenSound ==
    ASSUME NEW s, Sound(s), s.retry, NEW events
    PROVE  /\ Sound(open([s EXCEPT !.retry = FALSE], events))
           /\ open([s EXCEPT !.retry = FALSE], events).wanted
<1>1. PICK q : q = [s EXCEPT !.retry = FALSE]
    OBVIOUS
<1>2. /\ s \in Streams /\ s.es = "none" /\ s.wanted /\ s.state # "refused"
      /\ s.held = 0 /\ s.waited \in Nat /\ s.waited <= 1
      /\ Len(s.errorTimes) < RefuseErrors
      /\ s.errorTimes \in Seq(0..RefuseWindow)
      /\ ~s.late => s.failures = Len(s.errorTimes) /\ s.failures <= RefuseErrors
    BY DEF Sound, ErrorsFit, Counted, Streams, Held
<1>0. ASSUME ~s.late, NEW k \in 1..Len(s.errorTimes), NEW n \in Int,
             n = (Len(s.errorTimes) - k) * Gap
      PROVE  s.errorTimes[k] <= n + s.waited
    <2>1. s.errorTimes[k] <= n + s.waited + (IF s.retry THEN 0 ELSE 1)
        BY <1>0 DEF Sound, ErrorsFit, Counted
    <2>2. (IF s.retry THEN 0 ELSE 1) = 0
        OBVIOUS
    <2> QED
        BY <2>1, <2>2, <1>2
<1>3. /\ q \in Streams /\ q.es = "none" /\ q.wanted /\ ~q.retry /\ q.held = 0
      /\ q.failures = s.failures /\ q.errorTimes = s.errorTimes /\ q.late = s.late
    BY <1>1, <1>2 DEF Streams
<1>4. Unheld(q) = 0
    BY <1>3 DEF Unheld
<1>5. PICK r \in Streams : r = open(q, events)
    BY <1>3, OpenIs
<1>6. /\ r.wanted /\ r.errorTimes = s.errorTimes /\ r.failures = s.failures
      /\ r.late = s.late
    BY <1>3, <1>5, OpenIs
<1>7. \/ /\ r.state = "disconnected" /\ r.es = "none" /\ r.held = 0 /\ ~r.retry
      \/ /\ r.state \in {"connecting", "reconnecting"} /\ r.es = "connecting"
         /\ r.held = 1 /\ ~r.retry /\ r.waited = 0
    <2>1. CASE events = {}
        BY <2>1, <1>3, <1>5, OpenIs
    <2>2. CASE events # {}
        <3>1. open(q, events).held = 1
            BY <2>2, <1>3, <1>4, OpenIs
        <3> QED
            BY <2>2, <3>1, <1>3, <1>5, OpenIs
    <2> QED
        BY <2>1, <2>2
<1>8. ASSUME ~r.late, r.es = "connecting", NEW k \in 1..Len(r.errorTimes)
      PROVE  r.errorTimes[k] <= (Len(r.errorTimes) - k) * Gap + r.waited + 1
    <2>1. PICK n \in Int : n = (Len(r.errorTimes) - k) * Gap
        <3>1. Len(r.errorTimes) \in Nat /\ Gap \in Int
            BY <1>2, <1>6, ConstantTypes DEF Gap
        <3> QED
            BY <3>1
    <2>2. r.errorTimes[k] <= n + s.waited
        BY <1>0, <1>6, <1>8, <2>1
    <2>3. r.errorTimes[k] \in Int
        BY <1>2, <1>6, ElementOfSeq, ConstantTypes
    <2> QED
        BY <1>2, <1>7, <1>8, <2>1, <2>2, <2>3
<1>9. ErrorsFit(r)
    <2>1. ~r.late => Counted(r)
        BY <1>2, <1>6, <1>7, <1>8, ConstantTypes DEF Counted
    <2> QED
        BY <2>1, <1>2, <1>6, <1>7, ConstantTypes DEF ErrorsFit
<1>10. Held(r) /\ Len(r.errorTimes) <= RefuseErrors
    BY <1>2, <1>6, <1>7, ConstantTypes DEF Held
<1> QED
    BY <1>1, <1>5, <1>6, <1>7, <1>9, <1>10 DEF Sound

\* A failure of an attempt, or of a stream that was open.
LEMMA ErrorSound ==
    ASSUME NEW s, Sound(s), s.es \in {"connecting", "open"},
           NEW q, \/ q = [s EXCEPT !.es = "closed", !.held = s.held - 1] /\ s.es = "connecting"
                  \/ q = [s EXCEPT !.es = "connecting"]
    PROVE  Sound(onError(q)) /\ (onError(q).wanted => s.wanted)
<1>1. /\ s \in Streams /\ s.wanted /\ ~s.retry /\ s.held = 1 /\ s.waited \in Nat
      /\ Len(s.errorTimes) < RefuseErrors
      /\ s.errorTimes \in Seq(0..RefuseWindow) /\ s.failures \in Nat
      /\ ~s.late => s.failures = Len(s.errorTimes)
    <2>1. Len(<<>>) = 0
        OBVIOUS
    <2> QED
        BY <2>1, ConstantTypes DEF Sound, ErrorsFit, Counted, Streams, Held
<1>2. /\ q \in Streams /\ q.wanted /\ ~q.retry
      /\ q.errorTimes = s.errorTimes /\ q.failures = s.failures /\ q.late = s.late
      /\ \/ q.es = "closed" /\ q.held = 0
         \/ q.es = "connecting" /\ q.held = 1
    <2>1. s.held - 1 = 0
        BY <1>1
    <2>2. CASE q = [s EXCEPT !.es = "closed", !.held = s.held - 1] /\ s.es = "connecting"
        <3>1. q = [s EXCEPT !.es = "closed", !.held = 0]
            BY <2>1, <2>2
        <3>2. q = [state |-> s.state, wanted |-> s.wanted, es |-> "closed", held |-> 0,
                   errorTimes |-> s.errorTimes, retry |-> s.retry, waited |-> s.waited,
                   failures |-> s.failures, late |-> s.late]
            BY <3>1, <1>1 DEF Streams
        <3>3. q \in Streams
            BY <3>2, <1>1 DEF Streams
        <3> QED
            BY <3>2, <3>3, <1>1
    <2>3. CASE q = [s EXCEPT !.es = "connecting"]
        BY <2>3, <1>1 DEF Streams
    <2> QED
        BY <2>2, <2>3
<1> DEFINE old == s.errorTimes
           n == Len(old)
<1>3. n \in Nat /\ Gap \in Nat \ {0} /\ n + 1 <= RefuseErrors
    BY <1>1, ConstantTypes DEF Gap
<1>4. ASSUME ~s.late
      PROVE  \A k \in 1..n : old[k] \in Nat /\ old[k] <= (n - k) * Gap + Gap
    <2>1. CASE s.es = "open"
        BY <2>1 DEF Sound, ErrorsFit
    <2>2. CASE s.es = "connecting"
        <3>1. s.waited <= Prompt
            BY <2>2, <1>4 DEF Sound, ErrorsFit
        <3>2. ASSUME NEW k \in 1..n PROVE old[k] \in Nat /\ old[k] <= (n - k) * Gap + Gap
            <4>1. PICK m \in Int : m = (n - k) * Gap
                BY <1>3
            <4>2. old[k] <= m + s.waited + 1
                BY <2>2, <4>1, <1>1, <1>4 DEF Sound, ErrorsFit, Counted
            <4>3. old[k] \in Nat
                BY <1>1, ElementOfSeq, ConstantTypes
            <4>4. Gap = Prompt + 1
                BY DEF Gap
            <4>5. PICK w \in Int, a \in Int : w = s.waited /\ a = old[k]
                BY <4>3, <1>1
            <4>6. a <= m + Prompt + 1
                BY <4>2, <4>5, <3>1, ConstantTypes
            <4> QED
                BY <4>1, <4>3, <4>4, <4>5, <4>6, ConstantTypes
        <3> QED
            BY <3>2
    <2> QED
        BY <2>1, <2>2
<1>5. ~s.late => \A k \in 1..n : old[k] <= (n + 1 - k) * Gap
    BY <1>3, <1>4
<1>6. ASSUME ~s.late PROVE \A k \in 1..n : old[k] < RefuseWindow
    <2>1. ASSUME NEW k \in 1..n PROVE old[k] < RefuseWindow
        <3>1. (n + 1 - k) * Gap <= (RefuseErrors - 1) * Gap
            <4>1. PICK a \in Nat, d \in Nat : a = n + 1 - k /\ RefuseErrors - 1 = a + d
                <5>0. PICK m \in Nat : m = n
                    BY <1>3
                <5>1. PICK b \in Nat : b = RefuseErrors - (m + 1)
                    <6>1. RefuseErrors - (m + 1) \in Nat
                        BY <5>0, <1>3, ConstantTypes
                    <6> QED
                        BY <6>1
                <5>2. m + 1 - k \in Nat /\ b + (k - 1) \in Nat
                    BY <5>0, <5>1
                <5>3. RefuseErrors - 1 = (m + 1 - k) + (b + (k - 1))
                    BY <5>1, ConstantTypes
                <5> QED
                    BY <5>0, <5>2, <5>3
            <4>2. d * Gap \in Nat /\ a * Gap \in Nat /\ (a + d) * Gap = a * Gap + d * Gap
                BY <1>3
            <4> QED
                BY <4>1, <4>2
        <3>2. (RefuseErrors - 1) * Gap < RefuseWindow
            BY ConstantsAssumption DEF Gap
        <3>3. (RefuseErrors - 1) * Gap \in Int /\ (n + 1 - k) * Gap \in Int
            BY <1>3, ConstantTypes
        <3> QED
            BY <3>1, <3>2, <3>3, <1>4, <1>5, <1>6, ConstantTypes
    <2> QED
        BY <2>1
<1>7. PICK times : times = Append(Recent(q.errorTimes), 0)
    OBVIOUS
<1>8. ~s.late => times = Append(old, 0)
    BY <1>1, <1>2, <1>6, <1>7, AllRecent
<1>14. times \in Seq(0..RefuseWindow) /\ Len(times) \in Nat /\ Len(times) <= RefuseErrors
    <2>1. PICK kept \in Seq(0..RefuseWindow) : kept = Recent(old) /\ Len(kept) <= n
        BY <1>1, RecentIs
    <2>2. Len(kept) \in Nat /\ 0 \in 0..RefuseWindow
        BY <2>1, LenProperties, ConstantTypes
    <2>3. times \in Seq(0..RefuseWindow) /\ Len(times) = Len(kept) + 1
        BY <2>1, <2>2, <1>2, <1>7, AppendProperties
    <2> QED
        BY <2>1, <2>2, <2>3, <1>3, ConstantTypes
<1>9. ASSUME ~s.late
      PROVE  /\ Len(times) = n + 1
             /\ \A k \in 1..n : times[k] = old[k]
             /\ times[n + 1] = 0
    BY <1>1, <1>8, <1>9, AppendProperties, ConstantTypes
<1>10. PICK r \in Streams : r = onError(q)
    BY <1>2, <1>7, ErrorIs
<1>11. /\ r.errorTimes = times /\ r.waited = 0 /\ r.late = s.late
       /\ ~s.late => r.failures = n + 1
    <2>1. ~s.late => ~(s.failures > RefuseErrors)
        BY <1>1, <1>3, ConstantTypes
    <2> QED
        BY <2>1, <1>1, <1>2, <1>7, <1>10, ErrorIs
<1>12. CASE Len(times) >= RefuseErrors
    <2>1. Unheld(q) = 0
        BY <1>2 DEF Unheld
    <2>2. r.state = "refused" /\ ~r.wanted /\ r.es = "none" /\ r.held = 0 /\ ~r.retry
        BY <2>1, <1>2, <1>7, <1>10, <1>12, ErrorIs
    <2>3. ErrorsFit(r) /\ Held(r) /\ Len(r.errorTimes) <= RefuseErrors
        BY <2>2, <1>3, <1>11, <1>14, ConstantTypes DEF ErrorsFit, Counted, Held
    <2> QED
        BY <2>2, <2>3, <1>10 DEF Sound
<1>13. CASE Len(times) < RefuseErrors
    <2>1. /\ r.state = "reconnecting" /\ r.wanted
          /\ \/ r.es = "none" /\ r.retry /\ r.held = 0
             \/ r.es = "connecting" /\ ~r.retry /\ r.held = 1
        BY <1>2, <1>7, <1>10, <1>13, ErrorIs
    <2>2. ASSUME ~s.late, NEW k \in 1..Len(times)
          PROVE  /\ times[k] \in Nat
                 /\ (Len(times) - k) * Gap \in Int
                 /\ times[k] <= (Len(times) - k) * Gap
        <3>1. CASE k \in 1..n
            <4>1. (n + 1 - k) * Gap \in Int /\ times[k] = old[k]
                BY <2>2, <3>1, <1>3, <1>9
            <4>2. old[k] \in Nat /\ old[k] <= (n + 1 - k) * Gap
                BY <2>2, <3>1, <1>4, <1>5
            <4> QED
                BY <2>2, <4>1, <4>2, <1>9
        <3>2. CASE k = n + 1
            BY <2>2, <3>2, <1>3, <1>9
        <3> QED
            BY <2>2, <3>1, <3>2, <1>3, <1>9
    <2>3. ASSUME ~s.late, NEW k \in 1..Len(r.errorTimes)
          PROVE  r.errorTimes[k] <= (Len(r.errorTimes) - k) * Gap + r.waited
                                     + (IF r.retry THEN 0 ELSE 1)
        <3>1. PICK m \in Int : m = (Len(times) - k) * Gap
            BY <2>2, <2>3, <1>11
        <3>2. times[k] \in Nat /\ times[k] <= m
            BY <2>2, <2>3, <3>1, <1>11
        <3> QED
            BY <3>1, <3>2, <1>11
    <2>6. ~s.late => Counted(r)
        BY <2>3, <1>3, <1>9, <1>11 DEF Counted
    <2>4. ErrorsFit(r)
        BY <2>1, <2>6, <1>11, <1>13, ConstantTypes DEF ErrorsFit
    <2>5. Held(r) /\ Len(r.errorTimes) <= RefuseErrors
        BY <2>1, <1>11, <1>14 DEF Held
    <2> QED
        BY <2>1, <2>4, <2>5, <1>1, <1>10 DEF Sound
<1> QED
    BY <1>12, <1>13, <1>14, ConstantTypes

\* The stream is sound, and wanted only by a panel that is there and switched on; one
\* that the hidden tab has paused is closed, and nobody is at its buttons.
StreamInv ==
    /\ Sound(Now) /\ sel \subseteq Kinds
    /\ {userOn, hiddenPaused, mounted, hidden} \subseteq BOOLEAN
    /\ wanted => mounted /\ userOn /\ ~hiddenPaused
    /\ hiddenPaused => state = "disconnected" /\ userOn /\ (hidden \/ ~mounted)

\* What the runs check follows.
LEMMA InvSays == StreamInv => ConnectionsSound /\ GivesUp
<1> SUFFICES ASSUME StreamInv PROVE ConnectionsSound /\ GivesUp
    OBVIOUS
<1>1. /\ Now.state = state /\ Now.wanted = wanted /\ Now.es = es /\ Now.held = held
      /\ Now.errorTimes = errorTimes /\ Now.retry = retry /\ Now.waited = waited
      /\ Now.failures = failures /\ Now.late = late
    BY DEF Now
<1>2. /\ state \in States /\ wanted \in BOOLEAN
      /\ es \in {"none", "connecting", "open", "closed"} /\ held \in Int
      /\ errorTimes \in Seq(0..RefuseWindow) /\ retry \in BOOLEAN /\ waited \in Nat
      /\ failures \in Nat /\ late \in BOOLEAN
    BY <1>1 DEF StreamInv, Sound, Streams
<1>3. /\ es # "closed" /\ Len(errorTimes) <= RefuseErrors
      /\ held = IF es = "none" THEN 0 ELSE 1
      /\ state = "live" <=> es = "open"
      /\ retry => es = "none" /\ wanted
      /\ es # "none" => wanted
      /\ wanted => state # "refused"
      /\ ErrorsFit(Now)
    BY <1>1 DEF StreamInv, Sound, Held
<1>4. TypeOK
    BY <1>2, <1>3 DEF TypeOK, States, StreamInv
<1>5. OneConnection /\ LiveIsHonest
    BY <1>3 DEF OneConnection, LiveIsHonest
<1>6. Quiet
    BY <1>3 DEF Quiet, StreamInv
<1>7. ASSUME ~late PROVE GivesUp
    <2>1. /\ es = "open" => failures = 0
          /\ es = "connecting" \/ retry => failures < RefuseErrors
          /\ failures <= RefuseErrors
        BY <1>1, <1>3, <1>7 DEF ErrorsFit, Counted
    <2> QED
        BY <2>1, <1>2, <1>3, ConstantTypes DEF GivesUp
<1> QED
    BY <1>4, <1>5, <1>6, <1>7 DEF ConnectionsSound, GivesUp

LEMMA BecomesSound ==
    ASSUME NEW r, Sound(r), Becomes(r)
    PROVE  /\ Sound(Now)' /\ wanted' = r.wanted /\ state' = r.state
           /\ es' = r.es /\ retry' = r.retry
<1>1. Now' = r
    BY DEF Sound, Streams, Becomes, Now
<1> QED
    BY <1>1 DEF Becomes

LEMMA NowSays ==
    ASSUME StreamInv
    PROVE  /\ Sound(Now) /\ Now \in Streams /\ Now.es # "closed" /\ Held(Now)
           /\ Now.es = es /\ Now.retry = retry /\ Now.wanted = wanted
           /\ Now.state = state /\ Now.held = held /\ Now.waited = waited
           /\ Now.errorTimes = errorTimes /\ Now.failures = failures
           /\ Now.late = late
           /\ ~wanted => es = "none" /\ ~retry
           /\ es # "none" => ~retry
BY DEF StreamInv, Sound, Now

LEMMA StreamInit == Init => StreamInv
<1> SUFFICES ASSUME Init PROVE StreamInv
    OBVIOUS
<1>1. PICK s : s = Panel(userOn, sel)
    OBVIOUS
<1>2. Sound(s)
    <2>1. CASE userOn
        BY <2>1, <1>1, NewSound, ConnectSound DEF Panel, Sound, New
    <2>2. CASE ~userOn
        BY <2>2, <1>1, NewSound DEF Panel
    <2> QED
        BY <2>1, <2>2
<1>3. s.wanted => userOn
    BY <1>1, NewSound DEF Panel
<1>4. Now = s
    BY <1>1, <1>2 DEF Init, Now, Sound, Streams
<1>5. wanted = s.wanted
    BY <1>4 DEF Now
<1> QED
    BY <1>2, <1>3, <1>4, <1>5 DEF Init, StreamInv

\* What the browser does to the stream.
LEMMA BrowserStep ==
    ASSUME StreamInv, Opened \/ Refused \/ Dropped \/ RetryFires
    PROVE  StreamInv' /\ state # "refused" /\ UNCHANGED panel
<1>1. UNCHANGED panel
    BY DEF Opened, Refused, Dropped, RetryFires
<1>2. es # "none" \/ retry
    BY DEF Opened, Refused, Dropped, RetryFires, Trying
<1>3. wanted /\ state # "refused"
    BY <1>2, NowSays DEF StreamInv, Sound
<1>4. \E r : Sound(r) /\ Becomes(r)
    <2>1. CASE Opened
        <3>1. PICK none \in Seq(0..RefuseWindow) : none = <<>>
            BY EmptySeq
        <3>2. PICK r : r = [Now EXCEPT !.es = "open", !.state = "live",
                                       !.errorTimes = none, !.failures = 0,
                                       !.late = FALSE]
            OBVIOUS
        <3>3. Becomes(r)
            BY <2>1, <3>1, <3>2 DEF Opened
        <3>4. /\ r \in Streams /\ r.es = "open" /\ r.state = "live" /\ r.errorTimes = none
              /\ r.failures = 0 /\ r.held = held /\ r.retry = retry /\ r.wanted = wanted
            BY <3>1, <3>2, NowSays DEF Streams, States
        <3>5. es = "connecting" /\ held = 1 /\ ~retry
            BY <2>1, NowSays DEF Opened, Trying, Held
        <3>6. Len(none) = 0
            BY <3>1
        <3>7. ErrorsFit(r)
            BY <3>1, <3>4, <3>5, <3>6, ConstantTypes DEF ErrorsFit, Counted
        <3>8. Held(r) /\ Len(r.errorTimes) <= RefuseErrors
            BY <3>4, <3>5, <3>6, ConstantTypes DEF Held
        <3>9. Sound(r)
            BY <3>4, <3>5, <3>7, <3>8, <1>3 DEF Sound
        <3> QED
            BY <3>3, <3>9
    <2>2. CASE Refused
        <3>1. PICK q : q = [Now EXCEPT !.es = "closed", !.held = Now.held - 1]
            OBVIOUS
        <3>2. Becomes(onError(q)) /\ Now.es = "connecting"
            BY <2>2, <3>1, NowSays DEF Refused, Trying
        <3> QED
            BY <3>1, <3>2, NowSays, ErrorSound
    <2>3. CASE Dropped
        <3>1. PICK q : q = [Now EXCEPT !.es = "connecting"]
            OBVIOUS
        <3>2. Becomes(onError(q)) /\ Now.es \in {"connecting", "open"}
            BY <2>3, <3>1, NowSays DEF Dropped
        <3> QED
            BY <3>1, <3>2, NowSays, ErrorSound
    <2>4. CASE RetryFires
        <3>1. Becomes(open([Now EXCEPT !.retry = FALSE], sel)) /\ Now.retry
            BY <2>4, <1>3, NowSays DEF RetryFires
        <3> QED
            BY <3>1, NowSays, OpenSound
    <2> QED
        BY <2>1, <2>2, <2>3, <2>4
<1>5. Sound(Now)'
    BY <1>4, BecomesSound
<1> QED
    BY <1>1, <1>3, <1>5 DEF StreamInv, panel

LEMMA TickStep ==
    ASSUME StreamInv, Tick
    PROVE  StreamInv' /\ UNCHANGED <<state, panel>>
<1>1. /\ UNCHANGED <<state, wanted, es, held, retry, failures, panel>>
      /\ waited' = (IF retry \/ es = "connecting" THEN waited + 1 ELSE waited)
      /\ late' = (late \/ (es = "connecting" /\ waited' > Prompt))
      /\ errorTimes' = [k \in DOMAIN errorTimes |->
                          IF errorTimes[k] < RefuseWindow THEN errorTimes[k] + 1
                          ELSE errorTimes[k]]
      /\ \/ retry /\ waited = 0
         \/ es = "connecting" /\ waited < MaxAnswer
         \/ ~retry /\ es # "connecting"
    BY DEF Tick, Trying
<1>2. /\ errorTimes \in Seq(0..RefuseWindow) /\ Len(errorTimes) \in Nat
      /\ DOMAIN errorTimes = 1..Len(errorTimes) /\ waited \in Nat
    BY NowSays, LenProperties DEF Streams
<1>3. errorTimes' \in [1..Len(errorTimes) -> 0..RefuseWindow]
    <2>1. \A k \in 1..Len(errorTimes) : errorTimes[k] \in 0..RefuseWindow
        BY <1>2, ElementOfSeq
    <2> QED
        BY <2>1, <1>1, <1>2, ConstantTypes
<1>4. errorTimes' \in Seq(0..RefuseWindow) /\ Len(errorTimes') = Len(errorTimes)
    <2>1. Seq(0..RefuseWindow) = UNION {[1..n -> 0..RefuseWindow] : n \in Nat}
        BY SeqDef
    <2>2. errorTimes' \in Seq(0..RefuseWindow)
        BY <2>1, <1>2, <1>3, Zenon
    <2>3. DOMAIN errorTimes' = 1..Len(errorTimes)
        BY <1>3
    <2> QED
        BY <2>2, <2>3, <1>2, LenProperties
<1>5. Now' \in Streams
    <2>1. late' \in BOOLEAN
        BY <1>1, NowSays DEF Streams
    <2> QED
        BY <2>1, <1>1, <1>2, <1>4, NowSays DEF Now, Streams
<1>6. PICK r \in Streams : r = Now'
    BY <1>5
<1>7. /\ r.es = es /\ r.retry = retry /\ r.wanted = wanted /\ r.state = state
      /\ r.held = held /\ r.failures = failures /\ r.waited = waited'
      /\ r.errorTimes = errorTimes' /\ r.late = late'
      /\ ~r.late => ~late /\ (es = "connecting" => ~(waited' > Prompt))
    BY <1>1, <1>6 DEF Now
<1>8. ErrorsFit(r)
    <2>1. /\ es = "open" => errorTimes = <<>> /\ failures = 0
          /\ retry => waited <= 1
          /\ es = "connecting" => waited <= MaxAnswer
          /\ es = "connecting" \/ retry => Len(errorTimes) < RefuseErrors
          /\ ~late => /\ failures <= RefuseErrors
                      /\ es = "connecting" \/ retry => failures = Len(errorTimes)
        BY NowSays DEF Sound, ErrorsFit, Counted
    <2>2. es = "open" => errorTimes' = <<>>
        BY <2>1, <1>4, EmptySeq
    <2>3. /\ retry => waited' <= 1
          /\ es = "connecting" => waited' <= MaxAnswer /\ (~r.late => waited' <= Prompt)
        BY <1>1, <1>2, <1>7, NowSays, ConstantTypes
    <2>4. ASSUME ~r.late, es = "connecting" \/ retry, NEW k \in 1..Len(errorTimes)
          PROVE  errorTimes'[k] <= (Len(errorTimes) - k) * Gap + waited'
                                     + (IF retry THEN 0 ELSE 1)
        <3>1. PICK m \in Int : m = (Len(errorTimes) - k) * Gap
            BY <1>2, ConstantTypes DEF Gap
        <3>2. PICK c \in {0, 1} : c = IF retry THEN 0 ELSE 1
            OBVIOUS
        <3>3. errorTimes[k] <= m + waited + c
            BY <2>4, <3>1, <3>2, <1>7, NowSays DEF Sound, ErrorsFit, Counted
        <3>4. errorTimes[k] \in Int /\ errorTimes'[k] \in Int /\ errorTimes'[k] <= errorTimes[k] + 1
            BY <1>1, <1>2, ElementOfSeq, ConstantTypes
        <3>5. waited' = waited + 1
            BY <2>4, <1>1
        <3> QED
            BY <3>1, <3>2, <3>3, <3>4, <3>5, <1>2
    <2>5. ~r.late => Counted(r)
        BY <2>1, <2>4, <1>4, <1>7 DEF Counted
    <2> QED
        BY <2>1, <2>2, <2>3, <2>5, <1>4, <1>7 DEF ErrorsFit
<1>9. Sound(Now)'
    <2>1. Sound(r)
        BY <1>4, <1>7, <1>8, NowSays DEF Sound, Held
    <2> QED
        BY <2>1, <1>6
<1> QED
    BY <1>1, <1>9 DEF StreamInv, panel

LEMMA ClickStep ==
    ASSUME StreamInv, Click
    PROVE  StreamInv'
<1>1. /\ mounted /\ ~hidden /\ userOn' = ~userOn /\ UNCHANGED <<sel, mounted, hidden>>
      /\ ~hiddenPaused
    BY DEF Click, StreamInv
<1>2. CASE ~userOn
    <2>1. hiddenPaused' = FALSE /\ Becomes(connect(Now, sel))
        BY <1>1, <1>2 DEF Click
    <2>2. Now.es = "none" /\ ~Now.retry
        BY <1>2, NowSays DEF StreamInv
    <2>3. Sound(connect(Now, sel))
        BY <2>2, NowSays, ConnectSound
    <2> QED
        BY <1>1, <1>2, <2>1, <2>3, BecomesSound DEF StreamInv
<1>3. CASE userOn
    <2>1. hiddenPaused' = hiddenPaused /\ Becomes(close(Now))
        BY <1>1, <1>3 DEF Click
    <2>2. Sound(close(Now)) /\ ~close(Now).wanted
        BY NowSays, CloseSound, CloseIs
    <2> QED
        BY <1>1, <1>3, <2>1, <2>2, BecomesSound DEF StreamInv
<1> QED
    BY <1>2, <1>3 DEF StreamInv

LEMMA AgainStep ==
    ASSUME StreamInv, Retry
    PROVE  StreamInv'
<1>1. /\ mounted /\ ~hidden /\ state = "refused" /\ userOn' = TRUE
      /\ UNCHANGED <<sel, hiddenPaused, mounted, hidden>> /\ Becomes(connect(Now, sel))
    BY DEF Retry
<1>2. ~hiddenPaused /\ Now.es = "none" /\ ~Now.retry
    BY <1>1, NowSays DEF StreamInv, Sound
<1>3. Sound(connect(Now, sel))
    BY <1>2, NowSays, ConnectSound
<1> QED
    BY <1>1, <1>2, <1>3, BecomesSound DEF StreamInv

LEMMA TickBoxStep ==
    ASSUME StreamInv, NEW k \in Kinds, TickBox(k)
    PROVE  StreamInv'
<1>1. /\ mounted /\ ~hidden /\ ~hiddenPaused
      /\ UNCHANGED <<userOn, hiddenPaused, mounted, hidden>>
    BY DEF TickBox, StreamInv
<1>2. sel' \subseteq Kinds
    BY DEF TickBox, StreamInv
<1> DEFINE s == setEvents(Now, sel')
<1>3. Becomes(IF sel' = {} THEN close(s)
              ELSE IF userOn /\ ~hiddenPaused /\ ~s.wanted /\ s.state # "refused"
              THEN connect(s, sel') ELSE s)
    BY DEF TickBox
<1>4. /\ Sound(s) /\ (s.wanted <=> wanted)
    <2>1. CASE wanted
        <3>1. s = connect(stop(Now), sel')
            BY <2>1, NowSays DEF setEvents
        <3>2. /\ stop(Now) \in Streams /\ stop(Now).es = "none" /\ ~stop(Now).retry
              /\ Held(stop(Now))
            <4>1. Unheld(Now) = 0
                BY NowSays DEF Held, Unheld, Streams
            <4> QED
                BY <4>1, NowSays, StopIs DEF Held
        <3> QED
            BY <2>1, <3>1, <3>2, ConnectSound
    <2>2. CASE ~wanted
        BY <2>2, NowSays DEF setEvents
    <2> QED
        BY <2>1, <2>2
<1>5. s \in Streams /\ Held(s) /\ s.es # "closed"
    BY <1>4 DEF Sound
<1> HIDE DEF s
<1>6. \E r : Sound(r) /\ Becomes(r) /\ (r.wanted => userOn)
    <2>1. wanted => userOn
        BY DEF StreamInv
    <2>2. CASE sel' = {}
        BY <2>2, <1>3, <1>4, <1>5, CloseSound, CloseIs
    <2>3. CASE sel' # {} /\ userOn /\ ~hiddenPaused /\ ~s.wanted /\ s.state # "refused"
        BY <2>3, <1>3, <1>4, <1>5, ConnectSound
    <2>4. CASE sel' # {} /\ ~(userOn /\ ~hiddenPaused /\ ~s.wanted /\ s.state # "refused")
        BY <2>1, <2>4, <1>3, <1>4
    <2> QED
        BY <2>2, <2>3, <2>4
<1>7. Sound(Now)' /\ (wanted' => userOn)
    BY <1>6, BecomesSound
<1> QED
    BY <1>1, <1>2, <1>7 DEF StreamInv

LEMMA HideStep ==
    ASSUME StreamInv, Hide
    PROVE  StreamInv' /\ (state = "refused" => state' = "refused")
<1>1. ~hidden /\ hidden' = TRUE /\ UNCHANGED <<sel, userOn, mounted>>
    BY DEF Hide
<1>2. CASE UNCHANGED <<hiddenPaused, stream>>
    <2>1. Now' = Now
        BY <1>2 DEF stream, Now
    <2> QED
        BY <2>1, <1>1, <1>2 DEF StreamInv, stream
<1>3. CASE hiddenPaused' = TRUE /\ Becomes(close(Now)) /\ (es # "none" \/ retry \/ wanted)
    <2>1. Sound(close(Now)) /\ ~close(Now).wanted /\ close(Now).state = "disconnected"
        BY NowSays, CloseSound, CloseIs
    <2>2. wanted /\ state # "refused"
        BY <1>3, NowSays DEF Sound
    <2> QED
        BY <1>1, <1>3, <2>1, <2>2, BecomesSound DEF StreamInv
<1> QED
    BY <1>2, <1>3 DEF Hide

LEMMA ShowStep ==
    ASSUME StreamInv, Show
    PROVE  StreamInv' /\ (state = "refused" => state' = "refused")
<1>1. hidden /\ hidden' = FALSE /\ UNCHANGED <<sel, userOn, mounted>>
    BY DEF Show
<1>2. CASE ~(mounted /\ userOn /\ hiddenPaused)
    <2>1. UNCHANGED <<hiddenPaused, stream>>
        BY <1>2 DEF Show
    <2>2. Now' = Now
        BY <2>1 DEF stream, Now
    <2>3. hiddenPaused => ~mounted
        BY <1>2 DEF StreamInv
    <2> QED
        BY <2>1, <2>2, <2>3, <1>1 DEF StreamInv, stream
<1>3. CASE mounted /\ userOn /\ hiddenPaused
    <2>1. hiddenPaused' = FALSE /\ Becomes(connect(Now, sel))
        BY <1>3 DEF Show
    <2>2. Now.es = "none" /\ ~Now.retry /\ state # "refused"
        BY <1>3, NowSays DEF StreamInv
    <2>3. Sound(connect(Now, sel))
        BY <2>2, NowSays, ConnectSound
    <2> QED
        BY <1>1, <1>3, <2>1, <2>2, <2>3, BecomesSound DEF StreamInv
<1> QED
    BY <1>2, <1>3

LEMMA UnmountStep ==
    ASSUME StreamInv, Unmount
    PROVE  StreamInv'
<1>1. mounted' = FALSE /\ UNCHANGED <<sel, userOn, hiddenPaused, hidden>>
      /\ Becomes(close(Now))
    BY DEF Unmount
<1>2. Sound(close(Now)) /\ ~close(Now).wanted /\ close(Now).state = "disconnected"
    BY NowSays, CloseSound, CloseIs
<1> QED
    BY <1>1, <1>2, BecomesSound DEF StreamInv

LEMMA MountStep ==
    ASSUME StreamInv, Mount
    PROVE  StreamInv'
<1>1. /\ mounted' = TRUE /\ hiddenPaused' = FALSE /\ UNCHANGED <<sel, userOn, hidden>>
      /\ Becomes([Panel(userOn, sel) EXCEPT !.held = @ + held])
      /\ ~mounted
    BY DEF Mount
<1>2. PICK s : s = Panel(userOn, sel)
    OBVIOUS
<1>3. Sound(s) /\ (s.wanted => userOn)
    <2>1. CASE userOn
        BY <2>1, <1>2, NewSound, ConnectSound DEF Panel, Sound, New
    <2>2. CASE ~userOn
        BY <2>2, <1>2, NewSound DEF Panel
    <2> QED
        BY <2>1, <2>2
<1>4. held = 0
    BY <1>1, NowSays DEF StreamInv, Held
<1>5. [s EXCEPT !.held = @ + held] = s
    BY <1>3, <1>4 DEF Sound, Streams
<1>6. Becomes(s)
    BY <1>1, <1>2, <1>5
<1> QED
    BY <1>1, <1>3, <1>6, BecomesSound DEF StreamInv

\* Every step keeps the invariant, and only the user leaves "refused".
LEMMA StreamStep ==
    ASSUME StreamInv, [Next]_vars
    PROVE  StreamInv' /\ RefusedWaitsForUser
<1>1. CASE User
    BY <1>1, ClickStep, AgainStep, TickBoxStep, UnmountStep, MountStep DEF User, RefusedWaitsForUser
<1>2. CASE Opened \/ Refused \/ Dropped \/ RetryFires
    BY <1>2, BrowserStep DEF RefusedWaitsForUser
<1>3. CASE Tick
    BY <1>3, TickStep DEF RefusedWaitsForUser
<1>4. CASE Hide \/ Show
    BY <1>4, HideStep, ShowStep DEF RefusedWaitsForUser
<1>5. CASE UNCHANGED vars
    <2>1. Now' = Now
        BY <1>5 DEF vars, stream, Now
    <2> QED
        BY <2>1, <1>5 DEF StreamInv, RefusedWaitsForUser, vars, stream, panel
<1> QED
    BY <1>1, <1>2, <1>3, <1>4, <1>5 DEF Next
-----------------------------------------------------------------------------
(* The ends of sequences. *)

\* s is the end of t.
Ends(s, t) ==
    /\ Len(s) <= Len(t)
    /\ \A i \in 1..Len(s) : s[i] = t[Len(t) - Len(s) + i]

\* Ends is the IsSuffix of the community modules, stated by places.
LEMMA EndsIsSuffix ==
    ASSUME NEW S, NEW s \in Seq(S), NEW t \in Seq(S), Ends(s, t)
    PROVE  IsSuffix(s, t)
<1>1. Len(s) \in Nat /\ Len(t) \in Nat /\ Len(s) <= Len(t)
    BY LenProperties DEF Ends
<1> DEFINE r == Reverse(s)
           q == Reverse(t)
<1>2. /\ r \in [1..Len(s) -> S] /\ \A i \in 1..Len(s) : r[i] = s[(Len(s) - i) + 1]
      /\ q \in [1..Len(t) -> S] /\ \A i \in 1..Len(t) : q[i] = t[(Len(t) - i) + 1]
    <2>1. \A i \in 1..Len(s) : s[(Len(s) - i) + 1] \in S
        BY <1>1, ElementOfSeq
    <2>2. \A i \in 1..Len(t) : t[(Len(t) - i) + 1] \in S
        BY <1>1, ElementOfSeq
    <2> QED
        BY <2>1, <2>2 DEF Reverse
<1> HIDE DEF r, q
<1>3. r \in Seq(S) /\ Len(r) = Len(s) /\ q \in Seq(S) /\ Len(q) = Len(t)
    <2>1. Seq(S) = UNION {[1..n -> S] : n \in Nat}
        BY SeqDef
    <2>2. r \in Seq(S) /\ q \in Seq(S)
        BY <2>1, <1>1, <1>2, Zenon
    <2>3. DOMAIN r = 1..Len(s) /\ DOMAIN q = 1..Len(t)
        BY <1>2
    <2> QED
        BY <2>2, <2>3, <1>1, LenProperties
<1>4. \A i \in 1..Len(r) : r[i] = q[i]
    <2>1. PICK m \in Nat, n \in Nat : m = Len(s) /\ n = Len(t) /\ m <= n
        BY <1>1
    <2>2. ASSUME NEW i \in 1..m PROVE r[i] = q[i]
        <3>1. PICK j \in 1..m : j = m - i + 1
            <4>1. m - i + 1 \in 1..m
                BY <2>1
            <4> QED
                BY <4>1
        <3>2. n - m + j = n - i + 1
            BY <2>1, <3>1
        <3>3. s[j] = t[n - m + j]
            BY <2>1 DEF Ends
        <3>4. r[i] = s[j] /\ q[i] = t[n - i + 1]
            BY <2>1, <3>1, <1>2
        <3> QED
            BY <3>2, <3>3, <3>4
    <2> QED
        BY <2>1, <2>2, <1>3
<1>5. SubSeq(r, 1, Len(r)) = SubSeq(q, 1, Len(r))
    <2>1. \A i \in 1..Len(r) : r[i] \in S /\ q[i] \in S
        BY <1>1, <1>3, ElementOfSeq
    <2> DEFINE a == SubSeq(r, 1, Len(r))
               b == SubSeq(q, 1, Len(r))
    <2>2. PICK n \in Nat : n = Len(r)
        BY <1>1, <1>3
    <2>3. /\ a \in Seq(S) /\ b \in Seq(S) /\ Len(a) = n /\ Len(b) = n
          /\ \A i \in 1..n : a[i] = r[i] /\ b[i] = q[i]
        BY <2>1, <2>2, SubSeqProperties
    <2> QED
        BY <2>2, <2>3, <1>4, SeqEqual
<1> QED
    BY <1>1, <1>3, <1>5 DEF IsSuffix, IsPrefix, r, q

LEMMA EndsOfItself == ASSUME NEW S, NEW s \in Seq(S) PROVE Ends(s, s)
BY LenProperties DEF Ends

LEMMA EndsOfAnEnd ==
    ASSUME NEW S, NEW s \in Seq(S), NEW t \in Seq(S), NEW u \in Seq(S),
           Ends(s, t), Ends(t, u)
    PROVE  Ends(s, u)
<1>1. /\ Len(s) \in Nat /\ Len(t) \in Nat /\ Len(u) \in Nat
      /\ Len(s) <= Len(t) /\ Len(t) <= Len(u)
    BY LenProperties DEF Ends
<1>2. ASSUME NEW i \in 1..Len(s) PROVE s[i] = u[Len(u) - Len(s) + i]
    <2>1. PICK j \in 1..Len(t) : j = Len(t) - Len(s) + i
        <3>1. Len(t) - Len(s) + i \in 1..Len(t)
            BY <1>1
        <3> QED
            BY <3>1
    <2>2. s[i] = t[j] /\ t[j] = u[Len(u) - Len(t) + j]
        BY <2>1 DEF Ends
    <2>3. Len(u) - Len(t) + j = Len(u) - Len(s) + i
        BY <1>1, <2>1
    <2> QED
        BY <2>2, <2>3
<1> QED
    BY <1>1, <1>2 DEF Ends

\* Of two ends of a sequence, the shorter is the end of the other.
LEMMA EndsAreNested ==
    ASSUME NEW S, NEW s \in Seq(S), NEW t \in Seq(S), NEW u \in Seq(S),
           Ends(s, u), Ends(t, u), Len(s) <= Len(t)
    PROVE  Ends(s, t)
<1>1. /\ Len(s) \in Nat /\ Len(t) \in Nat /\ Len(u) \in Nat
      /\ Len(s) <= Len(t) /\ Len(t) <= Len(u)
    BY LenProperties DEF Ends
<1>2. ASSUME NEW i \in 1..Len(s) PROVE s[i] = t[Len(t) - Len(s) + i]
    <2>1. PICK j \in 1..Len(t) : j = Len(t) - Len(s) + i
        <3>1. Len(t) - Len(s) + i \in 1..Len(t)
            BY <1>1
        <3> QED
            BY <3>1
    <2>2. s[i] = u[Len(u) - Len(s) + i] /\ t[j] = u[Len(u) - Len(t) + j]
        BY <2>1 DEF Ends
    <2>3. Len(u) - Len(t) + j = Len(u) - Len(s) + i
        BY <1>1, <2>1
    <2> QED
        BY <2>1, <2>2, <2>3
<1> QED
    BY <1>2 DEF Ends

LEMMA EndsAppend ==
    ASSUME NEW S, NEW s \in Seq(S), NEW t \in Seq(S), NEW x \in S, Ends(s, t)
    PROVE  Ends(Append(s, x), Append(t, x))
<1> DEFINE a == Append(s, x)
           b == Append(t, x)
<1>1. /\ Len(s) \in Nat /\ Len(t) \in Nat /\ Len(s) <= Len(t)
      /\ Len(a) = Len(s) + 1 /\ Len(b) = Len(t) + 1
      /\ \A i \in 1..Len(s) : a[i] = s[i]
      /\ \A i \in 1..Len(t) : b[i] = t[i]
      /\ a[Len(s) + 1] = x /\ b[Len(t) + 1] = x
    BY AppendProperties, LenProperties DEF Ends
<1> HIDE DEF a, b
<1>2. ASSUME NEW i \in 1..Len(a) PROVE a[i] = b[Len(b) - Len(a) + i]
    <2>1. CASE i = Len(s) + 1
        <3>1. Len(b) - Len(a) + i = Len(t) + 1
            BY <2>1, <1>1
        <3> QED
            BY <2>1, <3>1, <1>1
    <2>2. CASE i # Len(s) + 1
        <3>1. i \in 1..Len(s)
            BY <2>2, <1>1
        <3>2. PICK j \in 1..Len(t) : j = Len(t) - Len(s) + i
            <4>1. Len(t) - Len(s) + i \in 1..Len(t)
                BY <3>1, <1>1
            <4> QED
                BY <4>1
        <3>3. s[i] = t[j] /\ Len(b) - Len(a) + i = j
            BY <3>1, <3>2, <1>1 DEF Ends
        <3> QED
            BY <3>1, <3>2, <3>3, <1>1
    <2> QED
        BY <2>1, <2>2
<1>3. Len(a) <= Len(b)
    BY <1>1
<1>4. Ends(a, b)
    BY <1>2, <1>3 DEF Ends
<1> QED
    BY <1>4 DEF a, b

LEMMA EndsConcat ==
    ASSUME NEW S, NEW s \in Seq(S), NEW u \in Seq(S)
    PROVE  Ends(s, u \o s)
<1>1. /\ Len(s) \in Nat /\ Len(u) \in Nat /\ Len(u \o s) = Len(u) + Len(s)
      /\ \A i \in 1..(Len(u) + Len(s)) :
            (u \o s)[i] = IF i <= Len(u) THEN u[i] ELSE s[i - Len(u)]
    BY ConcatProperties, LenProperties
<1>2. ASSUME NEW i \in 1..Len(s) PROVE s[i] = (u \o s)[Len(u \o s) - Len(s) + i]
    <2>1. Len(u \o s) - Len(s) + i = Len(u) + i
        BY <1>1
    <2>2. (u \o s)[Len(u) + i] = s[(Len(u) + i) - Len(u)]
        BY <1>1
    <2>3. (Len(u) + i) - Len(u) = i
        BY <1>1
    <2> QED
        BY <2>1, <2>2, <2>3
<1> QED
    BY <1>1, <1>2 DEF Ends

\* The newest n, or all there are.
LEMMA NewestIs ==
    ASSUME NEW S, NEW s \in Seq(S), NEW n \in Nat \ {0}
    PROVE  /\ Newest(s, n) \in Seq(S) /\ Ends(Newest(s, n), s)
           /\ Len(Newest(s, n)) = IF Len(s) <= n THEN Len(s) ELSE n
<1>1. CASE Len(s) <= n
    BY <1>1, EndsOfItself DEF Newest
<1>2. CASE ~(Len(s) <= n)
    <2>1. PICK m \in Nat : m = Len(s)
        BY LenProperties
    <2>2. PICK o \in Nat : o = m - n + 1
        <3>1. m - n + 1 \in Nat
            BY <2>1, <1>2
        <3> QED
            BY <3>1
    <2>3. Newest(s, n) = SubSeq(s, o, m)
        BY <1>2, <2>1, <2>2 DEF Newest
    <2>4. \A i \in o..m : s[i] \in S
        BY <1>2, <2>1, <2>2, ElementOfSeq
    <2>5. /\ SubSeq(s, o, m) \in Seq(S)
          /\ Len(SubSeq(s, o, m)) = n
          /\ \A i \in 1..n : SubSeq(s, o, m)[i] = s[o + i - 1]
        <3>1. o <= m /\ m - o + 1 = n
            BY <1>2, <2>1, <2>2
        <3> QED
            BY <3>1, <2>4, SubSeqProperties
    <2>6. \A i \in 1..n : o + i - 1 = m - n + i
        BY <2>1, <2>2
    <2>7. n <= m
        BY <1>2, <2>1
    <2>8. ASSUME NEW i \in 1..n PROVE Newest(s, n)[i] = s[m - n + i]
        <3>1. Newest(s, n)[i] = s[o + i - 1]
            BY <2>3, <2>5
        <3>2. o + i - 1 = m - n + i
            BY <2>6
        <3> QED
            BY <3>1, <3>2
    <2>9. Ends(Newest(s, n), s)
        BY <2>1, <2>3, <2>5, <2>7, <2>8 DEF Ends
    <2> QED
        BY <1>2, <2>3, <2>5, <2>9
<1> QED
    BY <1>1, <1>2

\* An end that is short enough is an end of the newest.
LEMMA NewestHasEnds ==
    ASSUME NEW S, NEW s \in Seq(S), NEW t \in Seq(S), NEW n \in Nat \ {0},
           Ends(s, t), Len(s) <= n
    PROVE  Ends(s, Newest(t, n))
<1>1. Len(s) <= Len(t) /\ Len(s) \in Nat /\ Len(t) \in Nat
    BY LenProperties DEF Ends
<1>2. /\ Newest(t, n) \in Seq(S) /\ Ends(Newest(t, n), t)
      /\ Len(Newest(t, n)) = IF Len(t) <= n THEN Len(t) ELSE n
    BY NewestIs
<1> QED
    BY <1>1, <1>2, EndsAreNested

LEMMA NewestEnds ==
    ASSUME NEW S, NEW s \in Seq(S), NEW t \in Seq(S), NEW n \in Nat \ {0}, Ends(s, t)
    PROVE  Ends(Newest(s, n), Newest(t, n))
<1>1. /\ Newest(s, n) \in Seq(S) /\ Ends(Newest(s, n), s) /\ Len(Newest(s, n)) <= n
    BY NewestIs, LenProperties
<1>2. Ends(Newest(s, n), t)
    BY <1>1, EndsOfAnEnd
<1> QED
    BY <1>1, <1>2, NewestHasEnds

\* One more line pushes at most the oldest out.
LEMMA NewestAppend ==
    ASSUME NEW S, NEW s \in Seq(S), NEW x \in S, NEW n \in Nat \ {0}
    PROVE  Ends(Newest(Append(s, x), n), Append(Newest(s, n), x))
<1> DEFINE t == Append(s, x)
<1>1. t \in Seq(S) /\ Len(t) = Len(s) + 1 /\ Len(s) \in Nat
    BY AppendProperties, LenProperties
<1>2. /\ Newest(t, n) \in Seq(S) /\ Ends(Newest(t, n), t)
      /\ Len(Newest(t, n)) = IF Len(t) <= n THEN Len(t) ELSE n
    BY <1>1, NewestIs
<1>3. /\ Newest(s, n) \in Seq(S) /\ Ends(Newest(s, n), s)
      /\ Len(Newest(s, n)) = IF Len(s) <= n THEN Len(s) ELSE n
    BY NewestIs
<1>4. /\ Append(Newest(s, n), x) \in Seq(S)
      /\ Len(Append(Newest(s, n), x)) = Len(Newest(s, n)) + 1
    BY <1>3, AppendProperties
<1>5. Ends(Append(Newest(s, n), x), t)
    BY <1>3, EndsAppend
<1> HIDE DEF t
<1>6. Len(Newest(t, n)) <= Len(Append(Newest(s, n), x))
    BY <1>1, <1>2, <1>3, <1>4
<1>7. Ends(Newest(t, n), Append(Newest(s, n), x))
    BY <1>1, <1>2, <1>4, <1>5, <1>6, EndsAreNested
<1> QED
    BY <1>7 DEF t

\* A ring that takes one more loses at most its oldest.
LEMMA NewestOfOneMore ==
    ASSUME NEW S, NEW s \in Seq(S), NEW n \in Nat \ {0}, Len(s) <= n + 1
    PROVE  Newest(s, n) = s \/ (s # <<>> /\ Newest(s, n) = Tail(s))
<1>1. CASE Len(s) <= n
    BY <1>1 DEF Newest
<1>2. CASE ~(Len(s) <= n)
    <2>1. Len(s) = n + 1 /\ Len(s) \in Nat
        BY <1>2, LenProperties
    <2>2. s # <<>> /\ Len(s) - n + 1 = 2
        BY <2>1, EmptySeq
    <2>3. Newest(s, n) = SubSeq(s, 2, Len(s))
        BY <1>2, <2>2 DEF Newest
    <2> QED
        BY <2>2, <2>3, TailIsSubSeq
<1> QED
    BY <1>1, <1>2

\* Dropping the oldest line drops at most the oldest match.
LEMMA KeptOfTail ==
    ASSUME NEW S, NEW T, NEW s \in Seq(S), s # <<>>
    PROVE  Ends(Kept(Tail(s), T), Kept(s, T))
<1>1. s[1] \in S /\ Tail(s) \in Seq(S)
    BY EmptySeq, ElementOfSeq, HeadTailProperties
<1>2. Kept(Tail(s), T) \in Seq(S)
    <2>1. \A u \in Seq(S \cap T) : u \in Seq(S)
        BY SeqMonotonic
    <2> QED
        BY <2>1, <1>1, KeptIsWithin
<1>3. <<s[1]>> \in Seq(S)
    BY <1>1
<1>4. Kept(s, T) = IF s[1] \in T THEN <<s[1]>> \o Kept(Tail(s), T) ELSE Kept(Tail(s), T)
    BY KeptHead
<1> QED
    BY <1>2, <1>3, <1>4, EndsConcat, EndsOfItself
-----------------------------------------------------------------------------
(* The list. *)

Events == DOMAIN Feed

Hit(filter, kinds) == {e \in Events : Feed[e] \in kinds /\ (filter => e \in Hits)}

Logs == [entries : Seq(Events), pending : Seq(Events), rows : Seq(Events),
         paused : BOOLEAN, frame : BOOLEAN, filter : BOOLEAN]

LEMMA LogTypes ==
    /\ MaxEntries \in Nat \ {0} /\ MaxRows \in Nat \ {0} /\ SnapshotN \in Nat \ {0}
    /\ SnapshotN <= MaxEntries
    /\ Len(Feed) \in Nat /\ Events = 1..Len(Feed)
BY LogAssumption, LenProperties DEF Events

\* Matching lines are lines, and match.
LEMMA MatchingIs ==
    ASSUME NEW s \in Seq(Events), NEW filter \in BOOLEAN, NEW kinds
    PROVE  /\ Matching(s, filter, kinds) = Kept(s, Hit(filter, kinds))
           /\ Matching(s, filter, kinds) \in Seq(Hit(filter, kinds))
           /\ Matching(s, filter, kinds) \in Seq(Events)
<1>1. Matching(s, filter, kinds) = Kept(s, Hit(filter, kinds))
    BY DEF Matching, Hit, Events
<1>2. Kept(s, Hit(filter, kinds)) \in Seq(Events \cap Hit(filter, kinds))
    BY KeptIsWithin
<1>3. \A u \in Seq(Events \cap Hit(filter, kinds)) :
         u \in Seq(Events) /\ u \in Seq(Hit(filter, kinds))
    BY SeqMonotonic
<1> QED
    BY <1>1, <1>2, <1>3

LEMMA HitsAreEvents ==
    ASSUME NEW filter, NEW kinds
    PROVE  \A u \in Seq(Hit(filter, kinds)) : u \in Seq(Events)
<1>1. Hit(filter, kinds) \subseteq Events
    BY DEF Hit
<1> QED
    BY <1>1, SeqMonotonic

\* The list shows what it should: matching rows only, which with what waits for the
\* frame end in the newest matching entries; and what waits is the end of what is kept.
ListInv(l, kinds) ==
    /\ l \in Logs
    /\ Len(l.entries) <= MaxEntries /\ Len(l.rows) <= MaxRows
    /\ Ends(l.pending, l.entries)
    /\ l.rows \in Seq(Hit(l.filter, kinds))
    /\ Ends(Newest(Matching(l.entries, l.filter, kinds), MaxRows),
            l.rows \o Matching(l.pending, l.filter, kinds))

LEMMA NewListInv ==
    ASSUME NEW filter \in BOOLEAN, NEW kinds
    PROVE  ListInv(NewLog(filter), kinds)
<1>1. PICK none \in Seq(Events) : none = <<>>
    BY EmptySeq
<1>2. PICK l : l = NewLog(filter)
    OBVIOUS
<1>3. /\ l \in Logs /\ l.entries = none /\ l.pending = none /\ l.rows = none
      /\ l.filter = filter
    BY <1>1, <1>2 DEF NewLog, Logs
<1>4. Matching(none, filter, kinds) = none
    BY <1>1, KeptEmpty, MatchingIs
<1>5. Newest(none, MaxRows) = none /\ none \o none = none /\ Len(none) = 0
    BY <1>1, LogTypes, EmptySeq, ConcatEmptySeq DEF Newest
<1>6. Ends(none, none) /\ none \in Seq(Hit(filter, kinds))
    BY <1>1, EndsOfItself, EmptySeq
<1> QED
    BY <1>2, <1>3, <1>4, <1>5, <1>6, LogTypes DEF ListInv

\* rerender puts the list right, whatever it was.
LEMMA RerenderInv ==
    ASSUME NEW l \in Logs, NEW kinds, Len(l.entries) <= MaxEntries
    PROVE  /\ ListInv(rerender(l, kinds), kinds)
           /\ rerender(l, kinds).entries = l.entries /\ rerender(l, kinds).pending = <<>>
           /\ rerender(l, kinds).paused = l.paused /\ rerender(l, kinds).frame = l.frame
<1>1. PICK none \in Seq(Events) : none = <<>>
    BY EmptySeq
<1>2. l.entries \in Seq(Events) /\ l.filter \in BOOLEAN
    BY DEF Logs
<1>3. PICK m \in Seq(Hit(l.filter, kinds)) : m = Matching(l.entries, l.filter, kinds)
    BY <1>2, MatchingIs
<1>4. PICK rows \in Seq(Hit(l.filter, kinds)) : rows = Newest(m, MaxRows) /\ Len(rows) <= MaxRows
    BY NewestIs, LogTypes, LenProperties
<1>5. rows \in Seq(Events)
    BY HitsAreEvents
<1>6. PICK r : r = rerender(l, kinds)
    OBVIOUS
<1>7. r = [l EXCEPT !.pending = none, !.rows = rows]
    BY <1>1, <1>3, <1>4, <1>6 DEF rerender
<1>8. /\ r \in Logs /\ r.entries = l.entries /\ r.pending = none /\ r.rows = rows
      /\ r.filter = l.filter /\ r.paused = l.paused /\ r.frame = l.frame
    BY <1>1, <1>5, <1>7 DEF Logs
<1>9. Matching(none, l.filter, kinds) = none
    BY <1>1, <1>2, KeptEmpty, MatchingIs
<1>10. rows \o none = rows /\ Ends(rows, rows)
    BY <1>1, <1>5, ConcatEmptySeq, EndsOfItself
<1>11. Ends(none, l.entries)
    BY <1>1, <1>2, LenProperties DEF Ends
<1> QED
    BY <1>1, <1>2, <1>3, <1>4, <1>6, <1>8, <1>9, <1>10, <1>11 DEF ListInv

\* A line that arrives leaves the list right.
LEMMA AddInv ==
    ASSUME NEW l, NEW kinds, ListInv(l, kinds), NEW e \in Events, Feed[e] \in kinds
    PROVE  /\ ListInv(addEntry(l, e), kinds)
           /\ addEntry(l, e).entries = Newest(Append(l.entries, e), MaxEntries)
           /\ addEntry(l, e).frame
<1> DEFINE T == Hit(l.filter, kinds)
           E == Append(l.entries, e)
           P == Append(l.pending, e)
           X == l.rows \o Matching(l.pending, l.filter, kinds)
<1>1. /\ l \in Logs /\ l.entries \in Seq(Events) /\ l.pending \in Seq(Events)
      /\ l.rows \in Seq(Events) /\ l.filter \in BOOLEAN
      /\ Len(l.entries) \in Nat /\ Len(l.pending) \in Nat
      /\ Len(l.pending) <= Len(l.entries) /\ Len(l.entries) <= MaxEntries
    BY LenProperties DEF ListInv, Logs, Ends
<1>0. \A s \in Seq(Events) : /\ Matching(s, l.filter, kinds) = Kept(s, T)
                             /\ Kept(s, T) \in Seq(Events)
    BY <1>1, MatchingIs
<1> HIDE DEF T
<1>2. /\ E \in Seq(Events) /\ Len(E) = Len(l.entries) + 1
      /\ P \in Seq(Events) /\ Len(P) = Len(l.pending) + 1
    BY <1>1, AppendProperties
<1>3. PICK entries \in Seq(Events) : entries = Newest(E, MaxEntries)
    BY <1>2, NewestIs, LogTypes
<1>4. PICK pending \in Seq(Events) : pending = Newest(P, MaxEntries)
    BY <1>2, NewestIs, LogTypes
<1>5. /\ Ends(entries, E) /\ Len(entries) = (IF Len(E) <= MaxEntries THEN Len(E) ELSE MaxEntries)
      /\ Ends(pending, P) /\ Len(pending) = (IF Len(P) <= MaxEntries THEN Len(P) ELSE MaxEntries)
    BY <1>2, <1>3, <1>4, NewestIs, LogTypes
<1>6. PICK r : r = addEntry(l, e)
    OBVIOUS
<1>7. r = [l EXCEPT !.entries = entries, !.pending = pending, !.frame = TRUE]
    BY <1>1, <1>3, <1>4, <1>6 DEF addEntry, Logs
<1>8. /\ r \in Logs /\ r.entries = entries /\ r.pending = pending /\ r.rows = l.rows
      /\ r.filter = l.filter /\ r.frame
    BY <1>1, <1>7 DEF Logs
<1>9. Ends(pending, entries)
    <2>1. Ends(P, E)
        BY <1>1, EndsAppend DEF ListInv
    <2>2. Ends(pending, E)
        BY <2>1, <1>2, <1>5, EndsOfAnEnd
    <2>3. Len(pending) <= Len(entries)
        <3>1. PICK a \in Nat, b \in Nat : a = Len(l.entries) /\ b = Len(l.pending)
            BY <1>1
        <3>2. /\ Len(entries) = (IF a + 1 <= MaxEntries THEN a + 1 ELSE MaxEntries)
              /\ Len(pending) = (IF b + 1 <= MaxEntries THEN b + 1 ELSE MaxEntries)
              /\ b <= a
            BY <3>1, <1>1, <1>2, <1>5
        <3> QED
            BY <3>1, <3>2, LogTypes
    <2> QED
        BY <2>2, <2>3, <1>2, <1>5, EndsAreNested
<1>10. Ends(Newest(Kept(entries, T), MaxRows), l.rows \o Kept(pending, T))
    <2>0. /\ Kept(l.entries, T) \in Seq(Events) /\ Kept(l.pending, T) \in Seq(Events)
          /\ Kept(E, T) \in Seq(Events) /\ Kept(P, T) \in Seq(Events)
          /\ Kept(entries, T) \in Seq(Events) /\ Kept(pending, T) \in Seq(Events)
        BY <1>0, <1>1, <1>2, <1>3, <1>4
    <2>1. CASE Len(l.pending) = MaxEntries
        <3>1. l.pending = l.entries
            <4>1. Len(l.pending) = Len(l.entries)
                BY <2>1, <1>1
            <4>2. \A i \in 1..Len(l.pending) : l.pending[i] = l.entries[i]
                BY <4>1, <1>1 DEF ListInv, Ends
            <4> QED
                BY <4>1, <4>2, <1>1, SeqEqual
        <3>2. pending = entries
            BY <3>1, <1>3, <1>4
        <3>3. /\ Newest(Kept(entries, T), MaxRows) \in Seq(Events)
              /\ Ends(Newest(Kept(entries, T), MaxRows), Kept(entries, T))
            BY <2>0, NewestIs, LogTypes
        <3>4. /\ l.rows \o Kept(entries, T) \in Seq(Events)
              /\ Ends(Kept(entries, T), l.rows \o Kept(entries, T))
            BY <2>0, <1>1, EndsConcat, ConcatProperties
        <3> QED
            BY <3>2, <3>3, <3>4, <2>0, EndsOfAnEnd
    <2>2. CASE Len(l.pending) # MaxEntries
        <3>1. pending = P
            BY <2>2, <1>1, <1>2, <1>4, LogTypes DEF Newest
        <3>2. Ends(Kept(entries, T), Kept(E, T))
            <4>1. entries = E \/ (E # <<>> /\ entries = Tail(E))
                <5>1. Len(E) <= MaxEntries + 1
                    BY <1>1, <1>2, LogTypes
                <5> QED
                    BY <5>1, <1>2, <1>3, NewestOfOneMore, LogTypes
            <4> QED
                BY <4>1, <2>0, <1>2, EndsOfItself, KeptOfTail
        <3>3. /\ Ends(Newest(Kept(entries, T), MaxRows), Newest(Kept(E, T), MaxRows))
              /\ Newest(Kept(entries, T), MaxRows) \in Seq(Events)
              /\ Newest(Kept(E, T), MaxRows) \in Seq(Events)
            BY <3>2, <2>0, NewestEnds, NewestIs, LogTypes
        <3>4. /\ Kept(E, T) = IF e \in T THEN Append(Kept(l.entries, T), e) ELSE Kept(l.entries, T)
              /\ Kept(P, T) = IF e \in T THEN Append(Kept(l.pending, T), e) ELSE Kept(l.pending, T)
            BY <1>1, KeptAppend
        <3>5. /\ X \in Seq(Events) /\ X = l.rows \o Kept(l.pending, T)
              /\ Ends(Newest(Kept(l.entries, T), MaxRows), X)
              /\ Newest(Kept(l.entries, T), MaxRows) \in Seq(Events)
            <4>1. Matching(l.pending, l.filter, kinds) = Kept(l.pending, T)
                BY <1>0, <1>1
            <4>2. Matching(l.entries, l.filter, kinds) = Kept(l.entries, T)
                BY <1>0, <1>1
            <4>3. X = l.rows \o Kept(l.pending, T)
                BY <4>1
            <4>4. l.rows \o Kept(l.pending, T) \in Seq(Events)
                BY <2>0, <1>1, ConcatProperties
            <4>5. Ends(Newest(Kept(l.entries, T), MaxRows), X)
                BY <4>2 DEF ListInv
            <4>6. Newest(Kept(l.entries, T), MaxRows) \in Seq(Events)
                BY <2>0, NewestIs, LogTypes
            <4> QED
                BY <4>3, <4>4, <4>5, <4>6
        <3>6. CASE e \in T
            <4>1. Ends(Newest(Kept(E, T), MaxRows), Append(Newest(Kept(l.entries, T), MaxRows), e))
                BY <3>4, <3>6, <2>0, NewestAppend, LogTypes
            <4>2. Ends(Append(Newest(Kept(l.entries, T), MaxRows), e), Append(X, e))
                BY <3>5, EndsAppend
            <4>3. /\ Append(Newest(Kept(l.entries, T), MaxRows), e) \in Seq(Events)
                  /\ Append(X, e) \in Seq(Events)
                BY <3>5, AppendProperties
            <4>4. Ends(Newest(Kept(E, T), MaxRows), Append(X, e))
                BY <4>1, <4>2, <4>3, <3>3, EndsOfAnEnd
            <4>5. Append(X, e) = l.rows \o Kept(P, T)
                <5>1. /\ Append(X, e) = X \o <<e>> /\ <<e>> \in Seq(Events)
                      /\ Append(Kept(l.pending, T), e) = Kept(l.pending, T) \o <<e>>
                    <6>1. <<e>> \in Seq(Events)
                        OBVIOUS
                    <6>2. Append(X, e) = X \o <<e>>
                        BY <3>5, AppendIsConcat
                    <6>3. Append(Kept(l.pending, T), e) = Kept(l.pending, T) \o <<e>>
                        BY <2>0, AppendIsConcat
                    <6> QED
                        BY <6>1, <6>2, <6>3
                <5>2. (l.rows \o Kept(l.pending, T)) \o <<e>>
                        = l.rows \o (Kept(l.pending, T) \o <<e>>)
                    <6>1. PICK k \in Seq(Events) : k = Kept(l.pending, T)
                        BY <2>0
                    <6>2. PICK q \in Seq(Events) : q = <<e>>
                        BY <5>1
                    <6>3. (l.rows \o k) \o q = l.rows \o (k \o q)
                        <7>1. PICK p \in Seq(Events) : p = l.rows
                            BY <1>1
                        <7>2. (p \o k) \o q = p \o (k \o q)
                            BY ConcatAssociative
                        <7> QED
                            BY <7>1, <7>2
                    <6> QED
                        BY <6>1, <6>2, <6>3
                <5> QED
                    BY <5>1, <5>2, <3>4, <3>5, <3>6
            <4> QED
                BY <4>3, <4>4, <4>5, <3>1, <3>3, EndsOfAnEnd
        <3>7. CASE e \notin T
            BY <3>1, <3>3, <3>4, <3>5, <3>7, EndsOfAnEnd
        <3> QED
            BY <3>6, <3>7
    <2> QED
        BY <2>1, <2>2
<1>11. /\ Matching(entries, l.filter, kinds) = Kept(entries, T)
       /\ Matching(pending, l.filter, kinds) = Kept(pending, T)
    BY <1>0
<1>12. Len(entries) <= MaxEntries
    BY <1>1, <1>2, <1>5, LogTypes
<1> QED
    BY <1>3, <1>6, <1>8, <1>9, <1>10, <1>11, <1>12 DEF ListInv

\* So does the frame that draws what waits.
LEMMA FlushInv ==
    ASSUME NEW l, NEW kinds, ListInv(l, kinds)
    PROVE  /\ ListInv(flush(l, kinds), kinds)
           /\ flush(l, kinds).entries = l.entries
           /\ (l.paused /\ flush(l, kinds).paused) \/ flush(l, kinds).pending = <<>>
<1>1. /\ l \in Logs /\ l.entries \in Seq(Events) /\ l.pending \in Seq(Events)
      /\ l.rows \in Seq(Events) /\ l.filter \in BOOLEAN
    BY DEF ListInv, Logs
<1>2. PICK r : r = flush(l, kinds)
    OBVIOUS
<1>3. CASE l.paused
    <2>1. r = [l EXCEPT !.frame = FALSE]
        BY <1>2, <1>3 DEF flush
    <2>2. /\ r \in Logs /\ r.entries = l.entries /\ r.pending = l.pending
          /\ r.rows = l.rows /\ r.filter = l.filter /\ r.paused = l.paused
        BY <2>1, <1>1 DEF Logs
    <2> QED
        BY <2>2, <1>2, <1>3 DEF ListInv
<1>4. CASE ~l.paused
    <2>1. PICK none \in Seq(Events) : none = <<>>
        BY EmptySeq
    <2>2. PICK m \in Seq(Hit(l.filter, kinds)) : m = Matching(l.pending, l.filter, kinds)
        BY <1>1, MatchingIs
    <2>3. PICK x \in Seq(Hit(l.filter, kinds)) : x = l.rows \o m
        BY ConcatProperties DEF ListInv
    <2>4. PICK rows \in Seq(Hit(l.filter, kinds)) : rows = Newest(x, MaxRows) /\ Len(rows) <= MaxRows
        BY NewestIs, LogTypes, LenProperties
    <2>5. rows \in Seq(Events) /\ x \in Seq(Events)
        BY HitsAreEvents
    <2>6. r = [l EXCEPT !.frame = FALSE, !.pending = none, !.rows = rows]
        BY <2>1, <2>2, <2>3, <2>4, <1>1, <1>2, <1>4 DEF flush, Logs
    <2>7. /\ r \in Logs /\ r.entries = l.entries /\ r.pending = none /\ r.rows = rows
          /\ r.filter = l.filter
        BY <2>1, <2>5, <2>6, <1>1 DEF Logs
    <2>8. Matching(none, l.filter, kinds) = none
        BY <2>1, <1>1, KeptEmpty, MatchingIs
    <2>9. rows \o none = rows
        BY <2>1, <2>5, ConcatEmptySeq
    <2>10. Ends(none, l.entries)
        BY <2>1, <1>1, LenProperties DEF Ends
    <2>11. Ends(Newest(Matching(l.entries, l.filter, kinds), MaxRows), rows)
        <3>1. Matching(l.entries, l.filter, kinds) \in Seq(Events)
            BY <1>1, MatchingIs
        <3>2. PICK n \in Seq(Events) :
                 n = Newest(Matching(l.entries, l.filter, kinds), MaxRows) /\ Len(n) <= MaxRows
            BY <3>1, NewestIs, LogTypes, LenProperties
        <3>3. Ends(n, x)
            BY <3>2, <2>2, <2>3 DEF ListInv
        <3> QED
            BY <3>2, <3>3, <2>4, <2>5, NewestHasEnds, LogTypes
    <2> QED
        BY <2>1, <2>4, <2>7, <2>8, <2>9, <2>10, <2>11, <1>2 DEF ListInv
<1> QED
    BY <1>3, <1>4

Sorted(s) == \A i, j \in 1..Len(s) : i < j => s[i] < s[j]

UpTo(s, n) == \A k \in 1..Len(s) : s[k] <= n

\* The end of an ordered list is ordered.
LEMMA EndsInOrder ==
    ASSUME NEW s \in Seq(Int), NEW t \in Seq(Int), NEW n \in Int,
           Ends(s, t), Sorted(t), UpTo(t, n)
    PROVE  Sorted(s) /\ UpTo(s, n)
<1>1. PICK a \in Nat, b \in Nat : a = Len(s) /\ b = Len(t) /\ a <= b
    BY LenProperties DEF Ends
<1>2. ASSUME NEW i \in 1..a
      PROVE  b - a + i \in 1..b /\ s[i] = t[b - a + i]
    <2>1. b - a + i \in 1..b
        BY <1>1
    <2>2. s[i] = t[b - a + i]
        BY <1>1 DEF Ends
    <2> QED
        BY <2>1, <2>2
<1>3. ASSUME NEW i \in 1..a, NEW j \in 1..a, i < j PROVE s[i] < s[j]
    <2>1. PICK g \in 1..b, h \in 1..b : g = b - a + i /\ h = b - a + j
        BY <1>2
    <2>2. g < h
        BY <2>1, <1>1, <1>3
    <2>3. t[g] < t[h]
        BY <2>1, <2>2, <1>1 DEF Sorted
    <2> QED
        BY <2>1, <2>3, <1>2
<1>4. ASSUME NEW i \in 1..a PROVE s[i] <= n
    BY <1>1, <1>2 DEF UpTo
<1> QED
    BY <1>1, <1>3, <1>4 DEF Sorted, UpTo

\* So is a part of it.
LEMMA WithinInOrder ==
    ASSUME NEW s \in Seq(Int), NEW t \in Seq(Int), NEW n \in Int,
           Within(s, t), Sorted(t), UpTo(t, n)
    PROVE  Sorted(s) /\ UpTo(s, n)
<1>1. PICK p \in [1..Len(s) -> 1..Len(t)] :
         /\ \A i, j \in 1..Len(s) : i < j => p[i] < p[j]
         /\ \A k \in 1..Len(s) : s[k] = t[p[k]]
    BY DEF Within
<1> QED
    BY <1>1 DEF Sorted, UpTo

LEMMA AppendInOrder ==
    ASSUME NEW s \in Seq(Int), NEW n \in Int, NEW x \in Int,
           Sorted(s), UpTo(s, n), n < x
    PROVE  Sorted(Append(s, x)) /\ UpTo(Append(s, x), x)
<1>0. PICK a \in Nat : a = Len(s)
    BY LenProperties
<1>1. PICK t \in Seq(Int) :
         /\ t = Append(s, x) /\ Len(t) = a + 1
         /\ \A i \in 1..a : t[i] = s[i]
         /\ t[a + 1] = x
    BY <1>0, AppendProperties
<1>2. \A i \in 1..a : t[i] \in Int /\ t[i] < x
    <2>1. \A i \in 1..a : s[i] \in Int /\ s[i] <= n
        BY <1>0, ElementOfSeq DEF UpTo
    <2> QED
        BY <2>1, <1>1
<1>3. ASSUME NEW i \in 1..(a + 1), NEW j \in 1..(a + 1), i < j PROVE t[i] < t[j]
    <2>1. i \in 1..a
        BY <1>0, <1>3
    <2>2. CASE j = a + 1
        BY <2>1, <2>2, <1>1, <1>2
    <2>3. CASE j # a + 1
        <3>1. j \in 1..a
            BY <1>0, <2>3
        <3> QED
            BY <2>1, <3>1, <1>0, <1>1, <1>3 DEF Sorted
    <2> QED
        BY <2>2, <2>3
<1>4. ASSUME NEW i \in 1..(a + 1) PROVE t[i] <= x
    <2>1. CASE i = a + 1
        BY <2>1, <1>1
    <2>2. CASE i # a + 1
        <3>1. i \in 1..a
            BY <1>0, <2>2
        <3> QED
            BY <3>1, <1>2
    <2> QED
        BY <2>1, <2>2
<1> QED
    BY <1>0, <1>1, <1>3, <1>4 DEF Sorted, UpTo

\* The entries are in the server's order, and nothing a connection is yet to bring is
\* among them.
InOrder ==
    /\ Sorted(log.entries) /\ UpTo(log.entries, emitted)
    /\ es # "none" => UpTo(log.entries, pos)

LogInv ==
    /\ emitted \in 0..Len(Feed) /\ pos \in 0..emitted /\ mixed \in BOOLEAN
    /\ ListInv(log, sel)
    /\ log.pending # <<>> => log.frame \/ log.paused
    /\ mixed \/ InOrder

\* What the run checks follows.
LEMMA LogInvSays == LogInv => LogSound
<1> SUFFICES ASSUME LogInv PROVE LogSound
    OBVIOUS
<1> DEFINE matching(s) == Matching(s, log.filter, sel)
<1>1. /\ log \in Logs /\ log.entries \in Seq(Events) /\ log.pending \in Seq(Events)
      /\ log.rows \in Seq(Events) /\ log.filter \in BOOLEAN
      /\ log.paused \in BOOLEAN /\ log.frame \in BOOLEAN
      /\ Len(log.entries) \in Nat /\ Len(log.pending) \in Nat
      /\ Len(log.pending) <= Len(log.entries) /\ Len(log.entries) <= MaxEntries
      /\ Len(log.rows) <= MaxRows
    BY LenProperties DEF LogInv, ListInv, Logs, Ends
<1>2. LogTypeOK
    <2>1. {Len(log.entries), Len(log.pending)} \subseteq 0..MaxEntries
        BY <1>1, LogTypes
    <2> QED
        BY <2>1, <1>1 DEF LogTypeOK, LogInv
<1>3. matching(log.rows) = log.rows
    <2>1. log.rows \in Seq(Hit(log.filter, sel))
        BY DEF LogInv, ListInv
    <2>2. Kept(log.rows, Hit(log.filter, sel)) = log.rows
        BY <2>1, KeptAll
    <2> QED
        BY <2>2, <1>1, MatchingIs
<1>4. IsSuffix(Newest(matching(log.entries), MaxRows), log.rows \o matching(log.pending))
    <2>1. matching(log.entries) \in Seq(Events) /\ matching(log.pending) \in Seq(Events)
        BY <1>1, MatchingIs
    <2>2. /\ Newest(matching(log.entries), MaxRows) \in Seq(Events)
          /\ log.rows \o matching(log.pending) \in Seq(Events)
        BY <2>1, <1>1, NewestIs, ConcatProperties, LogTypes
    <2>3. Ends(Newest(matching(log.entries), MaxRows), log.rows \o matching(log.pending))
        BY DEF LogInv, ListInv
    <2> QED
        BY <2>2, <2>3, EndsIsSuffix
<1>5. mixed \/ IsSorted(log.entries, <)
    BY DEF LogInv, InOrder, Sorted, IsSorted
<1>6. mounted /\ log.pending # <<>> => log.frame \/ log.paused
    BY DEF LogInv
<1> QED
    BY <1>2, <1>3, <1>4, <1>5, <1>6, Zenon DEF LogSound

LEMMA LogStarts == LogInit => LogInv
<1> SUFFICES ASSUME LogInit PROVE LogInv
    OBVIOUS
<1>1. PICK filter \in BOOLEAN : log = NewLog(filter)
    BY DEF LogInit
<1>2. log.entries = <<>> /\ log.pending = <<>>
    BY <1>1 DEF NewLog
<1>3. Sorted(log.entries) /\ UpTo(log.entries, emitted) /\ UpTo(log.entries, pos)
    BY <1>2 DEF Sorted, UpTo
<1>4. ListInv(log, sel)
    BY <1>1, NewListInv
<1>5. emitted = 0 /\ pos = 0 /\ mixed = FALSE
    BY DEF LogInit
<1>6. emitted \in 0..Len(Feed) /\ pos \in 0..emitted
    BY <1>5, LogTypes
<1> QED
    BY <1>2, <1>3, <1>4, <1>5, <1>6 DEF LogInv, InOrder

\* A source is open only after it has been tried.
LEMMA OpenedEarlier ==
    ASSUME StreamInv, Next, es' = "open"
    PROVE  es # "none"
<1>1. CASE Opened \/ Refused \/ Dropped
    BY <1>1 DEF Opened, Refused, Dropped, Trying
<1>2. CASE RetryFires
    <2>1. PICK q : q = [Now EXCEPT !.retry = FALSE]
        OBVIOUS
    <2>2. q \in Streams /\ q.es = es
        BY <2>1, NowSays DEF Streams
    <2>3. Becomes(IF wanted THEN open(q, sel) ELSE q)
        BY <1>2, <2>1 DEF RetryFires
    <2> QED
        BY <2>2, <2>3, OpenIs DEF Becomes
<1>3. CASE Tick
    BY <1>3 DEF Tick
<1>4. CASE Click \/ Retry
    BY <1>4, NowSays, ConnectIs, CloseIs DEF Click, Retry, Becomes
<1>5. ASSUME NEW k \in Kinds, TickBox(k) PROVE es # "none"
    <2> DEFINE s == setEvents(Now, sel')
    <2>1. s \in Streams /\ (s.es = "open" => es = "open")
        <3>1. stop(Now) \in Streams /\ stop(Now).es = "none"
            BY NowSays, StopIs
        <3> QED
            BY <3>1, NowSays, ConnectIs DEF setEvents
    <2>2. Becomes(IF sel' = {} THEN close(s)
                  ELSE IF userOn /\ ~hiddenPaused /\ ~s.wanted /\ s.state # "refused"
                  THEN connect(s, sel') ELSE s)
        BY <1>5 DEF TickBox
    <2> HIDE DEF s
    <2> QED
        BY <2>1, <2>2, ConnectIs, CloseIs DEF Becomes
<1>6. CASE Hide \/ Show
    BY <1>6, NowSays, ConnectIs, CloseIs DEF Hide, Show, Becomes, stream
<1>7. CASE Unmount
    BY <1>7, NowSays, CloseIs DEF Unmount, Becomes
<1>8. CASE Mount
    <2>1. Panel(userOn, sel).es # "open" /\ Panel(userOn, sel) \in Streams
        BY NewSound, ConnectIs DEF Panel, Sound
    <2>2. [Panel(userOn, sel) EXCEPT !.held = @ + held].es = Panel(userOn, sel).es
        BY <2>1 DEF Streams
    <2> QED
        BY <2>1, <2>2, <1>8 DEF Mount, Becomes
<1> QED
    BY <1>1, <1>2, <1>3, <1>4, <1>5, <1>6, <1>7, <1>8 DEF Next, User

\* A connection brings only what is emitted from its beginning on.
LEMMA SubscribedInOrder ==
    ASSUME StreamInv, StreamInv', Next, LogInv, Subscribes, emitted' = emitted,
           log'.entries = log.entries, mixed' = mixed
    PROVE  pos' \in 0..emitted' /\ (mixed \/ InOrder')
<1>1. pos' \in 0..emitted
    BY LogTypes DEF LogInv, Subscribes
<1>2. es \in {"none", "connecting", "open"} /\ es' \in {"none", "connecting", "open"}
    BY DEF StreamInv, Sound, Streams, Now
<1>3. ASSUME ~mixed PROVE InOrder'
    <2>1. InOrder
        BY <1>3 DEF LogInv
    <2>2. ASSUME es' # "none" PROVE UpTo(log.entries, pos')
        <3>1. CASE pos' = emitted
            BY <3>1, <2>1 DEF InOrder
        <3>2. CASE pos' # emitted
            <4>1. pos' = pos
                BY <3>2 DEF Subscribes
            <4>2. es # "none"
                <5>1. CASE es' = "connecting"
                    BY <5>1, <3>2 DEF Subscribes, stream
                <5>2. CASE es' = "open"
                    BY <5>2, OpenedEarlier
                <5> QED
                    BY <5>1, <5>2, <2>2, <1>2
            <4> QED
                BY <4>1, <4>2, <2>1 DEF InOrder
        <3> QED
            BY <3>1, <3>2
    <2>3. UpTo(log.entries, emitted) /\ Sorted(log.entries)
        BY <2>1 DEF InOrder
    <2>4. /\ Sorted(log'.entries) /\ UpTo(log'.entries, emitted')
          /\ es' # "none" => UpTo(log'.entries, pos')
        BY <2>2, <2>3
    <2> QED
        BY <2>4 DEF InOrder, Sorted, UpTo
<1> QED
    BY <1>1, <1>3

\* The moves of the connection that leave the list and the selection alone.
StreamMoves ==
    \/ Opened \/ Refused \/ Dropped \/ RetryFires
    \/ Click \/ Retry \/ Hide \/ Show \/ Mount

LEMMA MovesKeepLog ==
    ASSUME StreamInv, StreamInv', StreamMoves, LogInv, Subscribes,
           UNCHANGED <<emitted, log, mixed>>
    PROVE  LogInv'
<1>1. Next /\ sel' = sel
    BY DEF StreamMoves, Next, User, Opened, Refused, Dropped, RetryFires, Click, Retry, Hide,
           Show, Mount, panel
<1>2. pos' \in 0..emitted' /\ (mixed \/ InOrder')
    BY <1>1, SubscribedInOrder
<1>3. ListInv(log', sel')
    BY <1>1 DEF LogInv
<1> QED
    BY <1>2, <1>3 DEF LogInv

LEMMA SelectKeepsLog ==
    ASSUME StreamInv, StreamInv', LogInv, NEW k \in Kinds, Select(k)
    PROVE  LogInv'
<1>1. Next /\ log' = rerender(log, sel') /\ UNCHANGED <<emitted, mixed>> /\ Subscribes
    BY DEF Select, Next, User
<1>2. log \in Logs /\ Len(log.entries) <= MaxEntries
    BY DEF LogInv, ListInv
<1>3. ListInv(log', sel') /\ log'.entries = log.entries /\ log'.pending = <<>>
    BY <1>1, <1>2, RerenderInv
<1>4. pos' \in 0..emitted' /\ (mixed \/ InOrder')
    BY <1>1, <1>3, SubscribedInOrder
<1> QED
    BY <1>1, <1>3, <1>4 DEF LogInv

LEMMA LeaveKeepsLog ==
    ASSUME StreamInv, LogInv, Leave
    PROVE  LogInv'
<1>1. PICK filter \in BOOLEAN : log' = NewLog(filter)
    BY DEF Leave
<1>2. log'.entries = <<>> /\ log'.pending = <<>>
    BY <1>1 DEF NewLog
<1>3. Sorted(log'.entries) /\ UpTo(log'.entries, emitted') /\ UpTo(log'.entries, pos')
    BY <1>2 DEF Sorted, UpTo
<1>4. ListInv(log', sel')
    BY <1>1, NewListInv
<1> QED
    BY <1>2, <1>3, <1>4 DEF LogInv, InOrder, Leave, Sorted, UpTo

LEMMA ArrivalKeepsLog ==
    ASSUME StreamInv, LogInv, onServerEvent
    PROVE  LogInv'
<1>1. /\ es = "open" /\ es' = es /\ sel' = sel /\ emitted' = emitted /\ mixed' = mixed
      /\ emitted \in 0..Len(Feed) /\ pos \in 0..emitted
    BY DEF onServerEvent, vars, stream, panel, LogInv
<1>2. PICK e \in (pos + 1)..emitted :
        Feed[e] \in sel /\ pos' = e /\ log' = addEntry(log, e)
    BY DEF onServerEvent
<1>3. e \in Events /\ e \in 0..emitted /\ pos < e /\ e \in Int /\ pos \in Int
    BY <1>1, <1>2, LogTypes
<1>4. /\ ListInv(log', sel') /\ log'.frame
      /\ log'.entries = Newest(Append(log.entries, e), MaxEntries)
    BY <1>1, <1>2, <1>3, AddInv DEF LogInv
<1>5. ASSUME ~mixed PROVE InOrder'
    <2>1. Sorted(log.entries) /\ UpTo(log.entries, pos)
        BY <1>1, <1>5 DEF LogInv, InOrder
    <2>2. log.entries \in Seq(Events)
        BY DEF LogInv, ListInv, Logs
    <2>3. log.entries \in Seq(Int)
        BY <2>2, LogTypes, SeqMonotonic
    <2>4. PICK t \in Seq(Int) : t = Append(log.entries, e)
        BY <2>3, <1>3, AppendProperties
    <2>5. Sorted(t) /\ UpTo(t, e)
        BY <2>1, <2>3, <2>4, <1>3, AppendInOrder
    <2>6. Newest(t, MaxEntries) \in Seq(Int) /\ Ends(Newest(t, MaxEntries), t)
        BY NewestIs, LogTypes
    <2>7. Sorted(Newest(t, MaxEntries)) /\ UpTo(Newest(t, MaxEntries), e)
        BY <2>5, <2>6, <1>3, EndsInOrder
    <2>8. PICK r \in Seq(Int) : r = log'.entries /\ Sorted(r) /\ UpTo(r, e)
        BY <2>4, <2>6, <2>7, <1>4
    <2>9. UpTo(r, emitted)
        <3>1. \A i \in 1..Len(r) : r[i] \in Int /\ r[i] <= e
            BY <2>8, ElementOfSeq DEF UpTo
        <3>2. e <= emitted /\ emitted \in Int /\ e \in Int
            BY <1>1, <1>3
        <3> QED
            BY <3>1, <3>2 DEF UpTo
    <2>10. Sorted(log'.entries) /\ UpTo(log'.entries, emitted') /\ UpTo(log'.entries, pos')
        BY <2>8, <2>9, <1>1, <1>2
    <2> QED
        BY <2>10 DEF InOrder, Sorted, UpTo
<1>6. pos' \in 0..emitted'
    BY <1>1, <1>2, <1>3
<1>7. mixed' \/ InOrder'
    BY <1>1, <1>5
<1> QED
    BY <1>1, <1>4, <1>6, <1>7 DEF LogInv

\* Whatever leaves the entries, the events and the connection alone keeps the order.
LEMMA OrderStands ==
    ASSUME UNCHANGED <<vars, emitted, pos, mixed>>, log'.entries = log.entries,
           mixed \/ InOrder
    PROVE  mixed' \/ InOrder'
BY DEF InOrder, Sorted, UpTo, vars, stream

LEMMA PanelKeepsLog ==
    ASSUME LogInv, Flush \/ setPaused \/ SetFilter
    PROVE  LogInv'
<1>1. UNCHANGED <<vars, emitted, pos, mixed>> /\ sel' = sel
    BY DEF Flush, setPaused, SetFilter, vars, panel
<1>2. log \in Logs /\ Len(log.entries) <= MaxEntries /\ ListInv(log, sel)
    BY DEF LogInv, ListInv
<1>3. CASE Flush
    <2>1. log' = flush(log, sel)
        BY <1>3 DEF Flush
    <2>2. /\ ListInv(log', sel') /\ log'.entries = log.entries
          /\ log'.paused \/ log'.pending = <<>>
        BY <2>1, <1>1, <1>2, FlushInv
    <2> QED
        BY <2>2, <1>1, OrderStands DEF LogInv
<1>4. CASE setPaused
    <2>1. log' = [log EXCEPT !.paused = ~@, !.frame = @ \/ log.paused]
        BY <1>4 DEF setPaused
    <2>2. PICK p \in BOOLEAN, f \in BOOLEAN :
             p = ~log.paused /\ f = (log.frame \/ log.paused)
        OBVIOUS
    <2>3. log' = [log EXCEPT !.paused = p, !.frame = f]
        BY <2>1, <2>2, <1>2 DEF Logs
    <2>4. /\ log' \in Logs /\ log'.entries = log.entries /\ log'.pending = log.pending
          /\ log'.rows = log.rows /\ log'.filter = log.filter
          /\ log'.paused = p /\ log'.frame = f
        BY <2>2, <2>3, <1>2 DEF Logs
    <2>5. ListInv(log', sel')
        BY <2>4, <1>1, <1>2 DEF ListInv
    <2>6. log'.pending # <<>> => log'.frame \/ log'.paused
        BY <2>2, <2>4
    <2> QED
        BY <2>4, <2>5, <2>6, <1>1, OrderStands DEF LogInv
<1>5. CASE SetFilter
    <2>1. PICK f \in BOOLEAN : f = ~log.filter
        OBVIOUS
    <2>2. PICK l : l = [log EXCEPT !.filter = f]
        OBVIOUS
    <2>3. l \in Logs /\ l.entries = log.entries
        BY <2>2, <1>2 DEF Logs
    <2>4. log' = rerender(l, sel)
        <3>1. l = [log EXCEPT !.filter = ~@]
            BY <2>1, <2>2, <1>2 DEF Logs
        <3> QED
            BY <3>1, <1>5 DEF SetFilter
    <2>5. ListInv(log', sel') /\ log'.entries = log.entries /\ log'.pending = <<>>
        BY <2>3, <2>4, <1>1, <1>2, RerenderInv
    <2> QED
        BY <2>5, <1>1, OrderStands DEF LogInv
<1> QED
    BY <1>3, <1>4, <1>5

LEMMA ClearKeepsLog ==
    ASSUME LogInv, Clear
    PROVE  LogInv'
<1>1. UNCHANGED <<vars, emitted, pos>> /\ sel' = sel /\ mixed' = FALSE
    BY DEF Clear, vars, panel
<1>2. log \in Logs
    BY DEF LogInv, ListInv
<1>3. PICK none \in Seq(Events) : none = <<>> /\ Len(none) = 0
    BY EmptySeq
<1>4. PICK l : l = resetData(log)
    OBVIOUS
<1>5. l \in Logs /\ l.entries = none
    BY <1>2, <1>3, <1>4 DEF Logs, resetData
<1>6. log' = rerender(l, sel)
    BY <1>4 DEF Clear
<1>7. ListInv(log', sel') /\ log'.entries = none /\ log'.pending = <<>>
    BY <1>1, <1>3, <1>5, <1>6, RerenderInv, LogTypes
<1>8. Sorted(log'.entries) /\ UpTo(log'.entries, emitted') /\ UpTo(log'.entries, pos')
    BY <1>3, <1>7 DEF Sorted, UpTo
<1> QED
    BY <1>1, <1>7, <1>8 DEF LogInv, InOrder, Sorted, UpTo

\* A snapshot is a part of the feed, in its order.
LEMMA SnapshotKeepsLog ==
    ASSUME LogInv, SnapshotArrives
    PROVE  LogInv'
<1>1. /\ UNCHANGED <<vars, emitted, pos>> /\ sel' = sel /\ es' = es
      /\ mixed' = (es # "none")
    BY DEF SnapshotArrives, vars, stream, panel
<1>2. log \in Logs /\ emitted \in 0..Len(Feed)
    BY DEF LogInv, ListInv
<1> DEFINE Sentences == {k \in DOMAIN Feed : Feed[k] = Nmea}
<1>3. PICK e \in 0..emitted :
        log' = rerender([resetData(log) EXCEPT
                           !.entries = Newest(Kept([k \in 1..e |-> k], Sentences), SnapshotN)], sel)
    BY DEF SnapshotArrives
<1>4. e \in Nat /\ 1..e \subseteq Events /\ e <= emitted /\ emitted \in Int
    BY <1>2, <1>3, LogTypes
<1>5. PICK all : all = [k \in 1..e |-> k]
    OBVIOUS
<1>6. all \in Seq(Events) /\ Len(all) = e /\ \A k \in 1..e : all[k] = k
    <2>1. all \in [1..e -> Events]
        BY <1>4, <1>5
    <2>2. Seq(Events) = UNION {[1..n -> Events] : n \in Nat}
        BY SeqDef
    <2>3. all \in Seq(Events)
        BY <2>1, <2>2, <1>4, Zenon
    <2>4. Len(all) = e
        BY <2>1, <2>3, <1>4, LenProperties
    <2> QED
        BY <2>3, <2>4, <1>5
<1>7. PICK ring \in Seq(Events) : ring = Kept(all, Sentences) /\ Within(ring, all)
    <2>1. Kept(all, Sentences) \in Seq(Events \cap Sentences) /\ Within(Kept(all, Sentences), all)
        BY <1>6, KeptIsWithin
    <2>2. Kept(all, Sentences) \in Seq(Events)
        BY <2>1, SeqMonotonic
    <2> QED
        BY <2>1, <2>2
<1>8. PICK shown \in Seq(Events) :
        shown = Newest(ring, SnapshotN) /\ Ends(shown, ring) /\ Len(shown) <= SnapshotN
    BY NewestIs, LogTypes, LenProperties
<1>9. Sorted(shown) /\ UpTo(shown, emitted)
    <2>1. all \in Seq(Int) /\ ring \in Seq(Int) /\ shown \in Seq(Int)
        BY <1>6, <1>7, <1>8, LogTypes, SeqMonotonic
    <2>2. Sorted(all) /\ UpTo(all, emitted)
        BY <1>4, <1>6 DEF Sorted, UpTo
    <2>3. Sorted(ring) /\ UpTo(ring, emitted)
        BY <2>1, <2>2, <1>4, <1>7, WithinInOrder
    <2> QED
        BY <2>1, <2>3, <1>4, <1>8, EndsInOrder
<1>10. PICK none \in Seq(Events) : none = <<>>
    BY EmptySeq
<1>11. PICK l : l = [resetData(log) EXCEPT !.entries = shown]
    OBVIOUS
<1>12. l \in Logs /\ l.entries = shown
    <2>1. PICK r : r = resetData(log)
        OBVIOUS
    <2>2. r \in Logs
        BY <2>1, <1>2, <1>10 DEF resetData, Logs
    <2> QED
        BY <2>1, <2>2, <1>11 DEF Logs
<1>13. log' = rerender(l, sel)
    BY <1>3, <1>5, <1>7, <1>8, <1>11
<1>14. Len(l.entries) <= MaxEntries
    BY <1>8, <1>12, LogTypes, LenProperties
<1>15. ListInv(log', sel') /\ log'.entries = shown /\ log'.pending = <<>>
    BY <1>1, <1>12, <1>13, <1>14, RerenderInv
<1>16. mixed' \/ InOrder'
    <2>1. Sorted(log'.entries) /\ UpTo(log'.entries, emitted')
        BY <1>1, <1>9, <1>15
    <2> QED
        BY <2>1, <1>1 DEF InOrder, Sorted, UpTo
<1>17. mixed' \in BOOLEAN
    BY <1>1
<1> QED
    BY <1>1, <1>15, <1>16, <1>17 DEF LogInv

\* The list moves by itself or with the stream, never the stream behind its back.
LEMMA LogStepIsStreamStep ==
    ASSUME [LogNext]_logVars
    PROVE  [Next]_vars
<1>1. CASE Answered \/ Broken \/ Retried \/ Passes \/ Switched \/ Leave \/ Enter
    BY <1>1 DEF Answered, Broken, Retried, Passes, Switched, Leave, Enter, Next, User
<1>2. CASE \E k \in Kinds : Select(k)
    BY <1>2 DEF Select, Next, User
<1>3. CASE \/ Emit \/ onServerEvent \/ Flush \/ setPaused \/ SetFilter \/ Clear
           \/ SnapshotArrives
    BY <1>3 DEF Emit, onServerEvent, Flush, setPaused, SetFilter, Clear, SnapshotArrives
<1>4. CASE UNCHANGED logVars
    BY <1>4 DEF logVars
<1> QED
    BY <1>1, <1>2, <1>3, <1>4 DEF LogNext

LEMMA LogStep ==
    ASSUME StreamInv, StreamInv', LogInv, [LogNext]_logVars
    PROVE  LogInv'
<1>1. CASE Answered \/ Broken \/ Retried \/ Switched \/ Enter
    <2>1. StreamMoves /\ Subscribes /\ UNCHANGED <<emitted, log, mixed>>
        BY <1>1 DEF Answered, Broken, Retried, Switched, Enter, StreamMoves
    <2> QED
        BY <2>1, MovesKeepLog
<1>2. CASE Passes
    <2>1. UNCHANGED <<emitted, pos, log, mixed>> /\ es' = es /\ sel' = sel
        BY <1>2 DEF Passes, Tick, panel
    <2>2. InOrder => InOrder'
        BY <2>1 DEF InOrder, Sorted, UpTo
    <2> QED
        BY <2>1, <2>2 DEF LogInv
<1>3. ASSUME NEW k \in Kinds, Select(k) PROVE LogInv'
    BY <1>3, SelectKeepsLog
<1>4. CASE Leave
    BY <1>4, LeaveKeepsLog
<1>5. CASE Emit
    <2>1. /\ UNCHANGED <<pos, log, mixed>> /\ es' = es /\ sel' = sel
          /\ emitted < Len(Feed) /\ emitted' = emitted + 1
        BY <1>5 DEF Emit, vars, stream, panel
    <2>2. emitted \in 0..Len(Feed) /\ pos \in 0..emitted
        BY DEF LogInv
    <2>3. emitted' \in 0..Len(Feed) /\ pos' \in 0..emitted' /\ emitted <= emitted'
          /\ emitted \in Int /\ emitted' \in Int
        BY <2>1, <2>2, LogTypes
    <2>4. log.entries \in Seq(Events)
        BY DEF LogInv, ListInv, Logs
    <2>5. \A i \in 1..Len(log.entries) : log.entries[i] \in Int
        BY <2>4, ElementOfSeq, LogTypes
    <2>6. UpTo(log.entries, emitted) => UpTo(log.entries, emitted')
        BY <2>3, <2>5 DEF UpTo
    <2>7. InOrder => InOrder'
        BY <2>1, <2>6 DEF InOrder, Sorted, UpTo
    <2> QED
        BY <2>1, <2>3, <2>7 DEF LogInv
<1>6. CASE onServerEvent
    BY <1>6, ArrivalKeepsLog
<1>7. CASE Flush \/ setPaused \/ SetFilter
    BY <1>7, PanelKeepsLog
<1>8. CASE Clear
    BY <1>8, ClearKeepsLog
<1>9. CASE SnapshotArrives
    BY <1>9, SnapshotKeepsLog
<1>10. CASE UNCHANGED logVars
    BY <1>10 DEF logVars, vars, stream, panel, LogInv, InOrder, Sorted, UpTo
<1> QED
    BY <1>1, <1>2, <1>3, <1>4, <1>5, <1>6, <1>7, <1>8, <1>9, <1>10 DEF LogNext
-----------------------------------------------------------------------------
\* The panel with its list behaves, as far as the connection goes, as the stream of
\* RawStream: whatever happens to the list, no line of rawlog.js moves the EventSource
\* but the ones that model has.
THEOREM LogIsAStream == LogSpec => Spec
<1>1. LogInit => Init
    BY DEF LogInit
<1>2. [LogNext]_logVars => [Next]_vars
    BY LogStepIsStreamStep
<1> QED
    BY <1>1, <1>2, PTL DEF LogSpec, Spec

LEMMA StreamAlwaysInv == Spec => []StreamInv
<1>1. Init => StreamInv
    BY StreamInit
<1>2. StreamInv /\ [Next]_vars => StreamInv'
    BY StreamStep
<1> QED
    BY <1>1, <1>2, PTL DEF Spec

\* The server, the browser and the panel agree on what is open, for any boxes,
\* limits and order of answers: one connection at most, none and no timer behind a
\* panel that is gone, off, paused or refused, and "live" only on an open source
\* (static/js/stream.js, static/js/components/rawlog.js).
THEOREM ConnectionsAlwaysSound == Spec => []ConnectionsSound
BY StreamAlwaysInv, InvSays, PTL

\* "Give up after REFUSE_ERRORS failures inside REFUSE_WINDOW_MS" (stream.js): that
\* many failures in a row, each of a prompt attempt, end it, for the window then holds
\* them all; and however slow they are, only the user starts it again.
THEOREM RefusalAlwaysStands == Spec => RefusalStands
<1>1. StreamInv /\ [Next]_vars => StreamInv' /\ RefusedWaitsForUser
    BY StreamStep
<1>2. StreamInv => GivesUp
    BY InvSays
<1> QED
    BY <1>1, <1>2, StreamAlwaysInv, PTL DEF Spec, RefusalStands

\* The screen of the raw log ends in the newest matching lines, each once, what is
\* buffered will be drawn, and the lines are in the server's order (rawlog.js).
THEOREM ListAlwaysSound == LogSpec => []LogSound
<1>1. LogInit => LogInv
    BY LogStarts
<1>2. StreamInv /\ StreamInv' /\ LogInv /\ [LogNext]_logVars => LogInv'
    BY LogStep
<1>3. LogSpec => []StreamInv
    BY LogIsAStream, StreamAlwaysInv
<1> QED
    BY <1>1, <1>2, <1>3, LogInvSays, PTL DEF LogSpec
-----------------------------------------------------------------------------
(* The server's rings. *)

\* A set of naturals has a least member, which Min is.
LEMMA Least ==
    ASSUME NEW D \in SUBSET Nat, D # {}
    PROVE  Min(D) \in D /\ \A n \in D : Min(D) <= n
<1>1. PICK least \in D : \A n \in D : ~(<<n, least>> \in OpToRel(<, Nat))
    BY NatLessThanWellFounded, WFMin
<1>2. ASSUME NEW n \in D PROVE least <= n
    <2>1. n \in Nat /\ least \in Nat
        BY <1>1
    <2>2. ~(n < least)
        BY <2>1, <1>1 DEF OpToRel
    <2> QED
        BY <2>1, <2>2
<1> QED
    BY <1>1, <1>2, Zenon DEF Min

LEMMA AppendIs ==
    ASSUME NEW S, NEW s \in Seq(S), NEW x \in S, NEW t, t = Append(s, x)
    PROVE  /\ t \in Seq(S) /\ Len(t) = Len(s) + 1 /\ t[Len(s) + 1] = x
           /\ \A i \in 1..Len(s) : t[i] = s[i]
BY AppendProperties

LEMMA RestIs ==
    ASSUME NEW S, NEW s \in Seq(S), NEW m \in 1..Len(s), NEW t, t = SubSeq(s, m, Len(s))
    PROVE  /\ t \in Seq(S) /\ Len(t) = Len(s) - m + 1
           /\ \A i \in 1..(Len(s) - m + 1) : t[i] = s[m + i - 1]
<1>1. PICK n \in Nat : n = Len(s)
    BY LenProperties
<1>2. m \in 1..n /\ t = SubSeq(s, m, n)
    BY <1>1
<1>3. \A i \in m..n : s[i] \in S
    BY <1>1, <1>2, ElementOfSeq
<1>4. t \in Seq(S) /\ Len(t) = n - m + 1
    BY <1>2, <1>3, SubSeqProperties
<1>5. \A i \in 1..(n - m + 1) : t[i] = s[m + i - 1]
    BY <1>2, <1>3, SubSeqProperties
<1> QED
    BY <1>1, <1>4, <1>5

LEMMA StoreTypes ==
    /\ RingSize \in Nat \ {0} /\ HistorySize \in Nat \ {0} /\ RateWindow \in Nat \ {0}
    /\ Interval \in Nat \ {0} /\ CsvPoints \in Nat \ {0} /\ CsvSeconds \in Nat
    /\ Seconds \subseteq Nat /\ ClockSteps \subseteq Int
BY StoreAssumption

\* A deque with a maxlen keeps the newest.
LEMMA PushIs ==
    ASSUME NEW S, NEW ring \in Seq(S), NEW x \in S, NEW size \in Nat \ {0}, Len(ring) <= size
    PROVE  /\ Push(ring, x, size) \in Seq(S)
           /\ Len(Push(ring, x, size)) = Smaller(Len(ring) + 1, size)
           /\ Ends(Push(ring, x, size), Append(ring, x))
<1>1. PICK n \in Nat : n = Len(ring)
    BY LenProperties
<1>2. PICK t \in Seq(S) :
        /\ t = Append(ring, x) /\ Len(t) = n + 1 /\ t[n + 1] = x
        /\ \A i \in 1..n : t[i] = ring[i]
    <2>1. PICK t : t = Append(ring, x)
        OBVIOUS
    <2>2. /\ t \in Seq(S) /\ Len(t) = Len(ring) + 1 /\ t[Len(ring) + 1] = x
          /\ \A i \in 1..Len(ring) : t[i] = ring[i]
        BY <2>1, AppendIs
    <2> QED
        BY <1>1, <2>1, <2>2
<1>3. CASE n < size
    <2>1. Push(ring, x, size) = t
        BY <1>1, <1>2, <1>3 DEF Push
    <2> QED
        <3>1. Smaller(n + 1, size) = n + 1
            BY <1>3 DEF Smaller
        <3>2. Ends(t, t)
            BY EndsOfItself
        <3> QED
            BY <1>1, <1>2, <2>1, <3>1, <3>2
<1>4. CASE ~(n < size)
    <2>1. n = size /\ n # 0 /\ n - 1 \in Nat
        BY <1>1, <1>4
    <2>2. ring # <<>>
        BY <1>1, <2>1, EmptySeq
    <2>3. PICK tail \in Seq(S) :
            /\ tail = Tail(ring) /\ Len(tail) = n - 1
            /\ \A i \in 1..(n - 1) : tail[i] = ring[i + 1]
        <3>1. PICK tail \in Seq(S) : tail = Tail(ring)
            BY <2>2, HeadTailProperties
        <3>2. Len(tail) = n - 1 /\ \A i \in 1..(n - 1) : tail[i] = ring[i + 1]
            BY <1>1, <2>2, <3>1, HeadTailProperties
        <3> QED
            BY <3>1, <3>2
    <2>4. PICK u \in Seq(S) :
            /\ u = Append(tail, x) /\ Len(u) = n /\ u[n] = x
            /\ \A i \in 1..(n - 1) : u[i] = tail[i]
        <3>1. (n - 1) + 1 = n
            BY <2>1
        <3> QED
            <4>1. PICK u : u = Append(tail, x)
                OBVIOUS
            <4>2. /\ u \in Seq(S) /\ Len(u) = Len(tail) + 1 /\ u[Len(tail) + 1] = x
                  /\ \A i \in 1..Len(tail) : u[i] = tail[i]
                BY <4>1, AppendIs
            <4> QED
                BY <3>1, <4>1, <4>2, <2>3
    <2>5. Push(ring, x, size) = u
        BY <1>1, <1>4, <2>3, <2>4 DEF Push
    <2>6. ASSUME NEW i \in 1..n PROVE u[i] = t[(n + 1) - n + i]
        <3>1. (n + 1) - n + i = i + 1
            OBVIOUS
        <3>2. CASE i = n
            BY <3>1, <3>2, <1>2, <2>4
        <3>3. CASE i # n
            <4>1. i \in 1..(n - 1) /\ i + 1 \in 1..n
                BY <3>3
            <4> QED
                BY <3>1, <4>1, <1>2, <2>3, <2>4
        <3> QED
            BY <3>2, <3>3
    <2>7. Ends(u, t)
        BY <1>2, <2>4, <2>6 DEF Ends
    <2>8. Smaller(n + 1, size) = n
        BY <2>1 DEF Smaller
    <2> QED
        BY <1>1, <1>2, <2>4, <2>5, <2>7, <2>8
<1> QED
    BY <1>3, <1>4

\* What _prune_nmea drops is too old, and what it then finds first is not.
LEMMA PruneIs ==
    ASSUME NEW times \in Seq(Int)
    PROVE  /\ prune_nmea(times) \in Seq(Int) /\ Ends(prune_nmea(times), times)
           /\ \A k \in 1..(Len(times) - Len(prune_nmea(times))) :
                 ~(times[k] >= clock - RateWindow)
           /\ \A k \in 1..Len(prune_nmea(times)) : k = 1 =>
                 prune_nmea(times)[k] >= clock - RateWindow
<1>1. PICK n \in Nat : n = Len(times) /\ DOMAIN times = 1..n
    BY LenProperties
<1>2. PICK live : live = {k \in DOMAIN times : times[k] >= clock - RateWindow}
    OBVIOUS
<1>3. prune_nmea(times) = IF live = {} THEN <<>> ELSE SubSeq(times, Min(live), n)
    BY <1>1, <1>2 DEF prune_nmea
<1>4. CASE live = {}
    <2>1. PICK none \in Seq(Int) : none = <<>> /\ Len(none) = 0
        BY EmptySeq
    <2>2. prune_nmea(times) = none
        BY <1>3, <1>4, <2>1
    <2>3. Ends(none, times)
        BY <1>1, <2>1 DEF Ends
    <2>4. \A k \in 1..n : ~(times[k] >= clock - RateWindow)
        BY <1>1, <1>2, <1>4
    <2> QED
        BY <1>1, <2>1, <2>2, <2>3, <2>4
<1>5. CASE live # {}
    <2>1. live \subseteq 1..n
        BY <1>1, <1>2
    <2>2. PICK m \in live : m = Min(live) /\ \A k \in live : m <= k
        <3>1. live \in SUBSET Nat
            BY <2>1
        <3> QED
            BY <3>1, <1>5, Least
    <2>3. m \in 1..n
        BY <2>1, <2>2
    <2>4. PICK p \in Seq(Int) :
            /\ p = SubSeq(times, m, n) /\ Len(p) = n - m + 1
            /\ \A i \in 1..(n - m + 1) : p[i] = times[m + i - 1]
        <3>1. m \in 1..Len(times)
            BY <1>1, <2>3
        <3>2. PICK p : p = SubSeq(times, m, Len(times))
            OBVIOUS
        <3>3. /\ p \in Seq(Int) /\ Len(p) = Len(times) - m + 1
              /\ \A i \in 1..(Len(times) - m + 1) : p[i] = times[m + i - 1]
            BY <3>1, <3>2, RestIs
        <3> QED
            BY <1>1, <3>2, <3>3
    <2>5. prune_nmea(times) = p
        BY <1>3, <1>5, <2>2, <2>4
    <2>6. ASSUME NEW i \in 1..Len(p) PROVE p[i] = times[n - Len(p) + i]
        <3>1. n - Len(p) + i = m + i - 1
            BY <2>3, <2>4
        <3> QED
            BY <3>1, <2>4
    <2>7. Ends(p, times)
        BY <1>1, <2>3, <2>4, <2>6 DEF Ends
    <2>8. ASSUME NEW k \in 1..(n - Len(p)) PROVE ~(times[k] >= clock - RateWindow)
        <3>1. k < m /\ k \in 1..n
            BY <2>3, <2>4
        <3>2. k \notin live
            BY <3>1, <2>1, <2>2
        <3> QED
            BY <3>1, <3>2, <1>1, <1>2
    <2>9. 1 \in 1..Len(p) => p[1] >= clock - RateWindow
        <3>1. p[1] = times[m]
            BY <2>3, <2>4
        <3> QED
            BY <3>1, <2>2, <1>2
    <2> QED
        BY <1>1, <2>4, <2>5, <2>7, <2>8, <2>9
<1> QED
    BY <1>4, <1>5

\* The ring of sentences after one more.
LEMMA RingGrows ==
    ASSUME NEW a \in Nat, nmea_ring = LastOf(Smaller(RingSize, a), a)
    PROVE  /\ nmea_ring \in Seq(Nat) /\ Len(nmea_ring) = Smaller(RingSize, a)
           /\ Push(nmea_ring, a + 1, RingSize) = LastOf(Smaller(RingSize, a + 1), a + 1)
<1>1. PICK r \in Nat : r = Smaller(RingSize, a) /\ r <= RingSize /\ r <= a
    BY StoreTypes DEF Smaller
<1>2. nmea_ring = [k \in 1..r |-> a - r + k]
    BY <1>1 DEF LastOf
<1>3. nmea_ring \in Seq(Nat)
    <2>1. nmea_ring \in [1..r -> Nat]
        BY <1>1, <1>2
    <2>2. Seq(Nat) = UNION {[1..n -> Nat] : n \in Nat}
        BY SeqDef
    <2> QED
        BY <2>1, <2>2, Zenon
<1>4. Len(nmea_ring) = r
    BY <1>1, <1>2, <1>3, LenProperties
<1>5. PICK t \in Seq(Nat) :
        /\ t = Append(nmea_ring, a + 1) /\ Len(t) = r + 1 /\ t[r + 1] = a + 1
        /\ \A k \in 1..r : t[k] = a - r + k
    <2>1. PICK ring \in Seq(Nat) : ring = nmea_ring
        BY <1>3
    <2>2. Append(ring, a + 1) \in Seq(Nat)
        BY AppendProperties
    <2>3. /\ Len(Append(ring, a + 1)) = r + 1 /\ Append(ring, a + 1)[r + 1] = a + 1
          /\ \A k \in 1..r : Append(ring, a + 1)[k] = ring[k]
        BY <2>1, <1>4, AppendProperties
    <2> QED
        BY <2>1, <2>2, <2>3, <1>2
<1>6. PICK p \in Seq(Nat), m \in Nat :
        /\ p = Push(nmea_ring, a + 1, RingSize)
        /\ m = Smaller(r + 1, RingSize) /\ Len(p) = m /\ Ends(p, t)
    <2>1. PICK m \in Nat : m = Smaller(r + 1, RingSize)
        BY <1>1, StoreTypes DEF Smaller
    <2>2. a + 1 \in Nat /\ Len(nmea_ring) <= RingSize
        BY <1>1, <1>4
    <2> QED
        BY <2>1, <2>2, <1>3, <1>4, <1>5, PushIs, StoreTypes
<1>7. m = Smaller(RingSize, a + 1) /\ m <= r + 1
    BY <1>1, <1>6, StoreTypes DEF Smaller
<1>8. ASSUME NEW k \in 1..m PROVE p[k] = (a + 1) - m + k
    <2>1. (r + 1) - m + k \in 1..(r + 1)
        BY <1>7
    <2>3. p[k] = t[(r + 1) - m + k]
        BY <1>5, <1>6 DEF Ends
    <2>2. \A j \in 1..(r + 1) : t[j] = a - r + j
        BY <1>5
    <2> QED
        BY <2>1, <2>2, <2>3
<1>9. p = [k \in 1..m |-> (a + 1) - m + k]
    <2>1. p = [k \in 1..m |-> p[k]]
        BY <1>6, LenProperties
    <2> QED
        BY <2>1, <1>8
<1> QED
    BY <1>1, <1>3, <1>4, <1>6, <1>7, <1>9 DEF LastOf

\* nmea_lines answers with the newest n, whatever n.
LEMMA LinesAre ==
    ASSUME NEW a \in Nat, nmea_ring = LastOf(Smaller(RingSize, a), a), NEW n \in Nat
    PROVE  nmea_lines(n) = LastOf(Smaller(n, Smaller(RingSize, a)), a)
<1>1. PICK r \in Nat : r = Smaller(RingSize, a) /\ r <= a
    BY StoreTypes DEF Smaller
<1>2. PICK ring \in Seq(Nat) :
        ring = nmea_ring /\ Len(ring) = r /\ ring = [k \in 1..r |-> a - r + k]
    BY <1>1, RingGrows DEF LastOf
<1>3. CASE n >= r /\ n # 0
    <2>1. Smaller(n, r) = r
        BY <1>3 DEF Smaller
    <2>2. nmea_lines(n) = ring
        BY <1>2, <1>3 DEF nmea_lines
    <2> QED
        BY <2>1, <2>2, <1>1, <1>2 DEF LastOf
<1>4. CASE n = 0
    <2>1. Smaller(n, r) = 0
        BY <1>4 DEF Smaller
    <2>2. PICK none \in Seq(Nat) : none = <<>> /\ Len(none) = 0
        BY EmptySeq
    <2>3. none = [k \in 1..0 |-> none[k]]
        BY <2>2, LenProperties
    <2>4. [k \in 1..0 |-> none[k]] = [k \in 1..0 |-> a - 0 + k]
        OBVIOUS
    <2>5. nmea_lines(n) = none
        BY <1>4, <2>2 DEF nmea_lines
    <2> QED
        BY <2>1, <2>3, <2>4, <2>5, <1>1 DEF LastOf
<1>5. CASE ~(n >= r) /\ n # 0
    <2>1. Smaller(n, r) = n /\ n < r
        BY <1>5 DEF Smaller
    <2>2. PICK s \in Seq(Nat) :
            /\ s = SubSeq(ring, r - n + 1, r) /\ Len(s) = n
            /\ \A i \in 1..n : s[i] = ring[r - n + i]
        <3>1. r - n + 1 \in 1..r /\ r - (r - n + 1) + 1 = n
            BY <2>1, <1>5
        <3>2. \A i \in 1..n : (r - n + 1) + i - 1 = r - n + i
            BY <2>1
        <3> QED
            <4>1. PICK from \in 1..r : from = r - n + 1
                BY <3>1
            <4>2. from \in 1..Len(ring)
                BY <1>2
            <4>3. PICK s : s = SubSeq(ring, from, Len(ring))
                OBVIOUS
            <4>4. /\ s \in Seq(Nat) /\ Len(s) = Len(ring) - from + 1
                  /\ \A i \in 1..(Len(ring) - from + 1) : s[i] = ring[from + i - 1]
                <5>1. ring \in Seq(Nat)
                    BY <1>2
                <5> QED
                    BY <4>2, <4>3, <5>1, RestIs
            <4>5. Len(ring) - from + 1 = n
                BY <4>1, <2>1, <1>2
            <4>6. \A i \in 1..n : s[i] = ring[r - n + i]
                BY <4>1, <4>4, <4>5, <3>2
            <4>7. s = SubSeq(ring, r - n + 1, r)
                BY <4>1, <4>3, <1>2
            <4> QED
                BY <4>4, <4>5, <4>6, <4>7
    <2>3. nmea_lines(n) = s
        BY <1>2, <1>5, <2>2 DEF nmea_lines
    <2>4. ASSUME NEW i \in 1..n PROVE s[i] = a - n + i
        <3>1. r - n + i \in 1..r
            BY <2>1
        <3>2. ring[r - n + i] = a - r + (r - n + i)
            BY <3>1, <1>2
        <3> QED
            BY <3>2, <2>2
    <2>5. s = [i \in 1..n |-> a - n + i]
        <3>1. s = [i \in 1..n |-> s[i]]
            BY <2>2, LenProperties
        <3> QED
            BY <3>1, <2>4
    <2> QED
        BY <2>1, <2>3, <2>5, <1>1 DEF LastOf
<1> QED
    BY <1>3, <1>4, <1>5

Old(time) == ~(time >= clock - RateWindow)

\* Pruning the end of the arrivals leaves an end of them, and only old ones out.
LEMMA PruneDrops ==
    ASSUME clock \in Int, NEW times \in Seq(Int), NEW all \in Seq(Int), Ends(times, all),
           \A k \in 1..(Len(all) - Len(times)) : Old(all[k])
    PROVE  /\ Ends(prune_nmea(times), all)
           /\ \A k \in 1..(Len(all) - Len(prune_nmea(times))) : Old(all[k])
<1>1. PICK p \in Seq(Int) :
        /\ p = prune_nmea(times) /\ Ends(p, times)
        /\ \A k \in 1..(Len(times) - Len(p)) : Old(times[k])
    BY PruneIs DEF Old
<1>2. PICK n \in Nat, l \in Nat, m \in Nat :
        n = Len(all) /\ l = Len(times) /\ m = Len(p) /\ m <= l /\ l <= n
    BY <1>1, LenProperties DEF Ends
<1>3. ASSUME NEW k \in 1..(n - m) PROVE Old(all[k])
    <2>1. CASE k \in 1..(n - l)
        BY <2>1, <1>2
    <2>2. CASE k \notin 1..(n - l)
        <3>1. PICK j \in 1..(l - m) : j = k - (n - l)
            <4>1. k - (n - l) \in 1..(l - m)
                BY <2>2, <1>2
            <4> QED
                BY <4>1
        <3>2. j \in 1..l /\ n - l + j = k
            BY <3>1, <1>2
        <3>3. times[j] = all[k]
            BY <3>2, <1>2 DEF Ends
        <3> QED
            BY <3>1, <3>3, <1>1, <1>2
    <2> QED
        BY <2>1, <2>2
<1> QED
    BY <1>1, <1>2, <1>3, EndsOfAnEnd

\* The sentences arrive in order, and while the clock is not stepped nmea_times is the
\* end of their times, down to the last that is still needed.
Timely ==
    /\ \A i, j \in 1..Len(arrivals) : i <= j => arrivals[i] <= arrivals[j]
    /\ \A k \in 1..Len(arrivals) : arrivals[k] <= real
    /\ steps = 0 =>
         /\ clock = real /\ Ends(nmea_times, arrivals)
         /\ \A k \in 1..(Len(arrivals) - Len(nmea_times)) : Old(arrivals[k])

\* What is left by pruning are the arrivals of the window, which are in a row.
LEMMA RateSays ==
    ASSUME clock \in Int, arrivals \in Seq(Nat), nmea_times \in Seq(Int), Timely
    PROVE  RateIsRecent
<1> SUFFICES ASSUME steps = 0
             PROVE  nmea_rate = Cardinality({k \in DOMAIN arrivals : Arrived(k)})
    BY DEF RateIsRecent
<1>1. PICK all \in Seq(Int) : all = arrivals
    BY SeqMonotonic
<1>2. PICK p \in Seq(Int) :
        /\ p = prune_nmea(nmea_times) /\ Ends(p, all)
        /\ \A k \in 1..(Len(all) - Len(p)) : Old(all[k])
    <2>1. Ends(nmea_times, all) /\ \A k \in 1..(Len(all) - Len(nmea_times)) : Old(all[k])
        BY <1>1 DEF Timely
    <2> QED
        BY <2>1, PruneDrops, PruneIs
<1>3. PICK n \in Nat, m \in Nat : n = Len(all) /\ m = Len(p) /\ m <= n /\ DOMAIN all = 1..n
    BY <1>2, LenProperties DEF Ends
<1>4. \A k \in 1..n : Arrived(k) <=> all[k] >= clock - RateWindow
    BY <1>1 DEF Arrived, Timely
<1>5. ASSUME NEW k \in 1..n PROVE Arrived(k) <=> k \in (n - m + 1)..n
    <2>1. CASE k \in 1..(n - m)
        <3>1. Old(all[k])
            BY <2>1, <1>2, <1>3
        <3> QED
            BY <3>1, <2>1, <1>3, <1>4 DEF Old
    <2>2. CASE k \notin 1..(n - m)
        <3>1. k >= n - m + 1 /\ 1 \in 1..m /\ n - m + 1 \in 1..n
            BY <2>2, <1>3
        <3>2. p[1] >= clock - RateWindow
            BY <3>1, <1>2, <1>3, PruneIs
        <3>3. p[1] = all[n - m + 1]
            BY <3>1, <1>2, <1>3 DEF Ends
        <3>4. all[n - m + 1] <= all[k]
            BY <3>1, <1>1, <1>3 DEF Timely
        <3>5. all[k] \in Int /\ all[n - m + 1] \in Int /\ RateWindow \in Int
            BY <3>1, <1>3, ElementOfSeq, StoreTypes
        <3>6. all[k] >= clock - RateWindow
            BY <3>2, <3>3, <3>4, <3>5
        <3> QED
            BY <3>1, <3>6, <1>3, <1>4
    <2> QED
        BY <2>1, <2>2
<1>6. {k \in DOMAIN arrivals : Arrived(k)} = (n - m + 1)..n
    BY <1>1, <1>3, <1>5
<1>7. Cardinality((n - m + 1)..n) = m
    <2>1. PICK a \in Int : a = n - m + 1
        OBVIOUS
    <2>2. n \in Int /\ a \in Int
        BY <2>1, <1>3
    <2>3. Cardinality(a..n) = IF a > n THEN 0 ELSE n - a + 1
        BY <2>2, FS_Interval, Zenon
    <2> QED
        BY <2>1, <2>3, <1>3
<1> QED
    BY <1>2, <1>3, <1>6, <1>7 DEF nmea_rate

Rows == [t : Int, row : Nat]

Scans == [at : {"scan"}, cutoff : Int, next : Nat \ {0}, rows : Seq(Rows), whole : Seq(Rows)]

\* What the export has scanned is what a request for as much would have had.
Scanned ==
    csv.rows = Kept(SubSeq(csv.whole, 1, csv.next - 1),
                    {row \in ToSet(csv.whole) : row.t >= csv.cutoff})

\* The rows are the newest samples, numbered in their order.
Serial == \A k \in 1..Len(history) : history[k].row = samples - Len(history) + k

StoreInv ==
    /\ clock \in Int /\ real \in Nat /\ steps \in Nat /\ samples \in Nat
    /\ next_sample \in 0..Interval
    /\ arrivals \in Seq(Nat) /\ nmea_times \in Seq(Int) /\ Timely
    /\ nmea_ring = LastOf(Smaller(RingSize, Len(arrivals)), Len(arrivals))
    /\ history \in Seq(Rows) /\ Len(history) <= HistorySize /\ Serial
    /\ \/ csv.at = "none"
       \/ csv \in Scans /\ csv.next <= Len(csv.whole) + 1 /\ Scanned
       \/ csv.at = "sent" /\ ExportWhole

LEMMA StoreStarts == StoreInit => StoreInv
<1> SUFFICES ASSUME StoreInit PROVE StoreInv
    OBVIOUS
<1>1. /\ nmea_ring = <<>> /\ nmea_times = <<>> /\ history = <<>> /\ arrivals = <<>>
      /\ clock = 0 /\ real = 0 /\ steps = 0 /\ next_sample = Interval /\ samples = 0
      /\ csv.at = "none"
    BY DEF StoreInit
<1>2. PICK none \in Seq(Nat) : none = <<>> /\ Len(none) = 0
    BY EmptySeq
<1>3. nmea_ring = LastOf(Smaller(RingSize, Len(arrivals)), Len(arrivals))
    <2>1. Smaller(RingSize, 0) = 0
        BY StoreTypes DEF Smaller
    <2>2. none = [k \in 1..0 |-> none[k]]
        BY <1>2, LenProperties
    <2>3. [k \in 1..0 |-> none[k]] = [k \in 1..0 |-> 0 - 0 + k]
        OBVIOUS
    <2> QED
        BY <2>1, <2>2, <2>3, <1>1, <1>2 DEF LastOf
<1>4. Timely
    BY <1>1, <1>2 DEF Timely, Ends
<1>5. Serial /\ Len(history) <= HistorySize
    BY <1>1, <1>2, StoreTypes DEF Serial
<1>6. /\ arrivals \in Seq(Nat) /\ nmea_times \in Seq(Int) /\ history \in Seq(Rows)
      /\ next_sample \in 0..Interval
    BY <1>1, EmptySeq, StoreTypes
<1> QED
    BY <1>1, <1>3, <1>4, <1>5, <1>6 DEF StoreInv

LEMMA SentenceKept ==
    ASSUME StoreInv, add_nmea
    PROVE  StoreInv'
<1>1. PICK a \in Nat : a = Len(arrivals)
    BY LenProperties DEF StoreInv
<1>2. PICK now \in Nat : now = real
    BY DEF StoreInv
<1>3. arrivals \in Seq(Nat)
    BY DEF StoreInv
<1>4. PICK all : all = arrivals' /\ all = Append(arrivals, now)
    BY <1>2 DEF add_nmea
<1>5. /\ all \in Seq(Nat) /\ Len(all) = a + 1 /\ all[a + 1] = now
      /\ \A i \in 1..a : all[i] = arrivals[i]
    BY <1>1, <1>3, <1>4, AppendIs
<1>6. nmea_ring' = LastOf(Smaller(RingSize, a + 1), a + 1)
    <2>1. nmea_ring = LastOf(Smaller(RingSize, a), a) /\ nmea_ring' = Push(nmea_ring, a + 1, RingSize)
        BY <1>1 DEF StoreInv, add_nmea
    <2> QED
        BY <2>1, RingGrows
<1>7. PICK times : times = Append(nmea_times, clock)
    OBVIOUS
<1>8. times \in Seq(Int) /\ nmea_times' = prune_nmea(times) /\ nmea_times' \in Seq(Int)
    <2>1. times \in Seq(Int)
        BY <1>7, AppendIs DEF StoreInv
    <2> QED
        BY <2>1, <1>7, PruneIs DEF add_nmea
<1>9. Timely'
    <2>1. \A i, j \in 1..(a + 1) : i <= j => all[i] <= all[j]
        <3> SUFFICES ASSUME NEW i \in 1..(a + 1), NEW j \in 1..(a + 1), i <= j
                     PROVE  all[i] <= all[j]
            OBVIOUS
        <3>1. CASE j \in 1..a
            <4>1. i \in 1..a
                BY <3>1
            <4> QED
                BY <3>1, <4>1, <1>1, <1>5 DEF StoreInv, Timely
        <3>2. CASE j \notin 1..a
            <4>1. j = a + 1
                BY <3>2
            <4>2. CASE i = a + 1
                BY <4>1, <4>2, <1>5
            <4>3. CASE i # a + 1
                <5>1. i \in 1..a
                    BY <4>3
                <5> QED
                    BY <5>1, <4>1, <1>1, <1>2, <1>5 DEF StoreInv, Timely
            <4> QED
                BY <4>2, <4>3
        <3> QED
            BY <3>1, <3>2
    <2>2. \A k \in 1..(a + 1) : all[k] <= now
        <3> SUFFICES ASSUME NEW k \in 1..(a + 1) PROVE all[k] <= now
            OBVIOUS
        <3>1. CASE k = a + 1
            BY <3>1, <1>5
        <3>2. CASE k # a + 1
            <4>1. k \in 1..a
                BY <3>2
            <4> QED
                BY <4>1, <1>1, <1>2, <1>5 DEF StoreInv, Timely
        <3> QED
            BY <3>1, <3>2
    <2>3. ASSUME steps = 0
          PROVE  /\ clock = real /\ Ends(nmea_times', all)
                 /\ \A k \in 1..(Len(all) - Len(nmea_times')) : Old(all[k])
        <3>1. /\ clock = now /\ Ends(nmea_times, arrivals)
              /\ \A k \in 1..(a - Len(nmea_times)) : Old(arrivals[k])
            BY <2>3, <1>1, <1>2 DEF StoreInv, Timely
        <3>2. PICK s \in Seq(Int) : s = arrivals
            BY <1>3, SeqMonotonic
        <3>3. now \in Int /\ all = Append(s, now) /\ times = Append(nmea_times, now)
            BY <3>1, <3>2, <1>4, <1>7
        <3>4. nmea_times \in Seq(Int) /\ clock \in Int
            BY DEF StoreInv
        <3>5. Ends(times, all)
            BY <3>1, <3>2, <3>3, <3>4, EndsAppend
        <3>6. Len(all) = a + 1 /\ Len(times) = Len(nmea_times) + 1 /\ Len(nmea_times) \in Nat
            BY <3>3, <3>4, <1>5, AppendIs, LenProperties
        <3>7. \A k \in 1..(Len(all) - Len(times)) : Old(all[k])
            <4> SUFFICES ASSUME NEW k \in 1..(Len(all) - Len(times)) PROVE Old(all[k])
                OBVIOUS
            <4>1. k \in 1..(a - Len(nmea_times)) /\ k \in 1..a
                BY <3>6
            <4> QED
                BY <4>1, <3>1, <1>5
        <3>8. all \in Seq(Int)
            BY <1>5, SeqMonotonic
        <3> QED
            BY <3>1, <3>4, <3>5, <3>7, <3>8, <1>2, <1>8, PruneDrops
    <2> QED
        BY <2>1, <2>2, <2>3, <1>1, <1>2, <1>4, <1>5 DEF Timely, Old, add_nmea
<1> QED
    BY <1>1, <1>4, <1>5, <1>6, <1>8, <1>9
       DEF StoreInv, add_nmea, Serial, Scanned, ExportWhole, Since

\* What the export needs of the steps that do not touch it.
LEMMA ExportStands ==
    ASSUME StoreInv, csv' = csv
    PROVE  \/ csv'.at = "none"
           \/ csv' \in Scans /\ csv'.next <= Len(csv'.whole) + 1 /\ Scanned'
           \/ csv'.at = "sent" /\ ExportWhole'
<1>1. CASE csv.at = "none"
    BY <1>1
<1>2. CASE csv \in Scans /\ csv.next <= Len(csv.whole) + 1 /\ Scanned
    <2>1. Scanned'
        BY <1>2 DEF Scanned
    <2> QED
        BY <2>1, <1>2
<1>3. CASE csv.at = "sent" /\ ExportWhole
    <2>1. ExportWhole'
        BY <1>3 DEF ExportWhole, Since
    <2> QED
        BY <2>1, <1>3
<1> QED
    BY <1>1, <1>2, <1>3 DEF StoreInv

LEMMA RateReadKept ==
    ASSUME StoreInv, ReadRate
    PROVE  StoreInv'
<1>1. nmea_times' = prune_nmea(nmea_times) /\ nmea_times' \in Seq(Int)
    BY PruneIs DEF ReadRate, StoreInv
<1>2. Timely'
    <2>1. ASSUME steps = 0
          PROVE  /\ Ends(nmea_times', arrivals)
                 /\ \A k \in 1..(Len(arrivals) - Len(nmea_times')) : Old(arrivals[k])
        <3>1. PICK all \in Seq(Int) : all = arrivals
            BY SeqMonotonic DEF StoreInv
        <3>2. Ends(nmea_times, all) /\ \A k \in 1..(Len(all) - Len(nmea_times)) : Old(all[k])
            BY <2>1, <3>1 DEF StoreInv, Timely
        <3>3. clock \in Int /\ nmea_times \in Seq(Int)
            BY DEF StoreInv
        <3> QED
            BY <3>1, <3>2, <3>3, <1>1, PruneDrops
    <2> QED
        BY <2>1 DEF Timely, Old, ReadRate, StoreInv
<1> QED
    BY <1>1, <1>2, ExportStands DEF StoreInv, ReadRate, Serial

LEMMA SampleKept ==
    ASSUME StoreInv, sample
    PROVE  StoreInv'
<1>1. PICK h \in Nat : h = Len(history) /\ h <= HistorySize
    BY LenProperties DEF StoreInv
<1>2. PICK row \in Rows : row = [t |-> clock, row |-> samples + 1]
    <2>1. clock \in Int /\ samples + 1 \in Nat
        BY DEF StoreInv
    <2>2. [t |-> clock, row |-> samples + 1] \in Rows
        BY <2>1 DEF Rows
    <2> QED
        BY <2>2
<1>3. PICK p : p = Push(history, row, HistorySize)
    OBVIOUS
<1>4. p \in Seq(Rows) /\ Len(p) = Smaller(h + 1, HistorySize) /\ Ends(p, Append(history, row))
    BY <1>1, <1>3, PushIs, StoreTypes DEF StoreInv
<1>5. PICK t : t = Append(history, row)
    OBVIOUS
<1>6. /\ t \in Seq(Rows) /\ Len(t) = h + 1 /\ t[h + 1] = row
      /\ \A i \in 1..h : t[i] = history[i]
    BY <1>1, <1>5, AppendIs DEF StoreInv
<1>7. PICK m \in Nat : m = Len(p) /\ m <= h + 1 /\ m <= HistorySize
    BY <1>1, <1>4, StoreTypes DEF Smaller
<1>8. \A i \in 1..(h + 1) : t[i].row = samples - h + i
    <2> SUFFICES ASSUME NEW i \in 1..(h + 1) PROVE t[i].row = samples - h + i
        OBVIOUS
    <2>0. samples \in Nat
        BY DEF StoreInv
    <2>1. CASE i = h + 1
        <3>1. t[i].row = samples + 1
            BY <2>1, <1>2, <1>6
        <3> QED
            BY <3>1, <2>0, <2>1
    <2>2. CASE i # h + 1
        <3>1. i \in 1..h
            BY <2>2
        <3> QED
            BY <3>1, <1>1, <1>6 DEF StoreInv, Serial
    <2> QED
        BY <2>1, <2>2
<1>9. \A k \in 1..m : p[k].row = (samples + 1) - m + k
    <2> SUFFICES ASSUME NEW k \in 1..m PROVE p[k].row = (samples + 1) - m + k
        OBVIOUS
    <2>1. PICK i \in 1..(h + 1) : i = (h + 1) - m + k
        <3>1. (h + 1) - m + k \in 1..(h + 1)
            BY <1>7
        <3> QED
            BY <3>1
    <2>2. p[k] = t[i]
        BY <2>1, <1>4, <1>5, <1>6, <1>7 DEF Ends
    <2>3. t[i].row = samples - h + i /\ samples \in Nat
        BY <1>8 DEF StoreInv
    <2> QED
        BY <2>1, <2>2, <2>3
<1>10. history' = p /\ samples' = samples + 1
    BY <1>2, <1>3 DEF sample
<1>11. Serial'
    BY <1>7, <1>9, <1>10 DEF Serial
<1>12. Timely'
    BY DEF sample, StoreInv, Timely, Old
<1>13. next_sample' \in 0..Interval
    BY StoreTypes DEF sample
<1> QED
    BY <1>4, <1>7, <1>10, <1>11, <1>12, <1>13, ExportStands DEF StoreInv, sample

LEMMA SecondKept ==
    ASSUME StoreInv, Second
    PROVE  StoreInv'
<1>1. /\ clock \in Int /\ real \in Nat /\ real' = real + 1 /\ clock' = clock + 1
      /\ next_sample \in 0..Interval /\ next_sample > 0 /\ next_sample' = next_sample - 1
      /\ Interval \in Nat /\ RateWindow \in Nat
    BY StoreTypes DEF Second, StoreInv
<1>2. \A k \in 1..Len(arrivals) : arrivals[k] \in Nat
    BY ElementOfSeq DEF StoreInv
<1>3. UNCHANGED <<arrivals, nmea_times, nmea_ring, history, samples, steps, csv>>
    BY DEF Second
<1>4. Timely'
    <2>1. \A k \in 1..Len(arrivals) : arrivals[k] <= real'
        BY <1>1, <1>2 DEF StoreInv, Timely
    <2>2. ASSUME steps = 0
          PROVE  /\ clock' = real'
                 /\ \A k \in 1..(Len(arrivals) - Len(nmea_times)) : Old(arrivals[k])'
        <3>1. clock = real /\ Ends(nmea_times, arrivals)
            BY <2>2 DEF StoreInv, Timely
        <3>2. ASSUME NEW k \in 1..(Len(arrivals) - Len(nmea_times))
              PROVE  ~(arrivals[k] >= clock' - RateWindow)
            <4>1. ~(arrivals[k] >= clock - RateWindow)
                BY <2>2 DEF StoreInv, Timely, Old
            <4>2. k \in 1..Len(arrivals)
                <5>1. Len(arrivals) \in Nat /\ Len(nmea_times) \in Nat
                    BY LenProperties DEF StoreInv
                <5> QED
                    BY <5>1
            <4> QED
                BY <4>1, <4>2, <1>1, <1>2
        <3> QED
            BY <3>1, <3>2, <1>1, <1>3 DEF Old
    <2> QED
        BY <2>1, <2>2, <1>3 DEF Timely, StoreInv, Old
<1>5. next_sample' \in 0..Interval /\ clock' \in Int /\ real' \in Nat
    BY <1>1
<1> QED
    BY <1>3, <1>4, <1>5, ExportStands DEF StoreInv, Serial

LEMMA ClockStepKept ==
    ASSUME StoreInv, ClockStep
    PROVE  StoreInv'
<1>1. PICK d \in ClockSteps : clock' = clock + d
    BY DEF ClockStep
<1>2. clock' \in Int /\ steps' \in Nat /\ steps' # 0
    BY <1>1, StoreTypes DEF StoreInv, ClockStep
<1>3. UNCHANGED <<nmea_ring, nmea_times, history, next_sample, csv, arrivals, samples, real>>
    BY DEF ClockStep
<1>4. Timely'
    BY <1>2, <1>3 DEF StoreInv, Timely
<1> QED
    BY <1>2, <1>3, <1>4, ExportStands DEF StoreInv, Serial

\* What the loop's steps keep does not depend on the export.
LEMMA LoopStands ==
    ASSUME StoreInv, UNCHANGED loop,
           \/ csv'.at = "none"
           \/ csv' \in Scans /\ csv'.next <= Len(csv'.whole) + 1 /\ Scanned'
           \/ csv'.at = "sent" /\ ExportWhole'
    PROVE  StoreInv'
<1>1. Timely' /\ Serial'
    BY DEF loop, StoreInv, Timely, Old, Serial
<1> QED
    BY <1>1 DEF loop, StoreInv

LEMMA ScanIs ==
    ASSUME StoreInv, csv.at = "scan"
    PROVE  /\ csv \in Scans /\ Scanned /\ csv.next <= Len(csv.whole) + 1
           /\ csv.cutoff \in Int /\ csv.next \in Nat \ {0} /\ csv.rows \in Seq(Rows)
           /\ csv.whole \in Seq(Rows) /\ Len(csv.whole) \in Nat
<1>1. csv \in Scans /\ Scanned /\ csv.next <= Len(csv.whole) + 1
    BY DEF StoreInv
<1> QED
    BY <1>1, LenProperties DEF Scans

\* The scan has kept of what it has read what the filter keeps of it.
LEMMA ExportKept ==
    ASSUME StoreInv, CsvBegin \/ CsvRow \/ CsvBreaks \/ CsvDone \/ CsvOver
    PROVE  StoreInv'
<1>1. CASE CsvBegin
    <2>1. csv' = [at |-> "scan", cutoff |-> clock - CsvSeconds, next |-> 1,
                  rows |-> <<>>, whole |-> history]
        BY <1>1 DEF CsvBegin
    <2>2. PICK none \in Seq(Rows) : none = <<>>
        BY EmptySeq
    <2>3. clock - CsvSeconds \in Int /\ history \in Seq(Rows) /\ Len(history) \in Nat
        BY StoreTypes, LenProperties DEF StoreInv
    <2>4. csv' \in Scans /\ csv'.next <= Len(csv'.whole) + 1
        BY <2>1, <2>2, <2>3 DEF Scans
    <2>5. SubSeq(history, 1, 0) = <<>>
        BY <2>3, SubSeqEmpty
    <2>6. Scanned'
        <3>1. csv'.rows = <<>> /\ csv'.whole = history /\ csv'.next - 1 = 0
            BY <2>1
        <3> QED
            BY <3>1, <2>5, KeptEmpty DEF Scanned
    <2> QED
        BY <2>4, <2>6, <1>1, LoopStands DEF CsvBegin
<1>2. CASE CsvRow
    <2>1. /\ csv.at = "scan" /\ csv.next <= Len(history) /\ history = csv.whole
          /\ csv' = [csv EXCEPT !.next = @ + 1,
                                !.rows = IF history[csv.next].t >= csv.cutoff
                                         THEN Append(@, history[csv.next]) ELSE @]
        BY <1>2 DEF CsvRow, Mutated
    <2>2. PICK whole \in Seq(Rows), next \in Nat \ {0}, rows \in Seq(Rows), cutoff \in Int :
            /\ whole = csv.whole /\ next = csv.next /\ rows = csv.rows /\ cutoff = csv.cutoff
            /\ csv \in Scans /\ Scanned
        BY <2>1, ScanIs
    <2>3. PICK n \in Nat : n = Len(whole) /\ next <= n /\ DOMAIN whole = 1..n
        BY <2>1, <2>2, LenProperties
    <2>4. PICK row \in Rows : row = whole[next] /\ row \in ToSet(whole)
        <3>1. next \in 1..n
            BY <2>3
        <3> QED
            BY <3>1, <2>3, ElementOfSeq DEF ToSet
    <2>5. PICK T : T = {r \in ToSet(whole) : r.t >= cutoff}
        OBVIOUS
    <2>6. PICK read : read = SubSeq(whole, 1, next - 1)
        OBVIOUS
    <2>7. read \in Seq(Rows) /\ SubSeq(whole, 1, next) = Append(read, row)
        <3>1. \A i \in 1..(next - 1) : whole[i] \in Rows
            BY <2>3, ElementOfSeq
        <3>2. read \in Seq(Rows)
            BY <3>1, <2>6, SubSeqProperties
        <3>3. 1 \in 1..Len(whole) /\ next \in 1..Len(whole)
            BY <2>3
        <3>4. SubSeq(whole, 1, next) = read \o <<row>>
            BY <3>3, <2>4, <2>6, SubSeqRecursiveSecond
        <3>5. Append(read, row) = read \o <<row>>
            BY <3>2, AppendIsConcat
        <3> QED
            BY <3>2, <3>4, <3>5
    <2>8. rows = Kept(read, T)
        BY <2>2, <2>5, <2>6 DEF Scanned
    <2>9. PICK after \in Seq(Rows) :
            after = IF row \in T THEN Append(rows, row) ELSE rows
        <3>1. Append(rows, row) \in Seq(Rows)
            BY AppendProperties
        <3> QED
            BY <3>1
    <2>10. Kept(SubSeq(whole, 1, next), T) = after
        <3>1. Kept(Append(read, row), T)
                = IF row \in T THEN Append(Kept(read, T), row) ELSE Kept(read, T)
            BY <2>7, KeptAppend
        <3> QED
            BY <3>1, <2>7, <2>8, <2>9
    <2>11. row \in T <=> row.t >= cutoff
        BY <2>4, <2>5
    <2>12. csv' = [csv EXCEPT !.next = next + 1, !.rows = after]
        BY <2>1, <2>2, <2>4, <2>9, <2>11 DEF Scans
    <2>13. /\ csv' \in Scans /\ csv'.next = next + 1 /\ csv'.rows = after
           /\ csv'.whole = whole /\ csv'.cutoff = cutoff
        <3>1. next + 1 \in Nat \ {0}
            OBVIOUS
        <3> QED
            BY <3>1, <2>2, <2>9, <2>12 DEF Scans
    <2>14. Scanned'
        <3>1. (next + 1) - 1 = next
            OBVIOUS
        <3> QED
            BY <3>1, <2>5, <2>10, <2>13 DEF Scanned
    <2>15. csv'.next <= Len(csv'.whole) + 1
        BY <2>3, <2>13
    <2> QED
        BY <2>13, <2>14, <2>15, <1>2, LoopStands DEF CsvRow
<1>3. CASE CsvBreaks \/ CsvOver
    <2>1. csv'.at = "none" /\ UNCHANGED loop
        BY <1>3 DEF CsvBreaks, CsvOver
    <2> QED
        BY <2>1, LoopStands
<1>4. CASE CsvDone
    <2>1. /\ csv.at = "scan" /\ csv.next > Len(history) /\ history = csv.whole
          /\ csv' = [at |-> "sent", rows |-> Downsample(csv.rows, CsvPoints),
                     from |-> csv.cutoff, whole |-> csv.whole]
        BY <1>4 DEF CsvDone, Mutated
    <2>2. PICK whole \in Seq(Rows), next \in Nat \ {0} :
            /\ whole = csv.whole /\ next = csv.next /\ next <= Len(whole) + 1
            /\ Len(whole) \in Nat /\ Scanned
        BY <2>1, ScanIs
    <2>3. next - 1 = Len(whole)
        BY <2>1, <2>2
    <2>4. SubSeq(whole, 1, Len(whole)) = whole
        BY SubSeqFull
    <2>5. csv.rows = Since(whole, csv.cutoff)
        BY <2>2, <2>3, <2>4 DEF Scanned, Since
    <2>6. csv'.at = "sent" /\ ExportWhole'
        BY <2>1, <2>2, <2>5 DEF ExportWhole
    <2> QED
        BY <2>6, <1>4, LoopStands DEF CsvDone
<1> QED
    BY <1>1, <1>2, <1>3, <1>4

LEMMA StoreStep ==
    ASSUME StoreInv, [StoreNext]_storeVars
    PROVE  StoreInv'
<1>1. CASE StoreNext
    BY <1>1, SentenceKept, RateReadKept, SampleKept, SecondKept, ClockStepKept, ExportKept
       DEF StoreNext
<1>2. CASE UNCHANGED storeVars
    BY <1>2, LoopStands, ExportStands DEF storeVars, loop
<1> QED
    BY <1>1, <1>2

LEMMA Quotient ==
    ASSUME NEW a \in Nat, NEW b \in Nat \ {0}
    PROVE  a \div b \in Nat /\ b * (a \div b) <= a /\ a < b * (a \div b) + b
OBVIOUS

\* The points of a downsampled list: no more than were asked for, and all in the list.
LEMMA PointsFit ==
    ASSUME NEW n \in Nat, NEW p \in Nat \ {0}, n > p,
           NEW step, step = (n + p - 1) \div p, NEW kept, kept = (n - 1) \div step + 1
    PROVE  /\ step \in Nat \ {0} /\ kept \in Nat \ {0} /\ kept <= p
           /\ (kept - 1) * step <= n - 1
<1>1. n + p - 1 \in Nat /\ n - 1 \in Nat
    OBVIOUS
<1>2. step \in Nat /\ p * step <= n + p - 1 /\ n + p - 1 < p * step + p
    BY <1>1, Quotient
<1>3. PICK whole \in Int : whole = p * step /\ n <= whole
    BY <1>2
<1>4. step # 0
    BY <1>2
<1>5. PICK gaps \in Nat : gaps = (n - 1) \div step /\ step * gaps <= n - 1 /\ kept = gaps + 1
    BY <1>1, <1>2, <1>4, Quotient
<1>6. gaps < p
    <2>1. ASSUME gaps >= p PROVE FALSE
        <3>1. PICK more \in Nat : gaps = p + more
            BY <2>1
        <3>2. step * gaps = p * step + step * more /\ step * more \in Nat
            BY <3>1, <1>2
        <3> QED
            BY <3>2, <1>3, <1>5
    <2> QED
        BY <2>1
<1>7. (kept - 1) * step = step * gaps
    BY <1>2, <1>5
<1> QED
    BY <1>2, <1>4, <1>5, <1>6, <1>7

\* Between two places of an ordered list there are as many members as places.
LEMMA GapIs ==
    ASSUME NEW all \in Seq(Nat), Sorted(all), NEW step \in Nat \ {0},
           NEW i \in 1..Len(all), i + step \in 1..Len(all)
    PROVE  Cardinality({r \in ToSet(all) : all[i] < r /\ r <= all[i + step]}) = step
<1>1. PICK n \in Nat : n = Len(all) /\ DOMAIN all = 1..n
    BY LenProperties
<1>2. PICK places : places = (i + 1)..(i + step)
    OBVIOUS
<1>3. PICK gap : gap = {r \in ToSet(all) : all[i] < r /\ r <= all[i + step]}
    OBVIOUS
<1>4. PICK f : f = [m \in places |-> all[m]]
    OBVIOUS
<1>5. \A m \in 1..n : all[m] \in Nat /\ all[m] \in ToSet(all)
    BY <1>1, ElementOfSeq DEF ToSet
<1>6. \A m, k \in 1..n : m < k => all[m] < all[k]
    BY <1>1 DEF Sorted
<1>7. f \in Bijection(places, gap)
    <2>1. \A m \in places : m \in 1..n /\ all[m] \in gap
        <3> SUFFICES ASSUME NEW m \in places PROVE m \in 1..n /\ all[m] \in gap
            OBVIOUS
        <3>1. m \in 1..n /\ i \in 1..n /\ i + step \in 1..n /\ i < m
            BY <1>1, <1>2
        <3>2. all[i] < all[m]
            BY <3>1, <1>6
        <3>3. all[m] <= all[i + step]
            <4>1. m = i + step \/ m < i + step
                BY <3>1, <1>2
            <4> QED
                BY <4>1, <3>1, <1>5, <1>6
        <3> QED
            BY <3>1, <3>2, <3>3, <1>3, <1>5
    <2>2. f \in [places -> gap]
        BY <2>1, <1>4
    <2>3. \A m, k \in places : f[m] = f[k] => m = k
        <3> SUFFICES ASSUME NEW m \in places, NEW k \in places, m # k PROVE f[m] # f[k]
            OBVIOUS
        <3>1. m \in 1..n /\ k \in 1..n /\ (m < k \/ k < m)
            BY <2>1
        <3> QED
            BY <3>1, <1>4, <1>5, <1>6
    <2>4. \A r \in gap : \E m \in places : f[m] = r
        <3> SUFFICES ASSUME NEW r \in gap PROVE \E m \in places : f[m] = r
            OBVIOUS
        <3>1. PICK m \in 1..n : r = all[m]
            BY <1>1, <1>3 DEF ToSet
        <3>2. all[i] < all[m] /\ all[m] <= all[i + step] /\ i \in 1..n /\ i + step \in 1..n
            BY <3>1, <1>1, <1>3
        <3>3. i < m
            <4>1. ~(m < i) /\ m # i
                BY <3>2, <1>5, <1>6
            <4> QED
                BY <4>1
        <3>4. m <= i + step
            <4>1. ~(i + step < m)
                BY <3>2, <1>5, <1>6
            <4> QED
                BY <4>1
        <3>5. m \in places
            BY <3>3, <3>4, <1>2
        <3> QED
            BY <3>1, <3>5, <1>4
    <2> QED
        BY <2>2, <2>3, <2>4, Zenon DEF Bijection, Injection, Surjection, IsInjective
<1>8. IsFiniteSet(places) /\ Cardinality(places) = step
    <2>1. PICK a \in Int, b \in Int : a = i + 1 /\ b = i + step
        BY <1>1
    <2>2. IsFiniteSet(a..b) /\ Cardinality(a..b) = IF a > b THEN 0 ELSE b - a + 1
        BY <2>1, FS_Interval, Zenon
    <2> QED
        BY <2>1, <2>2, <1>2
<1>9. Cardinality(gap) = Cardinality(places)
    BY <1>7, <1>8, FS_Bijection DEF ExistsBijection
<1> QED
    BY <1>3, <1>8, <1>9

\* What a downsampled list owes the whole.
Fair(all, got) ==
    /\ all # <<>> => got # <<>> /\ Last(got) = Last(all)
    /\ ToSet(got) \subseteq ToSet(all)
    /\ \A k \in 1..(Len(got) - 1) :
          /\ got[k] < got[k + 1]
          /\ Cardinality({r \in ToSet(all) : got[k] < r /\ r <= got[k + 1]})
               = Cardinality({r \in ToSet(all) : got[1] < r /\ r <= got[2]})

\* A list of every step-th member of another is fair to it.
LEMMA EvenlySpaced ==
    ASSUME NEW all \in Seq(Nat), Sorted(all), NEW got \in Seq(Nat), NEW step \in Nat \ {0},
           NEW at \in [1..Len(got) -> 1..Len(all)],
           \A j \in 1..(Len(got) - 1) : at[j + 1] = at[j] + step,
           \A j \in 1..Len(got) : got[j] = all[at[j]],
           Len(all) # 0 => Len(got) # 0 /\ at[Len(got)] = Len(all)
    PROVE  Fair(all, got)
<1>1. PICK n \in Nat, m \in Nat :
        n = Len(all) /\ m = Len(got) /\ DOMAIN all = 1..n /\ DOMAIN got = 1..m
    BY LenProperties
<1>2. \A j \in 1..m : at[j] \in 1..n /\ got[j] = all[at[j]]
    BY <1>1
<1>3. all # <<>> => got # <<>> /\ Last(got) = Last(all)
    <2> SUFFICES ASSUME all # <<>> PROVE got # <<>> /\ Last(got) = Last(all)
        OBVIOUS
    <2>1. n # 0
        BY <1>1, EmptySeq
    <2>2. m # 0 /\ at[m] = n /\ m \in 1..m
        BY <2>1, <1>1
    <2>3. got # <<>>
        BY <2>2, <1>1, EmptySeq
    <2> QED
        BY <2>2, <2>3, <1>1, <1>2 DEF Last
<1>4. ToSet(got) \subseteq ToSet(all)
    BY <1>1, <1>2 DEF ToSet
<1>5. ASSUME NEW k \in 1..(m - 1)
      PROVE  /\ got[k] < got[k + 1]
             /\ Cardinality({r \in ToSet(all) : got[k] < r /\ r <= got[k + 1]}) = step
    <2>1. k \in 1..m /\ k + 1 \in 1..m
        BY <1>1
    <2>2. PICK i \in 1..Len(all) : i = at[k]
        BY <2>1, <1>1
    <2>3. at[k + 1] = i + step /\ i + step \in 1..Len(all)
        <3>1. at[k + 1] = at[k] + step
            BY <1>1
        <3> QED
            BY <3>1, <2>1, <2>2, <1>1
    <2>4. got[k] = all[i] /\ got[k + 1] = all[i + step]
        BY <2>1, <2>2, <2>3, <1>2
    <2>5. all[i] < all[i + step]
        BY <2>2, <2>3, <1>1 DEF Sorted
    <2>6. Cardinality({r \in ToSet(all) : all[i] < r /\ r <= all[i + step]}) = step
        BY <2>2, <2>3, GapIs
    <2> QED
        BY <2>4, <2>5, <2>6
<1>6. \A k \in 1..(m - 1) : 1 \in 1..(m - 1) /\ 1 + 1 = 2
    BY <1>1
<1> QED
    BY <1>1, <1>3, <1>4, <1>5, <1>6 DEF Fair

LEMMA RowsOfIs ==
    ASSUME NEW rows \in Seq(Rows)
    PROVE  /\ RowsOf(rows) \in Seq(Nat) /\ Len(RowsOf(rows)) = Len(rows)
           /\ \A k \in 1..Len(rows) : RowsOf(rows)[k] = rows[k].row
<1>1. PICK n \in Nat : n = Len(rows) /\ DOMAIN rows = 1..n
    BY LenProperties
<1>2. \A k \in 1..n : rows[k].row \in Nat
    <2>1. \A k \in 1..n : rows[k] \in Rows
        BY <1>1, ElementOfSeq
    <2> QED
        BY <2>1 DEF Rows
<1>3. PICK numbers : numbers = RowsOf(rows)
    OBVIOUS
<1>4. numbers = [k \in 1..n |-> rows[k].row]
    BY <1>1, <1>3 DEF RowsOf
<1>5. numbers \in [1..n -> Nat]
    BY <1>2, <1>4
<1>6. numbers \in Seq(Nat)
    <2>1. Seq(Nat) = UNION {[1..m -> Nat] : m \in Nat}
        BY SeqDef
    <2> QED
        BY <2>1, <1>1, <1>5, Zenon
<1>7. Len(numbers) = n
    BY <1>1, <1>5, <1>6, LenProperties
<1> QED
    BY <1>1, <1>3, <1>4, <1>6, <1>7

\* thin takes every step-th of the rows, ending with the newest.
Takes(thin, rows, at, step) ==
    /\ at \in [1..Len(thin) -> 1..Len(rows)]
    /\ \A j \in 1..(Len(thin) - 1) : at[j + 1] = at[j] + step
    /\ at[Len(thin)] = Len(rows)
    /\ \A j \in 1..Len(thin) : thin[j] = rows[at[j]]

LEMMA ThinnedIs ==
    ASSUME NEW rows \in Seq(Rows), NEW p \in Nat \ {0}, Len(rows) > p,
           NEW thin, thin = Downsample(rows, p)
    PROVE  /\ thin \in Seq(Rows) /\ Len(thin) <= p /\ Len(thin) # 0
           /\ \E step \in Nat \ {0} : \E at : Takes(thin, rows, at, step)
<1>1. PICK n \in Nat : n = Len(rows) /\ n > p
    BY LenProperties
<1>2. PICK step : step = (n + p - 1) \div p
    OBVIOUS
<1>3. PICK kept : kept = (n - 1) \div step + 1
    OBVIOUS
<1>4. /\ step \in Nat \ {0} /\ kept \in Nat \ {0} /\ kept <= p
      /\ (kept - 1) * step <= n - 1
    BY <1>1, <1>2, <1>3, PointsFit
<1>5. thin = [j \in 1..kept |-> rows[n - (kept - j) * step]]
    BY <1>1, <1>2, <1>3 DEF Downsample, Thinned
<1>6. PICK at : at = [j \in 1..kept |-> n - (kept - j) * step]
    OBVIOUS
<1>7. ASSUME NEW j \in 1..kept PROVE at[j] \in 1..n
    <2>1. at[j] = n - (kept - j) * step
        BY <1>6
    <2>2. PICK before \in Nat, after \in Nat : before = j - 1 /\ after = kept - j
        BY <1>4
    <2>3. (kept - 1) * step = before * step + after * step
        BY <2>2, <1>4
    <2>4. PICK x \in Nat, y \in Nat : x = before * step /\ y = after * step
        BY <2>2, <1>4
    <2>5. x + y <= n - 1 /\ at[j] = n - y
        BY <2>1, <2>2, <2>3, <2>4, <1>4
    <2> QED
        BY <2>4, <2>5, <1>1
<1>8. at \in [1..kept -> 1..n]
    BY <1>6, <1>7
<1>9. ASSUME NEW j \in 1..(kept - 1) PROVE at[j + 1] = at[j] + step
    <2>1. j \in 1..kept /\ j + 1 \in 1..kept
        BY <1>4
    <2>2. at[j + 1] = n - (kept - (j + 1)) * step /\ at[j] = n - (kept - j) * step
        BY <2>1, <1>6
    <2>3. PICK after \in Nat : after = kept - (j + 1) /\ kept - j = after + 1
        BY <1>4
    <2>4. (after + 1) * step = after * step + step
        BY <1>4
    <2>5. PICK y \in Nat : y = after * step
        BY <1>4
    <2> QED
        BY <2>2, <2>3, <2>4, <2>5, <1>1, <1>4
<1>10. at[kept] = n
    <2>1. kept \in 1..kept /\ kept - kept = 0 /\ 0 * step = 0
        BY <1>4
    <2> QED
        BY <2>1, <1>1, <1>6
<1>11. \A j \in 1..kept : rows[at[j]] \in Rows
    BY <1>1, <1>7, ElementOfSeq
<1>12. thin = [j \in 1..kept |-> rows[at[j]]]
    BY <1>5, <1>6
<1>13. thin \in [1..kept -> Rows]
    BY <1>11, <1>12
<1>14. thin \in Seq(Rows)
    <2>1. Seq(Rows) = UNION {[1..m -> Rows] : m \in Nat}
        BY SeqDef
    <2>2. kept \in Nat
        BY <1>4
    <2> QED
        BY <2>1, <2>2, <1>13, Zenon
<1>15. Len(thin) = kept
    BY <1>4, <1>13, <1>14, LenProperties
<1>16. Takes(thin, rows, at, step)
    BY <1>1, <1>8, <1>9, <1>10, <1>12, <1>15 DEF Takes
<1>17. \E s \in Nat \ {0} : \E a : Takes(thin, rows, a, s)
    BY <1>4, <1>16, Zenon
<1> QED
    BY <1>4, <1>14, <1>15, <1>17

\* Downsampling is fair to any list of rows in their order.
LEMMA DownsampleIsFair ==
    ASSUME NEW rows \in Seq(Rows), Sorted(RowsOf(rows)), NEW p \in Nat \ {0}
    PROVE  LET all == RowsOf(rows)
               got == RowsOf(Downsample(rows, p))
           IN  Len(got) <= p /\ (Len(all) <= p => got = all) /\ Fair(all, got)
<1>1. PICK all \in Seq(Nat) :
        /\ all = RowsOf(rows) /\ Len(all) = Len(rows)
        /\ \A k \in 1..Len(rows) : all[k] = rows[k].row
    BY RowsOfIs
<1>2. PICK n \in Nat : n = Len(rows)
    BY LenProperties
<1>3. CASE n <= p
    <2>1. Downsample(rows, p) = rows
        BY <1>2, <1>3 DEF Downsample
    <2>2. PICK at : at = [j \in 1..n |-> j]
        OBVIOUS
    <2>3. Fair(all, all)
        <3>1. at \in [1..n -> 1..n] /\ \A j \in 1..n : at[j] = j
            BY <2>2
        <3>2. \A j \in 1..(n - 1) : j \in 1..n /\ j + 1 \in 1..n
            BY <1>2
        <3>3. at \in [1..Len(all) -> 1..Len(all)] /\ \A j \in 1..Len(all) : all[j] = all[at[j]]
            BY <3>1, <1>1, <1>2
        <3>4. \A j \in 1..(Len(all) - 1) : at[j + 1] = at[j] + 1
            BY <3>1, <3>2, <1>1, <1>2
        <3>5. Len(all) # 0 => Len(all) # 0 /\ at[Len(all)] = Len(all)
            BY <3>1, <1>1, <1>2
        <3>6. 1 \in Nat \ {0} /\ Sorted(all)
            BY <1>1
        <3> QED
            BY <3>3, <3>4, <3>5, <3>6, EvenlySpaced
    <2> QED
        BY <2>1, <2>3, <1>1, <1>2, <1>3
<1>4. CASE ~(n <= p)
    <2>0. Len(rows) > p
        BY <1>2, <1>4
    <2>1. PICK thin : thin = Downsample(rows, p)
        OBVIOUS
    <2>2. /\ thin \in Seq(Rows) /\ Len(thin) <= p /\ Len(thin) # 0
          /\ \E step \in Nat \ {0} : \E at : Takes(thin, rows, at, step)
        BY <2>0, <2>1, ThinnedIs
    <2>9. PICK step \in Nat \ {0} : \E at : Takes(thin, rows, at, step)
        BY <2>2
    <2>10. PICK at : Takes(thin, rows, at, step)
        BY <2>9
    <2>3. /\ at \in [1..Len(thin) -> 1..Len(rows)]
          /\ \A j \in 1..(Len(thin) - 1) : at[j + 1] = at[j] + step
          /\ at[Len(thin)] = Len(rows)
          /\ \A j \in 1..Len(thin) : thin[j] = rows[at[j]]
        BY <2>10 DEF Takes
    <2>4. PICK got \in Seq(Nat) :
            /\ got = RowsOf(thin) /\ Len(got) = Len(thin)
            /\ \A k \in 1..Len(thin) : got[k] = thin[k].row
        BY <2>2, RowsOfIs
    <2>5. ASSUME NEW j \in 1..Len(got) PROVE got[j] = all[at[j]]
        <3>1. j \in 1..Len(thin)
            BY <2>4
        <3>2. at[j] \in 1..Len(rows) /\ thin[j] = rows[at[j]]
            BY <3>1, <2>3
        <3>3. got[j] = thin[j].row /\ all[at[j]] = rows[at[j]].row
            BY <3>1, <3>2, <2>4, <1>1
        <3> QED
            BY <3>2, <3>3
    <2>6. at \in [1..Len(got) -> 1..Len(all)]
        BY <2>3, <2>4, <1>1
    <2>7. Fair(all, got)
        <3>1. \A j \in 1..(Len(got) - 1) : at[j + 1] = at[j] + step
            BY <2>3, <2>4
        <3>2. Len(all) # 0 => Len(got) # 0 /\ at[Len(got)] = Len(all)
            BY <2>2, <2>3, <2>4, <1>1
        <3>3. \A j \in 1..Len(got) : got[j] = all[at[j]]
            BY <2>5
        <3>4. Sorted(all)
            BY <1>1
        <3> QED
            BY <3>1, <3>2, <3>3, <3>4, <2>3, <2>6, EvenlySpaced
    <2> QED
        BY <2>0, <2>1, <2>2, <2>4, <2>7, <1>1, <1>2, <1>4
<1> QED
    BY <1>3, <1>4

\* The rows a request selects are in their order.
LEMMA NewerInOrder ==
    ASSUME StoreInv, NEW seconds
    PROVE  Newer(seconds) \in Seq(Rows) /\ Sorted(RowsOf(Newer(seconds)))
<1>1. PICK T : T = {row \in ToSet(history) : row.t >= clock - seconds}
    OBVIOUS
<1>2. PICK rows \in Seq(Rows) : rows = Newer(seconds) /\ Within(rows, history)
    <2>1. Newer(seconds) = Kept(history, T)
        BY <1>1 DEF Newer, Since
    <2>2. Kept(history, T) \in Seq(Rows \cap T) /\ Within(Kept(history, T), history)
        BY KeptIsWithin DEF StoreInv
    <2>3. Kept(history, T) \in Seq(Rows)
        BY <2>2, SeqMonotonic
    <2> QED
        BY <2>1, <2>2, <2>3
<1>3. PICK n \in Nat, m \in Nat : n = Len(history) /\ m = Len(rows)
    BY LenProperties DEF StoreInv
<1>4. PICK p \in [1..m -> 1..n] :
        /\ \A i, j \in 1..m : i < j => p[i] < p[j]
        /\ \A k \in 1..m : rows[k] = history[p[k]]
    BY <1>2, <1>3 DEF Within
<1>5. samples \in Nat /\ \A k \in 1..n : history[k].row = samples - n + k
    BY <1>3 DEF StoreInv, Serial
<1>6. ASSUME NEW i \in 1..m, NEW j \in 1..m, i < j PROVE rows[i].row < rows[j].row
    <2>1. PICK a \in 1..n, b \in 1..n : a = p[i] /\ b = p[j]
        OBVIOUS
    <2>2. a < b
        BY <2>1, <1>4, <1>6
    <2>3. rows[i].row = samples - n + a /\ rows[j].row = samples - n + b
        BY <2>1, <1>4, <1>5
    <2> QED
        BY <2>1, <2>2, <2>3, <1>3, <1>5
<1>7. Len(RowsOf(rows)) = m /\ \A k \in 1..m : RowsOf(rows)[k] = rows[k].row
    BY <1>3, RowsOfIs
<1> QED
    BY <1>2, <1>6, <1>7 DEF Sorted

\* What the run checks follows.
LEMMA StoreInvSays == StoreInv => LinesSound /\ DownsamplingFair /\ ExportWhole
<1> SUFFICES ASSUME StoreInv PROVE LinesSound /\ DownsamplingFair /\ ExportWhole
    OBVIOUS
<1>1. PICK a \in Nat : a = Len(arrivals) /\ nmea_ring = LastOf(Smaller(RingSize, a), a)
    BY LenProperties DEF StoreInv
<1>2. RateIsRecent
    BY RateSays DEF StoreInv
<1>3. NewestLines
    <2>1. \A n \in 0..(RingSize + 1) : n \in Nat
        BY StoreTypes
    <2> QED
        BY <2>1, <1>1, LinesAre DEF NewestLines
<1>4. StoreTypeOK
    <2>1. nmea_ring \in Seq(Nat) /\ Len(nmea_ring) <= RingSize
        <3>1. Smaller(RingSize, a) <= RingSize
            BY StoreTypes DEF Smaller
        <3> QED
            BY <3>1, <1>1, RingGrows
    <2>2. \A k \in DOMAIN history : history[k] \in [t : Int, row : Nat]
        BY ElementOfSeq, LenProperties DEF StoreInv, Rows
    <2>3. csv.at \in {"none", "scan", "sent"}
        BY DEF StoreInv, Scans
    <2> QED
        BY <2>1, <2>2, <2>3 DEF StoreInv, StoreTypeOK
<1>5. DownsamplingFair
    <2> SUFFICES ASSUME NEW seconds \in Seconds, NEW p \in 1..(HistorySize + 1)
                 PROVE  LET all == RowsOf(Newer(seconds))
                            got == RowsOf(Downsample(Newer(seconds), p))
                        IN  Len(got) <= p /\ (Len(all) <= p => got = all) /\ Fair(all, got)
        BY DEF DownsamplingFair, Fair, history_rows
    <2>1. p \in Nat \ {0}
        BY StoreTypes
    <2>2. Newer(seconds) \in Seq(Rows) /\ Sorted(RowsOf(Newer(seconds)))
        BY NewerInOrder
    <2> QED
        BY <2>1, <2>2, DownsampleIsFair
<1>6. ExportWhole
    BY DEF StoreInv, ExportWhole, Scans
<1> QED
    BY <1>2, <1>3, <1>4, <1>5, <1>6 DEF LinesSound, RingsSound
-----------------------------------------------------------------------------
LEMMA StoreAlwaysInv == StoreSpec => []StoreInv
<1>1. StoreInit => StoreInv
    BY StoreStarts
<1>2. StoreInv /\ [StoreNext]_storeVars => StoreInv'
    BY StoreStep
<1> QED
    BY <1>1, <1>2, PTL DEF StoreSpec

\* The rings never hold more than they may, GET /raw/nmea answers with exactly the
\* newest sentences, as many as were asked for and are kept, and while the wall clock
\* is not stepped the reported rate counts exactly the sentences of the last
\* NMEA_RATE_WINDOW_S (state.py: add_nmea, _prune_nmea, nmea_rate, nmea_lines).
THEOREM LinesAlwaysSound == StoreSpec => []LinesSound
BY StoreAlwaysInv, StoreInvSays, PTL

\* A history request is answered with at most max_points rows, evenly spaced, in order,
\* the newest among them, and with all of them when they fit (state.py: history_rows).
THEOREM DownsamplingAlwaysFair == StoreSpec => []DownsamplingFair
BY StoreAlwaysInv, StoreInvSays, PTL

\* An export that is not broken off has the rows a request would have had when it
\* began, however the sampler's appends fell between its steps (state.py: history_csv).
THEOREM ExportAlwaysWhole == StoreSpec => []ExportWhole
BY StoreAlwaysInv, StoreInvSays, PTL
=============================================================================
