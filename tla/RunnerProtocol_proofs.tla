----------------------- MODULE RunnerProtocol_proofs -----------------------
(* What holds of the line protocol for any number of calls and writes, any   *)
(* texts and any max_output_bytes: its types, what truncation leaves, that a *)
(* call which times out brings back nothing that its block printed, that an  *)
(* answer is the one of its own call, and that what a block prints comes     *)
(* back as it was printed.                                                   *)
EXTENDS RunnerProtocol, FiniteSetTheorems, SequenceTheorems, WellFoundedInduction, TLAPS

-----------------------------------------------------------------------------
(* Numbers and sequences.                                                   *)

\* A set of natural numbers has a least one.
LEMMA LeastNat ==
  ASSUME NEW S \in SUBSET Nat, S # {}
  PROVE  \E m \in S : \A k \in S : m <= k
  <1> DEFINE R == OpToRel(<, Nat)
  <1>1. IsWellFoundedOn(R, Nat)
    BY NatLessThanWellFounded, Zenon
  <1>2. R = {ss \in Nat \X Nat : ss[1] < ss[2]}
    BY Zenon DEF OpToRel
  <1> HIDE DEF R
  <1>3. PICK m \in S : \A k \in S : ~(<<k, m>> \in R)
    BY <1>1, WFMin, Zenon
  <1>4. ASSUME NEW k \in S
        PROVE  m <= k
    <2>1. ~(<<k, m>> \in {ss \in Nat \X Nat : ss[1] < ss[2]})
      BY <1>2, <1>3
    <2> QED BY <2>1
  <1> QED BY <1>4

\* What SubSeq cuts out.
LEMMA Cut ==
  ASSUME NEW T, NEW s \in Seq(T), NEW m \in Nat \ {0}, NEW n \in Nat, n <= Len(s)
  PROVE  /\ SubSeq(s, m, n) \in Seq(T)
         /\ Len(SubSeq(s, m, n)) = IF m <= n THEN n - m + 1 ELSE 0
         /\ DOMAIN SubSeq(s, m, n) = 1..(n - m + 1)
         /\ \A i \in 1..(n - m + 1) : SubSeq(s, m, n)[i] = s[m + i - 1]
  <1>1. \A i \in m..n : s[i] \in T
    BY ElementOfSeq
  <1>2. /\ SubSeq(s, m, n) \in Seq(T)
        /\ Len(SubSeq(s, m, n)) = IF m <= n THEN n - m + 1 ELSE 0
        /\ \A i \in 1..(n - m + 1) : SubSeq(s, m, n)[i] = s[m + i - 1]
    BY <1>1, SubSeqProperties
  <1> QED BY <1>2, LenProperties

\* The first n elements.
LEMMA Prefix ==
  ASSUME NEW T, NEW s \in Seq(T), NEW n \in 0..Len(s)
  PROVE  /\ SubSeq(s, 1, n) \in Seq(T) /\ Len(SubSeq(s, 1, n)) = n
         /\ DOMAIN SubSeq(s, 1, n) = 1..n
         /\ \A i \in 1..n : SubSeq(s, 1, n)[i] = s[i]
  <1>1. n \in Nat /\ n <= Len(s) /\ Len(s) \in Nat
    BY LenProperties
  <1> QED BY <1>1, Cut

\* All but the first n elements.
LEMMA Suffix ==
  ASSUME NEW T, NEW s \in Seq(T), NEW n \in 0..Len(s)
  PROVE  /\ SubSeq(s, n + 1, Len(s)) \in Seq(T)
         /\ Len(SubSeq(s, n + 1, Len(s))) = Len(s) - n
         /\ \A i \in 1..Len(s) - n : SubSeq(s, n + 1, Len(s))[i] = s[n + i]
  <1>1. n \in Nat /\ n <= Len(s) /\ Len(s) \in Nat
    BY LenProperties
  <1>2. PICK m \in Nat \ {0} : m = n + 1
    BY <1>1
  <1>3. /\ SubSeq(s, m, Len(s)) \in Seq(T)
        /\ Len(SubSeq(s, m, Len(s))) = IF m <= Len(s) THEN Len(s) - m + 1 ELSE 0
        /\ \A i \in 1..(Len(s) - m + 1) : SubSeq(s, m, Len(s))[i] = s[m + i - 1]
    BY <1>1, Cut
  <1>4. PICK r : r = SubSeq(s, m, Len(s))
    OBVIOUS
  <1>5. r \in Seq(T) /\ Len(r) = Len(s) - n /\ \A i \in 1..Len(s) - n : r[i] = s[n + i]
    BY <1>1, <1>2, <1>3, <1>4
  <1> QED BY <1>2, <1>4, <1>5

\* Two pieces one behind the other.
LEMMA Joined ==
  ASSUME NEW T, NEW r \in Seq(T), NEW s \in Seq(T)
  PROVE  /\ r \o s \in Seq(T) /\ Len(r \o s) = Len(r) + Len(s)
         /\ Len(r) \in Nat /\ Len(s) \in Nat
         /\ \A i \in 1..Len(r) : (r \o s)[i] = r[i]
         /\ \A i \in 1..Len(s) : (r \o s)[Len(r) + i] = s[i]
  BY ConcatProperties, LenProperties

-----------------------------------------------------------------------------
(* Size and truncation.                                                     *)

\* Every token takes a byte or three.
LEMMA SizeBounds ==
  ASSUME NEW s \in Seq(Shown)
  PROVE  Size(s) \in Nat /\ Size(s) >= Len(s) /\ IsFiniteSet(Wide(s))
  <1>1. Len(s) \in Nat /\ DOMAIN s = 1..Len(s)
    BY LenProperties
  <1>2. IsFiniteSet(1..Len(s))
    BY <1>1, FS_Interval
  <1>3. Wide(s) \subseteq 1..Len(s)
    BY <1>1 DEF Wide
  <1>4. IsFiniteSet(Wide(s))
    BY <1>2, <1>3, FS_Subset
  <1>5. Cardinality(Wide(s)) \in Nat
    BY <1>4, FS_CardinalityType
  <1> QED BY <1>1, <1>4, <1>5 DEF Size

\* No tokens, no bytes.
LEMMA SizeOfEmpty ==
  ASSUME NEW s \in Seq(Shown), Len(s) = 0
  PROVE  Size(s) = 0
  <1>1. DOMAIN s = {}
    BY LenProperties
  <1>2. Wide(s) = {}
    BY <1>1 DEF Wide
  <1>3. Cardinality({}) = 0
    BY FS_EmptySet
  <1> QED BY <1>2, <1>3 DEF Size

\* One token more.
LEMMA SizeGrows ==
  ASSUME NEW s \in Seq(Shown), NEW r \in Seq(Shown), Len(r) = Len(s) + 1,
         \A i \in 1..Len(s) : r[i] = s[i]
  PROVE  Size(r) >= Size(s) + 1 /\ Size(r) <= Size(s) + 3
  <1> DEFINE n == Len(s)
  <1>1. n \in Nat /\ DOMAIN s = 1..n /\ DOMAIN r = 1..(n + 1)
    BY LenProperties
  <1>2. IsFiniteSet(Wide(s)) /\ IsFiniteSet(Wide(r))
    BY SizeBounds
  <1>3. Wide(r) = Wide(s) \/ Wide(r) = Wide(s) \cup {n + 1}
    BY <1>1 DEF Wide
  <1>4. n + 1 \notin Wide(s)
    BY <1>1 DEF Wide
  <1>5. Cardinality(Wide(s) \cup {n + 1}) = Cardinality(Wide(s)) + 1
    BY <1>2, <1>4, FS_AddElement
  <1>6. Cardinality(Wide(s)) \in Nat
    BY <1>2, FS_CardinalityType
  <1>7. Cardinality(Wide(r)) = Cardinality(Wide(s))
        \/ Cardinality(Wide(r)) = Cardinality(Wide(s)) + 1
    BY <1>3, <1>5
  <1> QED BY <1>1, <1>6, <1>7 DEF Size

\* Where the prefixes of an oversized text stop to fit.
LEMMA LastFit ==
  ASSUME NEW s \in Seq(Shown), Size(s) > MaxOutput
  PROVE  \E n \in 0..Len(s) - 1 : /\ Size(SubSeq(s, 1, n)) <= MaxOutput
                                  /\ Size(SubSeq(s, 1, n + 1)) > MaxOutput
  <1>0. MaxOutput \in Nat /\ Len(s) \in Nat
    BY ProtocolBounds, LenProperties
  <1> DEFINE Over(m) == Size(SubSeq(s, 1, m)) > MaxOutput
             S == {m \in 0..Len(s) : Over(m)}
  <1>1. Over(Len(s))
    BY SubSeqFull
  <1>2. ~Over(0)
    <2>1. SubSeq(s, 1, 0) \in Seq(Shown) /\ Len(SubSeq(s, 1, 0)) = 0
      BY <1>0, Cut
    <2>2. Size(SubSeq(s, 1, 0)) = 0
      BY <2>1, SizeOfEmpty, Zenon
    <2> QED BY <1>0, <2>2
  <1>3. ASSUME NEW m \in 0..Len(s), ~Over(m)
        PROVE  Size(SubSeq(s, 1, m)) <= MaxOutput
    <2>1. SubSeq(s, 1, m) \in Seq(Shown)
      BY <1>0, Cut
    <2>2. Size(SubSeq(s, 1, m)) \in Nat
      BY <2>1, SizeBounds, Zenon
    <2> QED BY <1>0, <1>3, <2>2
  <1>4. PICK m \in S : \A k \in S : m <= k
    <2>1. S \in SUBSET Nat /\ S # {}
      <3> HIDE DEF Over
      <3> QED BY <1>0, <1>1
    <2> HIDE DEF S
    <2> QED BY <2>1, LeastNat
  <1>5. m \in 0..Len(s) /\ Over(m) /\ m # 0
    <2> HIDE DEF Over
    <2> QED BY <1>2, <1>4
  <1>6. m - 1 \in 0..Len(s) - 1 /\ ~Over(m - 1) /\ m - 1 + 1 = m
    <2> HIDE DEF Over
    <2> QED BY <1>0, <1>4, <1>5
  <1>7. Size(SubSeq(s, 1, m - 1)) <= MaxOutput
    BY <1>0, <1>3, <1>6
  <1> QED BY <1>5, <1>6, <1>7

\* Text of an outcome without its marker.
Unmarked == {t \in Shown : t.k # "mark"}

\* What is on the pipe can be in an outcome, and the runner writes no marker.
LEMMA PlainText ==
  /\ Token \subseteq Unmarked /\ Unmarked \subseteq Shown
  /\ \A s \in Seq(Token) : s \in Seq(Unmarked)
  /\ \A f \in [Streams -> Seq(Token)] : f \in [Streams -> Seq(Unmarked)]
  <1>1. Kinds \subseteq Kinds \cup Added /\ "mark" \notin Kinds
    BY DEF Kinds, Sentinels
  <1>2. Token \subseteq Unmarked /\ Unmarked \subseteq Shown
    BY <1>1 DEF Token, Shown, Unmarked
  <1>3. \A s \in Seq(Token) : s \in Seq(Unmarked)
    BY <1>2
  <1> QED BY <1>2, <1>3

\* A line or a marker of the server's own.
LEMMA InsertedText ==
  ASSUME NEW kind \in Added
  PROVE  /\ Inserted(kind) \in Seq(Shown) /\ Len(Inserted(kind)) = 1
         /\ Inserted(kind)[1].k = kind /\ Inserted(kind)[1].by = Background
         /\ kind # "mark" => Inserted(kind) \in Seq(Unmarked)
  <1>1. Background \in 0..MaxCalls
    BY ProtocolBounds DEF Background
  <1>2. [k |-> kind, by |-> Background, raw |-> FALSE] \in Shown
    BY <1>1 DEF Shown
  <1> QED BY <1>2 DEF Inserted, Unmarked

\* What is kept of an oversized text: its tokens in their order, the last one perhaps
\* cut, and at most two bytes more than max_output_bytes (limits.py:229-232).
LEMMA ClippedText ==
  ASSUME NEW s \in Seq(Unmarked), Size(s) > MaxOutput
  PROVE  /\ Clipped(s) \in Seq(Unmarked)
         /\ Size(Clipped(s)) <= MaxOutput + 2
         /\ Len(Clipped(s)) <= Len(s)
         /\ \A i \in 1..Len(Clipped(s)) :
              Clipped(s)[i].by = s[i].by /\ Clipped(s)[i].raw = s[i].raw
  <1>0. /\ MaxOutput \in Nat /\ Len(s) \in Nat /\ DOMAIN s = 1..Len(s) /\ s \in Seq(Shown)
        /\ \A r \in Seq(Unmarked) : r \in Seq(Shown)
    BY ProtocolBounds, LenProperties, PlainText
  <1> DEFINE Fit(n) == /\ Size(SubSeq(s, 1, n)) <= MaxOutput
                       /\ Size(SubSeq(s, 1, n + 1)) > MaxOutput
             n == CHOOSE n \in 0..Len(s) - 1 : Fit(n)
             kept == SubSeq(s, 1, n)
             t == [s[n + 1] EXCEPT !.k = "cut"]
  <1>1. \E i \in 0..Len(s) - 1 : Fit(i)
    BY <1>0, LastFit
  <1>2. n \in 0..Len(s) - 1 /\ Fit(n)
    <2> HIDE DEF Fit
    <2> QED BY <1>1
  <1>3. Clipped(s) = IF Size(kept) = MaxOutput THEN kept ELSE Append(kept, t)
    BY DEF Clipped
  <1>4. /\ kept \in Seq(Unmarked) /\ Len(kept) = n /\ Size(kept) <= MaxOutput
        /\ Size(kept) \in Nat /\ \A i \in 1..n : kept[i] = s[i]
    <2> HIDE DEF n
    <2>1. kept \in Seq(Unmarked) /\ Len(kept) = n /\ \A i \in 1..n : kept[i] = s[i]
      BY <1>0, <1>2, Cut
    <2>2. Size(kept) \in Nat
      BY <1>0, <2>1, SizeBounds, Zenon
    <2> QED BY <1>2, <2>1, <2>2
  <1>5. s[n + 1] \in Unmarked /\ t \in Unmarked /\ t.by = s[n + 1].by /\ t.raw = s[n + 1].raw
    <2>1. s[n + 1] \in Unmarked
      <3> HIDE DEF n
      <3> QED BY <1>0, <1>2, ElementOfSeq
    <2>2. "cut" \in Added
      BY DEF Added
    <2> HIDE DEF n
    <2> QED BY <2>1, <2>2 DEF Unmarked, Shown
  <1> HIDE DEF n, kept, t
  <1>6. CASE Size(kept) = MaxOutput
    BY <1>0, <1>2, <1>3, <1>4, <1>6
  <1>7. CASE Size(kept) # MaxOutput
    <2>1. /\ Append(kept, t) \in Seq(Unmarked) /\ Len(Append(kept, t)) = n + 1
          /\ \A i \in 1..n : Append(kept, t)[i] = kept[i]
          /\ Append(kept, t)[n + 1] = t
      <3>1. kept \in Seq(Unmarked) /\ t \in Unmarked /\ Len(kept) = n
        BY <1>4, <1>5
      <3> QED BY <3>1, AppendProperties
    <2>2. Size(Append(kept, t)) <= Size(kept) + 3
      BY <1>0, <1>4, <2>1, SizeGrows
    <2>3. Size(Append(kept, t)) \in Nat
      BY <1>0, <2>1, SizeBounds
    <2> QED BY <1>0, <1>2, <1>3, <1>4, <1>5, <1>7, <2>1, <2>2, <2>3
  <1> QED BY <1>6, <1>7

\* A text that ends in the server's marker, and has none before.
EndsInMarker(t) ==
  /\ Has(t, {"mark"}) /\ t[Len(t)].k = "mark"
  /\ ~Has(Front(t), {"mark"}) /\ Size(Front(t)) <= MaxOutput + 2

\* What truncation returns: a text that fits as it is; of another what is kept of it
\* and the marker (limits.py:224-233).
LEMMA Truncated ==
  ASSUME NEW s \in Seq(Unmarked)
  PROVE  /\ Truncate(s) \in Seq(Shown)
         /\ IF Size(s) <= MaxOutput THEN Truncate(s) = s /\ ~Has(Truncate(s), {"mark"})
            ELSE Size(s) > MaxOutput /\ EndsInMarker(Truncate(s))
         /\ \A i \in 1..Len(Truncate(s)) :
              \/ Truncate(s)[i].by = Background
              \/ /\ i \in 1..Len(s)
                 /\ Truncate(s)[i].by = s[i].by /\ Truncate(s)[i].raw = s[i].raw
  <1>0. /\ MaxOutput \in Nat /\ Len(s) \in Nat /\ DOMAIN s = 1..Len(s)
        /\ \A r \in Seq(Unmarked) : /\ r \in Seq(Shown) /\ DOMAIN r = 1..Len(r)
                                /\ Len(r) \in Nat /\ ~Has(r, {"mark"})
    <2>1. \A r \in Seq(Unmarked) : r \in Seq(Shown) /\ DOMAIN r = 1..Len(r) /\ Len(r) \in Nat
      BY PlainText, LenProperties
    <2>2. ASSUME NEW r \in Seq(Unmarked)
          PROVE  ~Has(r, {"mark"})
      <3>1. \A i \in DOMAIN r : r[i] \in Unmarked
        BY <2>1, ElementOfSeq
      <3> QED BY <3>1 DEF Has, Unmarked
    <2> QED BY <2>1, <2>2, ProtocolBounds
  <1>1. CASE Size(s) <= MaxOutput
    <2>1. Truncate(s) = s
      BY <1>1 DEF Truncate
    <2> QED BY <1>0, <1>1, <2>1
  <1>2. CASE ~(Size(s) <= MaxOutput)
    <2>1. Size(s) > MaxOutput
      BY <1>0, <1>2, SizeBounds
    <2>2. PICK c : c = Clipped(s)
      OBVIOUS
    <2>3. PICK m : m = Inserted("mark")
      OBVIOUS
    <2>4. /\ c \in Seq(Unmarked) /\ c \in Seq(Shown) /\ Len(c) \in Nat /\ Len(c) <= Len(s)
          /\ DOMAIN c = 1..Len(c) /\ ~Has(c, {"mark"}) /\ Size(c) <= MaxOutput + 2
          /\ \A i \in 1..Len(c) : c[i].by = s[i].by /\ c[i].raw = s[i].raw
      BY <1>0, <2>1, <2>2, ClippedText
    <2>5. m \in Seq(Shown) /\ Len(m) = 1 /\ m[1].k = "mark" /\ m[1].by = Background
      BY <2>3, InsertedText DEF Added
    <2>6. PICK t : t = c \o m
      OBVIOUS
    <2>7. Truncate(s) = t
      BY <1>2, <2>2, <2>3, <2>6 DEF Truncate
    <2>8. /\ t \in Seq(Shown) /\ Len(t) = Len(c) + 1 /\ DOMAIN t = 1..Len(c) + 1
          /\ \A i \in 1..Len(c) : t[i] = c[i]
          /\ t[Len(c) + 1].k = "mark" /\ t[Len(c) + 1].by = Background
      <3>1. /\ c \o m \in Seq(Shown) /\ Len(c \o m) = Len(c) + Len(m)
            /\ \A i \in 1..Len(c) : (c \o m)[i] = c[i]
            /\ \A i \in 1..Len(m) : (c \o m)[Len(c) + i] = m[i]
        <4>1. c \in Seq(Shown) /\ m \in Seq(Shown)
          BY <2>4, <2>5
        <4> QED BY <4>1, Joined
      <3>2. 1 \in 1..Len(m)
        BY <2>5
      <3> QED BY <2>4, <2>5, <2>6, <3>1, <3>2, LenProperties
    <2>9. Front(t) = c
      <3>1. /\ SubSeq(t, 1, Len(c)) \in Seq(Shown) /\ Len(SubSeq(t, 1, Len(c))) = Len(c)
            /\ \A i \in 1..Len(c) : SubSeq(t, 1, Len(c))[i] = t[i]
        BY <2>4, <2>8, Prefix
      <3>2. \A i \in 1..Len(c) : SubSeq(t, 1, Len(c))[i] = c[i]
        BY <2>8, <3>1
      <3>3. SubSeq(t, 1, Len(c)) = c
        BY <2>4, <3>1, <3>2, SeqEqual
      <3>4. Len(t) - 1 = Len(c)
        BY <2>4, <2>8
      <3> QED BY <3>3, <3>4 DEF Front
    <2>10. EndsInMarker(t)
      <3>1. Len(t) \in DOMAIN t /\ t[Len(t)].k = "mark"
        BY <2>4, <2>8
      <3> QED BY <2>4, <2>9, <3>1 DEF EndsInMarker, Has
    <2>11. \A i \in 1..Len(t) : i \in 1..Len(c) \/ i = Len(c) + 1
      BY <2>4, <2>8
    <2>12. \A i \in 1..Len(c) : i \in 1..Len(s)
      BY <1>0, <2>4
    <2> QED BY <1>2, <2>1, <2>4, <2>7, <2>8, <2>10, <2>11, <2>12
  <1> QED BY <1>1, <1>2

-----------------------------------------------------------------------------
(* Lines and frames.                                                        *)

\* The first line of the wire ends with its only newline, or there is none.
LEMMA FirstLineOfWire ==
  ASSUME NEW T, wire \in Seq(T)
  PROVE  /\ FirstLine \in Seq(T) /\ AfterLine \in Seq(T)
         /\ Len(FirstLine) <= Len(wire) /\ Len(AfterLine) = Len(wire) - Len(FirstLine)
         /\ \A i \in 1..Len(FirstLine) : FirstLine[i] = wire[i]
         /\ \A i \in 1..Len(AfterLine) : AfterLine[i] = wire[Len(FirstLine) + i]
         /\ Has(wire, {"nl"}) =>
              /\ Len(FirstLine) > 0 /\ FirstLine[Len(FirstLine)].k = "nl"
              /\ \A i \in 1..Len(FirstLine) - 1 : FirstLine[i].k # "nl"
         /\ ~Has(wire, {"nl"}) => FirstLine = wire
  <1>0. Len(wire) \in Nat /\ DOMAIN wire = 1..Len(wire)
    BY LenProperties
  <1>1. ASSUME NEW n \in 0..Len(wire), FirstLine = SubSeq(wire, 1, n)
        PROVE  /\ FirstLine \in Seq(T) /\ AfterLine \in Seq(T) /\ Len(FirstLine) = n
               /\ Len(AfterLine) = Len(wire) - n
               /\ \A i \in 1..n : FirstLine[i] = wire[i]
               /\ \A i \in 1..Len(AfterLine) : AfterLine[i] = wire[n + i]
    <2>1. FirstLine \in Seq(T) /\ Len(FirstLine) = n
          /\ \A i \in 1..n : FirstLine[i] = wire[i]
      BY <1>0, <1>1, Cut
    <2>2. AfterLine = SubSeq(wire, n + 1, Len(wire))
      BY <2>1 DEF AfterLine
    <2>3. AfterLine \in Seq(T) /\ Len(AfterLine) = Len(wire) - n
          /\ \A i \in 1..Len(wire) - n : AfterLine[i] = wire[n + i]
      BY <1>0, <2>2, Suffix, Zenon
    <2> QED BY <2>1, <2>3
  <1>2. CASE ~Has(wire, {"nl"})
    <2>1. FirstLine = wire /\ FirstLine = SubSeq(wire, 1, Len(wire))
      BY <1>2, SubSeqFull DEF FirstLine
    <2> QED BY <1>0, <1>1, <1>2, <2>1
  <1>3. CASE Has(wire, {"nl"})
    <2> DEFINE Ends(n) == wire[n].k = "nl" /\ ~Has(SubSeq(wire, 1, n - 1), {"nl"})
               NL == {n \in 1..Len(wire) : wire[n].k = "nl"}
    <2>1. NL \in SUBSET Nat /\ NL # {}
      BY <1>0, <1>3 DEF Has
    <2>2. PICK m \in NL : \A n \in NL : m <= n
      <3> HIDE DEF NL
      <3> QED BY <2>1, LeastNat
    <2>3. ASSUME NEW n \in 1..Len(wire)
          PROVE  Has(SubSeq(wire, 1, n - 1), {"nl"}) <=> \E i \in 1..n - 1 : wire[i].k = "nl"
      <3>1. /\ DOMAIN SubSeq(wire, 1, n - 1) = 1..n - 1
            /\ \A i \in 1..n - 1 : SubSeq(wire, 1, n - 1)[i] = wire[i]
        BY <1>0, Cut
      <3> QED BY <3>1 DEF Has
    <2>4. m \in DOMAIN wire /\ Ends(m)
      <3>1. ~\E i \in 1..m - 1 : wire[i].k = "nl"
        BY <1>0, <2>2
      <3> QED BY <1>0, <2>2, <2>3, <3>1
    <2> DEFINE n == CHOOSE n \in DOMAIN wire : Ends(n)
    <2>5. n \in DOMAIN wire /\ Ends(n)
      <3> HIDE DEF Ends
      <3> QED BY <2>4
    <2>6. FirstLine = SubSeq(wire, 1, n)
      BY <1>3 DEF FirstLine
    <2> HIDE DEF n
    <2>7. \A i \in 1..n - 1 : wire[i].k # "nl"
      BY <1>0, <2>3, <2>5
    <2>8. n \in 0..Len(wire) /\ n > 0 /\ wire[n].k = "nl"
      BY <1>0, <2>5
    <2>9. /\ FirstLine \in Seq(T) /\ AfterLine \in Seq(T) /\ Len(FirstLine) = n
          /\ Len(AfterLine) = Len(wire) - n
          /\ \A i \in 1..n : FirstLine[i] = wire[i]
          /\ \A i \in 1..Len(AfterLine) : AfterLine[i] = wire[n + i]
      BY <1>1, <2>6, <2>8
    <2>10. FirstLine[n].k = "nl" /\ \A i \in 1..n - 1 : FirstLine[i].k # "nl"
      BY <1>0, <2>7, <2>8, <2>9
    <2> QED BY <1>0, <1>3, <2>8, <2>9, <2>10
  <1> QED BY <1>2, <1>3

\* What the parser compares with the sentinels is the line without its newline.
LEMMA StrippedLine ==
  ASSUME NEW T, wire \in Seq(T)
  PROVE  /\ Stripped \in Seq(T) /\ Len(Stripped) <= Len(FirstLine)
         /\ \A i \in 1..Len(Stripped) : Stripped[i] = FirstLine[i] /\ Stripped[i] = wire[i]
         /\ EndsLine(FirstLine) => Len(Stripped) = Len(FirstLine) - 1
         /\ ~EndsLine(FirstLine) => Stripped = FirstLine
  <1>1. /\ FirstLine \in Seq(T) /\ Len(FirstLine) \in Nat
        /\ Len(FirstLine) <= Len(wire) /\ Len(wire) \in Nat
        /\ \A i \in 1..Len(FirstLine) : FirstLine[i] = wire[i]
    BY FirstLineOfWire, LenProperties
  <1>2. CASE EndsLine(FirstLine)
    <2>1. Len(FirstLine) > 0
      BY <1>1, <1>2, EmptySeq, LenProperties DEF EndsLine
    <2>2. Stripped = SubSeq(FirstLine, 1, Len(FirstLine) - 1)
      BY <1>2 DEF Stripped, Front
    <2>3. /\ Stripped \in Seq(T) /\ Len(Stripped) = Len(FirstLine) - 1
          /\ \A i \in 1..Len(FirstLine) - 1 : Stripped[i] = FirstLine[i]
      <3>1. Len(FirstLine) - 1 \in 0..Len(FirstLine)
        BY <1>1, <2>1
      <3> QED BY <1>1, <2>2, <3>1, Prefix, Zenon
    <2> QED BY <1>1, <1>2, <2>3
  <1>3. CASE ~EndsLine(FirstLine)
    BY <1>1, <1>3 DEF Stripped
  <1> QED BY <1>2, <1>3

\* Chop takes off a newline at the end, and nothing else.
LEMMA Chopped ==
  ASSUME NEW T, NEW s \in Seq(T)
  PROVE  /\ Chop(s) \in Seq(T) /\ Len(Chop(s)) <= Len(s)
         /\ \A i \in 1..Len(Chop(s)) : Chop(s)[i] = s[i]
  <1>0. Len(s) \in Nat
    BY LenProperties
  <1>1. CASE EndsLine(s)
    <2>1. Len(s) > 0
      BY <1>0, <1>1, EmptySeq, LenProperties DEF EndsLine
    <2>2. Chop(s) = SubSeq(s, 1, Len(s) - 1)
      BY <1>1 DEF Chop, Front
    <2> QED BY <1>0, <2>1, <2>2, Cut
  <1>2. CASE ~EndsLine(s)
    BY <1>0, <1>2 DEF Chop
  <1> QED BY <1>1, <1>2

\* What is written carries the block that wrote it.
LEMMA TokensOf ==
  ASSUME NEW ks \in Seq(Kinds), NEW by \in 0..MaxCalls, NEW past \in BOOLEAN
  PROVE  /\ Tokens(ks, by, past) \in Seq(Token) /\ Len(Tokens(ks, by, past)) = Len(ks)
         /\ \A i \in 1..Len(ks) : /\ Tokens(ks, by, past)[i].k = ks[i]
                                  /\ Tokens(ks, by, past)[i].by = by
                                  /\ Tokens(ks, by, past)[i].raw = past
  <1>1. Len(ks) \in Nat /\ DOMAIN ks = 1..Len(ks) /\ \A i \in 1..Len(ks) : ks[i] \in Kinds
    BY LenProperties, ElementOfSeq
  <1>2. Tokens(ks, by, past) = [i \in 1..Len(ks) |-> [k |-> ks[i], by |-> by, raw |-> past]]
    BY <1>1 DEF Tokens
  <1>3. Tokens(ks, by, past) \in [1..Len(ks) -> Token]
    BY <1>1, <1>2 DEF Token
  <1>4. Tokens(ks, by, past) \in Seq(Token) /\ Len(Tokens(ks, by, past)) = Len(ks)
    BY <1>1, <1>3, IsASeq, LenProperties
  <1> QED BY <1>1, <1>2, <1>4

\* A sequence of tokens that are all in T.
LEMMA Within ==
  ASSUME NEW U, NEW s \in Seq(U), NEW T, \A i \in 1..Len(s) : s[i] \in T
  PROVE  s \in Seq(T)
  BY LenProperties

\* One element more.
LEMMA Append1 ==
  ASSUME NEW T, NEW s \in Seq(T), NEW x \in T
  PROVE  /\ Append(s, x) \in Seq(T) /\ Len(Append(s, x)) = Len(s) + 1 /\ Len(s) \in Nat
         /\ DOMAIN Append(s, x) = 1..Len(s) + 1 /\ DOMAIN s = 1..Len(s)
         /\ \A i \in 1..Len(s) : Append(s, x)[i] = s[i]
         /\ Append(s, x)[Len(s) + 1] = x
  BY AppendProperties, LenProperties

-----------------------------------------------------------------------------
(* Types.                                                                   *)

Typed == TypeOK /\ (at = "frame" => chunks # <<>>)

Mine == {t \in Token : t.by = said.by}

\* A line of the runner's own.
LEMMA OwnLine ==
  ASSUME NEW K, K \subseteq Kinds, "nl" \in K, NEW ks \in Seq(K), NEW by \in 0..MaxCalls
  PROVE  Line(ks, by) \in Seq({t \in Token : t.by = by /\ ~t.raw /\ t.k \in K})
  <1> DEFINE l == Append(ks, "nl")  T == {t \in Token : t.by = by /\ ~t.raw /\ t.k \in K}
  <1>1. l \in Seq(K)
    BY AppendProperties
  <1> HIDE DEF l
  <1>2. Line(ks, by) = Tokens(l, by, FALSE)
    BY DEF Line, l
  <1>3. PICK r : r = Tokens(l, by, FALSE)
    OBVIOUS
  <1>4. \A i \in 1..Len(l) : l[i] \in K
    BY <1>1, ElementOfSeq
  <1>5. l \in Seq(Kinds)
    <2>1. \A i \in 1..Len(l) : l[i] \in Kinds
      BY <1>4
    <2> QED BY <1>1, <2>1, Within, Zenon
  <1>6. r \in Seq(Token) /\ Len(r) = Len(l)
        /\ \A i \in 1..Len(r) : r[i].by = by /\ r[i].raw = FALSE /\ r[i].k = l[i]
    <2>1. PICK past \in BOOLEAN : past = FALSE
      OBVIOUS
    <2>2. /\ Tokens(l, by, past) \in Seq(Token) /\ Len(Tokens(l, by, past)) = Len(l)
          /\ \A i \in 1..Len(l) : /\ Tokens(l, by, past)[i].k = l[i]
                                 /\ Tokens(l, by, past)[i].by = by
                                 /\ Tokens(l, by, past)[i].raw = past
      BY <1>5, TokensOf
    <2> QED BY <1>3, <2>1, <2>2
  <1>7. \A i \in 1..Len(r) : r[i] \in T
    BY <1>4, <1>6, ElementOfSeq
  <1>8. r \in Seq(T)
    <2> HIDE DEF T
    <2> QED BY <1>6, <1>7, Within
  <1> QED BY <1>2, <1>3, <1>8

\* The frames of a block hold what it has printed and the runner's own lines.
LEMMA FrameOf ==
  ASSUME NEW T, NEW K, K \subseteq Kinds, NEW by \in 0..MaxCalls,
         {t \in Token : t.by = by /\ ~t.raw /\ t.k \in K} \subseteq T,
         NEW s \in Seq(T), NEW tag \in K, NEW end \in K, "nl" \in K
  PROVE  Frame(tag, s, end, by) \in Seq(Seq(T))
  <1>1. ASSUME NEW ks \in Seq(K)
        PROVE  Line(ks, by) \in Seq(T)
    <2> DEFINE U == {t \in Token : t.by = by /\ ~t.raw /\ t.k \in K}
    <2>1. U \subseteq T /\ Line(ks, by) \in Seq(U)
      BY OwnLine
    <2> HIDE DEF U
    <2>2. \A i \in 1..Len(Line(ks, by)) : Line(ks, by)[i] \in T
      BY <2>1, ElementOfSeq
    <2> QED BY <2>1, <2>2, Within
  <1>2. <<tag>> \in Seq(K) /\ <<end>> \in Seq(K) /\ <<>> \in Seq(K)
    BY EmptySeq
  <1>3. /\ Line(<<tag>>, by) \in Seq(T) /\ Line(<<end>>, by) \in Seq(T)
        /\ Line(<<>>, by) \in Seq(T)
    BY <1>1, <1>2, Zenon
  <1>4. PICK a, b, c : a = Line(<<tag>>, by) /\ b = Line(<<end>>, by) /\ c = Line(<<>>, by)
    OBVIOUS
  <1> DEFINE x == <<a, s>>  y == IF EndsLine(s) THEN <<>> ELSE <<c>>  z == <<b>>
  <1>5. x \in Seq(Seq(T)) /\ y \in Seq(Seq(T)) /\ z \in Seq(Seq(T))
    <2>1. a \in Seq(T) /\ b \in Seq(T) /\ c \in Seq(T)
      BY <1>3, <1>4
    <2> DEFINE ST == Seq(T)
    <2>2. a \in ST /\ b \in ST /\ c \in ST /\ s \in ST
      BY <2>1
    <2> HIDE DEF ST
    <2>3. <<a, s>> \in Seq(ST) /\ <<c>> \in Seq(ST) /\ <<b>> \in Seq(ST) /\ <<>> \in Seq(ST)
      BY <2>2, EmptySeq
    <2> QED BY <2>3 DEF ST
  <1>6. Frame(tag, s, end, by) = x \o y \o z
    BY <1>4 DEF Frame
  <1> HIDE DEF x, y, z
  <1> QED BY <1>5, <1>6, ConcatProperties

DoneLine(by) == Line(<<"DONE", "rc">>, by)
Calm == Kinds \ {"DONE", "huge"}

\* An answer: two frames, and the line that ends it, where the only DONE is.
LEMMA FramesOf ==
  ASSUME NEW T, said.by \in 0..MaxCalls,
         {t \in Token : t.by = said.by /\ ~t.raw /\ t.k \in Calm} \subseteq T,
         said.stdout \in Seq(T), said.stderr \in Seq(T)
  PROVE  /\ Frames \in Seq(Seq(T) \cup {DoneLine(said.by)})
         /\ \E n \in Nat : /\ Len(Frames) = n + 1 /\ DOMAIN Frames = 1..n + 1
                           /\ Frames[n + 1] = DoneLine(said.by)
                           /\ \A i \in 1..n : Frames[i] \in Seq(T)
  <1> DEFINE x == Frame("OUT", said.stdout, "OUT_END", said.by)
             y == Frame("ERR", said.stderr, "ERR_END", said.by)
             z == <<DoneLine(said.by)>>
             ST == Seq(T)
  <1>1. {"OUT", "OUT_END", "ERR", "ERR_END", "nl"} \subseteq Calm /\ Calm \subseteq Kinds
    BY DEF Kinds, Sentinels, Calm
  <1>2. x \in Seq(ST) /\ y \in Seq(ST)
    BY <1>1, FrameOf
  <1>3. Len(z) = 1 /\ z[1] = DoneLine(said.by)
    OBVIOUS
  <1>4. Frames = x \o y \o z
    BY DEF Frames, DoneLine
  <1> DEFINE U == ST \cup {DoneLine(said.by)}
  <1>5. z \in Seq(U)
    OBVIOUS
  <1> HIDE DEF x, y, z, ST
  <1>6. PICK v : v = x \o y
    OBVIOUS
  <1>7. v \in Seq(ST) /\ Len(v) \in Nat
    BY <1>2, <1>6, Joined, LenProperties
  <1>8. \A i \in 1..Len(v) : v[i] \in ST
    BY <1>7, ElementOfSeq
  <1> HIDE DEF U
  <1>9. v \in Seq(U)
    <2>1. \A i \in 1..Len(v) : v[i] \in U
      BY <1>8 DEF U
    <2> QED BY <1>7, <2>1, Within, Zenon
  <1>10. PICK w : w = v \o z
    OBVIOUS
  <1>11. /\ w \in Seq(U) /\ Len(w) = Len(v) + 1
         /\ \A i \in 1..Len(v) : w[i] = v[i]
         /\ w[Len(v) + 1] = z[1]
    <2>1. /\ v \o z \in Seq(U) /\ Len(v \o z) = Len(v) + Len(z)
          /\ \A i \in 1..Len(v) : (v \o z)[i] = v[i]
          /\ \A i \in 1..Len(z) : (v \o z)[Len(v) + i] = z[i]
      BY <1>5, <1>9, Joined
    <2> QED BY <1>3, <1>10, <2>1
  <1>12. DOMAIN w = 1..Len(v) + 1
    BY <1>7, <1>11, LenProperties
  <1>13. \A i \in 1..Len(v) : w[i] \in Seq(T)
    BY <1>8, <1>11 DEF ST
  <1>14. Frames = w
    BY <1>4, <1>6, <1>10
  <1> QED BY <1>3, <1>7, <1>11, <1>12, <1>13, <1>14 DEF U, ST

\* The line that ends an answer: the sentinel, the code of its block, a newline.
LEMMA LastLine ==
  ASSUME NEW by \in 0..MaxCalls
  PROVE  /\ DoneLine(by) \in Seq({t \in Token : t.by = by}) /\ Len(DoneLine(by)) = 3
         /\ DoneLine(by)[1].k = "DONE" /\ DoneLine(by)[2].k = "rc" /\ DoneLine(by)[3].k = "nl"
         /\ \A i \in 1..3 : DoneLine(by)[i] \in Token /\ DoneLine(by)[i].by = by
  <1> DEFINE l == Append(<<"DONE", "rc">>, "nl")
  <1>1. l \in Seq(Kinds) /\ Len(l) = 3 /\ l[1] = "DONE" /\ l[2] = "rc" /\ l[3] = "nl"
    BY DEF Kinds, Sentinels
  <1> HIDE DEF l
  <1>2. PICK past \in BOOLEAN : past = FALSE
    OBVIOUS
  <1>3. PICK r : r = Tokens(l, by, past)
    OBVIOUS
  <1>4. /\ r \in Seq(Token) /\ Len(r) = 3
        /\ \A i \in 1..3 : r[i].k = l[i] /\ r[i].by = by
    <2>1. /\ Tokens(l, by, past) \in Seq(Token) /\ Len(Tokens(l, by, past)) = Len(l)
          /\ \A i \in 1..Len(l) : /\ Tokens(l, by, past)[i].k = l[i]
                                 /\ Tokens(l, by, past)[i].by = by
      BY <1>1, TokensOf
    <2> QED BY <1>1, <1>3, <2>1
  <1>5. DoneLine(by) = r
    BY <1>2, <1>3 DEF DoneLine, Line, l
  <1>6. \A i \in 1..3 : r[i] \in Token /\ r[i].by = by
    BY <1>4, ElementOfSeq
  <1>7. r \in Seq({t \in Token : t.by = by})
    <2> DEFINE U == {t \in Token : t.by = by}
    <2>1. \A i \in 1..Len(r) : r[i] \in U
      BY <1>4, <1>6
    <2> HIDE DEF U
    <2>2. r \in Seq(U)
      BY <1>4, <2>1, Within, Zenon
    <2> QED BY <2>2 DEF U
  <1>8. 1 \in 1..3 /\ 2 \in 1..3 /\ 3 \in 1..3
    OBVIOUS
  <1>9. r[1].k = "DONE" /\ r[2].k = "rc" /\ r[3].k = "nl"
    BY <1>1, <1>4, <1>8
  <1> QED BY <1>4, <1>5, <1>6, <1>7, <1>9

\* All of an answer is of its block.
LEMMA FramesAreMine ==
  ASSUME NEW T, said.by \in 0..MaxCalls, {t \in Token : t.by = said.by} \subseteq T,
         said.stdout \in Seq(T), said.stderr \in Seq(T)
  PROVE  Frames \in Seq(Seq(T)) /\ Frames # <<>>
  <1>1. {t \in Token : t.by = said.by /\ ~t.raw /\ t.k \in Calm} \subseteq T
    OBVIOUS
  <1>2. PICK n \in Nat : /\ Len(Frames) = n + 1 /\ DOMAIN Frames = 1..n + 1
                         /\ Frames[n + 1] = DoneLine(said.by)
                         /\ \A i \in 1..n : Frames[i] \in Seq(T)
    BY <1>1, FramesOf
  <1>3. DoneLine(said.by) \in Seq(T)
    <2> DEFINE U == {t \in Token : t.by = said.by}
    <2>1. PICK d : d = DoneLine(said.by)
      OBVIOUS
    <2>2. d \in Seq(U) /\ U \subseteq T
      BY <2>1, LastLine
    <2> HIDE DEF U
    <2>3. \A i \in 1..Len(d) : d[i] \in T
      BY <2>2, ElementOfSeq
    <2> QED BY <2>1, <2>2, <2>3, Within
  <1>4. Seq(T) \cup {DoneLine(said.by)} = Seq(T)
    BY <1>3
  <1> DEFINE ST == Seq(T)
  <1>5. PICK f : f = Frames
    OBVIOUS
  <1>6. f \in Seq(ST)
    <2>1. Frames \in Seq(Seq(T) \cup {DoneLine(said.by)})
      BY <1>1, FramesOf
    <2> QED BY <1>4, <1>5, <2>1
  <1> HIDE DEF ST
  <1>7. f # <<>>
    BY <1>2, <1>5, <1>6, EmptySeq
  <1> QED BY <1>5, <1>6, <1>7 DEF ST

KindsOfOutcome == {"none", "answered", "exited", "timed_out", "pipe_closed", "error"}

\* No text on either stream.
LEMMA EmptyText == Empty \in [Streams -> Seq(Token)] /\ Empty["stdout"] = <<>>
  BY EmptySeq DEF Empty, Streams

\* The text of a runner that has ended, with the line about it.
EndText == [text EXCEPT !["stderr"] = @ \o Inserted("note")]

\* It is text for an outcome.
LEMMA EndTextPlain ==
  ASSUME text \in [Streams -> Seq(Token)]
  PROVE  EndText \in [Streams -> Seq(Unmarked)]
  <1>1. text["stderr"] \in Seq(Unmarked) /\ text \in [Streams -> Seq(Unmarked)]
    BY PlainText DEF Streams
  <1>2. Inserted("note") \in Seq(Unmarked)
    BY InsertedText DEF Added
  <1>3. text["stderr"] \o Inserted("note") \in Seq(Unmarked)
    BY <1>1, <1>2, Joined
  <1> QED BY <1>1, <1>3 DEF EndText

\* The parts of an outcome.
LEMMA OutcomeOf ==
  ASSUME NEW c \in 0..MaxCalls, NEW kind \in KindsOfOutcome,
         NEW t \in [Streams -> Seq(Shown)], NEW code \in -1..MaxCalls, NEW cut \in BOOLEAN,
         NEW saw \in {"none", "loop", "run", "frame", "dead"}
  PROVE  [call |-> c, kind |-> kind, text |-> t, code |-> code, cut |-> cut, saw |-> saw]
           \in Outcome
  BY DEF Outcome, KindsOfOutcome

\* What execute() makes of the text and the code it has read.
LEMMA ResultOf ==
  ASSUME TypeOK, NEW kind \in KindsOfOutcome, NEW full \in [Streams -> Seq(Unmarked)],
         NEW code \in -1..MaxCalls
  PROVE  /\ Result(kind, full, code) \in Outcome
         /\ Result(kind, full, code).kind = kind /\ Result(kind, full, code).code = code
         /\ Result(kind, full, code).call = calls /\ Result(kind, full, code).saw = at
         /\ \A s \in Streams : Result(kind, full, code).text[s] = Truncate(full[s])
  <1> DEFINE tt == [s \in Streams |-> Truncate(full[s])]
             cc == \E s \in Streams : Size(full[s]) > MaxOutput
  <1>1. tt \in [Streams -> Seq(Shown)]
    <2>1. \A s \in Streams : full[s] \in Seq(Unmarked)
      OBVIOUS
    <2> QED BY <2>1, Truncated
  <1>2. cc \in BOOLEAN
    OBVIOUS
  <1>3. \A s \in Streams : tt[s] = Truncate(full[s])
    OBVIOUS
  <1>4. Result(kind, full, code) =
          [call |-> calls, kind |-> kind, text |-> tt, code |-> code, cut |-> cc, saw |-> at]
    BY DEF Result
  <1> HIDE DEF tt, cc
  <1>5. calls \in 0..MaxCalls /\ at \in {"none", "loop", "run", "frame", "dead"}
    BY DEF TypeOK
  <1>6. Result(kind, full, code) \in Outcome
    <2>1. PICK b \in BOOLEAN : b = cc
      BY <1>2
    <2>2. PICK c \in 0..MaxCalls : c = calls
      BY <1>5
    <2>3. PICK t \in [Streams -> Seq(Shown)] : t = tt
      BY <1>1
    <2>4. PICK saw \in {"none", "loop", "run", "frame", "dead"} : saw = at
      BY <1>5
    <2>5. [call |-> c, kind |-> kind, text |-> t, code |-> code, cut |-> b, saw |-> saw]
            \in Outcome
      BY OutcomeOf
    <2> QED BY <1>4, <2>1, <2>2, <2>3, <2>4, <2>5
  <1>7. /\ Result(kind, full, code).kind = kind /\ Result(kind, full, code).code = code
        /\ Result(kind, full, code).call = calls /\ Result(kind, full, code).saw = at
        /\ Result(kind, full, code).text = tt
    BY <1>4
  <1>8. \A s \in Streams : Result(kind, full, code).text[s] = Truncate(full[s])
    BY <1>3, <1>7
  <1> QED BY <1>6, <1>7, <1>8

\* An outcome tells whether a stream of it was cut.
LEMMA CutOf ==
  ASSUME NEW kind, NEW full, NEW code
  PROVE  Result(kind, full, code).cut = (\E s \in Streams : Size(full[s]) > MaxOutput)
  <1> DEFINE cc == \E s \in Streams : Size(full[s]) > MaxOutput
             tt == [s \in Streams |-> Truncate(full[s])]
  <1>1. cc = (\E s \in Streams : Size(full[s]) > MaxOutput)
    OBVIOUS
  <1>2. Result(kind, full, code) =
          [call |-> calls, kind |-> kind, text |-> tt, code |-> code, cut |-> cc, saw |-> at]
    BY DEF Result
  <1> HIDE DEF cc, tt
  <1>3. Result(kind, full, code).cut = cc
    BY <1>2
  <1> QED BY <1>1, <1>3

\* The outcome of a call in progress.
LEMMA PendingTyped == Pending \in Outcome /\ Pending.kind = "none" /\ Pending.text = Empty
  <1>1. NoCode \in -1..MaxCalls /\ 0 \in 0..MaxCalls
    BY ProtocolBounds DEF NoCode
  <1>2. Empty \in [Streams -> Seq(Shown)]
    BY EmptySeq DEF Empty
  <1>3. Pending \in Outcome
    BY <1>1, <1>2, OutcomeOf DEF Pending, KindsOfOutcome
  <1> QED BY <1>3 DEF Pending

\* A block that has said nothing.
LEMMA SilenceTyped ==
  ASSUME NEW b \in 0..MaxCalls
  PROVE  /\ Silence(b) \in [stdout : Seq(Token), stderr : Seq(Token), by : 0..MaxCalls]
         /\ Silence(b).by = b /\ Silence(b).stdout = <<>> /\ Silence(b).stderr = <<>>
  BY EmptySeq DEF Silence

\* Before the first call.
LEMMA InitTyped == Init => Typed
  <1> SUFFICES ASSUME Init PROVE Typed
    OBVIOUS
  <1>1. 0 \in 0..MaxCalls /\ 0 \in 0..MaxWrites
    BY ProtocolBounds
  <1>2. after \in Outcome /\ last \in Outcome /\ text \in [Streams -> Seq(Token)]
    BY PendingTyped, EmptyText DEF Init
  <1>3. said \in [stdout : Seq(Token), stderr : Seq(Token), by : 0..MaxCalls]
    BY <1>1, SilenceTyped DEF Init
  <1> QED BY <1>1, <1>2, <1>3, EmptySeq DEF Init, Typed, TypeOK

\* The call ends with the outcome o.
LEMMA ReturnTyped ==
  ASSUME TypeOK, NEW o \in Outcome, Return(o)
  PROVE  /\ phase' = "idle" /\ last' = o /\ sect' = "none" /\ after' = Pending
         /\ last' \in Outcome /\ after' \in Outcome
         /\ buf' \in Seq(Token) /\ text' \in [Streams -> Seq(Token)]
  BY EmptySeq, EmptyText, PendingTyped DEF Return, FreshLocals

\* A line is read.
LEMMA ReadLineTyped ==
  ASSUME Typed, ReadLine
  PROVE  Typed'
  <1>0. TypeOK /\ wire \in Seq(Token) /\ buf \in Seq(Token) /\ text \in [Streams -> Seq(Token)]
    BY DEF Typed, TypeOK
  <1>1. /\ AfterLine \in Seq(Token) /\ FirstLine \in Seq(Token) /\ Stripped \in Seq(Token)
    BY <1>0, FirstLineOfWire, StrippedLine
  <1>2. wire' = AfterLine /\ UNCHANGED <<calls, big, runner, user>>
    BY DEF ReadLine
  <1>3. ASSUME NEW s \in Streams, Open(s)
        PROVE  Typed'
    BY <1>0, <1>1, <1>2, <1>3, EmptySeq DEF Typed, TypeOK, Open, Streams, runner, user
  <1>4. ASSUME NEW s \in Streams, Close(s)
        PROVE  Typed'
    <2>1. Chop(buf) \in Seq(Token)
      BY <1>0, Chopped
    <2>2. text' \in [Streams -> Seq(Token)]
      BY <1>0, <1>4, <2>1 DEF Close
    <2> QED BY <1>0, <1>1, <1>2, <1>4, <2>2 DEF Typed, TypeOK, Close, runner, user
  <1>5. CASE Return(Result("answered", text, ReturnCode))
    <2>1. ReturnCode \in -1..MaxCalls
      <3>1. CASE Len(Stripped) = 2
        <4>1. Stripped[2] \in Token
          <5>1. 2 \in 1..Len(Stripped)
            BY <3>1
          <5> QED BY <1>1, <5>1, ElementOfSeq, Zenon
        <4> QED BY <4>1, ProtocolBounds DEF ReturnCode, NoCode, Token
      <3>2. CASE Len(Stripped) # 2
        BY <3>2, ProtocolBounds DEF ReturnCode, NoCode
      <3> QED BY <3>1, <3>2
    <2>2. Result("answered", text, ReturnCode) \in Outcome
      <3>1. text \in [Streams -> Seq(Unmarked)]
        BY <1>0, PlainText
      <3> QED BY <1>0, <2>1, <3>1, ResultOf DEF KindsOfOutcome
    <2> QED BY <1>0, <1>1, <1>2, <1>5, <2>2, ReturnTyped DEF Typed, TypeOK, runner, user
  <1>6. CASE /\ buf' = IF sect = "none" THEN buf ELSE buf \o FirstLine
             /\ UNCHANGED <<sect, text, phase, after, last>>
    <2>1. buf' \in Seq(Token)
      BY <1>0, <1>1, <1>6, ConcatProperties
    <2> QED BY <1>0, <1>1, <1>2, <1>6, <2>1 DEF Typed, TypeOK, runner, user
  <1>7. {"stdout", "stderr"} \subseteq Streams
    BY DEF Streams
  <1>8. \/ Open("stdout") \/ Close("stdout") \/ Open("stderr") \/ Close("stderr")
        \/ Return(Result("answered", text, ReturnCode))
        \/ /\ buf' = IF sect = "none" THEN buf ELSE buf \o FirstLine
           /\ UNCHANGED <<sect, text, phase, after, last>>
    BY Zenon DEF ReadLine
  <1> QED BY <1>3, <1>4, <1>5, <1>6, <1>7, <1>8

\* The other steps of execute.
LEMMA ServerTyped ==
  ASSUME Typed,
         BeginCall \/ Sent \/ SendFails \/ ReadOverlong \/ ReadEof \/ TimeOut \/ Drained
           \/ Stopped
  PROVE  Typed'
  <1>0. /\ TypeOK /\ wire \in Seq(Token) /\ text \in [Streams -> Seq(Token)]
        /\ after \in Outcome /\ last \in Outcome /\ calls \in 0..MaxCalls
        /\ stdin \in Seq(Call) /\ Empty \in [Streams -> Seq(Token)]
        /\ Empty \in [Streams -> Seq(Unmarked)] /\ EndText \in [Streams -> Seq(Unmarked)]
        /\ NoCode \in -1..MaxCalls /\ 0 \in 0..MaxCalls /\ MaxCalls \in Nat
    <2>1. NoCode \in -1..MaxCalls /\ 0 \in 0..MaxCalls /\ MaxCalls \in Nat
      BY ProtocolBounds DEF NoCode
    <2>2. text \in [Streams -> Seq(Token)]
      BY DEF Typed, TypeOK
    <2> QED BY <2>1, <2>2, EmptyText, EndTextPlain, PlainText DEF Typed, TypeOK
  <1>1. CASE BeginCall
    <2>1. calls' \in Call /\ calls' \in 0..MaxCalls /\ last' \in Outcome
      BY <1>0, <1>1, PendingTyped DEF BeginCall, Call
    <2>2. said' \in [stdout : Seq(Token), stderr : Seq(Token), by : 0..MaxCalls]
      BY <1>0, <1>1, SilenceTyped DEF BeginCall, Typed, TypeOK
    <2>3. stdin' \in Seq(Call)
      <3>1. Append(stdin, calls') \in Seq(Call)
        BY <1>0, <2>1, AppendProperties
      <3>2. <<calls'>> \in Seq(Call)
        BY <2>1
      <3> QED BY <1>1, <3>1, <3>2 DEF BeginCall
    <2>4. wire' \in Seq(Token) /\ chunks' \in Seq(Seq(Token))
      BY <1>1, EmptySeq DEF BeginCall, Typed, TypeOK
    <2> QED BY <1>1, <2>1, <2>2, <2>3, <2>4 DEF BeginCall, Typed, TypeOK, reader
  <1>2. CASE Sent
    BY <1>2 DEF Sent, Typed, TypeOK, reader, runner, user
  <1>3. ASSUME NEW o \in Outcome, Stop(o)
        PROVE  /\ phase' = "stop" /\ after' \in Outcome /\ at' = "dead"
               /\ chunks' \in Seq(Seq(Token)) /\ flood' = (flood /\ helper)
               /\ UNCHANGED <<stdin, said, wire, helper>> /\ UNCHANGED <<sect, buf, text, last>>
    BY <1>3, EmptySeq DEF Stop, RunnerEnds, reader
  <1>4. CASE SendFails
    <2>1. Result("pipe_closed", Empty, NoCode) \in Outcome
      BY <1>0, ResultOf DEF KindsOfOutcome
    <2> QED BY <1>3, <1>4, <2>1 DEF SendFails, Typed, TypeOK
  <1>5. CASE ReadOverlong
    <2>1. Result("error", Empty, NoCode) \in Outcome
      BY <1>0, ResultOf DEF KindsOfOutcome
    <2>2. wire' \in Seq(Token)
      <3>1. AfterLine \in Seq(Token) /\ Len(FirstLine) <= Len(wire) /\ Len(wire) \in Nat
            /\ DOMAIN FirstLine = 1..Len(FirstLine) /\ Len(FirstLine) \in Nat
        BY <1>0, FirstLineOfWire, LenProperties
      <3>2. ASSUME NEW i \in DOMAIN FirstLine, NEW n \in {i, i + 1}
            PROVE  SubSeq(wire, n, Len(wire)) \in Seq(Token)
        <4>1. n \in Nat \ {0}
          BY <3>1
        <4> QED BY <1>0, <3>1, <4>1, Cut
      <3> QED BY <1>5, <3>1, <3>2 DEF ReadOverlong
    <2> QED BY <1>0, <1>5, <2>1, <2>2, ReturnTyped DEF ReadOverlong, Typed, TypeOK, runner, user
  <1>6. ASSUME Forget
        PROVE  /\ at' = "none" /\ stdin' \in Seq(Call) /\ wire' \in Seq(Token)
               /\ chunks' \in Seq(Seq(Token)) /\ helper' = FALSE /\ flood' = FALSE
               /\ said' = said
    BY <1>6, EmptySeq DEF Forget
  <1>7. CASE ReadEof
    <2>1. Result("exited", EndText, NoCode) \in Outcome
      BY <1>0, ResultOf DEF KindsOfOutcome
    <2>2. Return(Result("exited", EndText, NoCode)) /\ Forget
          /\ UNCHANGED <<calls, big, writes, raw, tear>>
      BY <1>7 DEF ReadEof, EndText
    <2> QED BY <1>0, <1>6, <2>1, <2>2, ReturnTyped DEF Typed, TypeOK
  <1>8. CASE TimeOut
    <2>1. Result("timed_out", Empty, NoCode) \in Outcome
      BY <1>0, ResultOf DEF KindsOfOutcome
    <2>2. CASE Return(Result("timed_out", Empty, NoCode)) /\ Forget
      BY <1>0, <1>6, <1>8, <2>1, <2>2, ReturnTyped DEF TimeOut, Typed, TypeOK
    <2>3. CASE /\ phase' = "drain" /\ sect' = "none" /\ buf' = <<>> /\ text' = Empty
               /\ UNCHANGED <<runner, wire, helper, flood, after, last>>
      BY <1>0, <1>8, <2>3, EmptySeq DEF TimeOut, Typed, TypeOK, runner
    <2> QED BY <1>8, <2>2, <2>3 DEF TimeOut
  <1>9. CASE Drained
    <2> DEFINE full == [Empty EXCEPT !.stdout = wire]
    <2>1. full \in [Streams -> Seq(Unmarked)]
      BY <1>0, PlainText
    <2> HIDE DEF full
    <2>2. Result("timed_out", full, NoCode) \in Outcome
      BY <1>0, <2>1, ResultOf DEF KindsOfOutcome
    <2>3. Stop(Result("timed_out", full, NoCode)) /\ UNCHANGED <<calls, big, writes, raw, tear>>
      BY <1>9 DEF Drained, full
    <2> QED BY <1>3, <2>2, <2>3 DEF Typed, TypeOK
  <1>10. CASE Stopped
    BY <1>0, <1>6, <1>10, ReturnTyped DEF Stopped, Typed, TypeOK
  <1> QED BY <1>1, <1>2, <1>4, <1>5, <1>7, <1>8, <1>9, <1>10

\* What a write may write is text.
LEMMA TextsAreKinds ==
  ASSUME NEW ks \in Texts
  PROVE  ks \in Seq(Kinds)
  BY ProtocolBounds

\* The steps of the child and of user code.
LEMMA ProgramTyped ==
  ASSUME Typed, Runner \/ User
  PROVE  Typed'
  <1>0. /\ TypeOK /\ wire \in Seq(Token) /\ stdin \in Seq(Call) /\ chunks \in Seq(Seq(Token))
        /\ said \in [stdout : Seq(Token), stderr : Seq(Token), by : 0..MaxCalls]
        /\ Background \in 0..MaxCalls /\ Call \subseteq 0..MaxCalls
    <2>1. Background \in 0..MaxCalls /\ Call \subseteq 0..MaxCalls
      BY ProtocolBounds DEF Background, Call
    <2> QED BY <2>1 DEF Typed, TypeOK
  <1>1. CASE ReadCode
    <2>1. Head(stdin) \in 0..MaxCalls /\ Tail(stdin) \in Seq(Call)
      BY <1>0, <1>1, HeadTailProperties DEF ReadCode
    <2>2. said' \in [stdout : Seq(Token), stderr : Seq(Token), by : 0..MaxCalls]
      BY <1>1, <2>1, SilenceTyped DEF ReadCode
    <2> QED BY <1>1, <2>1, <2>2 DEF ReadCode, Typed, TypeOK, server, reader, user
  <1>2. CASE Finish
    <2>1. {t \in Token : t.by = said.by} \subseteq Token
      OBVIOUS
    <2>2. Frames \in Seq(Seq(Token)) /\ Frames # <<>>
      BY <1>0, <2>1, FramesAreMine
    <2> QED BY <1>2, <2>2 DEF Finish, Typed, TypeOK, server, reader, user
  <1>3. CASE WriteChunk
    <2>1. chunks # <<>>
      BY <1>3 DEF WriteChunk, Typed
    <2>2. Head(chunks) \in Seq(Token) /\ Tail(chunks) \in Seq(Seq(Token))
      BY <1>0, <2>1, HeadTailProperties
    <2>3. wire' \in Seq(Token)
      BY <1>0, <1>3, <2>2, ConcatProperties DEF WriteChunk
    <2> QED BY <1>3, <2>2, <2>3 DEF WriteChunk, Typed, TypeOK, server, reader, user
  <1>4. CASE Die
    BY <1>4, EmptySeq DEF Die, RunnerEnds, Typed, TypeOK, server, reader
  <1>5. ASSUME NEW ks \in Seq(Kinds), Writes(ks)
        PROVE  writes' \in 0..MaxWrites /\ tear' \in BOOLEAN
    BY <1>0, <1>5, ProtocolBounds DEF Writes, TypeOK
  <1>6. ASSUME NEW ks \in Texts, RawWrite(ks)
        PROVE  Typed'
    <2>1. ks \in Seq(Kinds) /\ TRUE \in BOOLEAN
      BY TextsAreKinds
    <2>2. Tokens(ks, said.by, TRUE) \in Seq(Token)
      BY <1>0, <2>1, TokensOf
    <2>3. wire' \in Seq(Token)
      BY <1>0, <1>6, <2>2, ConcatProperties DEF RawWrite
    <2> QED BY <1>5, <1>6, <2>1, <2>3 DEF RawWrite, Typed, TypeOK, server, reader, runner
  <1>7. ASSUME NEW ks \in Texts, HelperWrites(ks)
        PROVE  Typed'
    <2>1. ks \in Seq(Kinds) /\ TRUE \in BOOLEAN
      BY TextsAreKinds
    <2>2. Tokens(ks, Background, TRUE) \in Seq(Token)
      BY <1>0, <2>1, TokensOf
    <2>3. wire' \in Seq(Token)
      BY <1>0, <1>7, <2>2, ConcatProperties DEF HelperWrites
    <2> QED BY <1>5, <1>7, <2>1, <2>3 DEF HelperWrites, Typed, TypeOK, server, reader, runner
  <1>8. ASSUME NEW ks \in Texts, NEW s \in Streams, PrintText(s, ks)
        PROVE  Typed'
    <2>1. ks \in Seq(Kinds) /\ FALSE \in BOOLEAN
      BY TextsAreKinds
    <2>2. Tokens(ks, said.by, FALSE) \in Seq(Token)
      BY <1>0, <2>1, TokensOf
    <2>3. said[s] \in Seq(Token)
      BY <1>0 DEF Streams
    <2>4. said[s] \o Tokens(ks, said.by, FALSE) \in Seq(Token)
      BY <2>2, <2>3, ConcatProperties
    <2>5. said' \in [stdout : Seq(Token), stderr : Seq(Token), by : 0..MaxCalls]
      BY <1>0, <1>8, <2>4 DEF PrintText, Streams
    <2> QED BY <1>5, <1>8, <2>1, <2>5 DEF PrintText, Typed, TypeOK, server, reader
  <1>9. CASE StartHelper
    <2>1. <<>> \in Seq(Kinds)
      BY EmptySeq
    <2> QED BY <1>5, <1>9, <2>1 DEF StartHelper, Typed, TypeOK, server, reader, runner
  <1>10. CASE HelperEnds \/ Flood
    BY <1>10 DEF HelperEnds, Flood, Typed, TypeOK, server, reader, runner
  <1> QED BY <1>1, <1>2, <1>3, <1>4, <1>6, <1>7, <1>8, <1>9, <1>10 DEF Runner, User

\* Every step keeps the types.
LEMMA StepTyped == Typed /\ [Next]_vars => Typed'
  <1> SUFFICES ASSUME Typed, [Next]_vars PROVE Typed'
    OBVIOUS
  <1>1. CASE UNCHANGED vars
    BY <1>1 DEF vars, reader, runner, user, Typed, TypeOK
  <1> QED BY <1>1, ReadLineTyped, ServerTyped, ProgramTyped DEF Next, Server

\* Every variable keeps to its type: an outcome is an outcome, whatever user code
\* puts on the pipe.
THEOREM TypeCorrect == Spec => []TypeOK
  <1>1. Init => Typed
    BY InitTyped
  <1>2. Typed /\ [Next]_vars => Typed'
    BY StepTyped
  <1>3. Typed => TypeOK
    BY DEF Typed
  <1> QED BY <1>1, <1>2, <1>3, PTL DEF Spec

-----------------------------------------------------------------------------
(* The outcomes.                                                            *)

\* An outcome made now; one that timed out brings back what is on the wire.
Made(o) ==
  \E kind \in KindsOfOutcome, full \in [Streams -> Seq(Unmarked)], code \in -1..MaxCalls :
    /\ o = Result(kind, full, code)
    /\ kind = "timed_out" => full["stdout"] = <<>> \/ full["stdout"] = wire

\* Where the outcomes come from.
LEMMA OutcomeSteps ==
  ASSUME Typed, [Next]_vars
  PROVE  /\ last' = last \/ last' = Pending \/ last' = after \/ Made(last')
         /\ after' = after \/ after' = Pending \/ Made(after')
  <1>0. /\ TypeOK /\ wire \in Seq(Token) /\ text \in [Streams -> Seq(Token)]
        /\ text \in [Streams -> Seq(Unmarked)] /\ EndText \in [Streams -> Seq(Unmarked)]
        /\ Empty \in [Streams -> Seq(Unmarked)] /\ Empty["stdout"] = <<>>
        /\ NoCode \in -1..MaxCalls
    <2>1. NoCode \in -1..MaxCalls
      BY ProtocolBounds DEF NoCode
    <2>2. text \in [Streams -> Seq(Token)]
      BY DEF Typed, TypeOK
    <2> QED BY <2>1, <2>2, EmptyText, EndTextPlain, PlainText DEF Typed, TypeOK
  <1>1. ASSUME NEW kind \in KindsOfOutcome, NEW full \in [Streams -> Seq(Unmarked)],
               NEW code \in -1..MaxCalls,
               kind = "timed_out" => full["stdout"] = <<>> \/ full["stdout"] = wire
        PROVE  Made(Result(kind, full, code))
    BY <1>1 DEF Made
  <1>2. ASSUME NEW o, Made(o), Return(o) \/ Stop(o)
        PROVE  /\ last' = last \/ Made(last')
               /\ after' = after \/ after' = Pending \/ Made(after')
    BY <1>2 DEF Return, Stop, FreshLocals, reader
  <1>3. CASE SendFails
    <2>1. Made(Result("pipe_closed", Empty, NoCode))
      BY <1>0, <1>1 DEF KindsOfOutcome
    <2> QED BY <1>2, <1>3, <2>1 DEF SendFails
  <1>4. CASE ReadOverlong
    <2>1. Made(Result("error", Empty, NoCode))
      BY <1>0, <1>1 DEF KindsOfOutcome
    <2> QED BY <1>2, <1>4, <2>1 DEF ReadOverlong
  <1>5. CASE ReadEof
    <2>1. Made(Result("exited", EndText, NoCode))
      BY <1>0, <1>1 DEF KindsOfOutcome
    <2>2. Return(Result("exited", EndText, NoCode))
      BY <1>5 DEF ReadEof, EndText
    <2> QED BY <1>2, <2>1, <2>2
  <1>6. CASE TimeOut
    <2>1. Made(Result("timed_out", Empty, NoCode))
      BY <1>0, <1>1 DEF KindsOfOutcome
    <2> QED BY <1>2, <1>6, <2>1 DEF TimeOut
  <1>7. CASE Drained
    <2> DEFINE full == [Empty EXCEPT !.stdout = wire]
    <2>0. wire \in Seq(Unmarked)
      BY <1>0, PlainText
    <2>1. full \in [Streams -> Seq(Unmarked)] /\ full["stdout"] = wire
      BY <1>0, <2>0 DEF Streams
    <2>2. Stop(Result("timed_out", full, NoCode))
      BY <1>7 DEF Drained
    <2> HIDE DEF full
    <2>3. Made(Result("timed_out", full, NoCode))
      BY <1>0, <1>1, <2>1 DEF KindsOfOutcome
    <2> QED BY <1>2, <2>2, <2>3
  <1>8. CASE ReadLine
    <2>1. ReturnCode \in -1..MaxCalls
      <3>1. Stripped \in Seq(Token)
        BY <1>0, StrippedLine
      <3>2. CASE Len(Stripped) = 2
        <4>1. 2 \in 1..Len(Stripped)
          BY <3>2
        <4>2. Stripped[2] \in Token
          BY <3>1, <4>1, ElementOfSeq, Zenon
        <4> QED BY <4>2, ProtocolBounds DEF ReturnCode, NoCode, Token
      <3>3. CASE Len(Stripped) # 2
        BY <1>0, <3>3 DEF ReturnCode
      <3> QED BY <3>2, <3>3
    <2>2. Made(Result("answered", text, ReturnCode))
      BY <1>0, <1>1, <2>1 DEF KindsOfOutcome
    <2>3. UNCHANGED <<after, last>> \/ Return(Result("answered", text, ReturnCode))
      <3>1. \/ Open("stdout") \/ Close("stdout") \/ Open("stderr") \/ Close("stderr")
            \/ Return(Result("answered", text, ReturnCode)) \/ UNCHANGED <<after, last>>
        BY <1>8, Zenon DEF ReadLine
      <3> QED BY <3>1 DEF Open, Close
    <2> QED BY <1>2, <2>2, <2>3
  <1>9. CASE BeginCall \/ Sent \/ Stopped
    BY <1>9 DEF BeginCall, Sent, Stopped, Return, FreshLocals, reader
  <1>10. CASE Runner \/ User \/ UNCHANGED vars
    BY <1>10 DEF Runner, User, ReadCode, Finish, WriteChunk, Die, RawWrite, HelperWrites,
             PrintText, StartHelper, HelperEnds, Flood, server, vars
  <1> QED BY <1>3, <1>4, <1>5, <1>6, <1>7, <1>8, <1>9, <1>10 DEF Next, Server

\* Every stream of an outcome is one that truncation leaves.
Bounded(o) ==
  \A s \in Streams :
    IF Has(o.text[s], {"mark"}) THEN o.cut /\ EndsInMarker(o.text[s])
    ELSE Size(o.text[s]) <= MaxOutput

BoundedInv == Bounded(after) /\ Bounded(last)

\* A call in progress has no text.
LEMMA PendingBounded == Bounded(Pending)
  <1> SUFFICES ASSUME NEW s \in Streams
               PROVE  ~Has(Pending.text[s], {"mark"}) /\ Size(Pending.text[s]) <= MaxOutput
    BY DEF Bounded
  <1>1. /\ Pending.text[s] \in Seq(Shown) /\ Len(Pending.text[s]) = 0
        /\ DOMAIN Pending.text[s] = {}
    BY PendingTyped, EmptySeq DEF Empty
  <1> QED BY <1>1, SizeOfEmpty, ProtocolBounds DEF Has

\* Every step keeps outcomes within the limit.
LEMMA BoundedStep ==
  ASSUME Typed, BoundedInv, [Next]_vars
  PROVE  BoundedInv'
  <1>1. ASSUME NEW o, Made(o)
        PROVE  Bounded(o)
    <2>1. PICK kind \in KindsOfOutcome, full \in [Streams -> Seq(Unmarked)],
               code \in -1..MaxCalls : o = Result(kind, full, code)
      BY <1>1 DEF Made
    <2>2. /\ \A s \in Streams : o.text[s] = Truncate(full[s]) /\ full[s] \in Seq(Unmarked)
          /\ o.cut = (\E s \in Streams : Size(full[s]) > MaxOutput)
      <3>1. \A s \in Streams : full[s] \in Seq(Unmarked)
        OBVIOUS
      <3>2. TypeOK
        BY DEF Typed
      <3>3. \A s \in Streams : o.text[s] = Truncate(full[s])
        BY <2>1, <3>2, ResultOf
      <3>4. o.cut = (\E s \in Streams : Size(full[s]) > MaxOutput)
        BY <2>1, CutOf
      <3> QED BY <3>1, <3>3, <3>4
    <2>3. ASSUME NEW s \in Streams
          PROVE  IF Has(o.text[s], {"mark"}) THEN o.cut /\ EndsInMarker(o.text[s])
                 ELSE Size(o.text[s]) <= MaxOutput
      <3>1. IF Size(full[s]) <= MaxOutput
              THEN o.text[s] = full[s] /\ ~Has(o.text[s], {"mark"})
              ELSE Size(full[s]) > MaxOutput /\ EndsInMarker(o.text[s])
        BY <2>2, Truncated
      <3>2. CASE Size(full[s]) <= MaxOutput
        BY <3>1, <3>2
      <3>3. CASE ~(Size(full[s]) <= MaxOutput)
        <4>1. EndsInMarker(o.text[s]) /\ o.cut
          BY <2>2, <3>1, <3>3
        <4>2. Has(o.text[s], {"mark"})
          BY <4>1 DEF EndsInMarker
        <4> QED BY <4>1, <4>2
      <3> QED BY <3>2, <3>3
    <2> QED BY <2>3 DEF Bounded
  <1> QED BY <1>1, PendingBounded, OutcomeSteps DEF BoundedInv

\* A stream of an outcome holds no more than max_output_bytes, or it was cut, says so
\* at its end and only there, and holds at most two bytes more ahead of the marker,
\* for any text and any limit: the two bytes are what U+FFFD is longer than the part
\* of a character that it stands for (limits.py:224-233).
THEOREM OutputIsBounded == Spec => []OutputBounded
  <1>1. Init => Typed /\ BoundedInv
    BY InitTyped, PendingBounded DEF BoundedInv, Init
  <1>2. Typed /\ BoundedInv /\ [Next]_vars => (Typed /\ BoundedInv)'
    BY StepTyped, BoundedStep
  <1>3. BoundedInv => OutputBounded
    BY DEF BoundedInv, Bounded, EndsInMarker, OutputBounded
  <1> QED BY <1>1, <1>2, <1>3, PTL DEF Spec

-----------------------------------------------------------------------------
(* Who wrote what is on the wire.                                           *)

\* A write to the pipe itself, or of an earlier block, or of the block that has
\* ended last.
Carried == {t \in Token : t.raw \/ t.by < said.by \/ (t.by = said.by /\ at # "run")}

\* The blocks on stdin come after the one that ran last, in the order of the calls.
QueueInv ==
  /\ said.by <= calls /\ (at = "run" => said.by > 0)
  /\ \A i \in 1..Len(stdin) : said.by < stdin[i] /\ stdin[i] <= calls
  /\ \A i, j \in 1..Len(stdin) : i < j => stdin[i] < stdin[j]

\* What the runner has in hand is of that block.
HandInv ==
  /\ said.stdout \in Seq(Mine) /\ said.stderr \in Seq(Mine) /\ chunks \in Seq(Seq(Mine))
  /\ at # "frame" => chunks = <<>>

OrderInv == QueueInv /\ HandInv /\ wire \in Seq(Carried)

\* Before the first call.
LEMMA OrderInit == Init => OrderInv
  <1> SUFFICES ASSUME Init PROVE OrderInv
    OBVIOUS
  <1>1. 0 \in 0..MaxCalls
    BY ProtocolBounds
  <1>2. said.by = 0 /\ said.stdout = <<>> /\ said.stderr = <<>>
    BY <1>1, SilenceTyped DEF Init
  <1>3. stdin = <<>> /\ calls = 0 /\ chunks = <<>> /\ wire = <<>> /\ at = "none"
    BY DEF Init
  <1>4. QueueInv
    <2>1. Len(stdin) = 0
      BY <1>3
    <2> QED BY <1>2, <1>3, <2>1 DEF QueueInv
  <1>5. <<>> \in Seq(Mine) /\ <<>> \in Seq(Seq(Mine)) /\ <<>> \in Seq(Carried)
    BY EmptySeq, Zenon
  <1>6. HandInv
    BY <1>2, <1>3, <1>5 DEF HandInv
  <1> QED BY <1>3, <1>4, <1>5, <1>6 DEF OrderInv

\* What the server and the user's writes leave of the order.
LEMMA QueueStep ==
  ASSUME Typed, QueueInv, [Next]_vars
  PROVE  QueueInv'
  <1>0. /\ stdin \in Seq(Call) /\ calls \in Nat /\ Len(stdin) \in Nat
        /\ said.by \in 0..MaxCalls /\ MaxCalls \in Nat
        /\ \A i \in 1..Len(stdin) : stdin[i] \in Nat
    <2>1. stdin \in Seq(Call) /\ calls \in 0..MaxCalls /\ said.by \in 0..MaxCalls
          /\ MaxCalls \in Nat
      BY ProtocolBounds DEF Typed, TypeOK
    <2>2. \A i \in 1..Len(stdin) : stdin[i] \in Call
      BY <2>1, ElementOfSeq
    <2> QED BY <2>1, <2>2, LenProperties DEF Call
  <1>1. CASE BeginCall /\ said' = Silence(0) /\ stdin' = <<calls'>> /\ at' = "loop"
    <2>1. said'.by = 0
      BY <1>0, <1>1, SilenceTyped
    <2>2. calls' \in Nat /\ calls' > 0
      BY <1>0, <1>1 DEF BeginCall
    <2>3. Len(stdin') = 1 /\ stdin'[1] = calls' /\ at' # "run"
      BY <1>1 DEF BeginCall
    <2> QED BY <2>1, <2>2, <2>3 DEF QueueInv
  <1>2. CASE BeginCall /\ said' = said /\ stdin' = Append(stdin, calls')
    <2>1. calls' = calls + 1
      BY <1>2 DEF BeginCall
    <2>2. PICK n : n = calls'
      OBVIOUS
    <2>3. n \in Call
      <3>1. n \in 0..MaxCalls /\ n > 0
        BY <1>0, <1>2, <2>1, <2>2, StepTyped DEF Typed, TypeOK
      <3> QED BY <1>0, <3>1 DEF Call
    <2>4. /\ Len(Append(stdin, n)) = Len(stdin) + 1
          /\ \A i \in 1..Len(stdin) : Append(stdin, n)[i] = stdin[i]
          /\ Append(stdin, n)[Len(stdin) + 1] = n
      BY <1>0, <2>3, Append1
    <2>5. stdin' = Append(stdin, n)
      BY <1>2, <2>2
    <2>6. \A i \in 1..Len(stdin') : i \in 1..Len(stdin) \/ i = Len(stdin) + 1
      BY <1>0, <2>4, <2>5
    <2>7. \A i \in 1..Len(stdin) : said.by < stdin[i] /\ stdin[i] <= calls
      BY DEF QueueInv
    <2>8. \A i \in 1..Len(stdin') : said.by < stdin'[i] /\ stdin'[i] <= calls'
      BY <1>0, <2>1, <2>2, <2>4, <2>5, <2>6, <2>7 DEF QueueInv
    <2>9. ASSUME NEW i \in 1..Len(stdin'), NEW j \in 1..Len(stdin'), i < j
          PROVE  stdin'[i] < stdin'[j]
      <3>1. CASE j = Len(stdin) + 1
        <4>1. i \in 1..Len(stdin) /\ stdin'[j] = n /\ stdin'[i] = stdin[i]
          BY <1>0, <2>4, <2>5, <2>6, <2>9, <3>1
        <4> QED BY <1>0, <2>1, <2>2, <2>7, <4>1
      <3>2. CASE j \in 1..Len(stdin)
        <4>1. i \in 1..Len(stdin) /\ stdin'[j] = stdin[j] /\ stdin'[i] = stdin[i]
          BY <1>0, <2>4, <2>5, <2>6, <2>9, <3>2
        <4> QED BY <2>9, <3>2, <4>1 DEF QueueInv
      <3> QED BY <2>6, <3>1, <3>2
    <2>10. said'.by <= calls' /\ (at' = "run" => said'.by > 0)
      BY <1>0, <1>2, <2>1 DEF QueueInv, BeginCall
    <2> QED BY <1>2, <2>8, <2>9, <2>10 DEF QueueInv
  <1>3. CASE ReadCode
    <2>1. stdin # <<>> /\ said' = Silence(Head(stdin)) /\ stdin' = Tail(stdin)
          /\ calls' = calls
      BY <1>3 DEF ReadCode, server
    <2>2. Len(stdin) > 0
      BY <1>0, <2>1, EmptySeq
    <2>3. Head(stdin) = stdin[1] /\ stdin[1] \in 0..MaxCalls
      <3>1. stdin[1] \in Call
        BY <1>0, <2>2, ElementOfSeq
      <3> QED BY <2>1, <3>1 DEF Call
    <2>4. said'.by = stdin[1]
      BY <2>1, <2>3, SilenceTyped
    <2>5. Len(stdin') = Len(stdin) - 1 /\ \A i \in 1..Len(stdin) - 1 : stdin'[i] = stdin[i + 1]
      BY <1>0, <2>1, HeadTailProperties
    <2>6. \A i \in 1..Len(stdin) : stdin[i] <= calls
      BY DEF QueueInv
    <2>7. \A i \in 2..Len(stdin) : stdin[1] < stdin[i]
      BY <1>0, <2>2 DEF QueueInv
    <2>8. \A i \in 1..Len(stdin) - 1 : i + 1 \in 2..Len(stdin) /\ i + 1 \in 1..Len(stdin)
      BY <1>0
    <2>9. \A i \in 1..Len(stdin') : said'.by < stdin'[i] /\ stdin'[i] <= calls'
      BY <2>1, <2>4, <2>5, <2>6, <2>7, <2>8
    <2>10. ASSUME NEW i \in 1..Len(stdin'), NEW j \in 1..Len(stdin'), i < j
           PROVE  stdin'[i] < stdin'[j]
      <3>1. stdin[i + 1] < stdin[j + 1]
        BY <1>0, <2>5, <2>8, <2>10 DEF QueueInv
      <3> QED BY <2>5, <3>1
    <2>11. said'.by <= calls' /\ said'.by > 0
      <3>1. said.by < stdin[1]
        BY <1>0, <2>2 DEF QueueInv
      <3> QED BY <1>0, <2>1, <2>2, <2>3, <2>4, <2>6, <3>1
    <2> QED BY <2>9, <2>10, <2>11 DEF QueueInv
  <1>4. ASSUME calls' = calls, said'.by = said.by, stdin' = stdin \/ stdin' = <<>>,
               at' = "run" => at = "run"
        PROVE  QueueInv'
    <2>1. CASE stdin' = stdin
      BY <1>4, <2>1 DEF QueueInv
    <2>2. CASE stdin' = <<>>
      <3>1. Len(stdin') = 0
        BY <2>2
      <3> QED BY <1>4, <3>1 DEF QueueInv
    <2> QED BY <1>4, <2>1, <2>2
  <1>5. CASE Sent \/ SendFails \/ ReadLine \/ ReadOverlong \/ ReadEof \/ TimeOut \/ Drained
             \/ Stopped \/ Finish \/ WriteChunk \/ Die \/ StartHelper \/ HelperEnds \/ Flood
             \/ UNCHANGED vars
    <2>1. calls' = calls /\ said' = said /\ (stdin' = stdin \/ stdin' = <<>>)
          /\ (at' = "run" => at = "run")
      BY <1>5 DEF Sent, SendFails, ReadLine, ReadOverlong, ReadEof, TimeOut, Drained, Stopped,
            Finish, WriteChunk, Die, StartHelper, HelperEnds, Flood, vars, server, runner,
            Stop, RunnerEnds, Forget
    <2> QED BY <1>4, <2>1
  <1>6. ASSUME NEW ks, RawWrite(ks) \/ HelperWrites(ks) \/ (\E s \in Streams : PrintText(s, ks))
        PROVE  QueueInv'
    <2>1. calls' = calls /\ stdin' = stdin /\ at' = at
      BY <1>6 DEF RawWrite, HelperWrites, PrintText, server, runner
    <2>2. said'.by = said.by
      <3>1. said \in [stdout : Seq(Token), stderr : Seq(Token), by : 0..MaxCalls]
        BY DEF Typed, TypeOK
      <3>2. said' = said \/ \E s \in Streams : \E x : said' = [said EXCEPT ![s] = x]
        BY <1>6 DEF RawWrite, HelperWrites, PrintText, runner
      <3> QED BY <3>1, <3>2 DEF Streams
    <2> QED BY <1>4, <2>1, <2>2
  <1>7. CASE BeginCall
    BY <1>1, <1>2, <1>7 DEF BeginCall
  <1> QED BY <1>3, <1>5, <1>6, <1>7 DEF Next, Server, Runner, User

\* What the runner has in hand changes with its block only.
LEMMA HandStep ==
  ASSUME Typed, HandInv, [Next]_vars
  PROVE  HandInv'
  <1>0. /\ said \in [stdout : Seq(Token), stderr : Seq(Token), by : 0..MaxCalls]
        /\ stdin \in Seq(Call) /\ 0 \in 0..MaxCalls /\ Call \subseteq 0..MaxCalls
    <2>1. 0 \in 0..MaxCalls /\ Call \subseteq 0..MaxCalls
      BY ProtocolBounds DEF Call
    <2> QED BY <2>1 DEF Typed, TypeOK
  <1>1. <<>> \in Seq(Mine') /\ <<>> \in Seq(Seq(Mine'))
    BY EmptySeq, Zenon
  <1>2. ASSUME NEW b \in 0..MaxCalls, said' = Silence(b), chunks' = <<>>
        PROVE  HandInv'
    <2>1. said'.stdout = <<>> /\ said'.stderr = <<>>
      BY <1>2, SilenceTyped
    <2> QED BY <1>1, <1>2, <2>1 DEF HandInv
  <1>3. ASSUME said' = said, chunks' = <<>>
        PROVE  HandInv'
    <2>1. Mine' = Mine
      BY <1>3 DEF Mine
    <2> QED BY <1>1, <1>3, <2>1 DEF HandInv
  <1>4. ASSUME said' = said, chunks' = chunks, at' = at
        PROVE  HandInv'
    BY <1>4 DEF HandInv, Mine
  <1>5. CASE BeginCall
    BY <1>0, <1>2, <1>4, <1>5 DEF BeginCall
  <1>6. CASE ReadCode
    <2>1. stdin # <<>> /\ said' = Silence(Head(stdin)) /\ chunks' = chunks /\ chunks = <<>>
      BY <1>6 DEF ReadCode, HandInv
    <2>2. Head(stdin) \in 0..MaxCalls
      BY <1>0, <2>1, HeadTailProperties
    <2> QED BY <1>2, <2>1, <2>2
  <1>7. CASE Finish
    <2>1. said' = said /\ chunks' = Frames /\ at' = "frame"
      BY <1>7 DEF Finish
    <2>2. Mine' = Mine
      BY <2>1 DEF Mine
    <2>3. {t \in Token : t.by = said.by} \subseteq Mine
      BY DEF Mine
    <2>4. Frames \in Seq(Seq(Mine))
      BY <1>0, <2>3, FramesAreMine DEF HandInv
    <2> QED BY <2>1, <2>2, <2>4 DEF HandInv
  <1>8. CASE WriteChunk
    <2>1. /\ said' = said /\ chunks' = Tail(chunks) /\ chunks # <<>>
          /\ chunks' # <<>> => at' = "frame"
          /\ chunks' = <<>> => at' = "loop"
      BY <1>8 DEF WriteChunk, Typed
    <2>2. Mine' = Mine
      BY <2>1 DEF Mine
    <2> DEFINE SM == Seq(Mine)
    <2>3. chunks \in Seq(SM)
      BY DEF HandInv
    <2> HIDE DEF SM
    <2>4. chunks' \in Seq(SM)
      BY <2>1, <2>3, HeadTailProperties
    <2>5. chunks' \in Seq(Seq(Mine'))
      BY <2>2, <2>4 DEF SM
    <2> QED BY <2>1, <2>2, <2>5 DEF HandInv
  <1>9. ASSUME NEW ks \in Texts, NEW s \in Streams, PrintText(s, ks)
        PROVE  HandInv'
    <2>1. PICK new : new = Tokens(ks, said.by, FALSE)
      OBVIOUS
    <2>2. new \in Seq(Token) /\ \A i \in 1..Len(new) : new[i].by = said.by
      <3>1. PICK past \in BOOLEAN, b \in 0..MaxCalls : past = FALSE /\ b = said.by
        BY <1>0
      <3>2. /\ Tokens(ks, b, past) \in Seq(Token) /\ Len(Tokens(ks, b, past)) = Len(ks)
            /\ \A i \in 1..Len(ks) : Tokens(ks, b, past)[i].by = b
        BY TextsAreKinds, TokensOf
      <3> QED BY <2>1, <3>1, <3>2
    <2>3. \A i \in 1..Len(new) : new[i] \in Mine
      BY <2>2, ElementOfSeq DEF Mine
    <2>4. new \in Seq(Mine)
      BY <2>2, <2>3, Within, Zenon
    <2>5. said[s] \in Seq(Mine)
      BY DEF HandInv, Streams
    <2>6. PICK both : both = said[s] \o new
      OBVIOUS
    <2>7. both \in Seq(Mine)
      BY <2>4, <2>5, <2>6, Joined
    <2>8. said' = [said EXCEPT ![s] = both] /\ chunks' = chunks /\ at' = at
      BY <1>9, <2>1, <2>6 DEF PrintText
    <2>9. said'.by = said.by
      BY <1>0, <2>8 DEF Streams
    <2>10. Mine' = Mine
      BY <2>9 DEF Mine
    <2>11. said'.stdout \in Seq(Mine) /\ said'.stderr \in Seq(Mine)
      BY <1>0, <2>7, <2>8 DEF HandInv, Streams
    <2> QED BY <2>8, <2>10, <2>11 DEF HandInv
  <1>10. CASE \/ SendFails \/ ReadEof \/ Stopped \/ Drained \/ Die
              \/ (TimeOut /\ Forget)
    <2>1. said' = said /\ chunks' = <<>>
      BY <1>10 DEF SendFails, ReadEof, Stopped, Drained, Die, Forget, Stop, RunnerEnds
    <2> QED BY <1>3, <2>1
  <1>11. CASE \/ Sent \/ ReadLine \/ ReadOverlong \/ (TimeOut /\ UNCHANGED runner)
              \/ StartHelper \/ HelperEnds \/ Flood \/ UNCHANGED vars
    <2>1. said' = said /\ chunks' = chunks /\ at' = at
      BY <1>11 DEF Sent, ReadLine, ReadOverlong, StartHelper, HelperEnds, Flood, vars, runner
    <2> QED BY <1>4, <2>1
  <1>12. ASSUME NEW ks, RawWrite(ks) \/ HelperWrites(ks)
         PROVE  HandInv'
    <2>1. said' = said /\ chunks' = chunks /\ at' = at
      BY <1>12 DEF RawWrite, HelperWrites, runner
    <2> QED BY <1>4, <2>1
  <1>13. TimeOut => (TimeOut /\ UNCHANGED runner) \/ (TimeOut /\ Forget)
    BY DEF TimeOut
  <1> QED BY <1>5, <1>6, <1>7, <1>8, <1>9, <1>10, <1>11, <1>12, <1>13, Zenon
        DEF Next, Server, Runner, User

\* A step leaves on the wire what was there, adds to it or takes from it.
LEMMA WireStep ==
  ASSUME Typed, OrderInv, [Next]_vars
  PROVE  wire' \in Seq(Carried')
  <1>0. /\ said \in [stdout : Seq(Token), stderr : Seq(Token), by : 0..MaxCalls]
        /\ stdin \in Seq(Call) /\ Background \in 0..MaxCalls /\ 0..MaxCalls \subseteq Int
        /\ Call \subseteq 0..MaxCalls /\ wire \in Seq(Carried) /\ HandInv /\ QueueInv
        /\ \A t \in Token : t.by \in Int
    <2>1. Background \in 0..MaxCalls /\ Call \subseteq 0..MaxCalls /\ 0..MaxCalls \subseteq Int
      BY ProtocolBounds DEF Call, Background
    <2> QED BY <2>1 DEF Typed, TypeOK, OrderInv, Token
  <1>1. ASSUME wire' = <<>>
        PROVE  wire' \in Seq(Carried')
    BY <1>1, EmptySeq, Zenon
  <1>2. ASSUME NEW w \in Seq(Carried), Carried \subseteq Carried'
        PROVE  w \in Seq(Carried')
    <2>1. PICK C : C = Carried'
      OBVIOUS
    <2>2. \A i \in 1..Len(w) : w[i] \in C
      BY <1>2, <2>1, ElementOfSeq
    <2>3. w \in Seq(C)
      BY <2>2, Within
    <2> QED BY <2>1, <2>3
  <1>3. ASSUME said'.by = said.by, at # "run" => at' # "run"
        PROVE  Carried \subseteq Carried'
    BY <1>3 DEF Carried
  <1>4. ASSUME Carried \subseteq Carried', wire' = wire
        PROVE  wire' \in Seq(Carried')
    BY <1>0, <1>2, <1>4, Zenon
  <1>5. ASSUME Carried \subseteq Carried',
               NEW w, wire' = wire \o w, w \in Seq(Carried')
        PROVE  wire' \in Seq(Carried')
    <2>1. wire \in Seq(Carried')
      BY <1>0, <1>2, <1>5, Zenon
    <2>2. wire \o w \in Seq(Carried')
      BY <1>5, <2>1, Joined, Zenon
    <2> QED BY <1>5, <2>2
  <1>6. CASE BeginCall
    <2>1. wire' = <<>> \/ (wire' = wire /\ said' = said /\ at' = at)
      BY <1>6 DEF BeginCall
    <2> QED BY <1>1, <1>3, <1>4, <2>1
  <1>7. CASE ReadCode
    <2>1. stdin # <<>> /\ said' = Silence(Head(stdin)) /\ wire' = wire
      BY <1>7 DEF ReadCode
    <2>2. Head(stdin) \in 0..MaxCalls /\ Head(stdin) = stdin[1] /\ Len(stdin) > 0
          /\ Len(stdin) \in Nat
      <3>1. Len(stdin) > 0 /\ Len(stdin) \in Nat
        BY <1>0, <2>1, EmptySeq, LenProperties
      <3>2. stdin[1] \in Call
        BY <1>0, <3>1, ElementOfSeq
      <3>3. Head(stdin) = stdin[1]
        OBVIOUS
      <3>4. Call \subseteq 0..MaxCalls
        BY <1>0
      <3> QED BY <3>1, <3>2, <3>3, <3>4
    <2>3. said'.by = stdin[1]
      BY <2>1, <2>2, SilenceTyped
    <2>4. said.by < stdin[1]
      BY <1>0, <2>2 DEF QueueInv
    <2>5. Carried \subseteq Carried'
      BY <1>0, <2>2, <2>3, <2>4 DEF Carried
    <2> QED BY <1>4, <2>1, <2>5
  <1>8. CASE Finish
    <2>1. said' = said /\ wire' = wire /\ at' = "frame"
      BY <1>8 DEF Finish
    <2> QED BY <1>3, <1>4, <2>1
  <1>9. CASE WriteChunk
    <2>1. /\ said' = said /\ wire' = wire \o Head(chunks) /\ chunks # <<>>
          /\ at' \in {"loop", "frame"} /\ at = "frame"
      BY <1>9 DEF WriteChunk, Typed
    <2> DEFINE SM == Seq(Mine)
    <2>2. chunks \in Seq(SM)
      BY <1>0 DEF HandInv
    <2> HIDE DEF SM
    <2>3. Head(chunks) \in SM
      BY <2>1, <2>2, HeadTailProperties
    <2>4. PICK w : w = Head(chunks)
      OBVIOUS
    <2>5. w \in Seq(Mine) /\ Mine \subseteq Carried'
      BY <2>1, <2>3, <2>4 DEF SM, Mine, Carried
    <2>6. w \in Seq(Carried')
      <3>1. PICK C : C = Carried'
        OBVIOUS
      <3>2. \A i \in 1..Len(w) : w[i] \in C
        BY <2>5, <3>1, ElementOfSeq
      <3>3. w \in Seq(C)
        BY <2>5, <3>2, Within, Zenon
      <3> QED BY <3>1, <3>3
    <2> QED BY <1>3, <1>5, <2>1, <2>4, <2>6
  <1>10. ASSUME NEW ks \in Texts, RawWrite(ks) \/ HelperWrites(ks)
         PROVE  wire' \in Seq(Carried')
    <2>1. PICK by \in 0..MaxCalls : wire' = wire \o Tokens(ks, by, TRUE)
      BY <1>0, <1>10 DEF RawWrite, HelperWrites
    <2>2. said' = said /\ at' = at
      BY <1>10 DEF RawWrite, HelperWrites, runner
    <2>3. PICK w : w = Tokens(ks, by, TRUE)
      OBVIOUS
    <2>4. w \in Seq(Token) /\ \A i \in 1..Len(w) : w[i].raw = TRUE
      <3>1. PICK past \in BOOLEAN : past = TRUE
        OBVIOUS
      <3>2. /\ Tokens(ks, by, past) \in Seq(Token) /\ Len(Tokens(ks, by, past)) = Len(ks)
            /\ \A i \in 1..Len(ks) : Tokens(ks, by, past)[i].raw = past
        BY TextsAreKinds, TokensOf
      <3> QED BY <2>3, <3>1, <3>2
    <2>5. PICK C : C = Carried'
      OBVIOUS
    <2>6. \A i \in 1..Len(w) : w[i] \in C
      BY <2>4, <2>5, ElementOfSeq DEF Carried
    <2>7. w \in Seq(C)
      BY <2>4, <2>6, Within, Zenon
    <2> QED BY <1>3, <1>5, <2>1, <2>2, <2>3, <2>5, <2>7
  <1>11. ASSUME NEW ks, NEW s \in Streams, PrintText(s, ks)
         PROVE  wire' \in Seq(Carried')
    <2>1. wire' = wire /\ at' = at /\ \E x : said' = [said EXCEPT ![s] = x]
      BY <1>11 DEF PrintText
    <2>2. said'.by = said.by
      BY <1>0, <2>1 DEF Streams
    <2> QED BY <1>3, <1>4, <2>1, <2>2
  <1>12. CASE ReadEof \/ Stopped \/ (TimeOut /\ Forget)
    BY <1>1, <1>12 DEF ReadEof, Stopped, Forget
  <1>13. CASE SendFails \/ Drained \/ Die
    <2>1. said' = said /\ at' = "dead" /\ wire' = wire
      BY <1>13 DEF SendFails, Drained, Die, Stop, RunnerEnds
    <2> QED BY <1>3, <1>4, <2>1
  <1>14. CASE \/ Sent \/ (TimeOut /\ UNCHANGED <<runner, wire>>)
              \/ StartHelper \/ HelperEnds \/ Flood \/ UNCHANGED vars
    <2>1. said' = said /\ at' = at /\ wire' = wire
      BY <1>14 DEF Sent, StartHelper, HelperEnds, Flood, vars, runner
    <2> QED BY <1>3, <1>4, <2>1
  <1>15. CASE ReadLine \/ ReadOverlong
    <2>1. said' = said /\ at' = at
      BY <1>15 DEF ReadLine, ReadOverlong, runner
    <2>2. PICK C : C = Carried
      OBVIOUS
    <2>3. wire \in Seq(C)
      BY <1>0, <2>2
    <2>4. /\ AfterLine \in Seq(C) /\ Len(FirstLine) <= Len(wire) /\ Len(wire) \in Nat
          /\ DOMAIN FirstLine = 1..Len(FirstLine) /\ Len(FirstLine) \in Nat
      BY <2>3, FirstLineOfWire, LenProperties
    <2>5. ASSUME NEW i \in DOMAIN FirstLine, NEW n \in {i, i + 1}
          PROVE  SubSeq(wire, n, Len(wire)) \in Seq(C)
      <3>1. n \in Nat \ {0}
        BY <2>4
      <3> QED BY <2>3, <2>4, <3>1, Cut
    <2>6. wire' \in Seq(Carried)
      BY <1>15, <2>2, <2>4, <2>5 DEF ReadLine, ReadOverlong
    <2> QED BY <1>2, <1>3, <2>1, <2>6
  <1>16. TimeOut => (TimeOut /\ UNCHANGED <<runner, wire>>) \/ (TimeOut /\ Forget)
    BY DEF TimeOut
  <1> QED BY <1>6, <1>7, <1>8, <1>9, <1>10, <1>11, <1>12, <1>13, <1>14, <1>15, <1>16, Zenon
        DEF Next, Server, Runner, User

\* Every step keeps the order of the pipe.
LEMMA OrderStep == Typed /\ OrderInv /\ [Next]_vars => OrderInv'
  BY QueueStep, HandStep, WireStep DEF OrderInv

\* What a call brings back that timed out while its block ran.
PartialInv ==
  \A o \in {after, last} : o.kind = "timed_out" /\ o.saw = "run" =>
    \A i \in 1..Len(o.text["stdout"]) :
      o.text["stdout"][i].raw \/ o.text["stdout"][i].by < o.call

\* Every step keeps what is read at a timeout free of printed text.
LEMMA PartialStep ==
  ASSUME Typed, OrderInv, PartialInv, [Next]_vars
  PROVE  PartialInv'
  <1>1. ASSUME NEW o, Made(o), o.kind = "timed_out", o.saw = "run",
               NEW i \in 1..Len(o.text["stdout"])
        PROVE  o.text["stdout"][i].raw \/ o.text["stdout"][i].by < o.call
    <2>1. PICK kind \in KindsOfOutcome, full \in [Streams -> Seq(Unmarked)],
               code \in -1..MaxCalls :
                 /\ o = Result(kind, full, code)
                 /\ kind = "timed_out" => full["stdout"] = <<>> \/ full["stdout"] = wire
      BY <1>1 DEF Made
    <2>2. /\ kind = "timed_out" /\ at = "run" /\ o.call = calls
          /\ o.text["stdout"] = Truncate(full["stdout"])
      BY <1>1, <2>1, ResultOf DEF Typed, Streams
    <2>3. PICK f : f = full["stdout"]
      OBVIOUS
    <2>4. PICK t : t = Truncate(f)
      OBVIOUS
    <2>5. f \in Seq(Unmarked) /\ (f = <<>> \/ f = wire) /\ t = o.text["stdout"] /\ i \in 1..Len(t)
      BY <1>1, <2>1, <2>2, <2>3, <2>4 DEF Streams
    <2>6. \/ t[i].by = Background
          \/ i \in 1..Len(f) /\ t[i].by = f[i].by /\ t[i].raw = f[i].raw
      <3>1. \A j \in 1..Len(Truncate(f)) :
              \/ Truncate(f)[j].by = Background
              \/ /\ j \in 1..Len(f)
                 /\ Truncate(f)[j].by = f[j].by /\ Truncate(f)[j].raw = f[j].raw
        BY <2>5, Truncated, Zenon
      <3> QED BY <2>4, <2>5, <3>1
    <2>7. CASE t[i].by = Background
      <3>1. calls > 0
        <4>1. calls \in Int /\ said.by \in Int
          BY ProtocolBounds DEF Typed, TypeOK
        <4> QED BY <2>2, <4>1 DEF OrderInv, QueueInv
      <3> QED BY <2>2, <2>5, <2>7, <3>1 DEF Background
    <2>8. CASE i \in 1..Len(f) /\ t[i].by = f[i].by /\ t[i].raw = f[i].raw
      <3>1. f = wire
        <4>1. Len(<<>>) = 0
          OBVIOUS
        <4> QED BY <2>5, <2>8, <4>1
      <3>2. wire[i] \in Carried
        BY <2>8, <3>1, ElementOfSeq DEF OrderInv
      <3>3. wire[i].raw \/ wire[i].by < calls
        <4>1. /\ calls \in Int /\ said.by \in Int /\ said.by <= calls
              /\ \A t1 \in Token : t1.by \in Int
          BY ProtocolBounds DEF Typed, TypeOK, OrderInv, QueueInv, Token
        <4> QED BY <2>2, <3>2, <4>1 DEF Carried
      <3> QED BY <2>2, <2>5, <2>8, <3>1, <3>3
    <2> QED BY <2>6, <2>7, <2>8
  <1>2. Pending.kind # "timed_out"
    BY PendingTyped
  <1> QED BY <1>1, <1>2, OutcomeSteps, Zenon DEF PartialInv

\* What a call brings back that timed out while its block ran went past sys.stdout or
\* is of an earlier block: what the block has printed is still in the runner and is
\* lost with it (runner.py:56-84, runner_pool.py:362-375).
THEOREM PartialOutputIsNotPrinted == Spec => []PartialOutputIsRaw
  <1>1. Init => Typed /\ OrderInv /\ PartialInv
    <2>1. Init => PartialInv
      BY PendingTyped DEF Init, PartialInv
    <2> QED BY <2>1, InitTyped, OrderInit
  <1>2. Typed /\ OrderInv /\ PartialInv /\ [Next]_vars => (Typed /\ OrderInv /\ PartialInv)'
    BY StepTyped, OrderStep, PartialStep
  <1>3. Typed /\ PartialInv => PartialOutputIsRaw
    <2> SUFFICES ASSUME Typed, PartialInv, Returned("timed_out"), last.saw = "run",
                        NEW i \in DOMAIN last.text["stdout"]
                 PROVE  last.text["stdout"][i].raw \/ last.text["stdout"][i].by # last.call
      BY DEF PartialOutputIsRaw
    <2>1. PICK t : t = last.text["stdout"]
      OBVIOUS
    <2>2. t \in Seq(Shown) /\ last.call \in Int
      <3>1. last \in Outcome /\ 0..MaxCalls \subseteq Int
        BY ProtocolBounds DEF Typed, TypeOK
      <3> QED BY <2>1, <3>1 DEF Outcome, Streams
    <2>3. i \in 1..Len(t)
      BY <2>1, <2>2, LenProperties
    <2>4. t[i].by \in Int
      <3>1. t[i] \in Shown /\ 0..MaxCalls \subseteq Int
        BY <2>2, <2>3, ElementOfSeq, ProtocolBounds
      <3> QED BY <3>1 DEF Shown
    <2>5. t[i].raw \/ t[i].by < last.call
      BY <2>1, <2>3 DEF PartialInv, Returned
    <2> QED BY <2>1, <2>2, <2>4, <2>5
  <1> QED BY <1>1, <1>2, <1>3, PTL DEF Spec

-----------------------------------------------------------------------------
(* Whose answer it is.                                                      *)

Own == {t \in Token : t.by \in {calls, Background}}
Quiet == {t \in Token : t.k \in Calm}
Strays == {t \in Token : t.by = Background /\ t.k \in Calm}

\* A DONE is followed by the code of the call in progress, which the runner has
\* finished with, and by nothing but what helpers write.
EndsAnswer(i) ==
  /\ i + 2 <= Len(wire)
  /\ wire[i + 1].k = "rc" /\ wire[i + 1].by = calls /\ wire[i + 2].k = "nl"
  /\ at \in {"loop", "dead"} /\ stdin = <<>>
  /\ \A j \in i + 3..Len(wire) : wire[j] \in Strays

WireInv ==
  \A i \in 1..Len(wire) : /\ wire[i] \in Own /\ wire[i].k # "huge"
                          /\ wire[i].k = "DONE" => EndsAnswer(i)

\* The two ends take turns: nothing is left on the pipes when a call is over but
\* what helpers write, and the runner has one block at a time.
TurnInv ==
  /\ phase = "idle" => /\ stdin = <<>> /\ at \in {"none", "loop", "dead"}
                       /\ wire \in Seq(Strays)
  /\ phase # "idle" => at # "none" /\ calls > 0
  /\ stdin # <<>> => stdin = <<calls>> /\ at \in {"loop", "dead"}

\* The block that runs is the one of the call in progress.
BlockInv ==
  /\ at \in {"run", "frame"} =>
       said.by = calls /\ said.stdout \in Seq(Quiet) /\ said.stderr \in Seq(Quiet)
  /\ at = "frame" => /\ chunks[Len(chunks)] = DoneLine(calls)
                     /\ \A i \in 1..Len(chunks) - 1 : chunks[i] \in Seq(Quiet)

ReaderInv == buf \in Seq(Own) /\ text \in [Streams -> Seq(Own)]

\* What the server has read is of its call, and it starts without any.
FreshInv == phase = "idle" => buf = <<>> /\ text = Empty
InStep == WireInv /\ TurnInv /\ BlockInv /\ ReaderInv
StepInv == FreshInv /\ (~tear => InStep)

\* Between calls nothing is kept of an answer.
LEMMA FreshStep ==
  ASSUME FreshInv, [Next]_vars
  PROVE  FreshInv'
  <1>1. CASE Server
    <2>1. ASSUME NEW o, Return(o) \/ Stop(o)
          PROVE  FreshInv'
      BY <2>1 DEF Return, Stop, FreshLocals, FreshInv
    <2>2. ASSUME phase' # "idle"
          PROVE  FreshInv'
      BY <2>2 DEF FreshInv
    <2>3. ASSUME UNCHANGED <<phase, reader>>
          PROVE  FreshInv'
      BY <2>3 DEF FreshInv, reader
    <2>4. CASE ReadLine
      <3>1. phase' = phase \/ Return(Result("answered", text, ReturnCode))
        <4>1. \/ Open("stdout") \/ Close("stdout") \/ Open("stderr") \/ Close("stderr")
              \/ Return(Result("answered", text, ReturnCode)) \/ phase' = phase
          BY <2>4, Zenon DEF ReadLine
        <4> QED BY <4>1 DEF Open, Close
      <3>2. phase = "read"
        BY <2>4 DEF ReadLine
      <3> QED BY <2>1, <2>2, <3>1, <3>2
    <2>5. CASE BeginCall \/ Sent
      BY <2>2, <2>5 DEF BeginCall, Sent
    <2>6. CASE SendFails \/ ReadOverlong \/ ReadEof \/ Drained \/ Stopped
      BY <2>1, <2>6 DEF SendFails, ReadOverlong, ReadEof, Drained, Stopped
    <2>7. CASE TimeOut
      BY <2>1, <2>2, <2>7 DEF TimeOut
    <2> QED BY <1>1, <2>4, <2>5, <2>6, <2>7 DEF Server
  <1>2. CASE Runner \/ User \/ UNCHANGED vars
    BY <1>2 DEF Runner, User, ReadCode, Finish, WriteChunk, Die, RawWrite, HelperWrites,
             PrintText, StartHelper, HelperEnds, Flood, server, vars, FreshInv, reader
  <1> QED BY <1>1, <1>2 DEF Next

\* No DONE is on the wire while the runner has a block to read, to run or to answer.
LEMMA NoAnswerYet ==
  ASSUME Typed, WireInv, at \notin {"loop", "dead"} \/ stdin # <<>>
  PROVE  \A i \in 1..Len(wire) : wire[i] \in Own /\ wire[i].k \in Calm
  <1>1. ASSUME NEW i \in 1..Len(wire)
        PROVE  wire[i] \in Own /\ wire[i].k \in Calm
    <2>1. wire[i] \in Token
      BY ElementOfSeq DEF Typed, TypeOK
    <2>2. wire[i].k # "DONE" /\ wire[i].k # "huge" /\ wire[i] \in Own
      BY DEF WireInv, EndsAnswer
    <2> QED BY <2>1, <2>2 DEF Token, Calm
  <1> QED BY <1>1

\* The line that the parser takes for the answer is the answer.
LEMMA AnswerRead ==
  ASSUME Typed, WireInv, Has(wire, {"nl"}) \/ wire # <<>>,
         Stripped # <<>>, Stripped[1].k = "DONE"
  PROVE  /\ ReturnCode = calls /\ AfterLine \in Seq(Strays)
         /\ at \in {"loop", "dead"} /\ stdin = <<>>
  <1>0. wire \in Seq(Token) /\ Len(wire) \in Nat /\ DOMAIN wire = 1..Len(wire)
    BY LenProperties DEF Typed, TypeOK
  <1>1. /\ Stripped \in Seq(Token) /\ Len(Stripped) \in Nat /\ Len(Stripped) > 0
        /\ \A i \in 1..Len(Stripped) : Stripped[i] = wire[i]
        /\ Len(Stripped) <= Len(FirstLine) /\ Len(FirstLine) <= Len(wire)
        /\ FirstLine \in Seq(Token) /\ Len(FirstLine) \in Nat
    <2>1. /\ Stripped \in Seq(Token) /\ Len(Stripped) <= Len(FirstLine)
          /\ \A i \in 1..Len(Stripped) : Stripped[i] = wire[i]
      BY <1>0, StrippedLine
    <2>2. Len(FirstLine) <= Len(wire) /\ FirstLine \in Seq(Token)
      BY <1>0, FirstLineOfWire
    <2> QED BY <2>1, <2>2, EmptySeq, LenProperties
  <1>2. EndsAnswer(1)
    <2>1. 1 \in 1..Len(wire) /\ wire[1].k = "DONE"
      BY <1>0, <1>1
    <2> QED BY <2>1 DEF WireInv
  <1>3. /\ Len(wire) >= 3 /\ wire[2].k = "rc" /\ wire[2].by = calls /\ wire[3].k = "nl"
        /\ wire[1].k = "DONE" /\ \A j \in 4..Len(wire) : wire[j] \in Strays
    BY <1>0, <1>1, <1>2 DEF EndsAnswer
  <1>4. Has(wire, {"nl"})
    BY <1>0, <1>3 DEF Has
  <1>5. /\ Len(FirstLine) > 0 /\ FirstLine[Len(FirstLine)].k = "nl"
        /\ \A i \in 1..Len(FirstLine) - 1 : FirstLine[i].k # "nl"
        /\ \A i \in 1..Len(FirstLine) : FirstLine[i] = wire[i]
        /\ AfterLine \in Seq(Token) /\ Len(AfterLine) = Len(wire) - Len(FirstLine)
        /\ \A i \in 1..Len(AfterLine) : AfterLine[i] = wire[Len(FirstLine) + i]
    BY <1>0, <1>4, FirstLineOfWire
  <1>6. Len(FirstLine) = 3
    <2>1. Len(FirstLine) # 1 /\ Len(FirstLine) # 2
      BY <1>1, <1>3, <1>5
    <2>2. ~(Len(FirstLine) > 3)
      BY <1>1, <1>3, <1>5
    <2>3. PICK n \in Nat : n = Len(FirstLine)
      BY <1>1
    <2>4. n > 0 /\ n # 1 /\ n # 2 /\ ~(n > 3)
      BY <1>5, <2>1, <2>2, <2>3
    <2>5. n = 3
      BY <2>4
    <2> QED BY <2>3, <2>5
  <1>7. Len(Stripped) = 2
    <2>1. EndsLine(FirstLine)
      BY <1>1, <1>5, <1>6, EmptySeq DEF EndsLine
    <2> QED BY <1>0, <1>6, <2>1, StrippedLine
  <1>8. ReturnCode = calls
    <2>1. Stripped[2] = wire[2]
      BY <1>1, <1>7
    <2> QED BY <1>3, <1>7, <2>1 DEF ReturnCode
  <1>9. AfterLine \in Seq(Strays)
    <2>1. \A i \in 1..Len(AfterLine) : AfterLine[i] \in Strays
      BY <1>0, <1>3, <1>5, <1>6
    <2> QED BY <1>5, <2>1, Within
  <1> QED BY <1>2, <1>8, <1>9 DEF EndsAnswer

\* A call that starts a runner.
Starts ==
  /\ BeginCall
  /\ at' = "loop" /\ stdin' = <<calls'>> /\ said' = Silence(0) /\ chunks' = <<>> /\ wire' = <<>>

\* A user's DONE is forgotten with the runner only.
LEMMA TearStep ==
  ASSUME Typed, [Next]_vars, ~tear'
  PROVE  ~tear \/ Starts
  <1>1. CASE Server \/ Runner \/ HelperEnds \/ Flood \/ UNCHANGED vars
    <2>1. CASE BeginCall
      BY <2>1 DEF BeginCall, Starts
    <2>2. CASE \/ Sent \/ SendFails \/ ReadLine \/ ReadOverlong \/ ReadEof \/ TimeOut
               \/ Drained \/ Stopped
      BY <2>2 DEF Sent, SendFails, ReadLine, ReadOverlong, ReadEof, TimeOut, Drained, Stopped,
            user
    <2>3. CASE Runner \/ HelperEnds \/ Flood \/ UNCHANGED vars
      BY <2>3 DEF Runner, ReadCode, Finish, WriteChunk, Die, HelperEnds, Flood, user, vars
    <2> QED BY <1>1, <2>1, <2>2, <2>3 DEF Server
  <1>2. ASSUME NEW ks, Writes(ks)
        PROVE  ~tear
    BY <1>2 DEF Writes
  <1> QED BY <1>1, <1>2 DEF Next, User, RawWrite, HelperWrites, PrintText, StartHelper

\* A runner that was just started is in step with the call that started it.
LEMMA StartedInStep ==
  ASSUME Typed, FreshInv, Starts
  PROVE  InStep'
  <1>1. /\ phase' = "send" /\ calls' = calls + 1 /\ buf' = <<>> /\ text' = Empty
        /\ wire' = <<>> /\ at' = "loop" /\ stdin' = <<calls'>>
    BY DEF Starts, BeginCall, FreshInv, reader
  <1>2. calls \in Nat
    BY ProtocolBounds DEF Typed, TypeOK
  <1>3. WireInv'
    <2>1. Len(wire') = 0
      BY <1>1
    <2> QED BY <2>1 DEF WireInv
  <1>4. TurnInv'
    BY <1>1, <1>2 DEF TurnInv
  <1>5. BlockInv'
    BY <1>1 DEF BlockInv
  <1>6. ReaderInv'
    <2>1. <<>> \in Seq(Own')
      BY EmptySeq, Zenon
    <2> QED BY <1>1, <2>1 DEF ReaderInv, Empty
  <1> QED BY <1>3, <1>4, <1>5, <1>6 DEF InStep

\* What user code writes without a DONE or an overlong line.
LEMMA NewTokens ==
  ASSUME NEW ks \in Texts, Writes(ks), ~tear', NEW by \in 0..MaxCalls, NEW past \in BOOLEAN
  PROVE  /\ Tokens(ks, by, past) \in Seq({t \in Token : t.by = by /\ t.k \in Calm})
         /\ \A i \in 1..Len(Tokens(ks, by, past)) :
              /\ Tokens(ks, by, past)[i] \in Token
              /\ Tokens(ks, by, past)[i].by = by /\ Tokens(ks, by, past)[i].k \in Calm
  <1>1. ks \in Seq(Kinds)
    BY TextsAreKinds
  <1>2. /\ \A i \in 1..Len(ks) : ks[i] \in Kinds /\ ks[i] \notin {"DONE", "huge"}
        /\ DOMAIN ks = 1..Len(ks)
    <2>1. DOMAIN ks = 1..Len(ks) /\ \A i \in 1..Len(ks) : ks[i] \in Kinds
      BY <1>1, LenProperties, ElementOfSeq
    <2> QED BY <2>1 DEF Writes
  <1>3. PICK r : r = Tokens(ks, by, past)
    OBVIOUS
  <1>4. /\ r \in Seq(Token) /\ Len(r) = Len(ks)
        /\ \A i \in 1..Len(ks) : r[i].k = ks[i] /\ r[i].by = by
    BY <1>1, <1>3, TokensOf
  <1> DEFINE U == {t \in Token : t.by = by /\ t.k \in Calm}
  <1>5. \A i \in 1..Len(r) : r[i] \in U /\ r[i] \in Token /\ r[i].by = by /\ r[i].k \in Calm
    BY <1>2, <1>4, ElementOfSeq DEF Calm
  <1> HIDE DEF U
  <1>6. r \in Seq(U)
    BY <1>4, <1>5, Within
  <1> QED BY <1>3, <1>5, <1>6 DEF U

\* Every step keeps the turns, unless user code tears the protocol.
LEMMA TurnStep ==
  ASSUME Typed, WireInv, TurnInv, [Next]_vars, ~tear'
  PROVE  TurnInv'
  <1>0. calls \in Nat /\ stdin \in Seq(Call) /\ wire \in Seq(Token) /\ Background \in 0..MaxCalls
    BY ProtocolBounds DEF Typed, TypeOK, Background
  <1>1. ASSUME phase' = "idle", at' = "none", stdin' = <<>>, wire' = <<>>
        PROVE  TurnInv'
    <2>1. <<>> \in Seq(Strays)
      BY EmptySeq, Zenon
    <2> QED BY <1>1, <2>1 DEF TurnInv, Strays
  <1>2. ASSUME phase # "idle", phase' # "idle", calls' = calls, stdin' = stdin,
               at' = at \/ at' = "dead"
        PROVE  TurnInv'
    BY <1>2 DEF TurnInv
  <1>3. ASSUME phase' = phase, calls' = calls, stdin' = stdin, wire' = wire,
               at' = at \/ (at' = "dead" /\ at # "none")
        PROVE  TurnInv'
    BY <1>3 DEF TurnInv, Strays
  <1>4. ASSUME phase' = phase, phase # "idle", calls' = calls, stdin' = <<>>, at' # "none"
        PROVE  TurnInv'
    BY <1>4 DEF TurnInv
  <1>5. CASE BeginCall
    <2>1. phase' = "send" /\ calls' = calls + 1 /\ stdin = <<>> /\ at \in {"none", "loop", "dead"}
      BY <1>5 DEF BeginCall, TurnInv
    <2>2. \/ at' = "loop" /\ stdin' = <<calls'>>
          \/ at' = at /\ at \in {"loop", "dead"} /\ stdin' = Append(stdin, calls')
      BY <1>5, <2>1 DEF BeginCall
    <2>3. Append(stdin, calls') = <<calls'>>
      BY <2>1
    <2> QED BY <1>0, <2>1, <2>2, <2>3 DEF TurnInv
  <1>6. CASE Sent
    BY <1>2, <1>6 DEF Sent, runner
  <1>7. CASE SendFails \/ Drained
    BY <1>2, <1>7 DEF SendFails, Drained, Stop, RunnerEnds
  <1>8. CASE ReadEof \/ Stopped \/ (TimeOut /\ phase' # "drain")
    <2>1. phase' = "idle" /\ Forget
      BY <1>8 DEF ReadEof, Stopped, TimeOut, Return
    <2> QED BY <1>1, <2>1 DEF Forget
  <1>9. CASE TimeOut /\ phase' = "drain"
    <2>1. ~(phase' = "idle")
      BY <1>9
    <2> QED BY <1>2, <1>9, <2>1 DEF TimeOut, runner, Return
  <1>10. CASE ReadOverlong
    <2>1. Overlong
      BY <1>10 DEF ReadOverlong
    <2>2. \A i \in DOMAIN FirstLine : i \in 1..Len(wire) /\ FirstLine[i] = wire[i]
      <3>1. /\ FirstLine \in Seq(Token) /\ Len(FirstLine) <= Len(wire)
            /\ \A i \in 1..Len(FirstLine) : FirstLine[i] = wire[i]
        BY <1>0, FirstLineOfWire
      <3> QED BY <1>0, <3>1, LenProperties
    <2> QED BY <2>1, <2>2 DEF Overlong, Has, WireInv
  <1>11. CASE ReadLine
    <2>1. phase = "read" /\ wire' = AfterLine /\ UNCHANGED <<calls, at, stdin>>
      BY <1>11 DEF ReadLine, runner
    <2>2. CASE phase' = phase
      BY <1>2, <2>1, <2>2
    <2>3. CASE Return(Result("answered", text, ReturnCode)) /\ Stripped # <<>>
               /\ Stripped[1].k = "DONE"
      <3>1. Has(wire, {"nl"}) \/ wire # <<>>
        BY <1>11 DEF ReadLine
      <3>2. AfterLine \in Seq(Strays) /\ at \in {"loop", "dead"} /\ stdin = <<>>
        BY <2>3, <3>1, AnswerRead
      <3> QED BY <2>1, <2>3, <3>2 DEF TurnInv, Return, Strays
    <2>4. \/ Open("stdout") \/ Close("stdout") \/ Open("stderr") \/ Close("stderr")
          \/ phase' = phase
          \/ (Return(Result("answered", text, ReturnCode)) /\ Stripped # <<>>
               /\ Stripped[1].k = "DONE")
      BY <1>11, Zenon DEF ReadLine
    <2> QED BY <2>2, <2>3, <2>4 DEF Open, Close
  <1>12. CASE ReadCode
    <2>1. stdin # <<>> /\ stdin' = Tail(stdin) /\ at' = "run" /\ UNCHANGED <<phase, calls, wire>>
      BY <1>12 DEF ReadCode, server
    <2>2. stdin = <<calls>> /\ phase # "idle"
      BY <2>1 DEF TurnInv
    <2>3. Tail(stdin) = <<>>
      BY <2>2
    <2> QED BY <1>4, <2>1, <2>2, <2>3
  <1>13. CASE Finish \/ WriteChunk
    <2>1. /\ at \in {"run", "frame"} /\ at' # "none" /\ UNCHANGED <<phase, calls, stdin>>
      BY <1>13 DEF Finish, WriteChunk, server
    <2>2. phase # "idle" /\ stdin = <<>>
      BY <2>1 DEF TurnInv
    <2> QED BY <1>4, <2>1, <2>2
  <1>14. CASE Die
    BY <1>3, <1>14 DEF Die, RunnerEnds, server
  <1>15. ASSUME NEW ks \in Texts, RawWrite(ks) \/ \E s \in Streams : PrintText(s, ks)
         PROVE  TurnInv'
    <2>1. at = "run" /\ UNCHANGED <<phase, calls, stdin, at>>
      BY <1>15 DEF RawWrite, PrintText, server, runner
    <2>2. phase # "idle"
      BY <2>1 DEF TurnInv
    <2> QED BY <1>2, <2>1, <2>2
  <1>16. ASSUME NEW ks \in Texts, HelperWrites(ks)
         PROVE  TurnInv'
    <2>1. /\ UNCHANGED <<phase, calls, stdin, at>> /\ Writes(ks)
          /\ wire' = wire \o Tokens(ks, Background, TRUE)
      BY <1>16 DEF HelperWrites, server, runner
    <2>2. CASE phase # "idle"
      BY <1>2, <2>1, <2>2
    <2>3. CASE phase = "idle"
      <3>1. PICK w : w = Tokens(ks, Background, TRUE)
        OBVIOUS
      <3>2. PICK b \in 0..MaxCalls, past \in BOOLEAN : b = Background /\ past = TRUE
        BY <1>0
      <3>3. Tokens(ks, b, past) \in Seq({t \in Token : t.by = b /\ t.k \in Calm})
        BY <2>1, NewTokens
      <3>4. w \in Seq(Strays)
        BY <3>1, <3>2, <3>3 DEF Strays
      <3>5. wire \in Seq(Strays)
        BY <2>3 DEF TurnInv
      <3>6. wire \o w \in Seq(Strays)
        BY <3>4, <3>5, Joined, Zenon
      <3>7. wire' \in Seq(Strays)
        BY <2>1, <3>1, <3>6
      <3> QED BY <2>1, <2>3, <3>7 DEF TurnInv, Strays
    <2> QED BY <2>2, <2>3
  <1>17. CASE StartHelper \/ HelperEnds \/ Flood \/ UNCHANGED vars
    <2>1. UNCHANGED <<phase, calls, stdin, wire, at>>
      BY <1>17 DEF StartHelper, HelperEnds, Flood, vars, server, runner
    <2> QED BY <1>3, <2>1
  <1> QED BY <1>5, <1>6, <1>7, <1>8, <1>9, <1>10, <1>11, <1>12, <1>13, <1>14, <1>15, <1>16, <1>17,
             Zenon DEF Next, Server, Runner, User

\* A DONE stays where it is, with its answer, until it is read.
LEMMA AnswerStep ==
  ASSUME Typed, HandInv, WireInv, TurnInv, BlockInv, [Next]_vars, ~tear'
  PROVE  WireInv'
  <1>0. /\ calls \in 0..MaxCalls /\ wire \in Seq(Token) /\ Len(wire) \in Nat
        /\ Background \in 0..MaxCalls /\ stdin \in Seq(Call)
        /\ said \in [stdout : Seq(Token), stderr : Seq(Token), by : 0..MaxCalls]
    BY LenProperties, ProtocolBounds DEF Typed, TypeOK, Background
  <1>1. ASSUME wire' = <<>>
        PROVE  WireInv'
    <2>1. Len(wire') = 0
      BY <1>1
    <2> QED BY <2>1 DEF WireInv
  <1>2. ASSUME wire' = wire, calls' = calls, stdin' = stdin, at' = at \/ at' = "dead"
        PROVE  WireInv'
    BY <1>2 DEF WireInv, EndsAnswer, Own, Strays
  <1>3. ASSUME \A i \in 1..Len(wire') : wire'[i] \in Own' /\ wire'[i].k \in Calm
        PROVE  WireInv'
    BY <1>3 DEF WireInv, Calm
  <1>4. ASSUME NEW n \in 0..Len(wire), Len(wire') = Len(wire) - n, wire' \in Seq(Token),
               \A i \in 1..Len(wire) - n : wire'[i] = wire[n + i],
               calls' = calls, UNCHANGED <<at, stdin>>
        PROVE  WireInv'
    <2>1. ASSUME NEW i \in 1..Len(wire')
          PROVE  /\ wire'[i] \in Own' /\ wire'[i].k # "huge"
                 /\ wire'[i].k = "DONE" => EndsAnswer(i)'
      <3>1. n + i \in 1..Len(wire) /\ wire'[i] = wire[n + i]
        BY <1>0, <1>4
      <3>2. wire'[i] \in Own' /\ wire'[i].k # "huge"
        BY <1>4, <3>1 DEF WireInv, Own
      <3>3. ASSUME wire'[i].k = "DONE"
            PROVE  EndsAnswer(i)'
        <4>1. EndsAnswer(n + i)
          BY <3>1, <3>3 DEF WireInv
        <4>2. /\ n + i + 2 <= Len(wire) /\ wire[n + i + 1].k = "rc"
              /\ wire[n + i + 1].by = calls /\ wire[n + i + 2].k = "nl"
              /\ at \in {"loop", "dead"} /\ stdin = <<>>
              /\ \A j \in n + i + 3..Len(wire) : wire[j] \in Strays
          BY <4>1 DEF EndsAnswer
        <4>3. i + 2 <= Len(wire') /\ i + 1 \in 1..Len(wire) - n /\ i + 2 \in 1..Len(wire) - n
          BY <1>0, <1>4, <4>2
        <4>4. wire'[i + 1] = wire[n + i + 1] /\ wire'[i + 2] = wire[n + i + 2]
          <5>1. wire'[i + 1] = wire[n + (i + 1)] /\ wire'[i + 2] = wire[n + (i + 2)]
            BY <1>4, <4>3
          <5>2. n + (i + 1) = n + i + 1 /\ n + (i + 2) = n + i + 2
            BY <1>0
          <5> QED BY <5>1, <5>2
        <4>5. ASSUME NEW j \in i + 3..Len(wire')
              PROVE  wire'[j] \in Strays'
          <5>1. n + j \in n + i + 3..Len(wire) /\ j \in 1..Len(wire) - n
            BY <1>0, <1>4
          <5> QED BY <1>4, <4>2, <5>1 DEF Strays
        <4> QED BY <1>4, <4>2, <4>3, <4>4, <4>5 DEF EndsAnswer
      <3> QED BY <3>2, <3>3
    <2> QED BY <2>1 DEF WireInv
  <1>5. ASSUME NEW w \in Seq(Token), wire' = wire \o w
        PROVE  /\ Len(w) \in Nat /\ Len(wire') = Len(wire) + Len(w)
               /\ \A i \in 1..Len(wire) : wire'[i] = wire[i]
               /\ \A i \in 1..Len(w) : wire'[Len(wire) + i] = w[i]
               /\ \A i \in 1..Len(wire') : \/ i \in 1..Len(wire)
                                           \/ \E j \in 1..Len(w) : i = Len(wire) + j
    <2>1. /\ Len(w) \in Nat /\ Len(wire \o w) = Len(wire) + Len(w)
          /\ \A i \in 1..Len(wire) : (wire \o w)[i] = wire[i]
          /\ \A i \in 1..Len(w) : (wire \o w)[Len(wire) + i] = w[i]
      BY <1>0, Joined
    <2>2. ASSUME NEW i \in 1..Len(wire) + Len(w)
          PROVE  i \in 1..Len(wire) \/ \E j \in 1..Len(w) : i = Len(wire) + j
      <3>1. CASE i > Len(wire)
        <4>1. i - Len(wire) \in 1..Len(w) /\ i = Len(wire) + (i - Len(wire))
          BY <1>0, <2>1, <3>1
        <4> QED BY <4>1
      <3>2. CASE ~(i > Len(wire))
        BY <1>0, <2>1, <3>2
      <3> QED BY <3>1, <3>2
    <2> QED BY <1>5, <2>1, <2>2
  <1>6. ASSUME NEW w \in Seq(Token), wire' = wire \o w, calls' = calls,
               at \notin {"loop", "dead"} \/ stdin # <<>>,
               \A i \in 1..Len(w) : w[i] \in Own /\ w[i].k \in Calm
        PROVE  WireInv'
    <2>1. \A i \in 1..Len(wire) : wire[i] \in Own /\ wire[i].k \in Calm
      BY <1>6, NoAnswerYet
    <2>2. \A i \in 1..Len(wire') : wire'[i] \in Own /\ wire'[i].k \in Calm
      BY <1>5, <1>6, <2>1
    <2>3. Own' = Own
      BY <1>6 DEF Own
    <2> QED BY <1>3, <2>2, <2>3
  <1>7. CASE BeginCall
    <2>1. wire' = <<>> \/ wire' = wire
      BY <1>7 DEF BeginCall
    <2>2. wire \in Seq(Strays)
      BY <1>7 DEF BeginCall, TurnInv
    <2>3. \A i \in 1..Len(wire) : wire[i] \in Strays
      BY <2>2, ElementOfSeq
    <2>4. \A i \in 1..Len(wire) : wire[i] \in Own' /\ wire[i].k \in Calm
      BY <2>3 DEF Strays, Own
    <2> QED BY <1>1, <1>3, <2>1, <2>4
  <1>8. CASE ReadCode \/ Finish
    <2>1. wire' = wire /\ calls' = calls /\ (at \notin {"loop", "dead"} \/ stdin # <<>>)
      BY <1>8 DEF ReadCode, Finish, server
    <2>2. Own' = Own
      BY <2>1 DEF Own
    <2> QED BY <1>3, <2>1, <2>2, NoAnswerYet
  <1>9. CASE WriteChunk
    <2>1. /\ at = "frame" /\ calls' = calls /\ chunks # <<>> /\ stdin' = stdin
          /\ wire' = wire \o Head(chunks) /\ chunks' = Tail(chunks)
          /\ at' = IF chunks' = <<>> THEN "loop" ELSE "frame"
      BY <1>9 DEF WriteChunk, server, Typed
    <2> DEFINE SM == Seq(Mine)
    <2>2. chunks \in Seq(SM)
      BY DEF HandInv
    <2>3. said.by = calls /\ stdin = <<>>
      BY <2>1 DEF BlockInv, TurnInv
    <2> HIDE DEF SM
    <2>4. Len(chunks) \in Nat /\ Len(chunks) > 0 /\ Head(chunks) = chunks[1]
      BY <2>1, <2>2, EmptySeq, LenProperties
    <2>5. PICK w : w = chunks[1]
      OBVIOUS
    <2>6. w \in Seq(Mine)
      <3>1. chunks[1] \in SM
        BY <2>2, <2>4, ElementOfSeq
      <3> QED BY <2>5, <3>1 DEF SM
    <2>7. /\ w \in Seq(Token)
          /\ \A i \in 1..Len(w) : w[i] \in Token /\ w[i] \in Own
      <3>1. \A i \in 1..Len(w) : w[i] \in Mine
        BY <2>6, ElementOfSeq
      <3>2. \A i \in 1..Len(w) : w[i] \in Token /\ w[i] \in Own
        BY <2>3, <3>1 DEF Mine, Own
      <3> QED BY <2>6, <3>2, Within
    <2>8. wire' = wire \o w
      BY <2>1, <2>4, <2>5
    <2>9. CASE Len(chunks) > 1
      <3>1. w \in Seq(Quiet)
        <4>1. 1 \in 1..Len(chunks) - 1
          BY <2>4, <2>9
        <4> QED BY <2>1, <2>5, <4>1 DEF BlockInv
      <3>2. \A i \in 1..Len(w) : w[i].k \in Calm
        <4>1. \A i \in 1..Len(w) : w[i] \in Quiet
          BY <3>1, ElementOfSeq
        <4> QED BY <4>1 DEF Quiet
      <3> QED BY <1>6, <2>1, <2>7, <2>8, <3>2
    <2>10. CASE Len(chunks) = 1
      <3>1. w = DoneLine(calls)
        BY <2>1, <2>5, <2>10 DEF BlockInv
      <3>2. /\ Len(w) = 3 /\ w[1].k = "DONE" /\ w[2].k = "rc" /\ w[3].k = "nl"
            /\ w[2].by = calls
        <4>1. PICK b \in 0..MaxCalls : b = calls
          BY <1>0
        <4>2. /\ Len(DoneLine(b)) = 3 /\ DoneLine(b)[1].k = "DONE"
              /\ DoneLine(b)[2].k = "rc" /\ DoneLine(b)[3].k = "nl"
          BY LastLine
        <4>3. \A i \in 1..3 : DoneLine(b)[i].by = b
          BY LastLine
        <4>4. 2 \in 1..3
          OBVIOUS
        <4> QED BY <3>1, <4>1, <4>2, <4>3, <4>4
      <3>3. \A i \in 1..Len(wire) : wire[i] \in Own /\ wire[i].k \in Calm
        BY <2>1, NoAnswerYet
      <3>4. at' = "loop"
        <4>1. Len(Tail(chunks)) = 0 /\ Tail(chunks) \in Seq(SM)
          BY <2>1, <2>2, <2>10, HeadTailProperties
        <4>2. Tail(chunks) = <<>>
          BY <4>1, EmptySeq
        <4> QED BY <2>1, <4>2
      <3>5. /\ Len(wire') = Len(wire) + 3
            /\ \A i \in 1..Len(wire) : wire'[i] = wire[i]
            /\ \A i \in 1..3 : wire'[Len(wire) + i] = w[i]
            /\ \A i \in 1..Len(wire') : \/ i \in 1..Len(wire)
                                        \/ \E j \in 1..3 : i = Len(wire) + j
        BY <1>5, <2>7, <2>8, <3>2
      <3>6. wire'[Len(wire) + 2] = w[2] /\ wire'[Len(wire) + 3] = w[3]
        <4>1. 2 \in 1..3 /\ 3 \in 1..3
          OBVIOUS
        <4> QED BY <3>5, <4>1
      <3>7. PICK n \in Nat : n = Len(wire) + 1
        BY <1>0
      <3>8. EndsAnswer(n)'
        <4>1. /\ n + 2 <= Len(wire') /\ n + 1 = Len(wire) + 2 /\ n + 2 = Len(wire) + 3
              /\ n + 3 > Len(wire') /\ Len(wire') \in Nat
          BY <1>0, <3>5, <3>7
        <4>2. /\ wire'[n + 1].k = "rc" /\ wire'[n + 1].by = calls' /\ wire'[n + 2].k = "nl"
              /\ at' \in {"loop", "dead"} /\ stdin' = <<>>
          BY <2>1, <2>3, <3>2, <3>4, <3>6, <4>1
        <4>3. \A j \in n + 3..Len(wire') : wire'[j] \in Strays'
          BY <4>1
        <4> QED BY <4>1, <4>2, <4>3 DEF EndsAnswer
      <3>9. ASSUME NEW i \in 1..Len(wire')
            PROVE  /\ wire'[i] \in Own' /\ wire'[i].k # "huge"
                   /\ wire'[i].k = "DONE" => EndsAnswer(i)'
        <4>1. CASE i \in 1..Len(wire)
          BY <2>1, <3>3, <3>5, <4>1 DEF Own, Calm
        <4>2. ASSUME NEW j \in 1..3, i = Len(wire) + j
              PROVE  /\ wire'[i] \in Own' /\ wire'[i].k # "huge"
                     /\ wire'[i].k = "DONE" => EndsAnswer(i)'
          <5>1. wire'[i] = w[j] /\ w[j] \in Own
            BY <2>7, <3>2, <3>5, <4>2
          <5>2. w[j].k # "huge" /\ (w[j].k = "DONE" => j = 1)
            BY <3>2
          <5>3. wire'[i] \in Own'
            BY <2>1, <5>1 DEF Own
          <5>4. CASE j = 1
            <6>1. i = n
              BY <1>0, <3>7, <4>2, <5>4
            <6> QED BY <3>8, <5>1, <5>2, <5>3, <6>1
          <5>5. CASE j # 1
            BY <5>1, <5>2, <5>3, <5>5
          <5> QED BY <5>4, <5>5
        <4> QED BY <3>5, <4>1, <4>2
      <3> QED BY <3>9 DEF WireInv
    <2> QED BY <2>4, <2>9, <2>10
  <1>10. ASSUME NEW ks \in Texts, RawWrite(ks)
         PROVE  WireInv'
    <2>1. /\ at = "run" /\ calls' = calls /\ Writes(ks)
          /\ wire' = wire \o Tokens(ks, said.by, TRUE) /\ said.by = calls
      BY <1>10 DEF RawWrite, server, BlockInv
    <2>2. PICK b \in 0..MaxCalls, past \in BOOLEAN : b = said.by /\ past = TRUE
      BY <1>0
    <2>3. PICK w : w = Tokens(ks, b, past)
      OBVIOUS
    <2>4. \A i \in 1..Len(w) : w[i] \in Token /\ w[i].by = b /\ w[i].k \in Calm
      BY <2>1, <2>3, NewTokens
    <2>5. w \in Seq(Token)
      <3>1. Tokens(ks, b, past) \in Seq({t \in Token : t.by = b /\ t.k \in Calm})
        BY <2>1, NewTokens
      <3>2. w \in Seq({t \in Token : t.by = b /\ t.k \in Calm})
        BY <2>3, <3>1
      <3> QED BY <2>4, <3>2, Within
    <2>6. \A i \in 1..Len(w) : w[i] \in Own /\ w[i].k \in Calm
      BY <2>1, <2>2, <2>4 DEF Own
    <2> QED BY <1>6, <2>1, <2>2, <2>3, <2>5, <2>6
  <1>11. ASSUME NEW ks \in Texts, HelperWrites(ks)
         PROVE  WireInv'
    <2>1. /\ calls' = calls /\ UNCHANGED <<at, stdin>> /\ Writes(ks)
          /\ wire' = wire \o Tokens(ks, Background, TRUE)
      BY <1>11 DEF HelperWrites, server, runner
    <2>2. PICK b \in 0..MaxCalls, past \in BOOLEAN : b = Background /\ past = TRUE
      BY <1>0
    <2>3. PICK w : w = Tokens(ks, b, past)
      OBVIOUS
    <2>4. \A i \in 1..Len(w) : w[i] \in Token /\ w[i].by = b /\ w[i].k \in Calm
      BY <2>1, <2>3, NewTokens
    <2>5. w \in Seq(Token)
      <3>1. Tokens(ks, b, past) \in Seq({t \in Token : t.by = b /\ t.k \in Calm})
        BY <2>1, NewTokens
      <3>2. w \in Seq({t \in Token : t.by = b /\ t.k \in Calm})
        BY <2>3, <3>1
      <3> QED BY <2>4, <3>2, Within
    <2>6. \A i \in 1..Len(w) : w[i] \in Strays /\ w[i] \in Own /\ w[i].k \in Calm
      BY <2>2, <2>4 DEF Own, Strays
    <2>7. /\ Len(w) \in Nat /\ Len(wire') = Len(wire) + Len(w)
          /\ \A i \in 1..Len(wire) : wire'[i] = wire[i]
          /\ \A i \in 1..Len(w) : wire'[Len(wire) + i] = w[i]
          /\ \A i \in 1..Len(wire') : \/ i \in 1..Len(wire)
                                      \/ \E j \in 1..Len(w) : i = Len(wire) + j
      BY <1>5, <2>1, <2>2, <2>3, <2>5
    <2>8. ASSUME NEW i \in 1..Len(wire')
          PROVE  /\ wire'[i] \in Own' /\ wire'[i].k # "huge"
                 /\ wire'[i].k = "DONE" => EndsAnswer(i)'
      <3>1. ASSUME NEW j \in 1..Len(w), i = Len(wire) + j
            PROVE  wire'[i] \in Own' /\ wire'[i].k # "huge" /\ wire'[i].k # "DONE"
        BY <2>1, <2>6, <2>7, <3>1 DEF Own, Calm
      <3>2. CASE i \in 1..Len(wire)
        <4>1. wire'[i] = wire[i] /\ wire'[i] \in Own' /\ wire'[i].k # "huge"
          BY <2>1, <2>7, <3>2 DEF WireInv, Own
        <4>2. ASSUME wire[i].k = "DONE"
              PROVE  EndsAnswer(i)'
          <5>1. EndsAnswer(i)
            BY <3>2, <4>2 DEF WireInv
          <5>2. /\ i + 2 <= Len(wire) /\ wire[i + 1].k = "rc" /\ wire[i + 1].by = calls
                /\ wire[i + 2].k = "nl" /\ at \in {"loop", "dead"} /\ stdin = <<>>
                /\ \A j \in i + 3..Len(wire) : wire[j] \in Strays
            BY <5>1 DEF EndsAnswer
          <5>3. i + 1 \in 1..Len(wire) /\ i + 2 \in 1..Len(wire) /\ i + 2 <= Len(wire')
            BY <1>0, <2>7, <3>2, <5>2
          <5>4. wire'[i + 1] = wire[i + 1] /\ wire'[i + 2] = wire[i + 2]
            BY <2>7, <5>3
          <5>5. ASSUME NEW j \in i + 3..Len(wire')
                PROVE  wire'[j] \in Strays'
            <6>1. j \in 1..Len(wire')
              BY <1>0, <2>7, <3>2
            <6>2. CASE j \in 1..Len(wire)
              <7>1. j \in i + 3..Len(wire)
                BY <6>2
              <7> QED BY <2>7, <5>2, <6>2, <7>1 DEF Strays
            <6>3. ASSUME NEW m \in 1..Len(w), j = Len(wire) + m
                  PROVE  wire'[j] \in Strays'
              BY <2>6, <2>7, <6>3 DEF Strays
            <6> QED BY <2>7, <6>1, <6>2, <6>3
          <5> QED BY <2>1, <5>2, <5>3, <5>4, <5>5 DEF EndsAnswer
        <4> QED BY <4>1, <4>2
      <3> QED BY <2>7, <3>1, <3>2
    <2> QED BY <2>8 DEF WireInv
  <1>12. CASE ReadLine
    <2>1. wire' = AfterLine /\ calls' = calls /\ UNCHANGED <<at, stdin>>
      BY <1>12 DEF ReadLine, runner
    <2>2. /\ AfterLine \in Seq(Token) /\ Len(FirstLine) <= Len(wire) /\ Len(FirstLine) \in Nat
          /\ Len(AfterLine) = Len(wire) - Len(FirstLine)
          /\ \A i \in 1..Len(AfterLine) : AfterLine[i] = wire[Len(FirstLine) + i]
      <3>1. FirstLine \in Seq(Token)
        BY <1>0, FirstLineOfWire
      <3> QED BY <1>0, <3>1, FirstLineOfWire, LenProperties
    <2>3. Len(FirstLine) \in 0..Len(wire)
      BY <1>0, <2>2
    <2> QED BY <1>4, <2>1, <2>2, <2>3
  <1>13. CASE ReadOverlong
    <2>1. Overlong
      BY <1>13 DEF ReadOverlong
    <2>2. \A i \in DOMAIN FirstLine : i \in 1..Len(wire) /\ FirstLine[i] = wire[i]
      <3>1. /\ FirstLine \in Seq(Token) /\ Len(FirstLine) <= Len(wire)
            /\ \A i \in 1..Len(FirstLine) : FirstLine[i] = wire[i]
        BY <1>0, FirstLineOfWire
      <3> QED BY <1>0, <3>1, LenProperties
    <2> QED BY <2>1, <2>2 DEF Overlong, Has, WireInv
  <1>14. CASE ReadEof \/ Stopped \/ (TimeOut /\ phase' # "drain")
    <2>1. Forget
      BY <1>14 DEF ReadEof, Stopped, TimeOut
    <2> QED BY <1>1, <2>1 DEF Forget
  <1>15. CASE TimeOut /\ phase' = "drain"
    <2>1. ~(phase' = "idle")
      BY <1>15
    <2> QED BY <1>2, <1>15, <2>1 DEF TimeOut, runner, Return
  <1>16. CASE SendFails \/ Drained \/ Die
    <2>1. wire' = wire /\ calls' = calls /\ stdin' = stdin /\ at' = "dead"
      BY <1>16 DEF SendFails, Drained, Die, Stop, RunnerEnds, server
    <2> QED BY <1>2, <2>1
  <1>17. CASE Sent \/ StartHelper \/ HelperEnds \/ Flood \/ UNCHANGED vars
    <2>1. UNCHANGED <<calls, stdin, wire, at>>
      BY <1>17 DEF Sent, StartHelper, HelperEnds, Flood, vars, server, runner
    <2> QED BY <1>2, <2>1
  <1>18. ASSUME NEW ks, NEW s, PrintText(s, ks)
         PROVE  WireInv'
    <2>1. UNCHANGED <<calls, stdin, wire, at>>
      BY <1>18 DEF PrintText, server
    <2> QED BY <1>2, <2>1
  <1> QED BY <1>7, <1>8, <1>9, <1>10, <1>11, <1>12, <1>13, <1>14, <1>15, <1>16, <1>17, <1>18,
             Zenon DEF Next, Server, Runner, User

\* The runner answers the block that it has run, and the DONE comes last.
LEMMA BlockStep ==
  ASSUME Typed, HandInv, TurnInv, BlockInv, [Next]_vars, ~tear'
  PROVE  BlockInv'
  <1>0. /\ said \in [stdout : Seq(Token), stderr : Seq(Token), by : 0..MaxCalls]
        /\ calls \in 0..MaxCalls
    BY DEF Typed, TypeOK
  <1>1. ASSUME at' \notin {"run", "frame"}
        PROVE  BlockInv'
    BY <1>1 DEF BlockInv
  <1>2. ASSUME UNCHANGED <<at, said, chunks, calls>>
        PROVE  BlockInv'
    BY <1>2 DEF BlockInv
  <1>3. CASE BeginCall
    <2>1. at \notin {"run", "frame"}
      BY <1>3 DEF BeginCall, TurnInv
    <2> QED BY <1>1, <1>3, <2>1 DEF BeginCall
  <1>4. CASE ReadCode
    <2>1. stdin # <<>> /\ said' = Silence(Head(stdin)) /\ at' = "run" /\ calls' = calls
      BY <1>4 DEF ReadCode, server
    <2>2. stdin = <<calls>>
      BY <2>1 DEF TurnInv
    <2>3. Head(stdin) = calls
      BY <2>2
    <2>4. said'.by = calls /\ said'.stdout = <<>> /\ said'.stderr = <<>>
      BY <1>0, <2>1, <2>3, SilenceTyped
    <2>5. <<>> \in Seq(Quiet)
      BY EmptySeq
    <2> QED BY <2>1, <2>4, <2>5 DEF BlockInv, Quiet
  <1>5. CASE Finish
    <2>1. /\ at = "run" /\ at' = "frame" /\ chunks' = Frames /\ said' = said /\ calls' = calls
      BY <1>5 DEF Finish, server
    <2>2. said.by = calls /\ said.stdout \in Seq(Quiet) /\ said.stderr \in Seq(Quiet)
      BY <2>1 DEF BlockInv
    <2>3. {t \in Token : t.by = said.by /\ ~t.raw /\ t.k \in Calm} \subseteq Quiet
      BY DEF Quiet
    <2>4. PICK n \in Nat : /\ Len(Frames) = n + 1 /\ Frames[n + 1] = DoneLine(said.by)
                           /\ \A i \in 1..n : Frames[i] \in Seq(Quiet)
      BY <1>0, <2>2, <2>3, FramesOf
    <2>5. Len(chunks') - 1 = n /\ Len(chunks') = n + 1
      BY <2>1, <2>4
    <2>6. chunks'[Len(chunks')] = DoneLine(calls)
      BY <2>1, <2>2, <2>4
    <2>7. \A i \in 1..Len(chunks') - 1 : chunks'[i] \in Seq(Quiet)
      BY <2>1, <2>4, <2>5
    <2> QED BY <2>1, <2>2, <2>6, <2>7 DEF BlockInv, Quiet
  <1>6. CASE WriteChunk
    <2>1. /\ at = "frame" /\ chunks # <<>> /\ chunks' = Tail(chunks) /\ said' = said
          /\ calls' = calls /\ at' = IF chunks' = <<>> THEN "loop" ELSE "frame"
      BY <1>6 DEF WriteChunk, server, Typed
    <2>2. CASE chunks' = <<>>
      BY <1>1, <2>1, <2>2
    <2>3. CASE chunks' # <<>>
      <3> DEFINE SM == Seq(Mine)
      <3>1. chunks \in Seq(SM)
        BY DEF HandInv
      <3> HIDE DEF SM
      <3>2. /\ Tail(chunks) \in Seq(SM) /\ Len(Tail(chunks)) = Len(chunks) - 1
            /\ \A i \in 1..Len(chunks) - 1 : Tail(chunks)[i] = chunks[i + 1]
            /\ Len(chunks) \in Nat
        BY <2>1, <3>1, HeadTailProperties, LenProperties
      <3>3. Len(Tail(chunks)) > 0
        BY <2>1, <2>3, <3>2, EmptySeq, LenProperties
      <3>4. chunks'[Len(chunks')] = chunks[Len(chunks)]
        BY <2>1, <3>2, <3>3
      <3>5. ASSUME NEW i \in 1..Len(chunks') - 1
            PROVE  chunks'[i] \in Seq(Quiet)
        <4>1. chunks'[i] = chunks[i + 1] /\ i + 1 \in 1..Len(chunks) - 1
          BY <2>1, <3>2
        <4> QED BY <2>1, <4>1 DEF BlockInv
      <3>6. chunks[Len(chunks)] = DoneLine(calls)
        BY <2>1 DEF BlockInv
      <3> QED BY <2>1, <3>4, <3>5, <3>6 DEF BlockInv, Quiet
    <2> QED BY <2>2, <2>3
  <1>7. ASSUME NEW ks \in Texts, NEW s \in Streams, PrintText(s, ks)
        PROVE  BlockInv'
    <2>1. PICK b \in 0..MaxCalls, past \in BOOLEAN : b = said.by /\ past = FALSE
      BY <1>0
    <2>2. PICK w : w = Tokens(ks, b, past)
      OBVIOUS
    <2>3. /\ at = "run" /\ at' = "run" /\ calls' = calls /\ Writes(ks)
          /\ said' = [said EXCEPT ![s] = said[s] \o w]
      BY <1>7, <2>1, <2>2 DEF PrintText, server
    <2>4. w \in Seq(Quiet)
      <3>1. w \in Seq({t \in Token : t.by = b /\ t.k \in Calm})
        BY <2>2, <2>3, NewTokens
      <3>2. \A i \in 1..Len(w) : w[i] \in Quiet
        BY <2>2, <2>3, NewTokens DEF Quiet
      <3> QED BY <3>1, <3>2, Within
    <2>5. said.by = calls /\ said.stdout \in Seq(Quiet) /\ said.stderr \in Seq(Quiet)
      BY <2>3 DEF BlockInv
    <2>6. said[s] \in Seq(Quiet)
      BY <2>5 DEF Streams
    <2>7. PICK both : both = said[s] \o w
      OBVIOUS
    <2>8. both \in Seq(Quiet)
      BY <2>4, <2>6, <2>7, Joined
    <2>9. said'.by = calls /\ said'.stdout \in Seq(Quiet) /\ said'.stderr \in Seq(Quiet)
      BY <1>0, <2>3, <2>5, <2>7, <2>8 DEF Streams
    <2> QED BY <2>3, <2>9 DEF BlockInv, Quiet
  <1>8. CASE \/ SendFails \/ Drained \/ Die \/ ReadEof \/ Stopped
             \/ (TimeOut /\ phase' # "drain")
    <2>1. at' \in {"dead", "none"}
      BY <1>8 DEF SendFails, Drained, Die, ReadEof, Stopped, TimeOut, Stop, RunnerEnds, Forget
    <2> QED BY <1>1, <2>1
  <1>9. CASE TimeOut /\ phase' = "drain"
    <2>1. ~(phase' = "idle")
      BY <1>9
    <2> QED BY <1>2, <1>9, <2>1 DEF TimeOut, runner, Return
  <1>10. CASE Sent \/ ReadLine \/ ReadOverlong \/ StartHelper \/ HelperEnds \/ Flood
              \/ UNCHANGED vars
    <2>1. UNCHANGED <<at, said, chunks, calls>>
      BY <1>10 DEF Sent, ReadLine, ReadOverlong, StartHelper, HelperEnds, Flood, vars, server,
            runner
    <2> QED BY <1>2, <2>1
  <1>11. ASSUME NEW ks, RawWrite(ks) \/ HelperWrites(ks)
         PROVE  BlockInv'
    <2>1. UNCHANGED <<at, said, chunks, calls>>
      BY <1>11 DEF RawWrite, HelperWrites, server, runner
    <2> QED BY <1>2, <2>1
  <1> QED BY <1>3, <1>4, <1>5, <1>6, <1>7, <1>8, <1>9, <1>10, <1>11, Zenon
        DEF Next, Server, Runner, User

\* The server reads the wire and nothing else.
LEMMA ReaderStep ==
  ASSUME Typed, FreshInv, WireInv, ReaderInv, [Next]_vars
  PROVE  ReaderInv'
  <1>1. ASSUME buf' = <<>>, text' = Empty
        PROVE  ReaderInv'
    <2>1. <<>> \in Seq(Own')
      BY EmptySeq, Zenon
    <2> QED BY <1>1, <2>1 DEF ReaderInv, Empty
  <1>2. ASSUME calls' = calls, buf' \in Seq(Own), text' \in [Streams -> Seq(Own)]
        PROVE  ReaderInv'
    BY <1>2 DEF ReaderInv, Own
  <1>3. ASSUME UNCHANGED <<calls, buf, text>>
        PROVE  ReaderInv'
    BY <1>3 DEF ReaderInv, Own
  <1>4. ASSUME NEW o, Return(o)
        PROVE  ReaderInv'
    BY <1>1, <1>4 DEF Return, FreshLocals
  <1>5. CASE BeginCall
    BY <1>1, <1>5 DEF BeginCall, FreshInv, reader
  <1>6. CASE Sent
    BY <1>3, <1>6 DEF Sent, reader
  <1>7. CASE SendFails \/ Drained
    BY <1>3, <1>7 DEF SendFails, Drained, Stop, reader
  <1>8. CASE ReadOverlong \/ ReadEof \/ Stopped
    BY <1>4, <1>8 DEF ReadOverlong, ReadEof, Stopped
  <1>9. CASE TimeOut
    BY <1>1, <1>4, <1>9 DEF TimeOut
  <1>10. CASE ReadLine
    <2>1. wire \in Seq(Own)
      <3>1. wire \in Seq(Token) /\ \A i \in 1..Len(wire) : wire[i] \in Own
        BY DEF Typed, TypeOK, WireInv
      <3> QED BY <3>1, Within
    <2>2. FirstLine \in Seq(Own)
      BY <2>1, FirstLineOfWire
    <2>3. buf \in Seq(Own) /\ text \in [Streams -> Seq(Own)] /\ calls' = calls
      BY <1>10 DEF ReaderInv, ReadLine
    <2>4. ASSUME NEW s \in Streams, Open(s)
          PROVE  ReaderInv'
      BY <1>2, <2>3, <2>4, EmptySeq DEF Open
    <2>5. ASSUME NEW s \in Streams, Close(s)
          PROVE  ReaderInv'
      <3>1. Chop(buf) \in Seq(Own)
        BY <2>3, Chopped
      <3> QED BY <1>2, <2>3, <2>5, <3>1 DEF Close
    <2>6. CASE /\ buf' = IF sect = "none" THEN buf ELSE buf \o FirstLine
               /\ UNCHANGED <<sect, text, phase, after, last>>
      <3>1. buf \o FirstLine \in Seq(Own)
        BY <2>2, <2>3, Joined, Zenon
      <3> QED BY <1>2, <2>3, <2>6, <3>1
    <2>7. \/ Open("stdout") \/ Close("stdout") \/ Open("stderr") \/ Close("stderr")
          \/ Return(Result("answered", text, ReturnCode))
          \/ /\ buf' = IF sect = "none" THEN buf ELSE buf \o FirstLine
             /\ UNCHANGED <<sect, text, phase, after, last>>
      BY <1>10, Zenon DEF ReadLine
    <2>8. {"stdout", "stderr"} \subseteq Streams
      BY DEF Streams
    <2> QED BY <1>4, <2>4, <2>5, <2>6, <2>7, <2>8
  <1>11. CASE Runner \/ User \/ UNCHANGED vars
    <2>1. UNCHANGED <<calls, buf, text>>
      BY <1>11 DEF Runner, User, ReadCode, Finish, WriteChunk, Die, RawWrite, HelperWrites,
             PrintText, StartHelper, HelperEnds, Flood, server, vars, reader
    <2> QED BY <1>3, <2>1
  <1> QED BY <1>5, <1>6, <1>7, <1>8, <1>9, <1>10, <1>11 DEF Next, Server

\* Every step keeps both ends in step.
LEMMA InStepStep ==
  ASSUME Typed, HandInv, StepInv, [Next]_vars
  PROVE  StepInv'
  <1>1. FreshInv /\ FreshInv'
    BY FreshStep DEF StepInv
  <1>2. ASSUME ~tear'
        PROVE  InStep'
    <2>1. CASE Starts
      BY <1>1, <2>1, StartedInStep
    <2>2. CASE ~tear
      <3>1. WireInv /\ TurnInv /\ BlockInv /\ ReaderInv
        BY <2>2 DEF StepInv, InStep
      <3>2. TurnInv'
        BY <1>2, <3>1, TurnStep
      <3>3. WireInv' /\ BlockInv'
        BY <1>2, <3>1, AnswerStep, BlockStep
      <3>4. ReaderInv'
        BY <1>1, <3>1, ReaderStep
      <3> QED BY <3>2, <3>3, <3>4 DEF InStep
    <2> QED BY <1>2, <2>1, <2>2, TearStep
  <1> QED BY <1>1, <1>2 DEF StepInv

\* Text of an outcome that no block wrote but the one given.
TextOf(call) == {t \in Shown : t.by \in {call, Background}}

\* The latest outcome, if it is an answer.
OwnInv ==
  /\ after.kind # "answered"
  /\ last.kind = "answered" /\ ~tear =>
       /\ last.code = last.call
       /\ \A s \in Streams : last.text[s] \in Seq(TextOf(last.call))

\* A call whose answer is not the runner's own is one that user code has ended.
LEMMA OwnStep ==
  ASSUME Typed, StepInv, OwnInv, [Next]_vars
  PROVE  OwnInv'
  <1>0. /\ TypeOK /\ text \in [Streams -> Seq(Token)] /\ Empty \in [Streams -> Seq(Token)]
        /\ NoCode \in -1..MaxCalls /\ text \in [Streams -> Seq(Unmarked)]
    <2>1. NoCode \in -1..MaxCalls
      BY ProtocolBounds DEF NoCode
    <2>2. text \in [Streams -> Seq(Token)]
      BY DEF Typed, TypeOK
    <2> QED BY <2>1, <2>2, EmptyText, PlainText DEF Typed, TypeOK
  <1>1. Pending.kind # "answered"
    BY PendingTyped
  <1>2. ASSUME UNCHANGED last, after'.kind # "answered", ~tear' => ~tear
        PROVE  OwnInv'
    BY <1>2 DEF OwnInv
  <1>3. ASSUME after'.kind # "answered", last'.kind # "answered"
        PROVE  OwnInv'
    BY <1>3 DEF OwnInv
  <1>4. ASSUME NEW o, o.kind # "answered", Return(o)
        PROVE  OwnInv'
    BY <1>1, <1>3, <1>4 DEF Return, FreshLocals
  <1>5. CASE BeginCall
    BY <1>1, <1>3, <1>5 DEF BeginCall, OwnInv
  <1>6. CASE SendFails
    <2>1. Result("pipe_closed", Empty, NoCode).kind = "pipe_closed"
      BY DEF Result
    <2> QED BY <1>2, <1>6, <2>1 DEF SendFails, Stop
  <1>7. CASE Drained
    <2> DEFINE o == Result("timed_out", [Empty EXCEPT !.stdout = wire], NoCode)
    <2>1. o.kind = "timed_out"
      BY DEF Result
    <2>2. Stop(o) /\ UNCHANGED tear
      BY <1>7 DEF Drained
    <2> HIDE DEF o
    <2> QED BY <1>2, <2>1, <2>2 DEF Stop
  <1>8. CASE ReadOverlong
    <2>1. Result("error", Empty, NoCode).kind = "error"
      BY DEF Result
    <2> QED BY <1>4, <1>8, <2>1 DEF ReadOverlong
  <1>9. CASE ReadEof
    <2>1. Result("exited", EndText, NoCode).kind = "exited"
      BY DEF Result
    <2>2. Return(Result("exited", EndText, NoCode))
      BY <1>9 DEF ReadEof, EndText
    <2> QED BY <1>4, <2>1, <2>2
  <1>10. CASE TimeOut
    <2>1. Result("timed_out", Empty, NoCode).kind = "timed_out"
      BY DEF Result
    <2>2. CASE Return(Result("timed_out", Empty, NoCode))
      BY <1>4, <2>1, <2>2
    <2>3. CASE UNCHANGED <<after, last>> /\ UNCHANGED tear
      BY <1>2, <2>3 DEF OwnInv
    <2> QED BY <1>10, <2>2, <2>3 DEF TimeOut
  <1>11. CASE Stopped
    BY <1>4, <1>11 DEF Stopped, OwnInv
  <1>12. CASE Sent
    BY <1>2, <1>12 DEF Sent, user, OwnInv
  <1>13. CASE ReadLine
    <2>1. tear' = tear
      BY <1>13 DEF ReadLine, user
    <2>2. CASE UNCHANGED <<after, last>>
      BY <1>2, <2>1, <2>2 DEF OwnInv
    <2>3. CASE Return(Result("answered", text, ReturnCode)) /\ Stripped # <<>>
               /\ Stripped[1].k = "DONE"
      <3>1. last' = Result("answered", text, ReturnCode) /\ after' = Pending
        BY <2>3 DEF Return, FreshLocals
      <3>2. ASSUME ~tear
            PROVE  /\ last'.code = last'.call
                   /\ \A s \in Streams :
                        last'.text[s] \in Seq(TextOf(last'.call))
        <4>1. WireInv /\ ReaderInv
          BY <3>2 DEF StepInv, InStep
        <4>2. Has(wire, {"nl"}) \/ wire # <<>>
          BY <1>13 DEF ReadLine
        <4>3. ReturnCode = calls
          BY <2>3, <4>1, <4>2, AnswerRead
        <4>4. ReturnCode \in -1..MaxCalls
          <5>1. calls \in 0..MaxCalls /\ MaxCalls \in Nat
            BY <1>0, ProtocolBounds DEF TypeOK
          <5> QED BY <4>3, <5>1
        <4>5. /\ last'.code = ReturnCode /\ last'.call = calls
              /\ \A s \in Streams : last'.text[s] = Truncate(text[s])
          <5>1. "answered" \in KindsOfOutcome
            BY DEF KindsOfOutcome
          <5>2. TypeOK /\ text \in [Streams -> Seq(Unmarked)]
            BY <1>0
          <5> QED BY <3>1, <4>4, <5>1, <5>2, ResultOf
        <4>6. ASSUME NEW s \in Streams
              PROVE  Truncate(text[s]) \in Seq(TextOf(calls))
          <5>1. PICK f : f = text[s]
            OBVIOUS
          <5>2. f \in Seq(Own) /\ f \in Seq(Unmarked)
            BY <1>0, <4>1, <5>1 DEF ReaderInv
          <5>3. PICK r : r = Truncate(f)
            OBVIOUS
          <5>4. /\ r \in Seq(Shown)
                /\ \A i \in 1..Len(r) :
                     r[i].by = Background \/ (i \in 1..Len(f) /\ r[i].by = f[i].by)
            BY <5>2, <5>3, Truncated
          <5>5. \A i \in 1..Len(r) : r[i] \in Shown
            BY <5>4, ElementOfSeq
          <5>6. \A i \in 1..Len(f) : f[i].by \in {calls, Background}
            BY <5>2, ElementOfSeq DEF Own
          <5>7. \A i \in 1..Len(r) : r[i] \in TextOf(calls)
            BY <5>4, <5>5, <5>6 DEF TextOf
          <5>8. r \in Seq(TextOf(calls))
            BY <5>4, <5>7, Within, Zenon
          <5> QED BY <5>1, <5>3, <5>8
        <4> QED BY <4>3, <4>5, <4>6
      <3> QED BY <1>1, <2>1, <3>1, <3>2 DEF OwnInv
    <2>4. \/ Open("stdout") \/ Close("stdout") \/ Open("stderr") \/ Close("stderr")
          \/ UNCHANGED <<after, last>>
          \/ (Return(Result("answered", text, ReturnCode)) /\ Stripped # <<>>
               /\ Stripped[1].k = "DONE")
      BY <1>13, Zenon DEF ReadLine
    <2> QED BY <2>2, <2>3, <2>4 DEF Open, Close
  <1>14. CASE Runner \/ HelperEnds \/ Flood \/ UNCHANGED vars
    <2>1. UNCHANGED <<after, last, tear>>
      BY <1>14 DEF Runner, ReadCode, Finish, WriteChunk, Die, HelperEnds, Flood, server, vars,
            user
    <2> QED BY <1>2, <2>1 DEF OwnInv
  <1>15. ASSUME NEW ks, RawWrite(ks) \/ HelperWrites(ks) \/ StartHelper
                       \/ \E s \in Streams : PrintText(s, ks)
         PROVE  OwnInv'
    <2>1. UNCHANGED <<after, last>> /\ (~tear' => ~tear)
      BY <1>15 DEF RawWrite, HelperWrites, StartHelper, PrintText, Writes, server
    <2> QED BY <1>2, <2>1 DEF OwnInv
  <1> QED BY <1>5, <1>6, <1>7, <1>8, <1>9, <1>10, <1>11, <1>12, <1>13, <1>14, <1>15, Zenon
        DEF Next, Server, User

\* The two ends start in step.
LEMMA InStepInit == Init => StepInv /\ OwnInv
  <1> SUFFICES ASSUME Init PROVE StepInv /\ OwnInv
    OBVIOUS
  <1>1. OwnInv
    BY PendingTyped DEF Init, OwnInv
  <1>2. /\ wire = <<>> /\ stdin = <<>> /\ at = "none" /\ buf = <<>> /\ text = Empty
        /\ phase = "idle"
    BY DEF Init
  <1>3. <<>> \in Seq(Strays) /\ <<>> \in Seq(Own)
    BY EmptySeq, Zenon
  <1>4. WireInv
    <2>1. Len(wire) = 0
      BY <1>2
    <2> QED BY <2>1 DEF WireInv
  <1>5. TurnInv /\ BlockInv /\ ReaderInv /\ FreshInv
    BY <1>2, <1>3 DEF TurnInv, BlockInv, ReaderInv, FreshInv, Empty
  <1> QED BY <1>1, <1>4, <1>5 DEF StepInv, InStep

\* Unless user code writes or prints a DONE or an overlong line (a printed DONE line ends
\* the answer as well, runner_pool.py:346), an answer is the one of its own call: its
\* return code, and no text of an earlier block, whatever else the block and the helpers
\* of every earlier block write between and across the frames (runner_pool.py:286-360,
\* runner.py:56-92).
THEOREM AnswerIsItsOwn == Spec => []OwnAnswer
  <1> DEFINE I == Typed /\ OrderInv /\ StepInv /\ OwnInv
  <1>1. Init => I
    BY InitTyped, OrderInit, InStepInit
  <1>2. I /\ [Next]_vars => I'
    BY StepTyped, OrderStep, InStepStep, OwnStep DEF OrderInv
  <1>3. I => OwnAnswer
    <2> SUFFICES ASSUME I, Returned("answered"), ~tear
                 PROVE  /\ last.code = last.call
                        /\ \A s \in Streams : \A i \in DOMAIN last.text[s] :
                             last.text[s][i].by \in {last.call, Background}
      BY DEF OwnAnswer
    <2>1. /\ last.code = last.call
          /\ \A s \in Streams :
               last.text[s] \in Seq(TextOf(last.call))
      BY DEF OwnInv, Returned
    <2>2. ASSUME NEW s \in Streams, NEW i \in DOMAIN last.text[s]
          PROVE  last.text[s][i].by \in {last.call, Background}
      <3>1. PICK r : r = last.text[s]
        OBVIOUS
      <3>2. r \in Seq(TextOf(last.call))
        BY <2>1, <3>1
      <3>3. r[i] \in TextOf(last.call)
        BY <2>2, <3>1, <3>2, LenProperties, ElementOfSeq
      <3> QED BY <3>1, <3>3 DEF TextOf
    <2> QED BY <2>1, <2>2
  <1> HIDE DEF I
  <1> QED BY <1>1, <1>2, <1>3, PTL DEF Spec

-----------------------------------------------------------------------------
(* What comes back of what was printed.                                     *)

Body(s, by) == IF EndsLine(s) THEN s ELSE s \o Line(<<>>, by)

Section(tag, s, end, by) == Line(<<tag>>, by) \o (Body(s, by) \o Line(<<end>>, by))

\* All that the runner writes of the block it ran last.
Answer == Section("OUT", said.stdout, "OUT_END", said.by)
            \o (Section("ERR", said.stderr, "ERR_END", said.by) \o DoneLine(said.by))

\* x is r with s behind it.
Glued(x, r, s) ==
  /\ x \in Seq(Token) /\ Len(x) = Len(r) + Len(s)
  /\ \A i \in 1..Len(r) : x[i] = r[i]
  /\ \A i \in 1..Len(s) : x[Len(r) + i] = s[i]

\* What a concatenation has at each position.
LEMMA Glue ==
  ASSUME NEW r \in Seq(Token), NEW s \in Seq(Token)
  PROVE  Glued(r \o s, r, s)
  <1>1. PICK T : T = Token
    OBVIOUS
  <1>2. /\ r \o s \in Seq(T) /\ Len(r \o s) = Len(r) + Len(s)
        /\ \A i \in 1..Len(r) : (r \o s)[i] = r[i]
        /\ \A i \in 1..Len(s) : (r \o s)[Len(r) + i] = s[i]
    BY <1>1, Joined
  <1> QED BY <1>1, <1>2 DEF Glued

\* What the runner writes in one line is one line.
LEMMA LineOf ==
  ASSUME NEW by \in 0..MaxCalls
  PROVE  /\ \A tag \in Kinds : /\ Line(<<tag>>, by) \in Seq(Token) /\ Len(Line(<<tag>>, by)) = 2
                               /\ Line(<<tag>>, by)[1].k = tag /\ Line(<<tag>>, by)[2].k = "nl"
         /\ Line(<<>>, by) \in Seq(Token) /\ Len(Line(<<>>, by)) = 1
         /\ Line(<<>>, by)[1].k = "nl"
  <1>1. PICK past \in BOOLEAN : past = FALSE
    OBVIOUS
  <1>2. ASSUME NEW l \in Seq(Kinds)
        PROVE  /\ Tokens(l, by, past) \in Seq(Token) /\ Len(Tokens(l, by, past)) = Len(l)
               /\ \A i \in 1..Len(l) : Tokens(l, by, past)[i].k = l[i]
    BY TokensOf
  <1>3. ASSUME NEW tag \in Kinds
        PROVE  /\ Line(<<tag>>, by) \in Seq(Token) /\ Len(Line(<<tag>>, by)) = 2
               /\ Line(<<tag>>, by)[1].k = tag /\ Line(<<tag>>, by)[2].k = "nl"
    <2>1. PICK l : l = Append(<<tag>>, "nl")
      OBVIOUS
    <2>2. l \in Seq(Kinds) /\ Len(l) = 2 /\ l[1] = tag /\ l[2] = "nl"
      BY <2>1 DEF Kinds
    <2>3. PICK r : r = Tokens(l, by, past)
      OBVIOUS
    <2>4. r \in Seq(Token) /\ Len(r) = 2 /\ \A i \in 1..2 : r[i].k = l[i]
      BY <1>2, <2>2, <2>3
    <2>5. 1 \in 1..2 /\ 2 \in 1..2
      OBVIOUS
    <2>6. r[1].k = tag /\ r[2].k = "nl"
      BY <2>2, <2>4, <2>5
    <2>7. Line(<<tag>>, by) = r
      BY <1>1, <2>1, <2>3 DEF Line
    <2> QED BY <2>4, <2>6, <2>7
  <1>4. PICK l : l = Append(<<>>, "nl")
    OBVIOUS
  <1>5. l \in Seq(Kinds) /\ Len(l) = 1 /\ l[1] = "nl"
    BY <1>4 DEF Kinds
  <1>6. PICK r : r = Tokens(l, by, past)
    OBVIOUS
  <1>7. r \in Seq(Token) /\ Len(r) = 1 /\ \A i \in 1..1 : r[i].k = l[i]
    BY <1>2, <1>5, <1>6
  <1>8. Line(<<>>, by) = r
    BY <1>1, <1>4, <1>6 DEF Line
  <1>9. 1 \in 1..1
    OBVIOUS
  <1>10. r[1].k = "nl"
    BY <1>5, <1>7, <1>9
  <1> QED BY <1>3, <1>7, <1>8, <1>10

\* The text in its frame ends with a newline; the parser takes one off again.
LEMMA BodyOf ==
  ASSUME NEW s \in Seq(Token), NEW by \in 0..MaxCalls
  PROVE  /\ Body(s, by) \in Seq(Token) /\ Len(Body(s, by)) \in Nat \ {0}
         /\ Body(s, by)[Len(Body(s, by))].k = "nl"
         /\ Chop(Body(s, by)) = Chop(s)
         /\ ~Has(s, Sentinels) => \A i \in 1..Len(Body(s, by)) : Body(s, by)[i].k \notin Sentinels
  <1>0. Len(s) \in Nat /\ DOMAIN s = 1..Len(s)
    BY LenProperties
  <1>1. CASE EndsLine(s)
    <2>1. Len(s) # 0
      BY <1>1, EmptySeq DEF EndsLine
    <2>2. Body(s, by) = s
      BY <1>1 DEF Body
    <2>3. s[Len(s)].k = "nl"
      BY <1>1 DEF EndsLine
    <2> QED BY <1>0, <2>1, <2>2, <2>3 DEF Has
  <1>2. CASE ~EndsLine(s)
    <2>1. PICK n : n = Line(<<>>, by)
      OBVIOUS
    <2>2. n \in Seq(Token) /\ Len(n) = 1 /\ n[1].k = "nl"
      BY <2>1, LineOf, Zenon
    <2>3. PICK r : r = s \o n
      OBVIOUS
    <2>4. /\ r \in Seq(Token) /\ Len(r) = Len(s) + 1
          /\ \A i \in 1..Len(s) : r[i] = s[i]
          /\ \A i \in 1..1 : r[Len(s) + i] = n[i]
      <3>1. Glued(r, s, n)
        BY <2>2, <2>3, Glue
      <3> QED BY <2>2, <3>1 DEF Glued
    <2>5. r[Len(s) + 1].k = "nl"
      <3>1. 1 \in 1..1
        OBVIOUS
      <3> QED BY <2>2, <2>4, <3>1
    <2>6. EndsLine(r)
      BY <1>0, <2>4, <2>5, EmptySeq DEF EndsLine
    <2>7. Chop(r) = s
      <3>1. Chop(r) = SubSeq(r, 1, Len(r) - 1)
        BY <2>6 DEF Chop, Front
      <3>2. Len(r) - 1 = Len(s) /\ Len(s) \in 0..Len(r)
        BY <1>0, <2>4
      <3>3. PICK c : c = SubSeq(r, 1, Len(s))
        OBVIOUS
      <3>4. c \in Seq(Token) /\ Len(c) = Len(s) /\ \A i \in 1..Len(s) : c[i] = r[i]
        BY <2>4, <3>2, <3>3, Prefix
      <3>5. \A i \in 1..Len(c) : c[i] = s[i]
        BY <2>4, <3>4
      <3>6. c = s
        BY <3>4, <3>5, SeqEqual
      <3> QED BY <3>1, <3>2, <3>3, <3>6
    <2>8. Chop(s) = s
      BY <1>2 DEF Chop
    <2>9. ASSUME ~Has(s, Sentinels), NEW i \in 1..Len(r)
          PROVE  r[i].k \notin Sentinels
      <3>1. CASE i \in 1..Len(s)
        BY <1>0, <2>4, <2>9, <3>1 DEF Has
      <3>2. CASE i = Len(s) + 1
        BY <2>5, <3>2 DEF Sentinels
      <3> QED BY <1>0, <2>4, <3>1, <3>2
    <2>10. Body(s, by) = r
      BY <1>2, <2>1, <2>3 DEF Body
    <2>11. Len(r) \in Nat \ {0} /\ r[Len(r)].k = "nl"
      BY <1>0, <2>4, <2>5
    <2> QED BY <2>4, <2>7, <2>8, <2>9, <2>10, <2>11
  <1> QED BY <1>1, <1>2

\* x is the text b in its frame, token by token.
SectionParts(x, tag, b, end) ==
  /\ x \in Seq(Token) /\ Len(x) = Len(b) + 4 /\ Len(b) \in Nat \ {0}
  /\ x[1].k = tag /\ x[2].k = "nl" /\ \A i \in 1..Len(b) : x[2 + i] = b[i]
  /\ x[Len(b) + 3].k = end /\ x[Len(b) + 4].k = "nl"

\* A section: its tag, the text and the end tag.
LEMMA SectionOf ==
  ASSUME NEW s \in Seq(Token), NEW by \in 0..MaxCalls, NEW tag \in Kinds, NEW end \in Kinds
  PROVE  SectionParts(Section(tag, s, end, by), tag, Body(s, by), end)
  <1>1. PICK x : x = Section(tag, s, end, by)
    OBVIOUS
  <1>2. PICK b : b = Body(s, by)
    OBVIOUS
  <1>3. PICK l : l = Line(<<tag>>, by)
    OBVIOUS
  <1>4. PICK e : e = Line(<<end>>, by)
    OBVIOUS
  <1>5. l \in Seq(Token) /\ Len(l) = 2 /\ l[1].k = tag /\ l[2].k = "nl"
    BY <1>3, LineOf
  <1>6. e \in Seq(Token) /\ Len(e) = 2 /\ e[1].k = end /\ e[2].k = "nl"
    BY <1>4, LineOf
  <1>7. b \in Seq(Token) /\ Len(b) \in Nat \ {0}
    BY <1>2, BodyOf
  <1>8. PICK r : r = b \o e
    OBVIOUS
  <1>9. /\ r \in Seq(Token) /\ Len(r) = Len(b) + 2
        /\ \A i \in 1..Len(b) : r[i] = b[i]
        /\ \A i \in 1..2 : r[Len(b) + i] = e[i]
    <2>1. Glued(r, b, e)
      BY <1>6, <1>7, <1>8, Glue
    <2> QED BY <1>6, <2>1 DEF Glued
  <1>10. PICK y : y = l \o r
    OBVIOUS
  <1>11. /\ y \in Seq(Token) /\ Len(y) = 2 + Len(r)
         /\ \A i \in 1..2 : y[i] = l[i]
         /\ \A i \in 1..Len(r) : y[2 + i] = r[i]
    <2>1. Glued(y, l, r)
      BY <1>5, <1>9, <1>10, Glue
    <2> QED BY <1>5, <2>1 DEF Glued
  <1>12. x = y
    BY <1>1, <1>2, <1>3, <1>4, <1>8, <1>10 DEF Section
  <1>13. 1 \in 1..2 /\ 2 \in 1..2
    OBVIOUS
  <1>14. r[Len(b) + 1] = e[1] /\ r[Len(b) + 2] = e[2] /\ y[1] = l[1] /\ y[2] = l[2]
    BY <1>9, <1>11, <1>13
  <1>15. Len(b) + 1 \in 1..Len(r) /\ Len(b) + 2 \in 1..Len(r)
    BY <1>7, <1>9
  <1>16. y[2 + (Len(b) + 1)] = r[Len(b) + 1] /\ y[2 + (Len(b) + 2)] = r[Len(b) + 2]
    BY <1>11, <1>15
  <1>17. 2 + (Len(b) + 1) = Len(b) + 3 /\ 2 + (Len(b) + 2) = Len(b) + 4
         /\ 2 + Len(r) = Len(b) + 4
    BY <1>7, <1>9
  <1>18. \A i \in 1..Len(b) : y[2 + i] = b[i]
    BY <1>7, <1>9, <1>11
  <1>19. SectionParts(x, tag, b, end)
    BY <1>5, <1>6, <1>7, <1>11, <1>12, <1>14, <1>16, <1>17, <1>18 DEF SectionParts
  <1> QED BY <1>1, <1>2, <1>19

\* Where in an answer what is.
AnswerParts(a, b, c) ==
  /\ a \in Seq(Token) /\ Len(b) \in Nat \ {0} /\ Len(c) \in Nat \ {0}
  /\ Len(a) = Len(b) + Len(c) + 11
  /\ a[1].k = "OUT" /\ a[2].k = "nl" /\ \A i \in 1..Len(b) : a[2 + i] = b[i]
  /\ a[Len(b) + 3].k = "OUT_END" /\ a[Len(b) + 4].k = "nl"
  /\ a[Len(b) + 5].k = "ERR" /\ a[Len(b) + 6].k = "nl"
  /\ \A i \in 1..Len(c) : a[Len(b) + 6 + i] = c[i]
  /\ a[Len(b) + Len(c) + 7].k = "ERR_END" /\ a[Len(b) + Len(c) + 8].k = "nl"
  /\ a[Len(b) + Len(c) + 9].k = "DONE"

\* An answer: the two sections and the DONE line.
LEMMA AnswerOf ==
  ASSUME said \in [stdout : Seq(Token), stderr : Seq(Token), by : 0..MaxCalls]
  PROVE  AnswerParts(Answer, Body(said.stdout, said.by), Body(said.stderr, said.by))
  <1>0. {"OUT", "OUT_END", "ERR", "ERR_END"} \subseteq Kinds
    BY DEF Kinds, Sentinels
  <1>1. PICK b : b = Body(said.stdout, said.by)
    OBVIOUS
  <1>2. PICK c : c = Body(said.stderr, said.by)
    OBVIOUS
  <1>3. PICK x : x = Section("OUT", said.stdout, "OUT_END", said.by)
    OBVIOUS
  <1>4. PICK y : y = Section("ERR", said.stderr, "ERR_END", said.by)
    OBVIOUS
  <1>5. PICK d : d = DoneLine(said.by)
    OBVIOUS
  <1>6. /\ x \in Seq(Token) /\ Len(x) = Len(b) + 4 /\ Len(b) \in Nat \ {0}
        /\ x[1].k = "OUT" /\ x[2].k = "nl" /\ \A i \in 1..Len(b) : x[2 + i] = b[i]
        /\ x[Len(b) + 3].k = "OUT_END" /\ x[Len(b) + 4].k = "nl"
    <2>1. said.stdout \in Seq(Token) /\ said.by \in 0..MaxCalls
      OBVIOUS
    <2>2. "OUT" \in Kinds /\ "OUT_END" \in Kinds
      BY <1>0
    <2>3. SectionParts(x, "OUT", b, "OUT_END")
      BY <1>1, <1>3, <2>1, <2>2, SectionOf
    <2> QED BY <2>3 DEF SectionParts
  <1>7. /\ y \in Seq(Token) /\ Len(y) = Len(c) + 4 /\ Len(c) \in Nat \ {0}
        /\ y[1].k = "ERR" /\ y[2].k = "nl" /\ \A i \in 1..Len(c) : y[2 + i] = c[i]
        /\ y[Len(c) + 3].k = "ERR_END" /\ y[Len(c) + 4].k = "nl"
    <2>1. said.stderr \in Seq(Token) /\ said.by \in 0..MaxCalls
      OBVIOUS
    <2>2. "ERR" \in Kinds /\ "ERR_END" \in Kinds
      BY <1>0
    <2>3. SectionParts(y, "ERR", c, "ERR_END")
      BY <1>2, <1>4, <2>1, <2>2, SectionOf
    <2> QED BY <2>3 DEF SectionParts
  <1>8. d \in Seq(Token) /\ Len(d) = 3 /\ d[1].k = "DONE"
    <2>1. PICK n \in 0..MaxCalls : n = said.by
      OBVIOUS
    <2>2. Len(DoneLine(n)) = 3 /\ DoneLine(n)[1].k = "DONE"
          /\ DoneLine(n) \in Seq({t \in Token : t.by = n})
      BY LastLine
    <2>3. \A i \in 1..3 : DoneLine(n)[i] \in Token
      BY LastLine
    <2>4. DoneLine(n) \in Seq(Token)
      <3>1. PICK r : r = DoneLine(n)
        OBVIOUS
      <3>2. \A i \in 1..Len(r) : r[i] \in Token
        BY <2>2, <2>3, <3>1
      <3>3. r \in Seq({t \in Token : t.by = n})
        BY <2>2, <3>1
      <3> QED BY <3>1, <3>2, <3>3, Within
    <2> QED BY <1>5, <2>1, <2>2, <2>4
  <1>9. PICK z : z = y \o d
    OBVIOUS
  <1>10. /\ z \in Seq(Token) /\ Len(z) = Len(c) + 7
         /\ \A i \in 1..Len(c) + 4 : z[i] = y[i]
         /\ \A i \in 1..3 : z[Len(c) + 4 + i] = d[i]
    <2>1. Glued(z, y, d)
      BY <1>7, <1>8, <1>9, Glue
    <2>2. Len(y) + Len(d) = Len(c) + 7
      BY <1>7, <1>8
    <2> QED BY <1>7, <1>8, <2>1, <2>2 DEF Glued
  <1>11. PICK a : a = x \o z
    OBVIOUS
  <1>12. /\ a \in Seq(Token) /\ Len(a) = Len(b) + 4 + (Len(c) + 7)
         /\ \A i \in 1..Len(b) + 4 : a[i] = x[i]
         /\ \A i \in 1..Len(c) + 7 : a[Len(b) + 4 + i] = z[i]
    <2>1. Glued(a, x, z)
      BY <1>6, <1>10, <1>11, Glue
    <2> QED BY <1>6, <1>10, <2>1 DEF Glued
  <1>13. a = Answer
    BY <1>3, <1>4, <1>5, <1>9, <1>11 DEF Answer
  <1>14. PICK m \in Nat, n \in Nat : m = Len(b) /\ n = Len(c) /\ m > 0 /\ n > 0
    BY <1>6, <1>7
  <1>15. /\ 1 \in 1..m + 4 /\ 2 \in 1..m + 4 /\ m + 3 \in 1..m + 4 /\ m + 4 \in 1..m + 4
         /\ \A i \in 1..m : 2 + i \in 1..m + 4
    BY <1>14
  <1>16. /\ a[1] = x[1] /\ a[2] = x[2] /\ a[m + 3] = x[m + 3] /\ a[m + 4] = x[m + 4]
         /\ \A i \in 1..m : a[2 + i] = x[2 + i]
    BY <1>12, <1>14, <1>15
  <1>17. /\ 1 \in 1..n + 4 /\ 2 \in 1..n + 4 /\ n + 3 \in 1..n + 4 /\ n + 4 \in 1..n + 4
         /\ \A i \in 1..n : 2 + i \in 1..n + 4
         /\ \A i \in 1..n + 4 : i \in 1..n + 7
         /\ n + 5 \in 1..n + 7 /\ 1 \in 1..3 /\ n + 5 = n + 4 + 1
    BY <1>14
  <1>18. \A i \in 1..n + 4 : a[m + 4 + i] = y[i]
    BY <1>10, <1>12, <1>14, <1>17
  <1>19. /\ a[m + 4 + 1] = y[1] /\ a[m + 4 + 2] = y[2] /\ a[m + 4 + (n + 3)] = y[n + 3]
         /\ a[m + 4 + (n + 4)] = y[n + 4]
         /\ \A i \in 1..n : a[m + 4 + (2 + i)] = y[2 + i]
    BY <1>17, <1>18
  <1>20. a[m + 4 + (n + 5)] = d[1]
    <2>1. z[n + 5] = d[1]
      BY <1>10, <1>14, <1>17
    <2> QED BY <1>12, <1>14, <1>17, <2>1
  <1>21. /\ m + 4 + 1 = m + 5 /\ m + 4 + 2 = m + 6 /\ m + 4 + (n + 3) = m + n + 7
         /\ m + 4 + (n + 4) = m + n + 8 /\ m + 4 + (n + 5) = m + n + 9
         /\ \A i \in 1..n : m + 4 + (2 + i) = m + 6 + i
         /\ m + 4 + (n + 7) = m + n + 11
    BY <1>14
  <1>22. \A i \in 1..n : a[m + 6 + i] = c[i]
    BY <1>7, <1>14, <1>19, <1>21
  <1>23. \A i \in 1..m : a[2 + i] = b[i]
    BY <1>6, <1>14, <1>16
  <1>24. /\ a[1].k = "OUT" /\ a[2].k = "nl" /\ a[m + 3].k = "OUT_END" /\ a[m + 4].k = "nl"
         /\ a[m + 5].k = "ERR" /\ a[m + 6].k = "nl" /\ a[m + n + 7].k = "ERR_END"
         /\ a[m + n + 8].k = "nl" /\ a[m + n + 9].k = "DONE"
    BY <1>6, <1>7, <1>8, <1>14, <1>16, <1>19, <1>20, <1>21
  <1>25. AnswerParts(a, b, c)
    BY <1>12, <1>14, <1>21, <1>22, <1>23, <1>24 DEF AnswerParts
  <1> QED BY <1>1, <1>2, <1>13, <1>25

\* w stands in the answer a from place q + 1 on.
Slice(w, a, q) ==
  /\ q \in Nat /\ q + Len(w) \in 0..Len(a)
  /\ \A i \in 1..Len(w) : w[i] = a[q + i]

\* The chunks c, one behind the other, do so, and end at place r: f says where each does.
Spell(c, a, q, r, f) ==
  /\ f[0] = q /\ f[Len(c)] = r
  /\ \A i \in 1..Len(c) : f[i] = f[i - 1] + Len(c[i]) /\ Slice(c[i], a, f[i - 1])
Spells(c, a, q, r) == \E f \in [0..Len(c) -> 0..Len(a)] : Spell(c, a, q, r, f)

\* Two texts one after the other are slices one after the other.
LEMMA SliceOfBoth ==
  ASSUME NEW v \in Seq(Token), NEW w \in Seq(Token), NEW a \in Seq(Token), NEW q,
         NEW x, Glued(x, v, w), Slice(x, a, q)
  PROVE  Slice(v, a, q) /\ Slice(w, a, q + Len(v)) /\ q + Len(x) = q + Len(v) + Len(w)
  <1>1. PICK m \in Nat, n \in Nat, l \in Nat : m = Len(v) /\ n = Len(w) /\ l = Len(a)
    BY LenProperties
  <1>2. /\ Len(x) = m + n /\ \A i \in 1..m : x[i] = v[i]
        /\ \A i \in 1..n : x[m + i] = w[i]
    BY <1>1 DEF Glued
  <1>3. q \in Nat /\ q + (m + n) \in 0..l /\ \A i \in 1..m + n : x[i] = a[q + i]
    BY <1>1, <1>2 DEF Slice
  <1>4. Slice(v, a, q)
    <2>1. \A i \in 1..m : i \in 1..m + n
      BY <1>1
    <2>2. \A i \in 1..m : v[i] = a[q + i]
      BY <1>2, <1>3, <2>1
    <2>3. q + m \in 0..l
      BY <1>1, <1>3
    <2> QED BY <1>1, <1>3, <2>2, <2>3 DEF Slice
  <1>5. Slice(w, a, q + m)
    <2>1. \A i \in 1..n : m + i \in 1..m + n /\ q + (m + i) = q + m + i
      BY <1>1, <1>3
    <2>2. \A i \in 1..n : x[m + i] = a[q + (m + i)]
      BY <1>3, <2>1
    <2>3. \A i \in 1..n : w[i] = a[q + m + i]
      BY <1>2, <2>1, <2>2
    <2>4. q + m \in Nat /\ q + m + n \in 0..l
      BY <1>1, <1>3
    <2> QED BY <1>1, <2>3, <2>4 DEF Slice
  <1>6. q + (m + n) = q + m + n
    BY <1>1, <1>3
  <1> QED BY <1>1, <1>2, <1>4, <1>5, <1>6

\* One chunk that is a slice spells it.
LEMMA SpellsOne ==
  ASSUME NEW w \in Seq(Token), NEW a \in Seq(Token), NEW q, Slice(w, a, q)
  PROVE  Spells(<<w>>, a, q, q + Len(w))
  <1>1. PICK m \in Nat, l \in Nat : m = Len(w) /\ l = Len(a)
    BY LenProperties
  <1>2. q \in Nat /\ q + m \in 0..l
    BY <1>1 DEF Slice
  <1>3. PICK f : f = [i \in 0..1 |-> IF i = 0 THEN q ELSE q + m]
    OBVIOUS
  <1>4. f \in [0..1 -> 0..l] /\ f[0] = q /\ f[1] = q + m
    BY <1>1, <1>2, <1>3
  <1>5. PICK c : c = <<w>>
    OBVIOUS
  <1>6. Len(c) = 1 /\ c[1] = w
    BY <1>5
  <1>7. \A i \in 1..1 : f[i] = f[i - 1] + Len(c[i]) /\ Slice(c[i], a, f[i - 1])
    BY <1>1, <1>4, <1>6
  <1>8. Spell(c, a, q, q + m, f)
    BY <1>4, <1>6, <1>7 DEF Spell
  <1>9. Spells(c, a, q, q + m)
    BY <1>1, <1>4, <1>6, <1>8 DEF Spells
  <1> QED BY <1>1, <1>5, <1>9

\* No chunks spell nothing.
LEMMA SpellsNone ==
  ASSUME NEW a \in Seq(Token), NEW q \in 0..Len(a)
  PROVE  Spells(<<>>, a, q, q)
  <1>1. PICK f : f = [i \in 0..0 |-> q]
    OBVIOUS
  <1>2. f \in [0..0 -> 0..Len(a)] /\ f[0] = q
    BY <1>1
  <1>3. PICK c : c = <<>>
    OBVIOUS
  <1>4. Len(c) = 0
    BY <1>3
  <1>5. Spell(c, a, q, q, f)
    BY <1>2, <1>4 DEF Spell
  <1>6. Spells(c, a, q, q)
    BY <1>2, <1>4, <1>5 DEF Spells
  <1> QED BY <1>3, <1>6

\* Chunks, and then others behind them.
LEMMA SpellsBoth ==
  ASSUME NEW S, NEW c \in Seq(S), NEW d \in Seq(S), NEW a \in Seq(Token),
         NEW q, NEW r, NEW t, Spells(c, a, q, r), Spells(d, a, r, t)
  PROVE  Spells(c \o d, a, q, t)
  <1>1. PICK e : e = c \o d
    OBVIOUS
  <1>2. PICK m \in Nat, n \in Nat, l \in Nat : m = Len(c) /\ n = Len(d) /\ l = Len(a)
    BY LenProperties
  <1>3. /\ Len(e) = m + n /\ \A i \in 1..m : e[i] = c[i]
        /\ \A i \in 1..n : e[m + i] = d[i]
    BY <1>1, <1>2, Joined
  <1>4. PICK f \in [0..m -> 0..l] : Spell(c, a, q, r, f)
    BY <1>2 DEF Spells
  <1>5. PICK g \in [0..n -> 0..l] : Spell(d, a, r, t, g)
    BY <1>2 DEF Spells
  <1>6. PICK h : h = [i \in 0..m + n |-> IF i <= m THEN f[i] ELSE g[i - m]]
    OBVIOUS
  <1>7. h \in [0..m + n -> 0..l] /\ \A i \in 0..m : h[i] = f[i]
    BY <1>2, <1>6
  <1>8. f[0] = q /\ f[m] = r /\ g[0] = r /\ g[n] = t
    BY <1>2, <1>4, <1>5 DEF Spell
  <1>9. \A i \in 0..n : h[m + i] = g[i]
    <2>1. h[m + 0] = g[0]
      BY <1>2, <1>7, <1>8
    <2>2. \A i \in 1..n : m + i \in 0..m + n /\ ~(m + i <= m) /\ m + i - m = i
      BY <1>2
    <2>3. ASSUME NEW i \in 1..n
          PROVE  h[m + i] = g[i]
      <3>1. PICK j \in 0..m + n : j = m + i
        BY <2>2
      <3>2. h[j] = g[j - m]
        BY <1>6, <2>2, <3>1
      <3> QED BY <2>2, <3>1, <3>2
    <2> QED BY <1>2, <2>1, <2>3
  <1>10. ASSUME NEW i \in 1..m
         PROVE  h[i] = h[i - 1] + Len(e[i]) /\ Slice(e[i], a, h[i - 1])
    <2>1. f[i] = f[i - 1] + Len(c[i]) /\ Slice(c[i], a, f[i - 1])
      BY <1>2, <1>4 DEF Spell
    <2>2. i \in 0..m /\ i - 1 \in 0..m
      BY <1>2
    <2>3. h[i] = f[i] /\ h[i - 1] = f[i - 1] /\ e[i] = c[i]
      BY <1>3, <1>7, <2>2
    <2> QED BY <2>1, <2>3
  <1>11. ASSUME NEW i \in 1..n
         PROVE  /\ h[m + i] = h[m + i - 1] + Len(e[m + i])
                /\ Slice(e[m + i], a, h[m + i - 1])
    <2>1. g[i] = g[i - 1] + Len(d[i]) /\ Slice(d[i], a, g[i - 1])
      BY <1>2, <1>5 DEF Spell
    <2>2. m + (i - 1) = m + i - 1 /\ i - 1 \in 0..n /\ i \in 0..n
      BY <1>2
    <2>3. h[m + i] = g[i] /\ h[m + i - 1] = g[i - 1] /\ e[m + i] = d[i]
      BY <1>3, <1>9, <2>2
    <2> QED BY <2>1, <2>3
  <1>12. ASSUME NEW i \in 1..m + n
         PROVE  h[i] = h[i - 1] + Len(e[i]) /\ Slice(e[i], a, h[i - 1])
    <2>1. CASE i \in 1..m
      BY <1>10, <2>1
    <2>2. CASE ~(i \in 1..m)
      <3> DEFINE j == i - m
      <3>1. j \in 1..n /\ m + j = i /\ m + j - 1 = i - 1
        BY <1>2, <2>2
      <3> HIDE DEF j
      <3>2. h[m + j] = h[m + j - 1] + Len(e[m + j]) /\ Slice(e[m + j], a, h[m + j - 1])
        BY <1>11, <3>1
      <3> QED BY <3>1, <3>2
    <2> QED BY <2>1, <2>2
  <1>13. h[0] = q /\ h[m + n] = t
    BY <1>2, <1>7, <1>8, <1>9
  <1>14. Spell(e, a, q, t, h)
    BY <1>3, <1>12, <1>13 DEF Spell
  <1>15. Spells(e, a, q, t)
    BY <1>2, <1>3, <1>7, <1>14 DEF Spells
  <1> QED BY <1>1, <1>15

\* The first chunk, and the others behind it.
LEMMA SpellsTail ==
  ASSUME NEW S, NEW c \in Seq(S), c # <<>>, NEW a \in Seq(Token), NEW q, NEW r,
         Spells(c, a, q, r)
  PROVE  Slice(Head(c), a, q) /\ Spells(Tail(c), a, q + Len(Head(c)), r)
  <1>1. PICK t : t = Tail(c)
    OBVIOUS
  <1>2. PICK n \in Nat, l \in Nat : Len(c) = n + 1 /\ l = Len(a)
    <2>1. Len(c) \in Nat /\ Len(c) # 0 /\ Len(a) \in Nat
      BY LenProperties, EmptySeq
    <2>2. Len(c) - 1 \in Nat /\ Len(c) = Len(c) - 1 + 1
      BY <2>1
    <2> QED BY <2>1, <2>2
  <1>3. Len(t) = n /\ \A i \in 1..n : t[i] = c[i + 1]
    <2>1. Len(t) = Len(c) - 1 /\ \A i \in 1..Len(t) : t[i] = c[i + 1]
      BY <1>1, HeadTailProperties
    <2> QED BY <1>2, <2>1
  <1>4. Head(c) = c[1]
    OBVIOUS
  <1>5. PICK f \in [0..n + 1 -> 0..l] : Spell(c, a, q, r, f)
    BY <1>2 DEF Spells
  <1>6. /\ f[0] = q /\ f[n + 1] = r
        /\ \A i \in 1..n + 1 : f[i] = f[i - 1] + Len(c[i]) /\ Slice(c[i], a, f[i - 1])
    BY <1>2, <1>5 DEF Spell
  <1>7. f[1] = q + Len(c[1]) /\ Slice(c[1], a, q)
    <2>1. 1 \in 1..n + 1 /\ 1 - 1 = 0
      BY <1>2
    <2> QED BY <1>6, <2>1
  <1>8. PICK g : g = [i \in 0..n |-> f[i + 1]]
    OBVIOUS
  <1>9. g \in [0..n -> 0..l] /\ g[0] = f[1] /\ g[n] = r /\ \A i \in 0..n : g[i] = f[i + 1]
    BY <1>2, <1>6, <1>8
  <1>10. ASSUME NEW i \in 1..n
         PROVE  g[i] = g[i - 1] + Len(t[i]) /\ Slice(t[i], a, g[i - 1])
    <2>1. i + 1 \in 1..n + 1 /\ i + 1 - 1 = i /\ i \in 0..n /\ i - 1 \in 0..n /\ i - 1 + 1 = i
      BY <1>2
    <2>2. f[i + 1] = f[i] + Len(c[i + 1]) /\ Slice(c[i + 1], a, f[i])
      BY <1>6, <2>1
    <2>3. g[i] = f[i + 1] /\ g[i - 1] = f[i] /\ t[i] = c[i + 1]
      BY <1>3, <1>9, <2>1
    <2> QED BY <2>2, <2>3
  <1>11. Spell(t, a, f[1], r, g)
    BY <1>3, <1>9, <1>10 DEF Spell
  <1>12. Spells(t, a, f[1], r)
    BY <1>2, <1>3, <1>9, <1>11 DEF Spells
  <1> QED BY <1>1, <1>4, <1>7, <1>12

\* A text in its frame is what the chunks of the frame spell.
LEMMA SpellsFrame ==
  ASSUME NEW s \in Seq(Token), NEW by \in 0..MaxCalls, NEW tag \in Kinds, NEW end \in Kinds,
         NEW a \in Seq(Token), NEW q, Slice(Section(tag, s, end, by), a, q)
  PROVE  /\ Frame(tag, s, end, by) \in Seq(Seq(Token))
         /\ Spells(Frame(tag, s, end, by), a, q, q + Len(Section(tag, s, end, by)))
  <1> DEFINE ST == Seq(Token)
  <1>1. PICK l : l = Line(<<tag>>, by)
    OBVIOUS
  <1>2. PICK e : e = Line(<<end>>, by)
    OBVIOUS
  <1>3. PICK n : n = Line(<<>>, by)
    OBVIOUS
  <1>4. PICK b : b = Body(s, by)
    OBVIOUS
  <1>5. l \in ST /\ e \in ST /\ n \in ST /\ b \in ST /\ s \in ST
    BY <1>1, <1>2, <1>3, <1>4, LineOf, BodyOf
  <1>6. PICK y : y = b \o e
    OBVIOUS
  <1>7. PICK x : x = l \o y
    OBVIOUS
  <1>8. x = Section(tag, s, end, by)
    BY <1>1, <1>2, <1>4, <1>6, <1>7 DEF Section
  <1>9. Slice(x, a, q)
    BY <1>8
  <1>10. y \in ST
    BY <1>5, <1>6, Joined
  <1>11. Slice(l, a, q) /\ Slice(y, a, q + Len(l)) /\ q + Len(x) = q + Len(l) + Len(y)
    <2>1. Glued(x, l, y)
      BY <1>5, <1>7, <1>10, Glue
    <2> QED BY <1>5, <1>9, <1>10, <2>1, SliceOfBoth
  <1>12. /\ Slice(b, a, q + Len(l)) /\ Slice(e, a, q + Len(l) + Len(b))
         /\ q + Len(l) + Len(y) = q + Len(l) + Len(b) + Len(e)
    <2>1. Glued(y, b, e)
      BY <1>5, <1>6, Glue
    <2> QED BY <1>5, <1>11, <2>1, SliceOfBoth
  <1>13. PICK u, v, w : u = q + Len(l) /\ v = u + Len(b) /\ w = v + Len(e)
    OBVIOUS
  <1>14. /\ Slice(l, a, q) /\ Slice(b, a, u) /\ Slice(e, a, v)
         /\ w = q + Len(Section(tag, s, end, by))
    BY <1>8, <1>11, <1>12, <1>13
  <1>15. Spells(<<l>>, a, q, u) /\ Spells(<<e>>, a, v, w)
    BY <1>5, <1>13, <1>14, SpellsOne
  <1>16. <<l>> \in Seq(ST) /\ <<e>> \in Seq(ST) /\ <<n>> \in Seq(ST) /\ <<s>> \in Seq(ST)
    <2> HIDE DEF ST
    <2> QED BY <1>5
  <1> HIDE DEF ST
  <1>17. PICK m : m = IF EndsLine(s) THEN <<>> ELSE <<n>>
    OBVIOUS
  <1>18. PICK c : c = <<s>> \o m
    OBVIOUS
  <1>19. c \in Seq(ST) /\ m \in Seq(ST) /\ Spells(c, a, u, v)
    <2>1. CASE EndsLine(s)
      <3>1. m = <<>> /\ b = s
        BY <1>4, <1>17, <2>1 DEF Body
      <3>2. c = <<s>>
        BY <1>16, <1>18, <3>1, ConcatEmptySeq
      <3>3. Spells(<<s>>, a, u, u + Len(s))
        BY <1>14, <3>1, SpellsOne
      <3> QED BY <1>13, <1>16, <3>1, <3>2, <3>3, EmptySeq
    <2>2. CASE ~EndsLine(s)
      <3>1. m = <<n>> /\ b = s \o n
        BY <1>3, <1>4, <1>17, <2>2 DEF Body
      <3>2. /\ Slice(s, a, u) /\ Slice(n, a, u + Len(s)) /\ u + Len(b) = u + Len(s) + Len(n)
        <4>1. Glued(b, s, n)
          BY <1>5, <3>1, Glue DEF ST
        <4> QED BY <1>5, <1>14, <4>1, SliceOfBoth DEF ST
      <3>3. Spells(<<s>>, a, u, u + Len(s))
        BY <3>2, SpellsOne
      <3>4. PICK t : t = u + Len(s)
        OBVIOUS
      <3>5. Spells(<<n>>, a, t, t + Len(n))
        BY <1>5, <3>2, <3>4, SpellsOne DEF ST
      <3>6. v = t + Len(n)
        BY <1>13, <3>2, <3>4
      <3>7. Spells(<<s>> \o <<n>>, a, u, v)
        BY <1>16, <3>3, <3>4, <3>5, <3>6, SpellsBoth
      <3>8. <<s>> \o <<n>> \in Seq(ST)
        BY <1>16, Joined
      <3> QED BY <1>16, <1>18, <3>1, <3>7, <3>8
    <2> QED BY <2>1, <2>2
  <1>20. PICK d : d = <<l>> \o c
    OBVIOUS
  <1>21. d \in Seq(ST) /\ Spells(d, a, q, v)
    <2>1. d \in Seq(ST)
      BY <1>16, <1>19, <1>20, Joined
    <2>2. Spells(d, a, q, v)
      BY <1>15, <1>16, <1>19, <1>20, SpellsBoth
    <2> QED BY <2>1, <2>2
  <1>22. PICK f : f = d \o <<e>>
    OBVIOUS
  <1>23. f \in Seq(ST) /\ Spells(f, a, q, w)
    <2>1. f \in Seq(ST)
      BY <1>16, <1>21, <1>22, Joined
    <2>2. Spells(f, a, q, w)
      BY <1>15, <1>16, <1>21, <1>22, SpellsBoth
    <2> QED BY <2>1, <2>2
  <1>24. f = Frame(tag, s, end, by)
    <2>1. <<l>> \o <<s>> = <<l, s>>
      <3>1. PICK r, t : r = <<l>> \o <<s>> /\ t = <<l, s>>
        OBVIOUS
      <3>2. PICK o, k : o = <<l>> /\ k = <<s>>
        OBVIOUS
      <3>3. Len(o) = 1 /\ o[1] = l /\ Len(k) = 1 /\ k[1] = s /\ 1 \in 1..1 /\ 1 + 1 = 2
        BY <3>2
      <3>4. /\ r \in Seq(ST) /\ Len(r) = 1 + 1
            /\ \A i \in 1..1 : r[i] = o[i]
            /\ \A i \in 1..1 : r[1 + i] = k[i]
        BY <1>16, <3>1, <3>2, <3>3, Joined
      <3>5. r[1] = l /\ r[2] = s
        BY <3>3, <3>4
      <3>6. t \in Seq(ST) /\ Len(t) = 2 /\ t[1] = l /\ t[2] = s
        BY <1>5, <3>1
      <3>7. Len(r) = Len(t) /\ \A i \in 1..Len(r) : r[i] = t[i]
        BY <3>4, <3>5, <3>6
      <3>8. r \in Seq(ST) /\ t \in Seq(ST)
        BY <3>4, <3>6
      <3>9. r = t
        BY <3>7, <3>8, SeqEqual
      <3> QED BY <3>1, <3>9
    <2>2. (<<l>> \o <<s>>) \o m = <<l>> \o (<<s>> \o m)
      BY <1>16, <1>19, ConcatAssociative
    <2>3. Frame(tag, s, end, by) = (<<l, s>> \o m) \o <<e>>
      <3>1. Frame(tag, s, end, by)
              = <<l, s>> \o (IF EndsLine(s) THEN <<>> ELSE <<n>>) \o <<e>>
        BY <1>1, <1>2, <1>3 DEF Frame
      <3> QED BY <1>17, <3>1
    <2> QED BY <1>18, <1>20, <1>22, <2>1, <2>2, <2>3
  <1> QED BY <1>14, <1>23, <1>24 DEF ST

\* What the runner has still to write when its block has ended is the whole answer.
LEMMA SpellsAnswer ==
  ASSUME said \in [stdout : Seq(Token), stderr : Seq(Token), by : 0..MaxCalls]
  PROVE  Spells(Frames, Answer, 0, Len(Answer))
  <1> DEFINE ST == Seq(Token)
  <1>1. PICK x : x = Section("OUT", said.stdout, "OUT_END", said.by)
    OBVIOUS
  <1>2. PICK y : y = Section("ERR", said.stderr, "ERR_END", said.by)
    OBVIOUS
  <1>3. PICK d : d = DoneLine(said.by)
    OBVIOUS
  <1>4. said.by \in 0..MaxCalls /\ said.stdout \in Seq(Token) /\ said.stderr \in Seq(Token)
        /\ {"OUT", "OUT_END", "ERR", "ERR_END", "DONE", "rc"} \subseteq Kinds
    BY DEF Kinds, Sentinels
  <1>5. x \in ST /\ y \in ST
    <2>1. SectionParts(x, "OUT", Body(said.stdout, said.by), "OUT_END")
      BY <1>1, <1>4, SectionOf
    <2>2. SectionParts(y, "ERR", Body(said.stderr, said.by), "ERR_END")
      BY <1>2, <1>4, SectionOf
    <2> QED BY <2>1, <2>2 DEF SectionParts
  <1>6. d \in ST
    <2>1. PICK n \in 0..MaxCalls : n = said.by
      BY <1>4
    <2>2. PICK r : r = DoneLine(n)
      OBVIOUS
    <2>3. Len(r) = 3 /\ r \in Seq({t \in Token : t.by = n}) /\ \A i \in 1..3 : r[i] \in Token
      BY <2>2, LastLine
    <2>4. r \in ST
      BY <2>3, Within
    <2> QED BY <1>3, <2>1, <2>2, <2>4
  <1>7. PICK z : z = y \o d
    OBVIOUS
  <1>8. PICK a : a = x \o z
    OBVIOUS
  <1>9. a = Answer
    BY <1>1, <1>2, <1>3, <1>7, <1>8 DEF Answer
  <1>10. z \in ST /\ a \in ST /\ Len(a) \in Nat
    <2>1. z \in ST
      BY <1>5, <1>6, <1>7, Joined
    <2>2. a \in ST
      BY <1>5, <1>8, <2>1, Joined
    <2> QED BY <2>1, <2>2, LenProperties
  <1>11. Slice(a, a, 0)
    BY <1>10 DEF Slice
  <1>12. Slice(x, a, 0) /\ Slice(z, a, 0 + Len(x)) /\ 0 + Len(a) = 0 + Len(x) + Len(z)
    <2>1. Glued(a, x, z)
      BY <1>5, <1>8, <1>10, Glue
    <2> QED BY <1>5, <1>10, <1>11, <2>1, SliceOfBoth
  <1>13. PICK u : u = 0 + Len(x)
    OBVIOUS
  <1>14. Slice(y, a, u) /\ Slice(d, a, u + Len(y)) /\ u + Len(z) = u + Len(y) + Len(d)
    <2>1. Glued(z, y, d)
      BY <1>5, <1>6, <1>7, Glue
    <2>2. Slice(z, a, u)
      BY <1>12, <1>13
    <2> QED BY <1>5, <1>6, <1>10, <2>1, <2>2, SliceOfBoth
  <1>15. PICK v : v = u + Len(y)
    OBVIOUS
  <1>16. v + Len(d) = Len(a)
    BY <1>10, <1>12, <1>13, <1>14, <1>15
  <1>17. PICK f : f = Frame("OUT", said.stdout, "OUT_END", said.by)
    OBVIOUS
  <1>18. PICK g : g = Frame("ERR", said.stderr, "ERR_END", said.by)
    OBVIOUS
  <1>19. f \in Seq(ST) /\ Spells(f, a, 0, u)
    BY <1>1, <1>4, <1>10, <1>12, <1>13, <1>17, SpellsFrame
  <1>20. g \in Seq(ST) /\ Spells(g, a, u, v)
    BY <1>2, <1>4, <1>10, <1>14, <1>15, <1>18, SpellsFrame
  <1>21. Spells(<<d>>, a, v, Len(a))
    <2>1. Spells(<<d>>, a, v, v + Len(d))
      BY <1>6, <1>10, <1>14, <1>15, SpellsOne
    <2> QED BY <1>16, <2>1
  <1> HIDE DEF ST
  <1>22. <<d>> \in Seq(ST)
    BY <1>6
  <1>23. PICK h : h = f \o g
    OBVIOUS
  <1>24. h \in Seq(ST)
    BY <1>19, <1>20, <1>23, Joined
  <1>25. Spells(h, a, 0, v)
    BY <1>10, <1>19, <1>20, <1>23, SpellsBoth DEF ST
  <1>26. Spells(h \o <<d>>, a, 0, Len(a))
    BY <1>10, <1>21, <1>22, <1>24, <1>25, SpellsBoth DEF ST
  <1>27. Frames = h \o <<d>>
    BY <1>3, <1>17, <1>18, <1>23 DEF Frames, DoneLine
  <1> QED BY <1>9, <1>26, <1>27

\* What a round of the parser does, branch by branch.
LEMMA LineRead ==
  ASSUME ReadLine
  PROVE  /\ phase = "read" /\ wire' = AfterLine
         /\ Has(wire, {"nl"}) \/ (Eof /\ wire # <<>>)
         /\ \/ Is("OUT") /\ Open("stdout")
            \/ Is("OUT_END") /\ Close("stdout")
            \/ Is("ERR") /\ Open("stderr")
            \/ Is("ERR_END") /\ Close("stderr")
            \/ /\ Stripped # <<>> /\ Stripped[1].k = "DONE"
               /\ Return(Result("answered", text, ReturnCode))
            \/ /\ ~Is("OUT") /\ ~Is("OUT_END") /\ ~Is("ERR") /\ ~Is("ERR_END")
               /\ ~(Stripped # <<>> /\ Stripped[1].k = "DONE")
               /\ buf' = IF sect = "none" THEN buf ELSE buf \o FirstLine
               /\ UNCHANGED <<sect, text, phase, after, last>>
  BY Zenon DEF ReadLine

\* The token that a line begins with tells what the parser takes it for.
LEMMA FirstToken ==
  ASSUME wire \in Seq(Token), wire # <<>>, NEW a, NEW p, Slice(wire, a, p)
  PROVE  /\ wire[1] = a[p + 1]
         /\ \A x \in Sentinels : Is(x) => a[p + 1].k = x
         /\ Stripped # <<>> => Stripped[1].k = a[p + 1].k
  <1>1. Len(wire) \in Nat /\ Len(wire) # 0
    BY LenProperties, EmptySeq
  <1>2. 1 \in 1..Len(wire)
    BY <1>1
  <1>3. wire[1] = a[p + 1]
    BY <1>2 DEF Slice
  <1>4. Stripped \in Seq(Token) /\ \A i \in 1..Len(Stripped) : Stripped[i] = wire[i]
    BY StrippedLine
  <1>5. ASSUME Stripped # <<>>
        PROVE  Stripped[1].k = a[p + 1].k
    <2>1. 1 \in 1..Len(Stripped)
      BY <1>4, <1>5, LenProperties, EmptySeq
    <2> QED BY <1>3, <1>4, <2>1
  <1>6. ASSUME NEW x \in Sentinels, Is(x)
        PROVE  a[p + 1].k = x
    <2>1. 1 \in 1..Len(Stripped) /\ Stripped[1].k = x
      BY <1>6 DEF Is
    <2> QED BY <1>3, <1>4, <2>1
  <1> QED BY <1>3, <1>5, <1>6

\* A line goes no further than the next newline.
LEMMA LineEnds ==
  ASSUME wire \in Seq(Token), NEW a, NEW p, Slice(wire, a, p), Has(wire, {"nl"}),
         NEW e \in Nat, p < e, a[e].k = "nl"
  PROVE  /\ Len(FirstLine) \in Nat \ {0} /\ p + Len(FirstLine) <= e
         /\ Len(FirstLine) <= Len(wire)
         /\ FirstLine[Len(FirstLine)].k = "nl" /\ EndsLine(FirstLine)
         /\ \A i \in 1..Len(FirstLine) : FirstLine[i] = a[p + i]
  <1>1. /\ FirstLine \in Seq(Token) /\ Len(FirstLine) <= Len(wire)
        /\ \A i \in 1..Len(FirstLine) : FirstLine[i] = wire[i]
        /\ Len(FirstLine) > 0 /\ FirstLine[Len(FirstLine)].k = "nl"
        /\ \A i \in 1..Len(FirstLine) - 1 : FirstLine[i].k # "nl"
    BY FirstLineOfWire
  <1>2. PICK l \in Nat, w \in Nat : l = Len(FirstLine) /\ w = Len(wire)
    BY <1>1, LenProperties
  <1>3. p \in Nat /\ \A i \in 1..w : wire[i] = a[p + i]
    BY <1>2 DEF Slice
  <1>4. \A i \in 1..l : i \in 1..w
    BY <1>1, <1>2
  <1>5. \A i \in 1..l : FirstLine[i] = a[p + i]
    BY <1>1, <1>2, <1>3, <1>4
  <1>6. ASSUME p + l > e
        PROVE  FALSE
    <2> DEFINE i == e - p
    <2>1. i \in 1..l - 1 /\ i \in 1..l /\ p + i = e
      BY <1>2, <1>3, <1>6
    <2> HIDE DEF i
    <2>2. FirstLine[i] = a[e]
      BY <1>5, <2>1
    <2> QED BY <1>1, <1>2, <2>1, <2>2
  <1>7. FirstLine # <<>>
    BY <1>1, EmptySeq
  <1> QED BY <1>1, <1>2, <1>3, <1>5, <1>6, <1>7 DEF EndsLine

\* A sentinel and a newline are a line of their own.
LEMMA SentinelLine ==
  ASSUME wire \in Seq(Token), NEW a, NEW p, Slice(wire, a, p), Has(wire, {"nl"}),
         NEW x \in Sentinels, a[p + 1].k = x, a[p + 2].k = "nl"
  PROVE  Len(FirstLine) = 2 /\ Is(x)
  <1>1. p \in Nat
    BY DEF Slice
  <1>2. PICK e \in Nat : e = p + 2
    BY <1>1
  <1>3. p < e /\ a[e].k = "nl"
    BY <1>1, <1>2
  <1>4. /\ Len(FirstLine) \in Nat \ {0} /\ p + Len(FirstLine) <= e
        /\ FirstLine[Len(FirstLine)].k = "nl" /\ EndsLine(FirstLine)
        /\ \A i \in 1..Len(FirstLine) : FirstLine[i] = a[p + i]
    <2>1. Slice(wire, a, p) /\ Has(wire, {"nl"})
      OBVIOUS
    <2> QED BY <1>2, <1>3, <2>1, LineEnds
  <1>5. FirstLine[1] = a[p + 1] /\ x # "nl"
    <2>1. 1 \in 1..Len(FirstLine)
      BY <1>4
    <2>2. x # "nl"
      BY DEF Sentinels
    <2> QED BY <1>4, <2>1, <2>2
  <1>6. Len(FirstLine) # 1
    BY <1>4, <1>5
  <1>7. Len(FirstLine) = 2
    <2>1. PICK l \in Nat, q \in Nat : l = Len(FirstLine) /\ q = p
      BY <1>1, <1>4
    <2>2. q + l <= q + 2 /\ l # 0 /\ l # 1
      BY <1>2, <1>4, <1>6, <2>1
    <2>3. l = 2
      BY <2>2
    <2> QED BY <2>1, <2>3
  <1>8. Len(Stripped) = 1 /\ Stripped[1] = FirstLine[1]
    <2>1. Len(Stripped) = Len(FirstLine) - 1
      BY <1>4, StrippedLine
    <2>2. Len(Stripped) = 1 /\ 1 \in 1..1
      BY <1>7, <2>1
    <2>3. \A i \in 1..Len(Stripped) : Stripped[i] = FirstLine[i]
      BY StrippedLine
    <2> QED BY <2>2, <2>3
  <1> QED BY <1>5, <1>7, <1>8 DEF Is

\* Of the pipe, the line that was read is gone and the rest has not moved.
LEMMA Slides ==
  ASSUME wire \in Seq(Token), NEW a, NEW p, Slice(wire, a, p)
  PROVE  /\ p + Len(FirstLine) \in Nat /\ Slice(AfterLine, a, p + Len(FirstLine))
         /\ p + Len(FirstLine) + Len(AfterLine) = p + Len(wire)
         /\ p + Len(FirstLine) \in 0..Len(a)
  <1>1. /\ FirstLine \in Seq(Token) /\ AfterLine \in Seq(Token)
        /\ Len(FirstLine) <= Len(wire) /\ Len(AfterLine) = Len(wire) - Len(FirstLine)
        /\ \A i \in 1..Len(AfterLine) : AfterLine[i] = wire[Len(FirstLine) + i]
    BY FirstLineOfWire
  <1>2. PICK l \in Nat, k \in Nat, w \in Nat :
          l = Len(FirstLine) /\ k = Len(AfterLine) /\ w = Len(wire)
    BY <1>1, LenProperties
  <1>3. p \in Nat /\ p + w \in 0..Len(a) /\ \A i \in 1..w : wire[i] = a[p + i]
    BY <1>2 DEF Slice
  <1>4. w = l + k
    BY <1>1, <1>2
  <1>5. \A i \in 1..k : l + i \in 1..w /\ p + (l + i) = p + l + i
    BY <1>2, <1>3, <1>4
  <1>6. \A i \in 1..k : wire[l + i] = a[p + (l + i)]
    BY <1>3, <1>5
  <1>7. \A i \in 1..k : AfterLine[i] = a[p + l + i]
    BY <1>1, <1>2, <1>5, <1>6
  <1>8. p + l \in Nat /\ p + l + k = p + w /\ p + l + k \in 0..Len(a)
    BY <1>2, <1>3, <1>4
  <1>9. p + l \in 0..Len(a)
    BY <1>2, <1>3, <1>4, <1>8
  <1> QED BY <1>2, <1>7, <1>8, <1>9 DEF Slice

\* s is the first n tokens of b.
Begins(s, b, n) == Len(s) = n /\ \A i \in 1..n : s[i] = b[i]

\* s is what there is of b, which stands in the answer from place o + 1 on, up to place p.
Copied(p, o, b, s) == \E n \in 0..Len(b) : p = o + n /\ Begins(s, b, n)

\* A line of the text b, which stands in the answer from place o + 1 on.
LEMMA TextLine ==
  ASSUME wire \in Seq(Token), buf \in Seq(Token), NEW a, NEW b, Len(b) \in Nat,
         NEW o, Slice(b, a, o), b[Len(b)].k = "nl",
         NEW n \in Nat, n < Len(b), Begins(buf, b, n),
         NEW p, Slice(wire, a, p), p = o + n, Has(wire, {"nl"})
  PROVE  Copied(p + Len(FirstLine), o, b, buf \o FirstLine)
  <1>0. o \in Nat /\ p \in Nat /\ \A i \in 1..Len(b) : b[i] = a[o + i]
    BY DEF Slice
  <1>1. PICK m \in Nat, e \in Nat : m = Len(b) /\ e = o + m
    BY <1>0
  <1>2. m \in 1..m /\ p < e
    BY <1>0, <1>1
  <1>3. a[e].k = "nl"
    BY <1>0, <1>1, <1>2
  <1>4. Slice(wire, a, p)
    OBVIOUS
  <1>5. /\ Len(FirstLine) \in Nat \ {0} /\ p + Len(FirstLine) <= e
        /\ \A i \in 1..Len(FirstLine) : FirstLine[i] = a[p + i]
    BY <1>2, <1>3, <1>4, LineEnds
  <1>6. PICK l \in Nat, k \in Nat : l = Len(FirstLine) /\ k = n + l
    BY <1>5
  <1>7. k \in 0..m /\ p + l = o + k
    BY <1>0, <1>1, <1>5, <1>6
  <1>8. FirstLine \in Seq(Token)
    BY FirstLineOfWire
  <1>9. PICK s : s = buf \o FirstLine
    OBVIOUS
  <1>10. Glued(s, buf, FirstLine)
    BY <1>8, <1>9, Glue
  <1>11. Len(buf) = n /\ \A i \in 1..n : buf[i] = b[i]
    BY DEF Begins
  <1>12. /\ Len(s) = k /\ \A i \in 1..n : s[i] = buf[i]
         /\ \A i \in 1..l : s[n + i] = FirstLine[i]
    BY <1>6, <1>10, <1>11 DEF Glued
  <1>13. ASSUME NEW i \in 1..l
         PROVE  s[n + i] = b[n + i]
    <2>1. n + i \in 1..m /\ o + (n + i) = p + i
      BY <1>0, <1>1, <1>6, <1>7
    <2>2. a[o + (n + i)] = b[n + i]
      BY <1>0, <1>1, <2>1
    <2>3. FirstLine[i] = a[p + i]
      BY <1>5, <1>6
    <2> QED BY <1>12, <2>1, <2>2, <2>3
  <1>14. ASSUME NEW i \in 1..k
         PROVE  s[i] = b[i]
    <2>1. CASE i \in 1..n
      BY <1>11, <1>12, <2>1
    <2>2. CASE ~(i \in 1..n)
      <3> DEFINE j == i - n
      <3>1. j \in 1..l /\ n + j = i
        BY <1>6, <2>2
      <3> HIDE DEF j
      <3>2. s[n + j] = b[n + j]
        BY <1>13, <3>1
      <3> QED BY <3>1, <3>2
    <2> QED BY <2>1, <2>2
  <1>15. Begins(s, b, k)
    BY <1>12, <1>14 DEF Begins
  <1> QED BY <1>1, <1>6, <1>7, <1>9, <1>15 DEF Copied

\* Where the parser is when p tokens of an answer are off the pipe, with the texts b and c
\* in its frames.
ReaderAt(p, b, c) ==
  \/ p = 0 /\ sect = "none"
  \/ sect = "stdout" /\ Copied(p, 2, b, buf)
  \/ p = Len(b) + 4 /\ sect = "none" /\ text["stdout"] = Chop(b)
  \/ sect = "stderr" /\ Copied(p, Len(b) + 6, c, buf) /\ text["stdout"] = Chop(b)
  \/ /\ p = Len(b) + Len(c) + 8 /\ sect = "none"
     /\ text["stdout"] = Chop(b) /\ text["stderr"] = Chop(c)

\* A text as it stands in a frame, and no sentinel in it.
Quoted(b) ==
  /\ b \in Seq(Token) /\ b[Len(b)].k = "nl"
  /\ \A i \in 1..Len(b) : b[i].k \notin Sentinels

\* A line of an answer brings the parser on in it, unless the runner died in the middle of it.
LEMMA LineTaken ==
  ASSUME Typed, ReadLine, NEW a, NEW b, NEW c, AnswerParts(a, b, c), Quoted(b), Quoted(c),
         NEW p \in Nat, Slice(wire, a, p), ReaderAt(p, b, c)
  PROVE  \/ wire' = <<>> /\ at = "dead" /\ phase' = "read"
         \/ /\ phase' = "read"
            /\ \E r \in 0..Len(a) : /\ Slice(wire', a, r) /\ r + Len(wire') = p + Len(wire)
                                    /\ ReaderAt(r, b, c)'
         \/ /\ Return(Result("answered", text, ReturnCode))
            /\ text["stdout"] = Chop(b) /\ text["stderr"] = Chop(c)
  <1> DEFINE Cut0 == wire' = <<>> /\ at = "dead" /\ phase' = "read"
             On == /\ phase' = "read"
                   /\ \E r \in 0..Len(a) : /\ Slice(wire', a, r) /\ r + Len(wire') = p + Len(wire)
                                           /\ ReaderAt(r, b, c)'
             Done == /\ Return(Result("answered", text, ReturnCode))
                     /\ text["stdout"] = Chop(b) /\ text["stderr"] = Chop(c)
  <1> SUFFICES Cut0 \/ On \/ Done
    OBVIOUS
  <1>1. /\ wire \in Seq(Token) /\ buf \in Seq(Token) /\ text \in [Streams -> Seq(Token)]
        /\ {"stdout", "stderr"} \subseteq Streams
    BY DEF Typed, TypeOK, Streams
  <1>2. /\ phase = "read" /\ wire' = AfterLine /\ wire # <<>>
        /\ Has(wire, {"nl"}) \/ at = "dead"
    <2>1. phase = "read" /\ wire' = AfterLine /\ (Has(wire, {"nl"}) \/ (Eof /\ wire # <<>>))
      BY LineRead
    <2>2. ASSUME Has(wire, {"nl"})
          PROVE  wire # <<>>
      <3>1. PICK i \in DOMAIN wire : TRUE
        BY <2>2 DEF Has
      <3>2. i \in 1..Len(wire)
        BY <1>1, <3>1, LenProperties
      <3> QED BY <1>1, <3>2, EmptySeq
    <2> QED BY <2>1, <2>2 DEF Eof
  <1>3. PICK m \in Nat, n \in Nat : m = Len(b) /\ n = Len(c) /\ m > 0 /\ n > 0
    BY DEF AnswerParts
  <1>4. /\ a[1].k = "OUT" /\ a[2].k = "nl" /\ \A i \in 1..m : a[2 + i] = b[i]
        /\ a[m + 3].k = "OUT_END" /\ a[m + 4].k = "nl"
        /\ a[m + 5].k = "ERR" /\ a[m + 6].k = "nl"
        /\ \A i \in 1..n : a[m + 6 + i] = c[i]
        /\ a[m + n + 7].k = "ERR_END" /\ a[m + n + 8].k = "nl"
        /\ a[m + n + 9].k = "DONE" /\ Len(a) = m + n + 11
    BY <1>3 DEF AnswerParts
  <1>5. /\ \A x \in Sentinels : Is(x) => a[p + 1].k = x
        /\ Stripped # <<>> => Stripped[1].k = a[p + 1].k
    BY <1>1, <1>2, FirstToken
  <1>6. /\ {"OUT", "OUT_END", "ERR", "ERR_END", "DONE"} = Sentinels
    BY DEF Sentinels
  <1>7. \/ Is("OUT") /\ Open("stdout")
        \/ Is("OUT_END") /\ Close("stdout")
        \/ Is("ERR") /\ Open("stderr")
        \/ Is("ERR_END") /\ Close("stderr")
        \/ /\ Stripped # <<>> /\ Stripped[1].k = "DONE"
           /\ Return(Result("answered", text, ReturnCode))
        \/ /\ ~Is("OUT") /\ ~Is("OUT_END") /\ ~Is("ERR") /\ ~Is("ERR_END")
           /\ ~(Stripped # <<>> /\ Stripped[1].k = "DONE")
           /\ buf' = IF sect = "none" THEN buf ELSE buf \o FirstLine
           /\ UNCHANGED <<sect, text, phase, after, last>>
    BY LineRead
  <1>8. ASSUME a[p + 1].k # "DONE"
        PROVE  phase' = "read" /\ (Has(wire, {"nl"}) \/ Cut0)
    <2>1. phase' = "read"
      BY <1>2, <1>5, <1>7, <1>8 DEF Open, Close
    <2>2. ASSUME ~Has(wire, {"nl"})
          PROVE  wire' = <<>>
      <3>1. FirstLine = wire /\ AfterLine \in Seq(Token) /\ Len(AfterLine) = Len(wire) - Len(FirstLine)
        BY <1>1, <2>2, FirstLineOfWire
      <3>2. Len(wire) \in Nat
        BY <1>1, LenProperties
      <3>3. Len(AfterLine) = 0
        BY <3>1, <3>2
      <3> QED BY <1>2, <3>1, <3>3, EmptySeq
    <2> QED BY <1>2, <2>1, <2>2
  <1>9. ASSUME phase' = "read", NEW r \in Nat, r = p + Len(FirstLine), ReaderAt(r, b, c)'
        PROVE  On
    <2>1. Slice(AfterLine, a, r) /\ r + Len(AfterLine) = p + Len(wire) /\ r \in 0..Len(a)
      BY <1>1, <1>9, Slides
    <2> QED BY <1>2, <1>9, <2>1
  <1>10. ASSUME NEW x \in {"OUT", "OUT_END", "ERR", "ERR_END"}, a[p + 1].k = x,
                a[p + 2].k = "nl", Has(wire, {"nl"})
         PROVE  /\ Len(FirstLine) = 2
                /\ \/ x = "OUT" /\ Open("stdout")
                   \/ x = "OUT_END" /\ Close("stdout")
                   \/ x = "ERR" /\ Open("stderr")
                   \/ x = "ERR_END" /\ Close("stderr")
    <2>1. Len(FirstLine) = 2 /\ Is(x)
      BY <1>1, <1>6, <1>10, SentinelLine
    <2>2. \A y \in {"OUT", "OUT_END", "ERR", "ERR_END"} : Is(y) => y = x
      BY <1>5, <1>6, <1>10
    <2> QED BY <1>5, <1>7, <1>10, <2>1, <2>2
  <1>11. ASSUME a[p + 1].k \notin Sentinels, sect # "none"
         PROVE  buf' = buf \o FirstLine /\ UNCHANGED <<sect, text, phase>>
    BY <1>5, <1>6, <1>7, <1>11
  <1>12. CASE p = 0 /\ sect = "none"
    <2>1. a[p + 1].k = "OUT" /\ a[p + 2].k = "nl"
      BY <1>4, <1>12
    <2>2. phase' = "read" /\ (Has(wire, {"nl"}) \/ Cut0)
      BY <1>8, <2>1
    <2>3. ASSUME Has(wire, {"nl"})
          PROVE  On
      <3>1. Len(FirstLine) = 2 /\ Open("stdout")
        BY <1>10, <2>1, <2>3
      <3>2. Begins(<<>>, b, 0)
        BY DEF Begins
      <3>3. 0 \in 0..Len(b) /\ 2 = 2 + 0
        BY <1>3
      <3>4. ReaderAt(2, b, c)'
        BY <3>1, <3>2, <3>3 DEF ReaderAt, Open, Copied
      <3>5. 2 \in Nat /\ 2 = p + Len(FirstLine)
        BY <1>12, <3>1
      <3> QED BY <1>9, <2>2, <3>4, <3>5
    <2> QED BY <2>2, <2>3
  <1>13. CASE sect = "stdout" /\ Copied(p, 2, b, buf)
    <2>1. PICK k \in 0..m : p = 2 + k /\ Begins(buf, b, k)
      BY <1>3, <1>13 DEF Copied
    <2>2. CASE k = m
      <3>1. p + 1 = m + 3 /\ p + 2 = m + 4 /\ p + 2 \in Nat
        BY <2>1, <2>2
      <3>2. a[p + 1].k = "OUT_END" /\ a[p + 2].k = "nl"
        BY <1>4, <3>1
      <3>3. phase' = "read" /\ (Has(wire, {"nl"}) \/ Cut0)
        BY <1>8, <3>2
      <3>4. ASSUME Has(wire, {"nl"})
            PROVE  On
        <4>1. Len(FirstLine) = 2 /\ Close("stdout")
          BY <1>10, <3>2, <3>4
        <4>2. buf = b
          <5>1. Len(buf) = Len(b) /\ \A i \in 1..Len(buf) : buf[i] = b[i]
            BY <1>3, <2>1, <2>2 DEF Begins
          <5>2. b \in Seq(Token)
            BY DEF Quoted
          <5> QED BY <1>1, <5>1, <5>2, SeqEqual
        <4>3. text'["stdout"] = Chop(b) /\ sect' = "none"
          BY <1>1, <4>1, <4>2 DEF Close
        <4>4. PICK r \in Nat : r = p + 2
          BY <3>1
        <4>5. r = Len(b) + 4
          BY <1>3, <3>1, <4>4
        <4>6. ReaderAt(r, b, c)'
          BY <4>3, <4>5 DEF ReaderAt
        <4> QED BY <1>9, <3>3, <4>1, <4>4, <4>6
      <3> QED BY <3>3, <3>4
    <2>3. CASE k # m
      <3>1. k + 1 \in 1..m /\ p + 1 = 2 + (k + 1) /\ k \in Nat /\ k < m
        BY <2>1, <2>3
      <3>2. a[p + 1] = b[k + 1]
        BY <1>4, <3>1
      <3>3. a[p + 1].k \notin Sentinels
        BY <1>3, <3>1, <3>2 DEF Quoted
      <3>4. buf' = buf \o FirstLine /\ sect' = "stdout" /\ UNCHANGED <<text, phase>>
        BY <1>11, <1>13, <3>3
      <3>5. phase' = "read" /\ (Has(wire, {"nl"}) \/ Cut0)
        BY <1>6, <1>8, <3>3
      <3>6. ASSUME Has(wire, {"nl"})
            PROVE  On
        <4>1. PICK o \in Nat : o = 2
          BY <1>3
        <4>2. Slice(b, a, o) /\ b[Len(b)].k = "nl" /\ p = o + k
          <5>1. \A i \in 1..Len(b) : b[i] = a[o + i]
            BY <1>3, <1>4, <4>1
          <5>2. o + Len(b) \in 0..Len(a)
            BY <1>3, <1>4, <4>1
          <5>3. p = o + k
            BY <1>3, <2>1, <4>1
          <5> QED BY <5>1, <5>2, <5>3 DEF Quoted, Slice
        <4>3. k < Len(b) /\ Len(b) \in Nat /\ k \in Nat
          BY <1>3, <3>1
        <4>4. Copied(p + Len(FirstLine), o, b, buf \o FirstLine)
          BY <1>1, <2>1, <3>6, <4>2, <4>3, TextLine
        <4>5. PICK r : r = p + Len(FirstLine)
          OBVIOUS
        <4>6. r \in Nat
          BY <1>1, <4>5, Slides
        <4>7. ReaderAt(r, b, c)'
          BY <1>13, <3>4, <4>1, <4>4, <4>5 DEF ReaderAt
        <4> QED BY <1>9, <3>5, <4>5, <4>6, <4>7
      <3> QED BY <3>5, <3>6
    <2> QED BY <2>2, <2>3
  <1>14. CASE p = m + 4 /\ sect = "none" /\ text["stdout"] = Chop(b)
    <2>1. p + 1 = m + 5 /\ p + 2 = m + 6 /\ p + 2 \in Nat
      BY <1>14
    <2>2. a[p + 1].k = "ERR" /\ a[p + 2].k = "nl"
      BY <1>4, <2>1
    <2>3. phase' = "read" /\ (Has(wire, {"nl"}) \/ Cut0)
      BY <1>8, <2>2
    <2>4. ASSUME Has(wire, {"nl"})
          PROVE  On
      <3>1. Len(FirstLine) = 2 /\ Open("stderr")
        BY <1>10, <2>2, <2>4
      <3>2. Begins(<<>>, c, 0)
        BY DEF Begins
      <3>3. PICK r \in Nat : r = p + 2
        BY <2>1
      <3>4. 0 \in 0..Len(c) /\ r = Len(b) + 6 + 0
        BY <1>3, <2>1, <3>3
      <3>5. ReaderAt(r, b, c)'
        BY <1>14, <3>1, <3>2, <3>4 DEF ReaderAt, Open, Copied
      <3> QED BY <1>9, <2>3, <3>1, <3>3, <3>5
    <2> QED BY <2>3, <2>4
  <1>15. CASE sect = "stderr" /\ Copied(p, Len(b) + 6, c, buf) /\ text["stdout"] = Chop(b)
    <2>1. PICK k \in 0..n : p = m + 6 + k /\ Begins(buf, c, k)
      BY <1>3, <1>15 DEF Copied
    <2>2. CASE k = n
      <3>1. p + 1 = m + n + 7 /\ p + 2 = m + n + 8 /\ p + 2 \in Nat
        BY <2>1, <2>2
      <3>2. a[p + 1].k = "ERR_END" /\ a[p + 2].k = "nl"
        BY <1>4, <3>1
      <3>3. phase' = "read" /\ (Has(wire, {"nl"}) \/ Cut0)
        BY <1>8, <3>2
      <3>4. ASSUME Has(wire, {"nl"})
            PROVE  On
        <4>1. Len(FirstLine) = 2 /\ Close("stderr")
          BY <1>10, <3>2, <3>4
        <4>2. buf = c
          <5>1. Len(buf) = Len(c) /\ \A i \in 1..Len(buf) : buf[i] = c[i]
            BY <1>3, <2>1, <2>2 DEF Begins
          <5>2. c \in Seq(Token)
            BY DEF Quoted
          <5> QED BY <1>1, <5>1, <5>2, SeqEqual
        <4>3. text'["stdout"] = Chop(b) /\ text'["stderr"] = Chop(c) /\ sect' = "none"
          BY <1>1, <1>15, <4>1, <4>2 DEF Close
        <4>4. PICK r \in Nat : r = p + 2
          BY <3>1
        <4>5. r = Len(b) + Len(c) + 8
          BY <1>3, <3>1, <4>4
        <4>6. ReaderAt(r, b, c)'
          BY <4>3, <4>5 DEF ReaderAt
        <4> QED BY <1>9, <3>3, <4>1, <4>4, <4>6
      <3> QED BY <3>3, <3>4
    <2>3. CASE k # n
      <3>1. k + 1 \in 1..n /\ p + 1 = m + 6 + (k + 1) /\ k \in Nat /\ k < n
        BY <2>1, <2>3
      <3>2. a[p + 1] = c[k + 1]
        BY <1>4, <3>1
      <3>3. a[p + 1].k \notin Sentinels
        BY <1>3, <3>1, <3>2 DEF Quoted
      <3>4. buf' = buf \o FirstLine /\ sect' = "stderr" /\ UNCHANGED <<text, phase>>
        BY <1>11, <1>15, <3>3
      <3>5. phase' = "read" /\ (Has(wire, {"nl"}) \/ Cut0)
        BY <1>6, <1>8, <3>3
      <3>6. ASSUME Has(wire, {"nl"})
            PROVE  On
        <4>1. PICK o \in Nat : o = Len(b) + 6
          BY <1>3
        <4>2. Slice(c, a, o) /\ c[Len(c)].k = "nl" /\ p = o + k
          <5>1. \A i \in 1..Len(c) : c[i] = a[o + i]
            BY <1>3, <1>4, <4>1
          <5>2. o + Len(c) \in 0..Len(a)
            BY <1>3, <1>4, <4>1
          <5>3. p = o + k
            BY <1>3, <2>1, <4>1
          <5> QED BY <5>1, <5>2, <5>3 DEF Quoted, Slice
        <4>3. k < Len(c) /\ Len(c) \in Nat /\ k \in Nat
          BY <1>3, <3>1
        <4>4. Copied(p + Len(FirstLine), o, c, buf \o FirstLine)
          BY <1>1, <2>1, <3>6, <4>2, <4>3, TextLine
        <4>5. PICK r : r = p + Len(FirstLine)
          OBVIOUS
        <4>6. r \in Nat
          BY <1>1, <4>5, Slides
        <4>7. ReaderAt(r, b, c)'
          BY <1>15, <3>4, <4>1, <4>4, <4>5 DEF ReaderAt
        <4> QED BY <1>9, <3>5, <4>5, <4>6, <4>7
      <3> QED BY <3>5, <3>6
    <2> QED BY <2>2, <2>3
  <1>16. CASE /\ p = m + n + 8 /\ sect = "none"
              /\ text["stdout"] = Chop(b) /\ text["stderr"] = Chop(c)
    <2>1. p + 1 = m + n + 9
      BY <1>16
    <2>2. a[p + 1].k = "DONE"
      BY <1>4, <2>1
    <2>3. ~Is("OUT") /\ ~Is("OUT_END") /\ ~Is("ERR") /\ ~Is("ERR_END")
      BY <1>5, <1>6, <2>2
    <2>4. Stripped # <<>>
      <3>1. /\ FirstLine \in Seq(Token) /\ Stripped \in Seq(Token)
            /\ EndsLine(FirstLine) => Len(Stripped) = Len(FirstLine) - 1
            /\ ~EndsLine(FirstLine) => Stripped = FirstLine
        BY <1>1, FirstLineOfWire, StrippedLine
      <3>2. FirstLine # <<>>
        <4>1. CASE Has(wire, {"nl"})
          <5>1. Len(FirstLine) > 0
            BY <1>1, <4>1, FirstLineOfWire
          <5> QED BY <5>1, EmptySeq
        <4>2. CASE ~Has(wire, {"nl"})
          BY <1>1, <1>2, <4>2, FirstLineOfWire
        <4> QED BY <4>1, <4>2
      <3>3. CASE ~EndsLine(FirstLine)
        BY <3>1, <3>2, <3>3
      <3>4. CASE EndsLine(FirstLine)
        <4>1. FirstLine[Len(FirstLine)].k = "nl"
          BY <3>4 DEF EndsLine
        <4>2. FirstLine[1].k = "DONE" /\ Len(FirstLine) \in Nat /\ Len(FirstLine) # 0
          <5>1. Len(FirstLine) \in Nat /\ Len(FirstLine) # 0
            BY <3>1, <3>2, EmptySeq, LenProperties
          <5>2. 1 \in 1..Len(FirstLine)
            BY <5>1
          <5>3. FirstLine[1] = wire[1]
            BY <1>1, <5>2, FirstLineOfWire
          <5>4. wire[1] = a[p + 1]
            BY <1>1, <1>2, FirstToken
          <5> QED BY <2>2, <5>1, <5>3, <5>4
        <4>3. Len(FirstLine) # 1
          BY <4>1, <4>2
        <4>4. Len(Stripped) # 0
          BY <3>1, <3>4, <4>2, <4>3
        <4> QED BY <3>1, <4>4, EmptySeq
      <3> QED BY <3>3, <3>4
    <2>5. Stripped[1].k = "DONE"
      BY <1>5, <2>2, <2>4
    <2>6. Return(Result("answered", text, ReturnCode))
      BY <1>7, <2>3, <2>4, <2>5
    <2> QED BY <1>16, <2>6
  <1> HIDE DEF Cut0, On, Done
  <1> QED BY <1>3, <1>12, <1>13, <1>14, <1>15, <1>16 DEF ReaderAt

\* No byte of the user's own is on the pipe, and none can come any more without being seen.
Pure == ~tear /\ ~raw
Plain == ~Has(said.stdout, Sentinels) /\ ~Has(said.stderr, Sentinels)

HelpInv == (helper => raw) /\ (phase = "idle" => sect = "none")

\* Until a block has ended, nothing comes; what comes is the runner's.
StillInv ==
  /\ phase = "idle" \/ stdin # <<>> \/ at = "run" => wire = <<>>
  /\ phase \in {"idle", "send"} \/ stdin # <<>> \/ at = "run" =>
       sect = "none" /\ buf = <<>> /\ text = Empty
  /\ \A i \in 1..Len(wire) : wire[i].by # Background

\* p tokens of the answer are read, and the others are on the pipe or yet to be written.
Delivers(p) ==
  /\ Slice(wire, Answer, p) /\ \E r : Spells(chunks, Answer, p + Len(wire), r)
  /\ ReaderAt(p, Body(said.stdout, said.by), Body(said.stderr, said.by))

FlowInv ==
  Plain /\ phase \in {"send", "read"} /\ stdin = <<>> /\ at \in {"frame", "loop", "dead"} =>
    (at = "dead" /\ wire = <<>>) \/ \E p \in 0..Len(Answer) : Delivers(p)

Whole ==
  /\ \A s \in Streams : last.text[s] = Truncate(Chop(said[s]))
  /\ last.cut = (\E s \in Streams : Size(Chop(said[s])) > MaxOutput)
LastInv == Returned("answered") /\ Plain => Whole

FaithInv == HelpInv /\ (Pure => StillInv /\ FlowInv /\ LastInv)

\* A helper is one that writes past sys.stdout; between calls no section is open.
LEMMA HelpStep ==
  ASSUME HelpInv, [Next]_vars
  PROVE  HelpInv'
  <1>1. helper' => raw'
    <2>1. CASE Server
      <3>1. CASE BeginCall
        <4>1. helper' = FALSE \/ (helper' = helper /\ raw' = raw)
          BY <3>1 DEF BeginCall
        <4> QED BY <4>1 DEF HelpInv
      <3>2. CASE Sent \/ ReadLine \/ ReadOverlong
        BY <3>2 DEF Sent, ReadLine, ReadOverlong, user, HelpInv
      <3>3. CASE SendFails \/ Drained
        BY <3>3 DEF SendFails, Drained, Stop, RunnerEnds, HelpInv
      <3>4. CASE ReadEof \/ Stopped \/ TimeOut
        BY <3>4 DEF ReadEof, Stopped, TimeOut, Forget, HelpInv
      <3> QED BY <2>1, <3>1, <3>2, <3>3, <3>4 DEF Server
    <2>2. CASE Runner \/ User \/ UNCHANGED vars
      BY <2>2 DEF Runner, User, ReadCode, Finish, WriteChunk, Die, RunnerEnds, RawWrite, HelperWrites,
           PrintText, StartHelper, HelperEnds, Flood, vars, user, HelpInv
    <2> QED BY <2>1, <2>2 DEF Next
  <1>2. phase' = "idle" => sect' = "none"
    <2>1. ASSUME NEW o, Return(o)
          PROVE  sect' = "none"
      BY <2>1 DEF Return, FreshLocals
    <2>2. ASSUME UNCHANGED <<phase, sect>>
          PROVE  phase' = "idle" => sect' = "none"
      BY <2>2 DEF HelpInv
    <2>3. CASE ReadLine
      <3>1. phase' = phase \/ Return(Result("answered", text, ReturnCode))
        BY <2>3, LineRead DEF Open, Close
      <3>2. phase = "read"
        BY <2>3, LineRead
      <3> QED BY <2>1, <3>1, <3>2
    <2>4. CASE BeginCall \/ Sent \/ SendFails \/ Drained
      BY <2>4 DEF BeginCall, Sent, SendFails, Drained, Stop
    <2>5. CASE ReadOverlong \/ ReadEof \/ Stopped
      BY <2>1, <2>5 DEF ReadOverlong, ReadEof, Stopped
    <2>6. CASE TimeOut
      BY <2>1, <2>6 DEF TimeOut
    <2>7. CASE Runner \/ User \/ UNCHANGED vars
      <3>1. UNCHANGED <<phase, sect>>
        BY <2>7 DEF Runner, User, ReadCode, Finish, WriteChunk, Die, RawWrite, HelperWrites,
             PrintText, StartHelper, HelperEnds, Flood, server, vars, reader
      <3> QED BY <2>2, <3>1
    <2> QED BY <2>3, <2>4, <2>5, <2>6, <2>7 DEF Next, Server
  <1> QED BY <1>1, <1>2 DEF HelpInv

\* That user code wrote past sys.stdout is forgotten with the runner only.
LEMMA PureStep ==
  ASSUME Typed, [Next]_vars, Pure'
  PROVE  Pure \/ Starts
  <1>1. ~tear \/ Starts
    BY TearStep DEF Pure
  <1>2. ~raw \/ Starts
    <2>1. CASE BeginCall
      BY <2>1 DEF BeginCall, Starts, Pure
    <2>2. CASE \/ Sent \/ SendFails \/ ReadLine \/ ReadOverlong \/ ReadEof \/ TimeOut
               \/ Drained \/ Stopped
      BY <2>2 DEF Sent, SendFails, ReadLine, ReadOverlong, ReadEof, TimeOut, Drained, Stopped,
            user, Pure
    <2>3. CASE Runner \/ User \/ UNCHANGED vars
      BY <2>3 DEF Runner, User, ReadCode, Finish, WriteChunk, Die, RawWrite, HelperWrites,
           PrintText, StartHelper, HelperEnds, Flood, vars, user, Pure
    <2> QED BY <2>1, <2>2, <2>3 DEF Next, Server
  <1> QED BY <1>1, <1>2 DEF Pure

\* No line is too long to read while only the runner writes.
LEMMA NotOverlong ==
  ASSUME Typed, WireInv
  PROVE  ~Overlong
  <1>1. /\ FirstLine \in Seq(Token) /\ Len(FirstLine) <= Len(wire)
        /\ \A i \in 1..Len(FirstLine) : FirstLine[i] = wire[i]
    BY FirstLineOfWire DEF Typed, TypeOK
  <1>2. DOMAIN FirstLine = 1..Len(FirstLine) /\ Len(FirstLine) \in Nat /\ Len(wire) \in Nat
    BY <1>1, LenProperties DEF Typed, TypeOK
  <1>3. ASSUME NEW i \in DOMAIN FirstLine
        PROVE  FirstLine[i].k # "huge"
    <2>1. i \in 1..Len(FirstLine) /\ i \in 1..Len(wire)
      BY <1>1, <1>2, <1>3
    <2> QED BY <1>1, <2>1 DEF WireInv
  <1> QED BY <1>3 DEF Overlong, Has

\* User code does not write past sys.stdout.
LEMMA NoUserBytes ==
  ASSUME HelpInv, Pure, Pure', User
  PROVE  \E ks \in Texts : \E s \in Streams : PrintText(s, ks)
  <1>1. ~helper
    BY DEF HelpInv, Pure
  <1>2. ASSUME NEW ks \in Texts, RawWrite(ks) \/ HelperWrites(ks)
        PROVE  FALSE
    BY <1>1, <1>2 DEF RawWrite, HelperWrites, Pure
  <1>3. ~StartHelper /\ ~HelperEnds /\ ~Flood
    BY <1>1 DEF StartHelper, HelperEnds, Flood, Pure
  <1> QED BY <1>2, <1>3, Zenon DEF User

\* With its answer a call has read all there was.
LEMMA NothingBehind ==
  ASSUME Typed, WireInv, StillInv, Has(wire, {"nl"}) \/ wire # <<>>,
         Stripped # <<>>, Stripped[1].k = "DONE"
  PROVE  AfterLine = <<>>
  <1>1. AfterLine \in Seq(Strays)
    BY AnswerRead
  <1>2. /\ Len(AfterLine) = Len(wire) - Len(FirstLine) /\ Len(FirstLine) <= Len(wire)
        /\ \A i \in 1..Len(AfterLine) : AfterLine[i] = wire[Len(FirstLine) + i]
        /\ FirstLine \in Seq(Token)
    BY FirstLineOfWire DEF Typed, TypeOK
  <1>3. PICK l \in Nat, k \in Nat, w \in Nat :
          l = Len(FirstLine) /\ k = Len(AfterLine) /\ w = Len(wire)
    <2>1. wire \in Seq(Token)
      BY DEF Typed, TypeOK
    <2> QED BY <1>1, <1>2, <2>1, LenProperties
  <1>4. ASSUME NEW i \in 1..k
        PROVE  FALSE
    <2>1. l + i \in 1..w
      BY <1>2, <1>3
    <2>2. AfterLine[i] \in Strays
      BY <1>1, <1>3, ElementOfSeq
    <2>3. wire[l + i].by # Background
      BY <1>3, <2>1 DEF StillInv
    <2> QED BY <1>2, <1>3, <2>2, <2>3 DEF Strays
  <1>5. k = 0
    <2>1. ~(1 \in 1..k)
      BY <1>4
    <2> QED BY <1>3, <2>1
  <1> QED BY <1>1, <1>3, <1>5, EmptySeq

\* While the user writes nothing past sys.stdout, every step keeps the pipe empty until a block has ended.
LEMMA StillStep ==
  ASSUME Typed, HandInv, HelpInv, InStep, Pure, StillInv, [Next]_vars, Pure'
  PROVE  StillInv'
  <1>0. wire \in Seq(Token) /\ WireInv /\ TurnInv /\ BlockInv
    BY DEF Typed, TypeOK, InStep
  <1>1. ASSUME wire' = <<>>, sect' = "none", buf' = <<>>, text' = Empty
        PROVE  StillInv'
    <2>1. Len(wire') = 0
      BY <1>1
    <2> QED BY <1>1, <2>1 DEF StillInv
  <1>2. ASSUME UNCHANGED <<wire, sect, buf, text, stdin>>, at' = at \/ at' # "run",
               phase' = phase \/ phase' \notin {"idle", "send"}
        PROVE  StillInv'
    BY <1>2 DEF StillInv
  <1>3. CASE BeginCall
    <2>1. phase = "idle" /\ UNCHANGED reader /\ (wire' = <<>> \/ wire' = wire)
      BY <1>3 DEF BeginCall
    <2>2. wire = <<>> /\ sect = "none" /\ buf = <<>> /\ text = Empty
      BY <2>1 DEF StillInv
    <2> QED BY <1>1, <2>1, <2>2 DEF reader
  <1>4. CASE Sent
    BY <1>2, <1>4 DEF Sent, reader, runner
  <1>5. CASE SendFails \/ Drained
    BY <1>2, <1>5 DEF SendFails, Drained, Stop, RunnerEnds, reader
  <1>6. CASE ReadEof \/ Stopped \/ (TimeOut /\ phase' # "drain")
    <2>1. Forget /\ FreshLocals
      BY <1>6 DEF ReadEof, Stopped, TimeOut, Return
    <2> QED BY <1>1, <2>1 DEF Forget, FreshLocals
  <1>7. CASE TimeOut /\ phase' = "drain"
    <2>1. ~(phase' = "idle")
      BY <1>7
    <2>2. /\ UNCHANGED <<wire, stdin, at>> /\ sect' = "none" /\ buf' = <<>> /\ text' = Empty
      BY <1>7, <2>1 DEF TimeOut, Return, runner
    <2> QED BY <1>7, <2>2 DEF StillInv
  <1>8. CASE ReadOverlong
    BY <1>0, <1>8, NotOverlong DEF ReadOverlong
  <1>9. CASE ReadLine
    <2>1. /\ phase = "read" /\ wire' = AfterLine /\ (Has(wire, {"nl"}) \/ wire # <<>>)
          /\ UNCHANGED <<at, stdin>>
      BY <1>9 DEF ReadLine, runner
    <2>2. CASE Return(Result("answered", text, ReturnCode)) /\ Stripped # <<>>
               /\ Stripped[1].k = "DONE"
      <3>1. wire' = <<>>
        BY <1>0, <2>1, <2>2, NothingBehind
      <3> QED BY <1>1, <2>2, <3>1 DEF Return, FreshLocals
    <2>3. CASE phase' = phase
      <3>1. wire # <<>>
        BY <2>1, EmptySeq, LenProperties DEF Has
      <3>2. stdin' = <<>> /\ at' # "run" /\ phase' \notin {"idle", "send"}
        BY <2>1, <2>3, <3>1 DEF StillInv
      <3>3. \A i \in 1..Len(wire') : wire'[i].by # Background
        <4>1. /\ Len(AfterLine) = Len(wire) - Len(FirstLine) /\ Len(FirstLine) <= Len(wire)
              /\ \A i \in 1..Len(AfterLine) : AfterLine[i] = wire[Len(FirstLine) + i]
              /\ FirstLine \in Seq(Token) /\ AfterLine \in Seq(Token)
          BY <1>0, FirstLineOfWire
        <4>2. PICK l \in Nat, k \in Nat, w \in Nat :
                l = Len(FirstLine) /\ k = Len(AfterLine) /\ w = Len(wire)
          BY <1>0, <4>1, LenProperties
        <4>3. ASSUME NEW i \in 1..k
              PROVE  AfterLine[i].by # Background
          <5>1. l + i \in 1..w
            BY <4>1, <4>2
          <5>2. wire[l + i].by # Background
            BY <4>2, <5>1 DEF StillInv
          <5> QED BY <4>1, <4>2, <5>2
        <4> QED BY <2>1, <4>2, <4>3
      <3> QED BY <3>2, <3>3 DEF StillInv
    <2>4. \/ phase' = phase
          \/ (Return(Result("answered", text, ReturnCode)) /\ Stripped # <<>>
               /\ Stripped[1].k = "DONE")
      BY <1>9, LineRead DEF Open, Close
    <2> QED BY <2>2, <2>3, <2>4
  <1>10. CASE ReadCode
    <2>1. stdin # <<>> /\ UNCHANGED <<wire, sect, buf, text>>
      BY <1>10 DEF ReadCode, server, reader
    <2> QED BY <1>1, <2>1 DEF StillInv
  <1>11. CASE Finish \/ Die
    BY <1>2, <1>11 DEF Finish, Die, RunnerEnds, server, reader
  <1>12. CASE WriteChunk
    <2>1. /\ at = "frame" /\ chunks # <<>> /\ wire' = wire \o Head(chunks)
          /\ UNCHANGED <<phase, stdin>> /\ at' # "run"
      BY <1>12 DEF WriteChunk, server, Typed
    <2>2. phase # "idle" /\ stdin = <<>> /\ said.by = calls /\ calls > 0
      BY <1>0, <2>1 DEF TurnInv, BlockInv
    <2> DEFINE SM == Seq(Mine)
    <2>3. chunks \in Seq(SM)
      BY DEF HandInv
    <2> HIDE DEF SM
    <2>4. Head(chunks) \in SM
      BY <2>1, <2>3, HeadTailProperties
    <2>5. PICK h : h = Head(chunks)
      OBVIOUS
    <2>6. h \in Seq(Mine)
      BY <2>4, <2>5 DEF SM
    <2>7. \A i \in 1..Len(h) : h[i] \in Mine
      BY <2>6, ElementOfSeq
    <2>8. h \in Seq(Token)
      <3>1. \A i \in 1..Len(h) : h[i] \in Token
        BY <2>7 DEF Mine
      <3> QED BY <2>6, <3>1, Within
    <2>9. PICK x : x = wire \o h
      OBVIOUS
    <2>10. /\ Len(x) = Len(wire) + Len(h) /\ \A i \in 1..Len(wire) : x[i] = wire[i]
           /\ \A i \in 1..Len(h) : x[Len(wire) + i] = h[i]
           /\ Len(wire) \in Nat /\ Len(h) \in Nat
      <3>1. Glued(x, wire, h)
        BY <1>0, <2>8, <2>9, Glue
      <3> QED BY <1>0, <2>8, <3>1, LenProperties DEF Glued
    <2>11. ASSUME NEW i \in 1..Len(x)
           PROVE  x[i].by # Background
      <3>1. CASE i \in 1..Len(wire)
        BY <2>10, <3>1 DEF StillInv
      <3>2. CASE ~(i \in 1..Len(wire))
        <4> DEFINE j == i - Len(wire)
        <4>1. j \in 1..Len(h) /\ Len(wire) + j = i
          BY <2>10, <3>2
        <4> HIDE DEF j
        <4>2. x[Len(wire) + j] = h[j] /\ h[j].by = said.by
          BY <2>7, <2>10, <4>1 DEF Mine
        <4> QED BY <2>2, <4>1, <4>2 DEF Background
      <3> QED BY <3>1, <3>2
    <2>12. wire' = x
      BY <2>1, <2>5, <2>9
    <2>13. /\ UNCHANGED <<sect, buf, text>>
      BY <1>12 DEF WriteChunk, server, reader
    <2> QED BY <2>1, <2>2, <2>11, <2>12, <2>13 DEF StillInv
  <1>13. CASE User
    <2>1. PICK ks \in Texts, s \in Streams : PrintText(s, ks)
      BY <1>13, NoUserBytes
    <2> QED BY <1>2, <2>1 DEF PrintText, server, reader
  <1>14. CASE UNCHANGED vars
    BY <1>2, <1>14 DEF vars, reader, runner
  <1> QED BY <1>3, <1>4, <1>5, <1>6, <1>7, <1>8, <1>9, <1>10, <1>11, <1>12, <1>13, <1>14,
             Zenon DEF Next, Server, Runner

\* If what the block has said stays, so does its answer: r tokens of it are read.
LEMMA DeliversNext ==
  ASSUME said' = said, NEW a, a = Answer, NEW b, b = Body(said.stdout, said.by),
         NEW c, c = Body(said.stderr, said.by), NEW r \in 0..Len(a), Slice(wire', a, r),
         NEW t, Spells(chunks', a, r + Len(wire'), t), ReaderAt(r, b, c)'
  PROVE  \E p \in 0..Len(Answer') : Delivers(p)'
  <1>1. Answer' = a
    BY DEF Answer
  <1>2. Body(said'.stdout, said'.by) = b /\ Body(said'.stderr, said'.by) = c
    OBVIOUS
  <1>3. Delivers(r)'
    BY <1>1, <1>2 DEF Delivers, ReaderAt
  <1> QED BY <1>1, <1>3

\* What comes behind a piece of the answer, and is the next piece of it, continues it.
LEMMA SliceJoin ==
  ASSUME NEW v \in Seq(Token), NEW w \in Seq(Token), NEW a \in Seq(Token), NEW q,
         Slice(v, a, q), NEW u, u = q + Len(v), Slice(w, a, u), NEW x, Glued(x, v, w)
  PROVE  Slice(x, a, q) /\ q + Len(x) = u + Len(w)
  <1>1. PICK m \in Nat, n \in Nat, l \in Nat : m = Len(v) /\ n = Len(w) /\ l = Len(a)
    BY LenProperties
  <1>2. /\ Len(x) = m + n /\ \A i \in 1..m : x[i] = v[i]
        /\ \A i \in 1..n : x[m + i] = w[i]
    BY <1>1 DEF Glued
  <1>3. q \in Nat /\ \A i \in 1..m : v[i] = a[q + i]
    BY <1>1 DEF Slice
  <1>4. q + m + n \in 0..l /\ \A i \in 1..n : w[i] = a[q + m + i]
    BY <1>1 DEF Slice
  <1>5. ASSUME NEW i \in 1..m + n
        PROVE  x[i] = a[q + i]
    <2>1. CASE i \in 1..m
      BY <1>2, <1>3, <2>1
    <2>2. CASE ~(i \in 1..m)
      <3> DEFINE j == i - m
      <3>1. j \in 1..n /\ m + j = i /\ q + m + j = q + i
        BY <1>1, <1>3, <2>2
      <3> HIDE DEF j
      <3>2. x[m + j] = w[j] /\ w[j] = a[q + m + j]
        BY <1>2, <1>4, <3>1
      <3> QED BY <3>1, <3>2
    <2> QED BY <2>1, <2>2
  <1>6. q + (m + n) \in 0..l /\ q + (m + n) = q + m + n
    BY <1>1, <1>3, <1>4
  <1> QED BY <1>1, <1>2, <1>3, <1>5, <1>6 DEF Slice

\* What a line of the pipe does to a call whose block printed no sentinel.
LEMMA LineOfAnswer ==
  ASSUME Typed, TurnInv, StillInv, FlowInv, Plain, ReadLine
  PROVE  \/ wire' = <<>> /\ at' = "dead" /\ phase' = "read"
         \/ phase' = "read" /\ \E p \in 0..Len(Answer') : Delivers(p)'
         \/ /\ Return(Result("answered", text, ReturnCode))
            /\ \A s \in Streams : text[s] = Chop(said[s])
  <1>1. /\ said \in [stdout : Seq(Token), stderr : Seq(Token), by : 0..MaxCalls]
        /\ said.stdout \in Seq(Token) /\ said.stderr \in Seq(Token) /\ said.by \in 0..MaxCalls
        /\ wire \in Seq(Token) /\ at \in {"none", "loop", "run", "frame", "dead"}
    BY DEF Typed, TypeOK
  <1>2. phase = "read" /\ (Has(wire, {"nl"}) \/ wire # <<>>)
    BY LineRead
  <1>3. wire # <<>>
    <2>1. ASSUME Has(wire, {"nl"})
          PROVE  wire # <<>>
      <3>1. PICK i \in DOMAIN wire : TRUE
        BY <2>1 DEF Has
      <3>2. i \in 1..Len(wire)
        BY <1>1, <3>1, LenProperties
      <3> QED BY <1>1, <3>2, EmptySeq
    <2> QED BY <1>2, <2>1
  <1>4. UNCHANGED <<at, stdin, said, chunks>>
    BY DEF ReadLine, runner
  <1>5. stdin = <<>> /\ at \in {"frame", "loop", "dead"}
    BY <1>1, <1>2, <1>3 DEF StillInv, TurnInv
  <1>6. PICK p \in 0..Len(Answer) : Delivers(p)
    BY <1>2, <1>3, <1>5 DEF FlowInv
  <1>7. PICK a : a = Answer
    OBVIOUS
  <1>8. PICK b : b = Body(said.stdout, said.by)
    OBVIOUS
  <1>9. PICK c : c = Body(said.stderr, said.by)
    OBVIOUS
  <1>10. AnswerParts(a, b, c)
    BY <1>1, <1>7, <1>8, <1>9, AnswerOf
  <1>11. Quoted(b) /\ Chop(b) = Chop(said.stdout)
    BY <1>1, <1>8, BodyOf DEF Quoted, Plain
  <1>12. Quoted(c) /\ Chop(c) = Chop(said.stderr)
    BY <1>1, <1>9, BodyOf DEF Quoted, Plain
  <1>13. /\ Slice(wire, a, p) /\ \E t : Spells(chunks, a, p + Len(wire), t)
         /\ ReaderAt(p, b, c)
    BY <1>6, <1>7, <1>8, <1>9 DEF Delivers
  <1>14. p \in Nat
    BY <1>13 DEF Slice
  <1>15. PICK t : Spells(chunks, a, p + Len(wire), t)
    BY <1>13
  <1>16. \/ wire' = <<>> /\ at = "dead" /\ phase' = "read"
         \/ /\ phase' = "read"
            /\ \E r \in 0..Len(a) : /\ Slice(wire', a, r) /\ r + Len(wire') = p + Len(wire)
                                    /\ ReaderAt(r, b, c)'
         \/ /\ Return(Result("answered", text, ReturnCode))
            /\ text["stdout"] = Chop(b) /\ text["stderr"] = Chop(c)
    BY <1>10, <1>11, <1>12, <1>13, <1>14, LineTaken
  <1>17. CASE wire' = <<>> /\ at = "dead" /\ phase' = "read"
    BY <1>4, <1>17
  <1>18. CASE /\ phase' = "read"
              /\ \E r \in 0..Len(a) : /\ Slice(wire', a, r) /\ r + Len(wire') = p + Len(wire)
                                      /\ ReaderAt(r, b, c)'
    <2>1. PICK r \in 0..Len(a) : /\ Slice(wire', a, r) /\ r + Len(wire') = p + Len(wire)
                                 /\ ReaderAt(r, b, c)'
      BY <1>18
    <2>2. Spells(chunks', a, r + Len(wire'), t)
      BY <1>4, <1>15, <2>1
    <2>3. \E q \in 0..Len(Answer') : Delivers(q)'
      BY <1>4, <1>7, <1>8, <1>9, <2>1, <2>2, DeliversNext
    <2> QED BY <1>18, <2>3
  <1>19. CASE /\ Return(Result("answered", text, ReturnCode))
              /\ text["stdout"] = Chop(b) /\ text["stderr"] = Chop(c)
    <2>1. \A s \in Streams : text[s] = Chop(said[s])
      BY <1>11, <1>12, <1>19 DEF Streams
    <2> QED BY <1>19, <2>1
  <1> QED BY <1>16, <1>17, <1>18, <1>19

\* Every step keeps the answer on its way.
LEMMA FlowStep ==
  ASSUME Typed, HandInv, HelpInv, InStep, Pure, StillInv, FlowInv, [Next]_vars, Pure'
  PROVE  FlowInv'
  <1>0. /\ said \in [stdout : Seq(Token), stderr : Seq(Token), by : 0..MaxCalls]
        /\ wire \in Seq(Token) /\ chunks \in Seq(Seq(Token)) /\ WireInv /\ TurnInv
    BY DEF Typed, TypeOK, InStep
  <1>1. ASSUME phase' \notin {"send", "read"} \/ stdin' # <<>> \/ at' \notin {"frame", "loop", "dead"}
        PROVE  FlowInv'
    BY <1>1 DEF FlowInv
  <1>2. ASSUME UNCHANGED <<at, stdin, said, chunks, wire, sect, buf, text>>,
               phase \in {"send", "read"}
        PROVE  FlowInv'
    BY <1>2 DEF FlowInv, Plain, Delivers, ReaderAt, Answer
  <1>3. CASE BeginCall
    <2>1. stdin' = <<calls'>> \/ stdin' = Append(stdin, calls')
      BY <1>3 DEF BeginCall
    <2>2. calls' \in Nat /\ stdin \in Seq(Nat)
      <3>1. calls' = calls + 1 /\ calls \in Nat
        BY <1>3, ProtocolBounds DEF BeginCall, Typed, TypeOK
      <3>2. \A i \in Call : i \in Nat
        BY DEF Call
      <3>3. stdin \in Seq(Call)
        BY DEF Typed, TypeOK
      <3>4. stdin \in Seq(Nat)
        BY <3>2, <3>3, ElementOfSeq, Within
      <3> QED BY <3>1, <3>4
    <2>3. stdin' # <<>>
      <3>1. PICK c \in Nat : c = calls'
        BY <2>2
      <3>2. CASE stdin' = <<c>>
        BY <3>2
      <3>3. CASE stdin' = Append(stdin, c)
        <4>1. Len(stdin') = Len(stdin) + 1 /\ Len(stdin) \in Nat
          BY <2>2, <3>3, AppendProperties, LenProperties
        <4>2. Len(stdin') # 0
          BY <4>1
        <4> QED BY <4>2
      <3> QED BY <2>1, <3>1, <3>2, <3>3
    <2> QED BY <1>1, <2>3
  <1>4. CASE Sent
    BY <1>2, <1>4 DEF Sent, reader, runner
  <1>5. CASE SendFails \/ Drained
    BY <1>1, <1>5 DEF SendFails, Drained, Stop
  <1>6. CASE ReadEof \/ Stopped \/ TimeOut \/ ReadOverlong
    BY <1>1, <1>6 DEF ReadEof, Stopped, TimeOut, ReadOverlong, Return
  <1>7. CASE ReadLine
    <2>1. ASSUME Plain'
          PROVE  Plain
      BY <1>7, <2>1 DEF ReadLine, runner, Plain
    <2>2. ASSUME Plain
          PROVE  FlowInv'
      <3>1. \/ wire' = <<>> /\ at' = "dead" /\ phase' = "read"
            \/ phase' = "read" /\ \E p \in 0..Len(Answer') : Delivers(p)'
            \/ Return(Result("answered", text, ReturnCode))
        BY <1>0, <1>7, <2>2, LineOfAnswer
      <3>2. CASE Return(Result("answered", text, ReturnCode))
        BY <1>1, <3>2 DEF Return
      <3> QED BY <3>1, <3>2 DEF FlowInv
    <2>3. ASSUME ~Plain'
          PROVE  FlowInv'
      BY <2>3 DEF FlowInv
    <2> QED BY <2>1, <2>2, <2>3
  <1>8. CASE ReadCode
    BY <1>1, <1>8 DEF ReadCode
  <1>9. CASE Finish
    <2>1. /\ at = "run" /\ chunks' = Frames
          /\ UNCHANGED <<said, wire, stdin, phase, sect, buf, text>>
      BY <1>9 DEF Finish, server, reader
    <2>2. CASE phase \in {"send", "read"}
      <3>1. PICK a : a = Answer
        OBVIOUS
      <3>2. PICK b : b = Body(said.stdout, said.by)
        OBVIOUS
      <3>3. PICK c : c = Body(said.stderr, said.by)
        OBVIOUS
      <3>4. wire = <<>> /\ sect = "none"
        BY <2>1, <2>2 DEF StillInv
      <3>5. AnswerParts(a, b, c)
        BY <1>0, <3>1, <3>2, <3>3, AnswerOf
      <3>6. Len(a) \in Nat /\ 0 \in 0..Len(a)
        BY <3>5, LenProperties DEF AnswerParts
      <3>7. Len(wire') = 0
        BY <2>1, <3>4
      <3>8. Slice(wire', a, 0)
        BY <3>6, <3>7 DEF Slice
      <3>9. Spells(chunks', a, 0 + Len(wire'), Len(a))
        <4>1. Spells(Frames, a, 0, Len(a))
          BY <1>0, <3>1, SpellsAnswer
        <4> QED BY <2>1, <3>7, <4>1
      <3>10. ReaderAt(0, b, c)'
        BY <2>1, <3>4 DEF ReaderAt
      <3>11. \E p \in 0..Len(Answer') : Delivers(p)'
        BY <2>1, <3>1, <3>2, <3>3, <3>6, <3>8, <3>9, <3>10, DeliversNext
      <3> QED BY <3>11 DEF FlowInv
    <2>3. CASE phase \notin {"send", "read"}
      BY <1>1, <2>1, <2>3
    <2> QED BY <2>2, <2>3
  <1>10. CASE WriteChunk
    <2>1. /\ at = "frame" /\ chunks # <<>> /\ wire' = wire \o Head(chunks) /\ chunks' = Tail(chunks)
          /\ UNCHANGED <<said, stdin, phase, sect, buf, text>>
      BY <1>10 DEF WriteChunk, server, reader, Typed
    <2>2. CASE Plain /\ phase \in {"send", "read"} /\ stdin = <<>>
      <3>1. PICK p \in 0..Len(Answer) : Delivers(p)
        BY <2>1, <2>2 DEF FlowInv
      <3>2. PICK a : a = Answer
        OBVIOUS
      <3>3. PICK b : b = Body(said.stdout, said.by)
        OBVIOUS
      <3>4. PICK c : c = Body(said.stderr, said.by)
        OBVIOUS
      <3>5. AnswerParts(a, b, c)
        BY <1>0, <3>2, <3>3, <3>4, AnswerOf
      <3>6. a \in Seq(Token)
        BY <3>5 DEF AnswerParts
      <3>7. Slice(wire, a, p) /\ \E t : Spells(chunks, a, p + Len(wire), t)
        BY <3>1, <3>2 DEF Delivers
      <3>8. PICK t : Spells(chunks, a, p + Len(wire), t)
        BY <3>7
      <3>9. PICK q : q = p + Len(wire)
        OBVIOUS
      <3>10. Slice(Head(chunks), a, q) /\ Spells(Tail(chunks), a, q + Len(Head(chunks)), t)
        BY <1>0, <2>1, <3>6, <3>8, <3>9, SpellsTail
      <3>11. PICK h \in Seq(Token) : h = Head(chunks)
        <4> DEFINE ST == Seq(Token)
        <4>1. chunks \in Seq(ST)
          BY <1>0
        <4> HIDE DEF ST
        <4>2. Head(chunks) \in ST
          BY <2>1, <4>1, HeadTailProperties
        <4> QED BY <4>2 DEF ST
      <3>12. Glued(wire', wire, h)
        BY <1>0, <2>1, <3>11, Glue
      <3>13. Slice(wire', a, p) /\ p + Len(wire') = q + Len(h)
        <4>1. PICK x : x = wire'
          OBVIOUS
        <4>2. Glued(x, wire, h)
          BY <3>12, <4>1
        <4>3. Slice(h, a, q) /\ Slice(wire, a, p)
          BY <3>7, <3>10, <3>11
        <4>4. wire \in Seq(Token) /\ h \in Seq(Token)
          BY <1>0, <3>11
        <4>5. Slice(x, a, p) /\ p + Len(x) = q + Len(h)
          BY <3>6, <3>9, <4>2, <4>3, <4>4, SliceJoin
        <4> QED BY <4>1, <4>5
      <3>14. Spells(chunks', a, p + Len(wire'), t)
        BY <2>1, <3>10, <3>11, <3>13
      <3>15. ReaderAt(p, b, c)'
        <4>1. ReaderAt(p, b, c)
          BY <3>1, <3>3, <3>4 DEF Delivers
        <4> QED BY <2>1, <4>1 DEF ReaderAt
      <3>16. \E r \in 0..Len(Answer') : Delivers(r)'
        BY <2>1, <3>1, <3>2, <3>3, <3>4, <3>13, <3>14, <3>15, DeliversNext
      <3> QED BY <3>16 DEF FlowInv
    <2>3. CASE ~(Plain /\ phase \in {"send", "read"} /\ stdin = <<>>)
      BY <2>1, <2>3 DEF FlowInv, Plain
    <2> QED BY <2>2, <2>3
  <1>11. CASE Die
    <2>1. /\ at \in {"loop", "run", "frame"} /\ at' = "dead" /\ chunks' = <<>>
          /\ UNCHANGED <<said, stdin, phase, sect, buf, text, wire>>
      BY <1>11 DEF Die, RunnerEnds, server, reader
    <2>2. CASE ~(Plain /\ phase \in {"send", "read"} /\ stdin = <<>>)
      BY <2>1, <2>2 DEF FlowInv, Plain
    <2>3. CASE phase \in {"send", "read"} /\ at = "run"
      <3>1. wire' = <<>>
        BY <2>1, <2>3 DEF StillInv
      <3> QED BY <2>1, <3>1 DEF FlowInv
    <2>4. CASE Plain /\ phase \in {"send", "read"} /\ stdin = <<>> /\ at # "run"
      <3>1. PICK p \in 0..Len(Answer) : Delivers(p)
        BY <2>1, <2>4 DEF FlowInv
      <3>2. PICK a : a = Answer
        OBVIOUS
      <3>3. PICK b : b = Body(said.stdout, said.by)
        OBVIOUS
      <3>4. PICK c : c = Body(said.stderr, said.by)
        OBVIOUS
      <3>5. AnswerParts(a, b, c)
        BY <1>0, <3>2, <3>3, <3>4, AnswerOf
      <3>6. a \in Seq(Token)
        BY <3>5 DEF AnswerParts
      <3>7. Slice(wire, a, p) /\ ReaderAt(p, b, c)
        BY <3>1, <3>2, <3>3, <3>4 DEF Delivers
      <3>8. PICK q \in 0..Len(a) : q = p + Len(wire)
        BY <3>7 DEF Slice
      <3>9. Spells(<<>>, a, q, q)
        BY <3>6, SpellsNone
      <3>10. Spells(chunks', a, p + Len(wire'), q) /\ Slice(wire', a, p)
        BY <2>1, <3>7, <3>8, <3>9
      <3>11. ReaderAt(p, b, c)'
        BY <2>1, <3>7 DEF ReaderAt
      <3>12. \E r \in 0..Len(Answer') : Delivers(r)'
        BY <2>1, <3>1, <3>2, <3>3, <3>4, <3>10, <3>11, DeliversNext
      <3> QED BY <3>12 DEF FlowInv
    <2> QED BY <2>2, <2>3, <2>4
  <1>12. CASE User
    <2>1. PICK ks \in Texts, s \in Streams : PrintText(s, ks)
      BY <1>12, NoUserBytes
    <2>2. at' = "run"
      BY <2>1 DEF PrintText
    <2> QED BY <1>1, <2>2
  <1>13. CASE UNCHANGED vars
    BY <1>1, <1>2, <1>13 DEF vars, reader, runner
  <1> QED BY <1>3, <1>4, <1>5, <1>6, <1>7, <1>8, <1>9, <1>10, <1>11, <1>12, <1>13,
             Zenon DEF Next, Server, Runner

\* An answer to code that prints no sentinel has all it printed.
LEMMA LastStep ==
  ASSUME Typed, InStep, OwnInv, StillInv, FlowInv, LastInv, [Next]_vars
  PROVE  LastInv'
  <1>0. TurnInv
    BY DEF InStep
  <1>1. ASSUME phase' # "idle"
        PROVE  LastInv'
    BY <1>1 DEF LastInv, Returned
  <1>2. ASSUME UNCHANGED <<phase, last, said>>
        PROVE  LastInv'
    BY <1>2 DEF LastInv, Returned, Plain, Whole
  <1>3. ASSUME NEW o, Return(o), o.kind # "answered"
        PROVE  LastInv'
    BY <1>3 DEF Return, LastInv, Returned
  <1>4. ASSUME NEW x, NEW full, NEW code
        PROVE  Result(x, full, code).kind = x
    BY DEF Result
  <1>5. CASE BeginCall \/ Sent \/ SendFails \/ Drained
    BY <1>1, <1>5 DEF BeginCall, Sent, SendFails, Drained, Stop
  <1>6. CASE ReadOverlong
    BY <1>3, <1>4, <1>6 DEF ReadOverlong
  <1>7. CASE ReadEof
    BY <1>3, <1>4, <1>7 DEF ReadEof
  <1>8. CASE TimeOut
    BY <1>1, <1>3, <1>4, <1>8 DEF TimeOut
  <1>9. CASE Stopped
    BY <1>3, <1>9 DEF Stopped, OwnInv
  <1>10. CASE ReadLine
    <2>1. UNCHANGED said
      BY <1>10 DEF ReadLine, runner
    <2>2. CASE Plain
      <3>1. \/ phase' = "read"
            \/ /\ Return(Result("answered", text, ReturnCode))
               /\ \A s \in Streams : text[s] = Chop(said[s])
        BY <1>0, <1>10, <2>2, LineOfAnswer
      <3>2. CASE phase' = "read"
        BY <1>1, <3>2
      <3>3. CASE /\ Return(Result("answered", text, ReturnCode))
                 /\ \A s \in Streams : text[s] = Chop(said[s])
        <4>1. last' = Result("answered", text, ReturnCode)
          BY <3>3 DEF Return
        <4>2. \A s \in Streams : last'.text[s] = Truncate(text[s])
          BY <4>1 DEF Result
        <4>3. last'.cut = (\E s \in Streams : Size(text[s]) > MaxOutput)
          BY <4>1 DEF Result
        <4>4. \A s \in Streams : text[s] = Chop(said'[s])
          BY <2>1, <3>3
        <4>5. \A s \in Streams : last'.text[s] = Truncate(Chop(said'[s]))
          BY <4>2, <4>4
        <4>6. last'.cut = (\E s \in Streams : Size(Chop(said'[s])) > MaxOutput)
          BY <4>3, <4>4
        <4>7. Whole'
          BY <4>5, <4>6 DEF Whole
        <4> QED BY <4>7 DEF LastInv
      <3> QED BY <3>1, <3>2, <3>3
    <2>3. CASE ~Plain
      BY <2>1, <2>3 DEF LastInv, Plain
    <2> QED BY <2>2, <2>3
  <1>11. CASE ReadCode
    BY <1>0, <1>1, <1>11 DEF ReadCode, server, TurnInv
  <1>12. CASE Finish \/ WriteChunk \/ Die
    BY <1>2, <1>12 DEF Finish, WriteChunk, Die, RunnerEnds, server
  <1>13. ASSUME NEW ks, NEW s, PrintText(s, ks)
         PROVE  LastInv'
    BY <1>0, <1>1, <1>13 DEF PrintText, server, TurnInv
  <1>14. ASSUME NEW ks, RawWrite(ks) \/ HelperWrites(ks)
         PROVE  LastInv'
    BY <1>2, <1>14 DEF RawWrite, HelperWrites, server, runner
  <1>15. CASE StartHelper \/ HelperEnds \/ Flood
    BY <1>2, <1>15 DEF StartHelper, HelperEnds, Flood, server, runner
  <1>16. CASE User
    BY <1>13, <1>14, <1>15, <1>16, Zenon DEF User
  <1>17. CASE UNCHANGED vars
    BY <1>2, <1>17 DEF vars, runner
  <1> QED BY <1>5, <1>6, <1>7, <1>8, <1>9, <1>10, <1>11, <1>12, <1>16, <1>17,
             Zenon DEF Next, Server, Runner

\* Every step keeps what the outcomes hold.
LEMMA FaithStep ==
  ASSUME Typed, HandInv, StepInv, OwnInv, FaithInv, [Next]_vars
  PROVE  FaithInv'
  <1>1. HelpInv /\ HelpInv'
    BY HelpStep DEF FaithInv
  <1>2. ASSUME Pure, Pure'
        PROVE  StillInv' /\ FlowInv' /\ LastInv'
    <2>1. InStep /\ StillInv /\ FlowInv /\ LastInv
      BY <1>2 DEF Pure, StepInv, FaithInv
    <2> QED BY <1>1, <1>2, <2>1, StillStep, FlowStep, LastStep
  <1>3. ASSUME Starts
        PROVE  StillInv' /\ FlowInv' /\ LastInv'
    <2>1. /\ phase = "idle" /\ phase' = "send" /\ UNCHANGED reader /\ wire' = <<>>
          /\ stdin' = <<calls'>>
      BY <1>3 DEF Starts, BeginCall
    <2>2. sect' = "none" /\ buf' = <<>> /\ text' = Empty
      BY <1>1, <2>1 DEF HelpInv, StepInv, FreshInv, reader
    <2>3. Len(wire') = 0 /\ stdin' # <<>>
      BY <2>1
    <2>4. StillInv'
      BY <2>1, <2>2, <2>3 DEF StillInv
    <2>5. FlowInv' /\ LastInv'
      BY <2>1, <2>3 DEF FlowInv, LastInv, Returned
    <2> QED BY <2>4, <2>5
  <1>4. Pure' => Pure \/ Starts
    BY PureStep
  <1> QED BY <1>1, <1>2, <1>3, <1>4 DEF FaithInv

\* A kind that is in no concatenation is in neither part.
LEMMA HasNeither ==
  ASSUME NEW r \in Seq(Token), NEW s \in Seq(Token), NEW ks, ~Has(r \o s, ks)
  PROVE  ~Has(r, ks) /\ ~Has(s, ks)
  <1>1. PICK m \in Nat, n \in Nat : m = Len(r) /\ n = Len(s)
    BY LenProperties
  <1>2. PICK x : x = r \o s
    OBVIOUS
  <1>3. /\ x \in Seq(Token) /\ Len(x) = m + n /\ \A i \in 1..m : x[i] = r[i]
        /\ \A i \in 1..n : x[m + i] = s[i]
    <2>1. Glued(x, r, s)
      BY <1>2, Glue
    <2> QED BY <1>1, <2>1 DEF Glued
  <1>4. DOMAIN x = 1..m + n /\ DOMAIN r = 1..m /\ DOMAIN s = 1..n
    BY <1>1, <1>3, LenProperties
  <1>5. \A i \in 1..m + n : x[i].k \notin ks
    BY <1>2, <1>4 DEF Has
  <1>6. /\ \A i \in 1..m : i \in 1..m + n
        /\ \A i \in 1..n : m + i \in 1..m + n
    BY <1>1
  <1>7. \A i \in 1..m : r[i].k \notin ks
    BY <1>3, <1>5, <1>6
  <1>8. \A i \in 1..n : s[i].k \notin ks
    BY <1>3, <1>5, <1>6
  <1> QED BY <1>4, <1>7, <1>8 DEF Has

\* What a block prints through sys.stdout and sys.stderr comes back as it was printed, as
\* long as it holds no sentinel and nothing else writes to the pipe: the frames quote it,
\* the parser finds it between them, and truncation tells when it has cut it
\* (runner.py:86-92, runner_pool.py:289-361, limits.py:224-233).
THEOREM PrintedTextComesBack == Spec => []FaithfulOutput
  <1> DEFINE I == Typed /\ OrderInv /\ StepInv /\ OwnInv /\ FaithInv
  <1>1. Init => I
    <2> SUFFICES ASSUME Init PROVE I
      OBVIOUS
    <2>1. Typed /\ OrderInv
      BY InitTyped, OrderInit
    <2>2. StepInv /\ OwnInv
      BY InStepInit
    <2>3. FaithInv
      <3>1. wire = <<>> /\ Len(wire) = 0 /\ sect = "none" /\ buf = <<>> /\ text = Empty
            /\ phase = "idle" /\ helper = FALSE /\ last.kind = "none"
        BY PendingTyped DEF Init
      <3> QED BY <3>1 DEF FaithInv, HelpInv, StillInv, FlowInv, LastInv, Returned
    <2> QED BY <2>1, <2>2, <2>3
  <1>2. I /\ [Next]_vars => I'
    <2> SUFFICES ASSUME I, [Next]_vars PROVE I'
      OBVIOUS
    <2>1. Typed' /\ OrderInv' /\ OwnInv'
      BY StepTyped, OrderStep, OwnStep
    <2>2. StepInv'
      BY InStepStep DEF OrderInv
    <2>3. FaithInv'
      BY FaithStep DEF OrderInv
    <2> QED BY <2>1, <2>2, <2>3
  <1>3. I => FaithfulOutput
    <2> SUFFICES ASSUME I, Returned("answered"), ~tear, ~raw,
                        ~Has(said.stdout \o said.stderr, Sentinels)
                 PROVE  Whole
      BY DEF FaithfulOutput, Whole
    <2>1. /\ said.stdout \in Seq(Token) /\ said.stderr \in Seq(Token)
      BY DEF Typed, TypeOK
    <2>2. ~Has(said.stdout, Sentinels) /\ ~Has(said.stderr, Sentinels)
      BY <2>1, HasNeither
    <2> QED BY <2>2 DEF FaithInv, LastInv, Plain, Pure
  <1> QED BY <1>1, <1>2, <1>3, PTL DEF Spec
=============================================================================
