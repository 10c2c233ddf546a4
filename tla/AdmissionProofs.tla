--------------------------- MODULE AdmissionProofs ---------------------------
(***************************************************************************)
(* Lemmas about the pure operators of Admission, for every channel list,   *)
(* method and number that the DTOs let through.                            *)
(***************************************************************************)
EXTENDS Admission, SequenceTheorems, WellFoundedInduction, TLAPS

-----------------------------------------------------------------------------
(* Payment methods. *)

\* A set of numbers that is not empty has a least element.
LEMMA Minimum ==
    ASSUME NEW S, S \subseteq Nat, S # {}
    PROVE  Min(S) \in S /\ \A n \in S : Min(S) <= n
<1> DEFINE R == OpToRel(<, Nat)
<1>1. IsWellFoundedOn(R, Nat)
  BY NatLessThanWellFounded
<1>2. \E m \in S : \A n \in S : <<n, m>> \notin R
  <2> HIDE DEF R
  <2>1. QED
    BY <1>1, WFMin
<1>3. \A m, n \in Nat : <<n, m>> \notin R => m <= n
  BY DEF OpToRel
<1>4. \E m \in S : \A n \in S : m <= n
  BY <1>2, <1>3
<1>5. QED
  BY <1>4 DEF Min

Positions(channels) == 1 .. Len(channels)

\* The channel that is found is the first that has one of the method's codes, or the first that
\* is similar if none has, wherever the two are in the list.
LEMMA FoundIsBest ==
    ASSUME NEW channels \in Seq(UpayPaymentChannel), NEW method
    PROVE  LET found == findMatchingChannel(channels, method)
               own == {i \in Positions(channels) : Exact(channels[i], method)}
               similar == {i \in Positions(channels) : Loose(channels[i], method)}
           IN  /\ own # {} => found \in own /\ \A i \in own : found <= i
               /\ own = {} /\ similar # {} => found \in similar /\ \A i \in similar : found <= i
               /\ own = {} /\ similar = {} => found = 0
<1> DEFINE own == {i \in Positions(channels) : Exact(channels[i], method)}
           similar == {i \in Positions(channels) : Loose(channels[i], method)}
<1>1. own \subseteq Nat \ {0} /\ similar \subseteq Nat \ {0}
  BY DEF Positions
<1>2. findMatchingChannel(channels, method) =
        LET exact == IF own # {} THEN Min(own) ELSE 0
        IN  IF exact # 0 THEN exact ELSE IF similar # {} THEN Min(similar) ELSE 0
  BY DEF findMatchingChannel, SelectInSeq, Positions
<1>3. own # {} => Min(own) \in own /\ \A i \in own : Min(own) <= i
  BY <1>1, Minimum
<1>4. similar # {} => Min(similar) \in similar /\ \A i \in similar : Min(similar) <= i
  BY <1>1, Minimum
<1>5. QED
  BY <1>1, <1>2, <1>3, <1>4

\* A method is valid only if the best channel for it is enabled and availed.
LEMMA ValidIsOffered ==
    ASSUME NEW channels \in Seq(UpayPaymentChannel), NEW method,
           validateAgainstBillerChannels(channels, method) = "valid"
    PROVE  LET offered == {channels[i] : i \in DOMAIN channels}
               own == {c \in offered : Exact(c, method)}
           IN  \E c \in IF own # {} THEN own ELSE {c \in offered : Loose(c, method)} :
                    c.isEnabled /\ c.isAvailed
<1> DEFINE found == findMatchingChannel(channels, method)
           own == {i \in Positions(channels) : Exact(channels[i], method)}
           similar == {i \in Positions(channels) : Loose(channels[i], method)}
<1>1. channels # <<>> /\ found # 0 /\ channels[found].isEnabled /\ channels[found].isAvailed
  BY DEF validateAgainstBillerChannels
<1>2. /\ own # {} => found \in own
      /\ own = {} => found \in similar
  <2> HIDE DEF found
  <2>1. QED
    BY <1>1, FoundIsBest DEF found
<1>3. DOMAIN channels = Positions(channels)
  BY DEF Positions
<1>4. CASE own # {}
  <2>1. found \in Positions(channels) /\ Exact(channels[found], method)
    BY <1>2, <1>4
  <2> HIDE DEF found
  <2>2. QED
    BY <1>1, <1>3, <2>1
<1>5. CASE own = {}
  <2>1. found \in Positions(channels) /\ Loose(channels[found], method)
    BY <1>2, <1>5
  <2>2. \A i \in DOMAIN channels : ~Exact(channels[i], method)
    BY <1>3, <1>5
  <2> HIDE DEF found
  <2>3. QED
    BY <1>1, <1>3, <2>1, <2>2
<1>6. QED
  BY <1>4, <1>5

-----------------------------------------------------------------------------
(* Mobile numbers. *)

\* Country codes that the DTOs let through are left as they are; without one it is 63.
LEMMA CountryCodes ==
    /\ normalizeCountryCode(<<>>) = DEFAULT_COUNTRY_CODE
    /\ normalizeCountryCode(DEFAULT_COUNTRY_CODE) = DEFAULT_COUNTRY_CODE
    /\ \A code \in Seq(STRING) : OfDigits(code, 1 .. 4) => normalizeCountryCode(code) = code
<1>1. normalizeCountryCode(<<>>) = DEFAULT_COUNTRY_CODE
  BY DEF normalizeCountryCode
<1>2. ASSUME NEW code \in Seq(STRING), OfDigits(code, 1 .. 4)
      PROVE  normalizeCountryCode(code) = code
  <2>1. Len(code) \in 1 .. 4 /\ DOMAIN code = 1 .. Len(code)
    BY <1>2 DEF OfDigits
  <2>2. code # <<>> /\ code[1] \in Digits
    BY <1>2, <2>1 DEF OfDigits
  <2>3. code[1] # "+"
    BY <2>2 DEF Digits
  <2>4. QED
    BY <1>2, <2>1, <2>3 DEF normalizeCountryCode, OfDigits
<1>3. normalizeCountryCode(DEFAULT_COUNTRY_CODE) = DEFAULT_COUNTRY_CODE
  BY DEF normalizeCountryCode, DEFAULT_COUNTRY_CODE, Digits
<1>4. QED
  BY <1>1, <1>2, <1>3

\* A stretch of a sequence.
LEMMA Stretch ==
    ASSUME NEW S, NEW n \in Seq(S), NEW l \in Nat, Len(n) = l,
           NEW a \in Nat \ {0}, NEW b \in Nat, a <= b + 1, b <= l
    PROVE  /\ SubSeq(n, a, b) \in Seq(S)
           /\ Len(SubSeq(n, a, b)) = b - a + 1
           /\ \A i \in 1 .. b - a + 1 : SubSeq(n, a, b)[i] = n[a + i - 1]
<1>1. \A i \in a .. b : n[i] \in S
  BY ElementOfSeq
<1>2. QED
  BY <1>1, SubSeqProperties

\* A sequence of two.
LEMMA Pair ==
    ASSUME NEW S, NEW n \in Seq(S), NEW a \in S, NEW b \in S, Len(n) = 2
    PROVE  n = <<a, b>> <=> n[1] = a /\ n[2] = b
<1> DEFINE m == <<a, b>>
<1>1. m \in Seq(S) /\ Len(m) = 2 /\ m[1] = a /\ m[2] = b
  OBVIOUS
<1> HIDE DEF m
<1>2. ASSUME n[1] = a, n[2] = b
      PROVE  n = m
  <2>1. \A i \in 1 .. Len(n) : n[i] = m[i]
    BY <1>1, <1>2
  <2>2. QED
    BY <1>1, <2>1, SeqEqual
<1>3. n = m => n[1] = a /\ n[2] = b
  BY <1>1
<1>4. QED
  BY <1>2, <1>3 DEF m

\* What a sequence starts with, and its first two elements.
LEMMA Leading ==
    ASSUME NEW S, NEW n \in Seq(S), NEW a \in S, NEW b \in S, Len(n) > 10
    PROVE  SubSeq(n, 1, 2) = <<a, b>> <=> n[1] = a /\ n[2] = b
<1> DEFINE m == SubSeq(n, 1, 2)
<1>1. Len(n) \in Nat
  OBVIOUS
<1>2. m \in Seq(S) /\ Len(m) = 2 - 1 + 1 /\ \A i \in 1 .. 2 - 1 + 1 : m[i] = n[1 + i - 1]
  BY <1>1, Stretch
<1> HIDE DEF m
<1>3. Len(m) = 2 /\ m[1] = n[1] /\ m[2] = n[2]
  BY <1>2
<1>4. m = <<a, b>> <=> m[1] = a /\ m[2] = b
  BY <1>2, <1>3, Pair
<1>5. m = <<a, b>> <=> n[1] = a /\ n[2] = b
  BY <1>3, <1>4
<1>6. QED
  BY <1>5 DEF m

Zero == "0"
Three == "3"
Six == "6"

\* What the spellings put before the ten digits.
LEMMA Characters ==
    /\ Zero \in Digits /\ Three \in Digits /\ Six \in Digits /\ Zero # Six
    /\ DEFAULT_COUNTRY_CODE = <<Six, Three>>
<1>1. Zero \in Digits /\ Three \in Digits /\ Six \in Digits
  BY DEF Zero, Three, Six, Digits
<1>2. Zero # Six
  BY DEF Zero, Six
<1>3. DEFAULT_COUNTRY_CODE = <<Six, Three>>
  BY DEF Six, Three, DEFAULT_COUNTRY_CODE
<1>4. QED
  BY <1>1, <1>2, <1>3

\* The two strippings, by length and leading digits.
LEMMA Strippings ==
    ASSUME NEW n \in Seq(Digits)
    PROVE  /\ StripCountry(n) = IF Len(n) > 10 /\ n[1] = Six /\ n[2] = Three
                                THEN SubSeq(n, 3, Len(n)) ELSE n
           /\ StripTrunk(n) = IF Len(n) = 11 /\ n[1] = Zero THEN SubSeq(n, 2, 11) ELSE n
<1>1. ASSUME Len(n) > 10
      PROVE  SubSeq(n, 1, 2) = DEFAULT_COUNTRY_CODE <=> n[1] = Six /\ n[2] = Three
  <2>1. Six \in Digits /\ Three \in Digits /\ DEFAULT_COUNTRY_CODE = <<Six, Three>>
    BY Characters
  <2>2. SubSeq(n, 1, 2) = <<Six, Three>> <=> n[1] = Six /\ n[2] = Three
    BY <1>1, <2>1, Leading
  <2>3. QED
    BY <2>1, <2>2
<1>2. ASSUME Len(n) = 11
      PROVE  Tail(n) = SubSeq(n, 2, 11)
  <2>1. n # <<>>
    BY <1>2
  <2>2. Tail(n) = SubSeq(n, 2, Len(n))
    BY <2>1, TailIsSubSeq
  <2>3. QED
    BY <1>2, <2>2
<1>3. StripTrunk(n) = IF Len(n) = 11 /\ n[1] = Zero THEN SubSeq(n, 2, 11) ELSE n
  BY <1>2 DEF StripTrunk, Zero
<1>4. QED
  BY <1>1, <1>3 DEF StripCountry

\* The last ten digits of a number, and when it is a way to write them.
LEMMA WaysToWrite ==
    ASSUME NEW n \in Seq(Digits), NEW l \in 10 .. 13, Len(n) = l
    PROVE  LET last == SubSeq(n, l - 9, l)
           IN  /\ last \in Seq(Digits) /\ Len(last) = 10
               /\ \A i \in 1 .. 10 : last[i] = n[l - 10 + i]
               /\ n \in Spellings(last) <=>
                    \/ l = 10
                    \/ l = 11 /\ n[1] = Zero
                    \/ l = 12 /\ n[1] = Six /\ n[2] = Three
                    \/ l = 13 /\ n[1] = Six /\ n[2] = Three /\ n[3] = Zero
<1> DEFINE last == SubSeq(n, l - 9, l)
           trunk == <<Zero>>
           country == <<Six, Three>>
           both == country \o trunk
<1>1. l \in Nat
  OBVIOUS
<1>2. /\ last \in Seq(Digits) /\ Len(last) = 10
      /\ \A i \in 1 .. 10 : last[i] = n[l - 10 + i]
  <2> DEFINE a == l - 9
  <2>1. a \in Nat \ {0} /\ a <= l + 1
    OBVIOUS
  <2>2. l - a + 1 = 10 /\ \A i \in 1 .. 10 : a + i - 1 = l - 10 + i
    BY <1>1
  <2> HIDE DEF a
  <2>3. /\ SubSeq(n, a, l) \in Seq(Digits)
        /\ Len(SubSeq(n, a, l)) = l - a + 1
        /\ \A i \in 1 .. l - a + 1 : SubSeq(n, a, l)[i] = n[a + i - 1]
    BY <1>1, <2>1, Stretch
  <2>4. /\ SubSeq(n, a, l) \in Seq(Digits) /\ Len(SubSeq(n, a, l)) = 10
        /\ \A i \in 1 .. 10 : SubSeq(n, a, l)[i] = n[l - 10 + i]
    BY <2>2, <2>3
  <2>5. QED
    BY <2>4 DEF a
<1>3. /\ trunk \in Seq(Digits) /\ Len(trunk) = 1 /\ trunk[1] = Zero
      /\ country \in Seq(Digits) /\ Len(country) = 2 /\ country[1] = Six /\ country[2] = Three
  <2>1. Zero \in Digits /\ Six \in Digits /\ Three \in Digits
    BY Characters
  <2>2. QED
    BY <2>1
<1> HIDE DEF last, trunk, country, both
<1>4. /\ both \in Seq(Digits) /\ Len(both) = 3
      /\ both[1] = Six /\ both[2] = Three /\ both[3] = Zero
  <2>1. /\ both \in Seq(Digits) /\ Len(both) = Len(country) + Len(trunk)
        /\ \A i \in 1 .. Len(country) + Len(trunk) :
                both[i] = IF i <= Len(country) THEN country[i] ELSE trunk[i - Len(country)]
    BY <1>3, ConcatProperties DEF both
  <2>2. QED
    BY <1>3, <2>1
<1>5. n = last <=> l = 10
  <2>1. ASSUME l = 10
        PROVE  n = last
    <3>1. \A i \in 1 .. Len(n) : n[i] = last[i]
      BY <1>2, <2>1
    <3>2. QED
      BY <1>2, <2>1, <3>1, SeqEqual
  <2>2. QED
    BY <1>2, <2>1
<1>6. ASSUME NEW k \in Nat, NEW p \in Seq(Digits), Len(p) = k
      PROVE  n = p \o last <=> l = k + 10 /\ \A i \in 1 .. k : n[i] = p[i]
  <2> DEFINE c == p \o last
  <2>1. /\ c \in Seq(Digits) /\ Len(c) = k + 10
        /\ \A i \in 1 .. k + 10 : c[i] = IF i <= k THEN p[i] ELSE last[i - k]
    <3>1. last \in Seq(Digits)
      BY <1>2
    <3>2. /\ c \in Seq(Digits) /\ Len(c) = Len(p) + Len(last)
          /\ \A i \in 1 .. Len(p) + Len(last) :
                c[i] = IF i <= Len(p) THEN p[i] ELSE last[i - Len(p)]
      BY <3>1, ConcatProperties
    <3> HIDE DEF c
    <3>3. QED
      BY <1>2, <1>6, <3>2
  <2> HIDE DEF c
  <2>2. ASSUME l = k + 10, \A i \in 1 .. k : n[i] = p[i]
        PROVE  n = c
    <3>1. ASSUME NEW i \in 1 .. l
          PROVE  n[i] = c[i]
      <4>1. CASE i <= k
        BY <2>1, <2>2, <4>1
      <4>2. CASE i > k
        <5>1. i - k \in 1 .. 10 /\ l - 10 + (i - k) = i
          <6>1. i \in Nat /\ i <= k + 10 /\ l = k + 10
            BY <2>2
          <6>2. QED
            BY <4>2, <6>1
        <5>2. last[i - k] = n[l - 10 + (i - k)]
          BY <1>2, <5>1
        <5>3. c[i] = last[i - k]
          BY <2>1, <2>2, <4>2
        <5>4. QED
          BY <5>1, <5>2, <5>3
      <4>3. QED
        BY <4>1, <4>2
    <3>2. QED
      BY <2>1, <2>2, <3>1, SeqEqual
  <2>3. ASSUME n = c
        PROVE  l = k + 10 /\ \A i \in 1 .. k : n[i] = p[i]
    <3>1. \A i \in 1 .. k : i \in 1 .. k + 10 /\ i <= k
      OBVIOUS
    <3>2. QED
      BY <2>1, <2>3, <3>1
  <2>4. QED
    BY <2>2, <2>3 DEF c
<1>7. n = trunk \o last <=> l = 11 /\ n[1] = Zero
  <2>1. n = trunk \o last <=> l = 1 + 10 /\ \A i \in 1 .. 1 : n[i] = trunk[i]
    BY <1>3, <1>6
  <2>2. QED
    BY <1>3, <2>1
<1>8. n = country \o last <=> l = 12 /\ n[1] = Six /\ n[2] = Three
  <2>1. n = country \o last <=> l = 2 + 10 /\ \A i \in 1 .. 2 : n[i] = country[i]
    BY <1>3, <1>6
  <2>2. QED
    BY <1>3, <2>1
<1>9. n = both \o last <=> l = 13 /\ n[1] = Six /\ n[2] = Three /\ n[3] = Zero
  <2>1. n = both \o last <=> l = 3 + 10 /\ \A i \in 1 .. 3 : n[i] = both[i]
    BY <1>4, <1>6
  <2>2. QED
    BY <1>4, <2>1
<1>10. Spellings(last) = {last, trunk \o last, country \o last, both \o last}
  BY DEF trunk, country, both, Spellings, DEFAULT_COUNTRY_CODE, Zero, Three, Six
<1>11. n \in Spellings(last) <=>
        \/ l = 10
        \/ l = 11 /\ n[1] = Zero
        \/ l = 12 /\ n[1] = Six /\ n[2] = Three
        \/ l = 13 /\ n[1] = Six /\ n[2] = Three /\ n[3] = Zero
  BY <1>5, <1>7, <1>8, <1>9, <1>10
<1>12. QED
  BY <1>2, <1>11 DEF last

\* Normalization of a number that is not empty, for the Philippines.
LEMMA Stripped ==
    ASSUME NEW n \in Seq(Digits), n # <<>>
    PROVE  normalizeMobileNumber(n, DEFAULT_COUNTRY_CODE) = StripTrunk(StripCountry(n))
BY CountryCodes DEF normalizeMobileNumber

\* Normalization of ten to thirteen digits: if they are a way to write the last ten it leaves
\* these, and otherwise a number that another normalization does not make ten digits either.
LEMMA Normalized ==
    ASSUME NEW n \in Seq(Digits), NEW l \in 10 .. 13, Len(n) = l
    PROVE  LET last == SubSeq(n, l - 9, l)
               m == normalizeMobileNumber(n, DEFAULT_COUNTRY_CODE)
           IN  /\ n \in Spellings(last) => m = last
               /\ n \notin Spellings(last) =>
                    /\ m \in Seq(Digits)
                    /\ Len(m) \in {9, 11, 12, 13}
                    /\ Len(m) \in {12, 13} => ~(m[1] = Six /\ m[2] = Three)
                    /\ Len(m) = 11 => m[1] # Zero
<1> DEFINE last == SubSeq(n, l - 9, l)
           s == StripCountry(n)
           m == normalizeMobileNumber(n, DEFAULT_COUNTRY_CODE)
<1>1. m = StripTrunk(s) /\ l \in Nat
  <2>1. n # <<>>
    OBVIOUS
  <2>2. QED
    BY <2>1, Stripped
<1>2. /\ last \in Seq(Digits) /\ Len(last) = 10
      /\ \A i \in 1 .. 10 : last[i] = n[l - 10 + i]
      /\ n \in Spellings(last) <=>
            \/ l = 10
            \/ l = 11 /\ n[1] = Zero
            \/ l = 12 /\ n[1] = Six /\ n[2] = Three
            \/ l = 13 /\ n[1] = Six /\ n[2] = Three /\ n[3] = Zero
  BY WaysToWrite
<1>3. /\ s = IF l > 10 /\ n[1] = Six /\ n[2] = Three THEN SubSeq(n, 3, l) ELSE n
      /\ s \in Seq(Digits) => m = IF Len(s) = 11 /\ s[1] = Zero THEN SubSeq(s, 2, 11) ELSE s
  BY <1>1, Strippings
<1> HIDE DEF last, s, m
<1>4. CASE l > 10 /\ n[1] = Six /\ n[2] = Three
  <2>1. /\ s \in Seq(Digits) /\ Len(s) = l - 2
        /\ \A i \in 1 .. l - 2 : s[i] = n[i + 2]
    <3>1. s = SubSeq(n, 3, l)
      BY <1>3, <1>4
    <3>2. /\ s \in Seq(Digits) /\ Len(s) = l - 3 + 1
          /\ \A i \in 1 .. l - 3 + 1 : s[i] = n[3 + i - 1]
      BY <1>1, <1>4, <3>1, Stretch
    <3>3. l - 3 + 1 = l - 2 /\ \A i \in Nat : 3 + i - 1 = i + 2
      OBVIOUS
    <3>4. QED
      BY <3>2, <3>3
  <2>2. CASE Len(s) = 11 /\ s[1] = Zero
    <3>1. l = 13 /\ n[3] = Zero
      <4>1. l - 2 = 11
        BY <2>1, <2>2
      <4>2. l = 13
        BY <4>1
      <4>3. s[1] = n[1 + 2]
        BY <2>1, <4>1
      <4>4. QED
        BY <2>2, <4>2, <4>3
    <3>2. m = SubSeq(s, 2, 11)
      BY <1>3, <2>1, <2>2
    <3>3. /\ m \in Seq(Digits) /\ Len(m) = 10
          /\ \A i \in 1 .. 10 : m[i] = s[i + 1]
      <4>1. PICK k \in Nat : k = 11
        OBVIOUS
      <4>2. Len(s) = k /\ m = SubSeq(s, 2, k)
        BY <2>2, <3>2, <4>1
      <4>3. 2 \in Nat \ {0} /\ 2 <= k + 1 /\ k <= k
        BY <4>1
      <4>4. /\ SubSeq(s, 2, k) \in Seq(Digits) /\ Len(SubSeq(s, 2, k)) = k - 2 + 1
            /\ \A i \in 1 .. k - 2 + 1 : SubSeq(s, 2, k)[i] = s[2 + i - 1]
        BY <2>1, <4>2, <4>3, Stretch
      <4>5. k - 2 + 1 = 10 /\ \A i \in 1 .. 10 : 2 + i - 1 = i + 1
        BY <4>1
      <4>6. QED
        BY <4>2, <4>4, <4>5
    <3>4. Len(m) = 10 /\ \A i \in 1 .. 10 : m[i] = last[i]
      <4>1. ASSUME NEW i \in 1 .. 10
            PROVE  m[i] = last[i]
        <5>1. i + 1 \in 1 .. l - 2 /\ i + 1 + 2 = i + 3 /\ l - 10 + i = i + 3
          BY <3>1
        <5>2. m[i] = s[i + 1] /\ s[i + 1] = n[i + 1 + 2]
          BY <2>1, <3>3, <5>1
        <5>3. last[i] = n[l - 10 + i]
          BY <1>2
        <5>4. QED
          BY <5>1, <5>2, <5>3
      <4>2. QED
        BY <3>3, <4>1
    <3>5. m = last
      BY <1>2, <3>3, <3>4, SeqEqual
    <3>6. n \in Spellings(last)
      BY <1>2, <1>4, <3>1
    <3>7. QED
      BY <3>5, <3>6 DEF last, m
  <2>3. CASE ~(Len(s) = 11 /\ s[1] = Zero) /\ l = 12
    <3>1. m = s /\ Len(s) = 10
      BY <1>3, <2>1, <2>3
    <3>2. \A i \in 1 .. 10 : s[i] = last[i]
      BY <1>2, <2>1, <2>3
    <3>3. m = last
      BY <1>2, <2>1, <3>1, <3>2, SeqEqual
    <3>4. n \in Spellings(last)
      BY <1>2, <1>4, <2>3
    <3>5. QED
      BY <3>3, <3>4 DEF last, m
  <2>4. CASE ~(Len(s) = 11 /\ s[1] = Zero) /\ l # 12
    <3>1. m = s /\ Len(m) \in {9, 11}
      <4>1. m = s
        BY <1>3, <2>1, <2>4
      <4>2. l \in {11, 13}
        BY <1>4, <2>4
      <4>3. l - 2 \in {9, 11}
        BY <4>2
      <4>4. QED
        BY <2>1, <4>1, <4>3
    <3>2. l = 13 => n[3] # Zero
      BY <2>1, <2>4
    <3>3. n \notin Spellings(last)
      BY <1>2, <1>4, <2>4, <3>2, Characters
    <3>4. QED
      <4>1. Len(m) = 11 => m[1] # Zero
        BY <2>4, <3>1
      <4>2. m \in Seq(Digits) /\ Len(m) \notin {12, 13} /\ Len(m) \in {9, 11, 12, 13}
        <5>1. \A k \in {9, 11} : k \notin {12, 13} /\ k \in {9, 11, 12, 13}
          OBVIOUS
        <5>2. m \in Seq(Digits)
          BY <2>1, <3>1
        <5>3. QED
          BY <3>1, <5>1, <5>2
      <4>3. QED
        BY <3>3, <4>1, <4>2 DEF last, m
  <2>5. QED
    BY <2>2, <2>3, <2>4
<1>5. CASE ~(l > 10 /\ n[1] = Six /\ n[2] = Three)
  <2>1. m = IF l = 11 /\ n[1] = Zero THEN SubSeq(n, 2, 11) ELSE n
    BY <1>3, <1>5
  <2>2. CASE l = 10
    <3>1. m = n /\ \A i \in 1 .. 10 : n[i] = last[i]
      BY <1>2, <2>1, <2>2
    <3>2. m = last
      BY <1>2, <2>2, <3>1, SeqEqual
    <3>3. QED
      BY <1>2, <2>2, <3>2 DEF last, m
  <2>3. CASE l = 11 /\ n[1] = Zero
    <3>1. m = SubSeq(n, 2, 11) /\ l - 9 = 2
      BY <2>1, <2>3
    <3>2. m = last
      BY <2>3, <3>1 DEF last
    <3>3. QED
      BY <1>2, <2>3, <3>2 DEF last, m
  <2>4. CASE l # 10 /\ ~(l = 11 /\ n[1] = Zero)
    <3>1. n \notin Spellings(last)
      BY <1>2, <1>5, <2>4
    <3>2. m = n
      BY <2>1, <2>4
    <3>3. l \in {11, 12, 13}
      BY <2>4
    <3>4. /\ m \in Seq(Digits) /\ Len(m) \in {9, 11, 12, 13}
          /\ Len(m) \in {12, 13} => ~(m[1] = Six /\ m[2] = Three)
          /\ Len(m) = 11 => m[1] # Zero
      <4>1. l > 10
        BY <3>3
      <4>2. ~(n[1] = Six /\ n[2] = Three) /\ (l = 11 => n[1] # Zero)
        BY <1>5, <2>4, <4>1
      <4>3. QED
        BY <3>2, <3>3, <4>2
    <3>5. QED
      BY <3>1, <3>4 DEF last, m
  <2>5. QED
    BY <2>2, <2>3, <2>4
<1>6. QED
  BY <1>4, <1>5

\* A mobile of ten digits, the number itself or its last ten, is what comes out exactly if the
\* number is one of its spellings (normalizeMobileNumber, isValidPhMobilePrefix).
LEMMA Canonical ==
    ASSUME NEW n \in Seq(STRING), OfDigits(n, 10 .. 13)
    PROVE  LET last == SubSeq(n, Len(n) - 9, Len(n))
               m == normalizeMobileNumber(n, DEFAULT_COUNTRY_CODE)
           IN  \A mobile \in {m, last} :
                   Len(mobile) = 10 => (m = mobile <=> n \in Spellings(mobile))
<1> DEFINE last == SubSeq(n, Len(n) - 9, Len(n))
           m == normalizeMobileNumber(n, DEFAULT_COUNTRY_CODE)
<1>1. n \in Seq(Digits) /\ Len(n) \in 10 .. 13
  BY DEF OfDigits
<1>2. CASE n \in Spellings(last)
  <2>1. m = last
    BY <1>1, <1>2, Normalized
  <2>2. QED
    BY <1>2, <2>1
<1>3. CASE n \notin Spellings(last)
  <2>1. PICK k \in {9, 11, 12, 13} : Len(m) = k
    BY <1>1, <1>3, Normalized
  <2> HIDE DEF m, last
  <2>2. Len(m) # 10
    BY <2>1
  <2>3. \A mobile \in {m, last} :
            Len(mobile) = 10 => (m = mobile <=> n \in Spellings(mobile))
    BY <1>3, <2>2
  <2>4. QED
    BY <2>3 DEF m, last
<1>4. QED
  BY <1>2, <1>3
=============================================================================
