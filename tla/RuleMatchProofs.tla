---------------------------- MODULE RuleMatchProofs ----------------------------
(***************************************************************************)
(* The choice of a category, for any rules files, rows, number of rules    *)
(* and order in which the database returns equals.                         *)
(***************************************************************************)
EXTENDS RuleMatch, FiniteSetTheorems, SequenceTheorems, TLAPS

\* The rows a category of a file can become.
StoredRow ==
    [company : Companies,
     min_amount : Nat \cup {Null},
     max_amount : Nat \cup {Null},
     transaction_type : TransactionTypes,
     priority : Nat \ {0},
     include : SUBSET Text,
     exclude : SUBSET Text]

\* What the invariants below are derived from: a result is that of the row at hand, by
\* the rules that one query for its key returned.
Inv ==
    /\ file \in Seq(FileRules)
    /\ t \in Transactions
    /\ lookup \in Companies \cup {AllKey}
    /\ \A c \in result : \E rows \in QueryResults(lookup) : c = ClassifyTransaction(t, rows)

\* A set of numbers that is not empty has a least one.
LEMMA Least ==
    ASSUME NEW S \in SUBSET Nat, S # {}
    PROVE  \E m \in S : \A k \in S : m <= k
<1> DEFINE R == OpToRel(<, Nat)
<1>1. IsWellFoundedOn(R, Nat)
  BY NatLessThanWellFounded
<1>2. \A j, k \in Nat : j < k => <<j, k>> \in R
  BY DEF OpToRel
<1> HIDE DEF R
<1>3. PICK m \in S : \A k \in S : ~(<<k, m>> \in R)
  BY <1>1, WFMin
<1>4. ASSUME NEW k \in S
      PROVE  m <= k
  <2>1. m \in Nat /\ k \in Nat /\ ~(k < m)
    BY <1>2, <1>3
  <2>2. QED
    BY <2>1
<1>5. QED
  BY <1>4

\* A part of a text, character by character.
LEMMA Part ==
    ASSUME NEW x \in Text, NEW i \in 1 .. Len(x) + 1, NEW j \in 0 .. Len(x), i <= j + 1
    PROVE  /\ SubSeq(x, i, j) \in Text
           /\ Len(SubSeq(x, i, j)) = j - i + 1
           /\ \A m \in 1 .. (j - i + 1) : SubSeq(x, i, j)[m] = x[i + m - 1]
BY SubSeqProperties DEF Text

\* A text is among the parts of another if it is found at some place in it.
LEMMA Found ==
    ASSUME NEW x \in Text, NEW y \in Text
    PROVE  y \in SubSeqs(x) <=>
              \E i \in 0 .. Len(x) : i + Len(y) <= Len(x) /\ \A m \in 1 .. Len(y) : y[m] = x[i + m]
<1>1. Len(x) \in Nat /\ Len(y) \in Nat
  BY DEF Text
<1>2. ASSUME NEW i \in 0 .. Len(x), NEW j \in 0 .. Len(x), y = SubSeq(x, i + 1, j)
      PROVE  \E k \in 0 .. Len(x) : k + Len(y) <= Len(x) /\ \A m \in 1 .. Len(y) : y[m] = x[k + m]
  <2>1. CASE i <= j
    <3>1. i + 1 \in 1 .. Len(x) + 1 /\ i + 1 <= j + 1 /\ j - (i + 1) + 1 = j - i
      BY <1>1, <2>1
    <3>2. Len(y) = j - i /\ \A m \in 1 .. (j - i) : y[m] = x[i + 1 + m - 1]
      BY <1>2, <3>1, Part
    <3>3. QED
      BY <1>1, <2>1, <3>2
  <2>2. CASE i > j
    <3>1. Len(y) = 0
      BY <1>1, <1>2, <2>2, SubSeqProperties DEF Text
    <3>2. QED
      BY <1>1, <3>1
  <2>3. QED
    BY <1>1, <2>1, <2>2
<1>3. ASSUME NEW i \in 0 .. Len(x), i + Len(y) <= Len(x), \A m \in 1 .. Len(y) : y[m] = x[i + m]
      PROVE  y \in SubSeqs(x)
  <2> DEFINE j == i + Len(y)
             s == SubSeq(x, i + 1, j)
  <2>1. i + 1 \in 1 .. Len(x) + 1 /\ j \in 0 .. Len(x) /\ i + 1 <= j + 1 /\ j - (i + 1) + 1 = Len(y)
    BY <1>1, <1>3
  <2>2. s \in Text /\ Len(s) = Len(y) /\ \A m \in 1 .. Len(y) : s[m] = x[i + 1 + m - 1]
    BY <2>1, Part
  <2> HIDE DEF s
  <2>3. \A m \in 1 .. Len(y) : s[m] = y[m]
    BY <1>1, <1>3, <2>2
  <2>4. s = y
    BY <2>2, <2>3, SeqEqual DEF Text
  <2>5. QED
    BY <2>1, <2>4 DEF s, SubSeqs
<1>4. QED
  BY <1>2, <1>3 DEF SubSeqs

\* A text without outer blanks, or empty.
Tight(y) == y = <<>> \/ (y[1] # Blank /\ y[Len(y)] # Blank)

\* A set of numbers that is not empty and has a bound has a greatest one.
LEMMA Greatest ==
    ASSUME NEW n \in Nat, NEW S \in SUBSET (1 .. n), S # {}
    PROVE  \E m \in S : \A k \in S : k <= m
<1>1. {n - k : k \in S} \in SUBSET Nat /\ {n - k : k \in S} # {}
  <2>1. \A k \in S : n - k \in Nat
    OBVIOUS
  <2>2. QED
    BY <2>1
<1>2. PICK d \in {n - k : k \in S} : \A e \in {n - k : k \in S} : d <= e
  BY <1>1, Least
<1>3. PICK m \in S : d = n - m
  BY <1>2
<1>4. ASSUME NEW k \in S
      PROVE  k <= m
  <2>1. k \in 1 .. n /\ m \in 1 .. n /\ n - m <= n - k
    BY <1>2, <1>3
  <2>2. QED
    BY <2>1
<1>5. QED
  BY <1>4

\* Trimming cuts a text at its first and its last character that is not blank.
LEMMA TrimCuts ==
    ASSUME NEW x \in Text, Solid(x) # {}
    PROVE  \E a, b \in 1 .. Len(x) :
              /\ a <= b /\ x[a] # Blank /\ x[b] # Blank
              /\ \A i \in 1 .. Len(x) : x[i] # Blank => a <= i /\ i <= b
              /\ Trim(x) = SubSeq(x, a, b)
<1>1. Len(x) \in Nat /\ DOMAIN x = 1 .. Len(x)
  BY DEF Text
<1>2. Solid(x) \in SUBSET (1 .. Len(x)) /\ Solid(x) \in SUBSET Nat
  BY <1>1 DEF Solid
<1>3. PICK a \in Solid(x) : \A k \in Solid(x) : a <= k
  BY <1>2, Least
<1>4. PICK b \in Solid(x) : \A k \in Solid(x) : k <= b
  BY <1>1, <1>2, Greatest
<1>5. Min(Solid(x)) \in Solid(x) /\ \A k \in Solid(x) : Min(Solid(x)) <= k
  BY <1>3 DEF Min
<1>6. Max(Solid(x)) \in Solid(x) /\ \A k \in Solid(x) : Max(Solid(x)) >= k
  <2>1. \A k \in Solid(x) : b >= k
    BY <1>2, <1>4
  <2>2. QED
    BY <2>1 DEF Max
<1>7. Trim(x) = SubSeq(x, Min(Solid(x)), Max(Solid(x)))
  BY DEF Trim
<1>8. Min(Solid(x)) <= Max(Solid(x)) /\ \A k \in Solid(x) : k <= Max(Solid(x))
  BY <1>2, <1>5, <1>6
<1>9. QED
  BY <1>1, <1>2, <1>5, <1>6, <1>7, <1>8 DEF Solid

\* A trimmed text has no outer blanks, and trimming one that has none changes nothing.
LEMMA Trimmed ==
    ASSUME NEW x \in Text
    PROVE  Trim(x) \in Text /\ Tight(Trim(x)) /\ (Tight(x) => Trim(x) = x)
<1>1. Len(x) \in Nat /\ DOMAIN x = 1 .. Len(x) /\ <<>> \in Text
  BY DEF Text
<1>2. CASE Solid(x) = {}
  <2>1. Trim(x) = <<>>
    BY <1>2 DEF Trim
  <2>2. Tight(x) => x = <<>>
    <3>1. ASSUME x # <<>>, x[1] # Blank
          PROVE  FALSE
      <4>1. 1 \in DOMAIN x
        BY <1>1, <3>1, EmptySeq DEF Text
      <4>2. QED
        BY <1>2, <3>1, <4>1 DEF Solid
    <3>2. QED
      BY <3>1 DEF Tight
  <2>3. QED
    BY <1>1, <2>1, <2>2 DEF Tight
<1>3. CASE Solid(x) # {}
  <2>1. PICK a, b \in 1 .. Len(x) :
           /\ a <= b /\ x[a] # Blank /\ x[b] # Blank
           /\ \A i \in 1 .. Len(x) : x[i] # Blank => a <= i /\ i <= b
           /\ Trim(x) = SubSeq(x, a, b)
    BY <1>3, TrimCuts
  <2> DEFINE y == Trim(x)
  <2>2. a \in 1 .. Len(x) + 1 /\ b \in 0 .. Len(x) /\ a <= b + 1
    BY <1>1, <2>1
  <2>3. y \in Text /\ Len(y) = b - a + 1 /\ \A m \in 1 .. (b - a + 1) : y[m] = x[a + m - 1]
    BY <2>1, <2>2, Part
  <2> HIDE DEF y
  <2>4. y[1] = x[a] /\ y[Len(y)] = x[b]
    <3>1. 1 \in 1 .. (b - a + 1) /\ b - a + 1 \in 1 .. (b - a + 1)
          /\ a + 1 - 1 = a /\ a + (b - a + 1) - 1 = b
      BY <1>1, <2>1
    <3>2. QED
      BY <2>3, <3>1
  <2>5. Tight(y)
    BY <2>1, <2>4 DEF Tight
  <2>6. ASSUME Tight(x)
        PROVE  y = x
    <3>1. x # <<>> /\ 1 \in 1 .. Len(x) /\ Len(x) \in 1 .. Len(x)
      BY <1>1, <2>1
    <3>2. a = 1 /\ b = Len(x)
      <4>1. x[1] # Blank /\ x[Len(x)] # Blank
        BY <2>6, <3>1 DEF Tight
      <4>2. a <= 1 /\ Len(x) <= b
        BY <2>1, <3>1, <4>1
      <4>3. ASSUME NEW n \in Nat, NEW i \in 1 .. n, NEW j \in 1 .. n, i <= 1, n <= j
            PROVE  i = 1 /\ j = n
        BY <4>3
      <4>4. QED
        BY <1>1, <4>2, <4>3
    <3>3. QED
      BY <2>1, <3>2, SubSeqFull DEF Text, y
  <2>7. QED
    BY <2>3, <2>5, <2>6 DEF y
<1>4. QED
  BY <1>2, <1>3

\* A text without outer blanks occurs in a trimmed one exactly if it occurs in it untrimmed.
LEMMA TrimKeepsParts ==
    ASSUME NEW x \in Text, NEW y \in Text, Tight(y)
    PROVE  y \in SubSeqs(Trim(x)) <=> y \in SubSeqs(x)
<1>1. Len(x) \in Nat /\ Len(y) \in Nat /\ Trim(x) \in Text
  BY Trimmed DEF Text
<1>2. CASE y = <<>>
  <2>1. Len(y) = 0
    BY <1>2
  <2>2. \A z \in Text : y \in SubSeqs(z)
    <3>1. ASSUME NEW z \in Text
          PROVE  y \in SubSeqs(z)
      <4>1. Len(z) \in Nat
        BY DEF Text
      <4>2. 0 \in 0 .. Len(z) /\ 0 + Len(y) <= Len(z) /\ \A m \in 1 .. Len(y) : y[m] = z[0 + m]
        BY <2>1, <4>1
      <4>3. QED
        BY <4>2, Found
    <3>2. QED
      BY <3>1
  <2>3. QED
    BY <1>1, <2>2
<1>3. CASE y # <<>>
  <2>1. Len(y) > 0 /\ y[1] # Blank /\ y[Len(y)] # Blank
    BY <1>1, <1>3, EmptySeq DEF Tight, Text
  <2>2. CASE Solid(x) = {}
    <3>1. Trim(x) = <<>> /\ Len(<<>>) = 0
      BY <2>2 DEF Trim
    <3>2. y \notin SubSeqs(Trim(x))
      BY <1>1, <2>1, <3>1, Found
    <3>3. ASSUME NEW i \in 0 .. Len(x), i + Len(y) <= Len(x), \A m \in 1 .. Len(y) : y[m] = x[i + m]
          PROVE  FALSE
      <4>1. 1 \in 1 .. Len(y) /\ i + 1 \in 1 .. Len(x)
        BY <1>1, <2>1, <3>3
      <4>2. x[i + 1] # Blank /\ i + 1 \in DOMAIN x
        BY <2>1, <3>3, <4>1 DEF Text
      <4>3. QED
        BY <2>2, <4>2 DEF Solid
    <3>4. QED
      BY <3>2, <3>3, Found
  <2>3. CASE Solid(x) # {}
    <3>1. PICK a, b \in 1 .. Len(x) :
             /\ a <= b
             /\ \A i \in 1 .. Len(x) : x[i] # Blank => a <= i /\ i <= b
             /\ Trim(x) = SubSeq(x, a, b)
      BY <2>3, TrimCuts
    <3> DEFINE z == Trim(x)
    <3>2. a \in 1 .. Len(x) + 1 /\ b \in 0 .. Len(x) /\ a <= b + 1
      BY <1>1, <3>1
    <3>3. z \in Text /\ Len(z) = b - a + 1 /\ \A m \in 1 .. (b - a + 1) : z[m] = x[a + m - 1]
      BY <3>1, <3>2, Part
    <3> HIDE DEF z
    <3>4. ASSUME NEW i \in 0 .. Len(z), i + Len(y) <= Len(z), \A m \in 1 .. Len(y) : y[m] = z[i + m]
          PROVE  y \in SubSeqs(x)
      <4> DEFINE j == i + a - 1
      <4>1. j \in 0 .. Len(x) /\ j + Len(y) <= Len(x)
        BY <1>1, <3>1, <3>3, <3>4
      <4>2. ASSUME NEW m \in 1 .. Len(y)
            PROVE  y[m] = x[j + m]
        <5>1. i + m \in 1 .. (b - a + 1) /\ a + (i + m) - 1 = j + m
          BY <1>1, <3>1, <3>3, <3>4
        <5>2. QED
          BY <3>3, <3>4, <5>1
      <4>3. QED
        BY <4>1, <4>2, Found
    <3>5. ASSUME NEW i \in 0 .. Len(x), i + Len(y) <= Len(x), \A m \in 1 .. Len(y) : y[m] = x[i + m]
          PROVE  y \in SubSeqs(z)
      <4> DEFINE j == i - a + 1
      <4>1. /\ 1 \in 1 .. Len(y) /\ Len(y) \in 1 .. Len(y)
            /\ i + 1 \in 1 .. Len(x) /\ i + Len(y) \in 1 .. Len(x)
        BY <1>1, <2>1, <3>5
      <4>2. a <= i + 1 /\ i + Len(y) <= b
        BY <2>1, <3>1, <3>5, <4>1
      <4>3. j \in 0 .. Len(z) /\ j + Len(y) <= Len(z)
        BY <1>1, <3>1, <3>3, <4>2
      <4>4. ASSUME NEW m \in 1 .. Len(y)
            PROVE  y[m] = z[j + m]
        <5>1. j + m \in 1 .. (b - a + 1) /\ a + (j + m) - 1 = i + m
          BY <1>1, <3>1, <3>3, <4>2, <4>3
        <5>2. QED
          BY <3>3, <3>5, <5>1
      <4>5. QED
        BY <3>3, <4>3, <4>4, Found
    <3>6. QED
      BY <3>3, <3>4, <3>5, Found DEF z
  <2>4. QED
    BY <2>2, <2>3
<1>4. QED
  BY <1>2, <1>3

\* Trimming and lowering the case may be done in either order.
LEMMA TrimLowerCase ==
    ASSUME NEW x \in Text
    PROVE  LowerCase(x) \in Text /\ Trim(LowerCase(x)) = LowerCase(Trim(x))
<1> DEFINE u == LowerCase(x)
<1>1. Len(x) \in Nat /\ DOMAIN x = 1 .. Len(x) /\ x \in [1 .. Len(x) -> Chars]
  BY DEF Text
<1>2. Lower \in [Chars -> Chars] /\ \A c \in Chars : Lower[c] = Blank <=> c = Blank
  BY MatchAssumption
<1>3. \A y \in Text : LowerCase(y) \in Text /\ Len(LowerCase(y)) = Len(y)
                      /\ \A i \in 1 .. Len(y) : LowerCase(y)[i] = Lower[y[i]]
  <2>1. ASSUME NEW y \in Text
        PROVE  LowerCase(y) \in Text /\ Len(LowerCase(y)) = Len(y)
               /\ \A i \in 1 .. Len(y) : LowerCase(y)[i] = Lower[y[i]]
    <3>1. Len(y) \in Nat /\ DOMAIN y = 1 .. Len(y) /\ \A i \in 1 .. Len(y) : y[i] \in Chars
      BY DEF Text
    <3>2. LowerCase(y) = [i \in 1 .. Len(y) |-> Lower[y[i]]]
      BY <3>1 DEF LowerCase
    <3>3. LowerCase(y) \in [1 .. Len(y) -> Chars]
      BY <1>2, <3>1, <3>2
    <3>4. QED
      BY <3>1, <3>2, <3>3 DEF Text
  <2>2. QED
    BY <2>1
<1>4. u \in Text /\ Len(u) = Len(x) /\ \A i \in 1 .. Len(x) : u[i] = Lower[x[i]]
  BY <1>3
<1> HIDE DEF u
<1>5. Solid(u) = Solid(x)
  <2>1. DOMAIN u = 1 .. Len(x)
    BY <1>4 DEF Text
  <2>2. \A i \in 1 .. Len(x) : u[i] = Blank <=> x[i] = Blank
    BY <1>1, <1>2, <1>4
  <2>3. QED
    BY <1>1, <2>1, <2>2 DEF Solid
<1>6. CASE Solid(x) = {}
  <2>1. Trim(u) = <<>> /\ Trim(x) = <<>>
    BY <1>5, <1>6 DEF Trim
  <2>2. LowerCase(<<>>) = <<>>
    <3>1. <<>> \in Text /\ Len(<<>>) = 0
      BY DEF Text
    <3>2. LowerCase(<<>>) \in Text /\ Len(LowerCase(<<>>)) = 0
      BY <1>3, <3>1
    <3>3. QED
      BY <3>2, EmptySeq DEF Text
  <2>3. QED
    BY <1>4, <2>1, <2>2 DEF u
<1>7. CASE Solid(x) # {}
  <2>1. PICK a, b \in 1 .. Len(x) : a <= b /\ Trim(x) = SubSeq(x, a, b)
                                 /\ a = Min(Solid(x)) /\ b = Max(Solid(x))
    <3>1. PICK a, b \in 1 .. Len(x) : /\ a <= b /\ x[a] # Blank /\ x[b] # Blank
                                      /\ \A i \in 1 .. Len(x) : x[i] # Blank => a <= i /\ i <= b
      BY <1>7, TrimCuts
    <3>2. a = Min(Solid(x)) /\ b = Max(Solid(x))
      <4>1. a \in Solid(x) /\ b \in Solid(x) /\ \A i \in Solid(x) : i \in 1 .. Len(x) /\ a <= i /\ i <= b
        BY <1>1, <3>1 DEF Solid
      <4>2. \A m \in Solid(x) : (\A k \in Solid(x) : m <= k) => m = a
        BY <4>1
      <4>3. \A m \in Solid(x) : (\A k \in Solid(x) : m >= k) => m = b
        BY <4>1
      <4>4. Min(Solid(x)) = a
        BY <4>1, <4>2 DEF Min
      <4>5. \A k \in Solid(x) : b >= k
        BY <4>1
      <4>6. Max(Solid(x)) = b
        BY <4>1, <4>3, <4>5 DEF Max
      <4>7. QED
        BY <4>4, <4>6
    <3>3. QED
      BY <1>7, <3>1, <3>2 DEF Trim
  <2>2. Trim(u) = SubSeq(u, a, b)
    BY <1>5, <1>7, <2>1 DEF Trim
  <2>3. a \in 1 .. Len(x) + 1 /\ b \in 0 .. Len(x) /\ a <= b + 1
    BY <1>1, <2>1
  <2> DEFINE v == SubSeq(u, a, b)
             w == SubSeq(x, a, b)
  <2>4. v \in Text /\ Len(v) = b - a + 1 /\ \A m \in 1 .. (b - a + 1) : v[m] = u[a + m - 1]
    BY <1>4, <2>3, Part
  <2>5. w \in Text /\ Len(w) = b - a + 1 /\ \A m \in 1 .. (b - a + 1) : w[m] = x[a + m - 1]
    BY <2>3, Part
  <2> HIDE DEF v, w
  <2>6. /\ LowerCase(w) \in Text /\ Len(LowerCase(w)) = b - a + 1
        /\ \A m \in 1 .. (b - a + 1) : LowerCase(w)[m] = Lower[w[m]]
    BY <1>3, <2>5
  <2>7. ASSUME NEW m \in 1 .. (b - a + 1)
        PROVE  v[m] = LowerCase(w)[m]
    <3>1. a + m - 1 \in 1 .. Len(x)
      BY <1>1, <2>1
    <3>2. QED
      BY <1>4, <2>4, <2>5, <2>6, <3>1
  <2>8. v = LowerCase(w)
    BY <2>4, <2>6, <2>7, SeqEqual DEF Text
  <2>9. QED
    BY <1>4, <2>1, <2>2, <2>8 DEF u, v, w
<1>8. QED
  BY <1>6, <1>7

\* Both places that compare keywords find the keywords of a file that occur in a row: the
\* one that trims and looks for words first, and the one that does neither.
LEMMA ComparedAlike ==
    ASSUME t \in Transactions, NEW k \in Text
    PROVE  /\ IsKeywordMatch(Trim(LowerCase(Description(t))), Trim(LowerCase(Trim(k)))) <=> Occurs(k)
           /\ LowerCase(Trim(k)) \in SubSeqs(LowerCase(Description(t))) <=> Occurs(k)
<1> DEFINE x == LowerCase(t.text)
           y == Trim(LowerCase(k))
<1>1. t.text \in Text
  BY MatchAssumption
<1>2. x \in Text /\ LowerCase(k) \in Text /\ y \in Text /\ Tight(y) /\ Trim(x) \in Text /\ Tight(Trim(x))
  BY <1>1, TrimLowerCase, Trimmed
<1>3. LowerCase(Description(t)) = Trim(x) /\ LowerCase(Trim(k)) = y
  BY <1>1, TrimLowerCase DEF Description
<1>4. Trim(LowerCase(Description(t))) = Trim(x) /\ Trim(LowerCase(Trim(k))) = y
  BY <1>2, <1>3, Trimmed
<1> HIDE DEF x, y
<1>5. y \in SubSeqs(Trim(x)) <=> y \in SubSeqs(x)
  BY <1>2, TrimKeepsParts
<1>6. Occurs(k) <=> y \in SubSeqs(x)
  BY DEF Occurs, x, y
<1>7. SplitWords(Trim(x)) \subseteq SubSeqs(Trim(x))
  <2> DEFINE z == Trim(x)
  <2>1. z \in Text /\ Len(z) \in Nat /\ DOMAIN z = 1 .. Len(z)
    BY <1>2 DEF Text
  <2> HIDE DEF z
  <2>2. CASE z = <<>>
    <3>1. SplitWords(z) = {<<>>} /\ <<>> \in Text /\ Len(<<>>) = 0
      BY <2>2 DEF SplitWords, Text
    <3>2. 0 \in 0 .. Len(z) /\ 0 + Len(<<>>) <= Len(z) /\ \A m \in 1 .. Len(<<>>) : <<>>[m] = z[0 + m]
      BY <2>1, <3>1
    <3>3. <<>> \in SubSeqs(z)
      BY <2>1, <3>1, <3>2, Found
    <3>4. QED
      BY <3>1, <3>3 DEF z
  <2>3. CASE z # <<>>
    <3>1. ASSUME NEW w \in SplitWords(z)
          PROVE  w \in SubSeqs(z)
      <4>1. PICK p \in (DOMAIN z) \X (DOMAIN z) : w = SubSeq(z, p[1], p[2])
        BY <2>3, <3>1 DEF SplitWords
      <4> DEFINE i == p[1] - 1
                 j == p[2]
      <4>2. i \in 0 .. Len(z) /\ j \in 0 .. Len(z) /\ w = SubSeq(z, i + 1, j)
        <5>1. p[1] \in 1 .. Len(z) /\ p[2] \in 1 .. Len(z)
          BY <2>1, <4>1
        <5>2. i \in 0 .. Len(z) /\ j \in 0 .. Len(z) /\ p[1] = i + 1
          BY <2>1, <5>1
        <5>3. QED
          BY <4>1, <5>2
      <4> HIDE DEF i, j
      <4>3. QED
        BY <4>2 DEF SubSeqs
    <3>2. QED
      BY <3>1 DEF z
  <2>4. QED
    BY <2>2, <2>3
<1>8. IsKeywordMatch(Trim(x), y) <=> y \in SubSeqs(Trim(x))
  BY <1>7 DEF IsKeywordMatch
<1>9. QED
  BY <1>3, <1>4, <1>5, <1>6, <1>8

\* The row made of a category of a file has the types of its columns.
LEMMA StoredType ==
    ASSUME NEW f \in FileRules
    PROVE  StoredRule(f) \in StoredRow /\ StoredRule(f).include # {}
<1>1. /\ f.company \in Companies /\ f.type \in TransactionTypes \cup {Null}
      /\ f.priority \in (Nat \ {0}) \cup {Null} /\ f.min \in Nat \cup {Null} /\ f.max \in Nat \cup {Null}
      /\ f.include \in (SUBSET Text) \ {{}} /\ f.exclude \subseteq Text
  BY MatchAssumption
<1>2. /\ Or(f.min, Null) \in Nat \cup {Null} /\ Or(f.max, Null) \in Nat \cup {Null}
      /\ Or(f.priority, 1) \in Nat \ {0}
  BY <1>1 DEF Or
<1>3. MapTransactionType(f.type) \in TransactionTypes
  BY DEF MapTransactionType, TransactionTypes
<1>4. \A S \in SUBSET Text : {Trim(k) : k \in S} \in SUBSET Text
  BY Trimmed
<1>5. QED
  BY <1>1, <1>2, <1>3, <1>4 DEF StoredRule, StoredRow

\* An amount of a row: one column is filled, and the other is 0.
LEMMA AmountIs ==
    ASSUME NEW x \in Transactions
    PROVE  /\ x.deposit \in Nat /\ x.withdrawal \in Nat /\ Amount(x) \in Nat
           /\ x.deposit <= Amount(x) /\ x.withdrawal <= Amount(x)
           /\ Amount(x) \in {x.deposit, x.withdrawal}
BY MatchAssumption DEF Amount

\* Through both conversions, the engine accepts a row for a stored rule exactly when the
\* rule as its file writes it applies, unless the file writes max: 0.
LEMMA StoredMeansWritten ==
    ASSUME NEW f \in FileRules, t \in Transactions, f.max # 0
    PROVE  EvaluateRule(t, StoredRule(f)) <=> AsWritten(f)
<1> DEFINE s == StoredRule(f)
<1>1. /\ f.type \in TransactionTypes \cup {Null}
      /\ f.min \in Nat \cup {Null} /\ f.max \in Nat \cup {Null}
      /\ Null \notin Int /\ Null \notin TransactionTypes
      /\ f.include \in (SUBSET Text) \ {{}} /\ f.exclude \subseteq Text
      /\ t.deposit \in Nat /\ t.withdrawal \in Nat
      /\ t.deposit = 0 <=> t.withdrawal # 0
  BY MatchAssumption
<1>2. /\ s.min_amount = Or(f.min, Null) /\ s.max_amount = Or(f.max, Null)
      /\ s.transaction_type = MapTransactionType(f.type)
      /\ s.include = {Trim(k) : k \in f.include} /\ s.exclude = {Trim(k) : k \in f.exclude}
  BY DEF StoredRule
<1>3. CheckTransactionType(t, s.transaction_type)
        <=> \/ f.type = Null \/ f.type = "ALL"
            \/ (f.type = "DEPOSIT" /\ t.deposit > 0 /\ t.withdrawal = 0)
            \/ (f.type = "WITHDRAWAL" /\ t.withdrawal > 0 /\ t.deposit = 0)
  <2>1. CASE f.type = "DEPOSIT"
    BY <1>1, <1>2, <2>1 DEF CheckTransactionType, MapTransactionType, TransactionTypes
  <2>2. CASE f.type = "WITHDRAWAL"
    BY <1>1, <1>2, <2>2 DEF CheckTransactionType, MapTransactionType, TransactionTypes
  <2>3. CASE f.type # "DEPOSIT" /\ f.type # "WITHDRAWAL"
    BY <1>1, <1>2, <2>3 DEF CheckTransactionType, MapTransactionType, TransactionTypes
  <2>4. QED
    BY <2>1, <2>2, <2>3
<1>4. CheckAmountRange(t, s)
        <=> /\ f.min # Null => \E a \in {t.deposit, t.withdrawal} : a >= f.min
            /\ f.max # Null => \A a \in {t.deposit, t.withdrawal} : a <= f.max
  <2>1. /\ Amount(t) \in Nat /\ t.deposit <= Amount(t) /\ t.withdrawal <= Amount(t)
        /\ Amount(t) \in {t.deposit, t.withdrawal}
    BY AmountIs
  <2>2. (s.min_amount # Null => Amount(t) >= s.min_amount)
          <=> (f.min # Null => \E a \in {t.deposit, t.withdrawal} : a >= f.min)
    BY <1>1, <1>2, <2>1 DEF Or
  <2>3. (s.max_amount # Null => Amount(t) <= s.max_amount)
          <=> (f.max # Null => \A a \in {t.deposit, t.withdrawal} : a <= f.max)
    BY <1>1, <1>2, <2>1 DEF Or
  <2>4. QED
    BY <2>2, <2>3 DEF CheckAmountRange
<1>5. CheckKeywordMatching(t, s)
        <=> /\ \E k \in f.include : Occurs(k)
            /\ \A k \in f.exclude : ~Occurs(k)
  <2> DEFINE Matches(k) == IsKeywordMatch(Trim(LowerCase(Description(t))), Trim(LowerCase(k)))
  <2>1. CheckKeywordMatching(t, s)
          <=> /\ \A k \in s.exclude : ~Matches(k)
              /\ s.include # {} => \E k \in s.include : Matches(k)
    BY DEF CheckKeywordMatching
  <2>2. \A k \in Text : Matches(Trim(k)) <=> Occurs(k)
    BY ComparedAlike
  <2> HIDE DEF Matches
  <2>3. s.include # {}
    BY <1>1, <1>2
  <2>4. (\E k \in s.include : Matches(k)) <=> \E k \in f.include : Occurs(k)
    BY <1>1, <1>2, <2>2
  <2>5. (\A k \in s.exclude : ~Matches(k)) <=> \A k \in f.exclude : ~Occurs(k)
    BY <1>1, <1>2, <2>2
  <2>6. QED
    BY <2>1, <2>3, <2>4, <2>5
<1>6. QED
  BY <1>3, <1>4, <1>5 DEF EvaluateRule, AsWritten

\* The rows of a query are those of its scope, each of them once, ordered by priority.
LEMMA QueryRows ==
    ASSUME file \in Seq(FileRules), NEW k, NEW rows \in QueryResults(k)
    PROVE  /\ \A i \in DOMAIN rows : \E j \in Scope(k) : rows[i] = Row(j)
           /\ \A j \in Scope(k) : \E i \in DOMAIN rows : rows[i] = Row(j)
           /\ DOMAIN rows \subseteq Nat
<1> DEFINE n == Cardinality(Scope(k))
<1>1. IsFiniteSet(Scope(k)) /\ n \in Nat
  <2>1. Scope(k) \subseteq 1 .. Len(file) /\ Len(file) \in Nat
    BY DEF Scope
  <2>2. IsFiniteSet(1 .. Len(file))
    BY <2>1, FS_Interval
  <2>3. QED
    BY <2>1, <2>2, FS_Subset, FS_CardinalityType
<1>2. PICK o \in [1 .. n -> Scope(k)] :
         /\ \A i, j \in 1 .. n : i # j => o[i] # o[j]
         /\ rows = [i \in 1 .. n |-> Row(o[i])]
  BY DEF QueryResults
<1>3. IsFiniteSet(1 .. n) /\ Cardinality(1 .. n) = n
  <2>1. 1 \in Int /\ n \in Int
    BY <1>1
  <2>2. IsFiniteSet(1 .. n) /\ Cardinality(1 .. n) = IF 1 > n THEN 0 ELSE n - 1 + 1
    BY <2>1, FS_Interval
  <2>3. QED
    BY <1>1, <2>2
<1>4. o \in Surjection(1 .. n, Scope(k))
  <2>1. o \in Injection(1 .. n, Scope(k))
    BY <1>2 DEF Injection, IsInjective
  <2>2. QED
    BY <1>1, <1>3, <2>1, FS_Injection
<1>5. \A j \in Scope(k) : \E i \in 1 .. n : o[i] = j
  BY <1>4 DEF Surjection
<1>6. QED
  BY <1>1, <1>2, <1>5

\* Sorting by priority puts a rule in front that none of the others precedes.
LEMMA BestChosen ==
    ASSUME NEW rows, DOMAIN rows \subseteq Nat, NEW M \in SUBSET DOMAIN rows, M # {},
           \A i \in M : rows[i].priority \in Nat
    PROVE  \E i \in M : /\ SelectBestRule(rows, M) = rows[i]
                        /\ \A j \in M : rows[i].priority <= rows[j].priority
<1>1. PICK p \in {rows[i].priority : i \in M} : \A q \in {rows[i].priority : i \in M} : p <= q
  <2>1. {rows[i].priority : i \in M} \in SUBSET Nat /\ {rows[i].priority : i \in M} # {}
    OBVIOUS
  <2>2. QED
    BY <2>1, Least
<1>2. PICK i \in {j \in M : rows[j].priority = p} : \A j \in {h \in M : rows[h].priority = p} : i <= j
  <2>1. {j \in M : rows[j].priority = p} \in SUBSET Nat /\ {j \in M : rows[j].priority = p} # {}
    BY <1>1
  <2>2. QED
    BY <2>1, Least
<1>3. \A j \in M : Before(rows, i, j)
  <2>1. ASSUME NEW j \in M
        PROVE  Before(rows, i, j)
    <3>1. p \in Nat /\ rows[i].priority = p /\ rows[j].priority \in Nat /\ p <= rows[j].priority
      BY <1>1
    <3>2. CASE rows[j].priority = p
      BY <1>2, <3>1, <3>2 DEF Before
    <3>3. CASE rows[j].priority # p
      BY <3>1, <3>3 DEF Before
    <3>4. QED
      BY <3>2, <3>3
  <2>2. QED
    BY <2>1
<1> DEFINE b == CHOOSE h \in M : \A j \in M : Before(rows, h, j)
<1>4. b \in M /\ \A j \in M : Before(rows, b, j)
  BY <1>2, <1>3
<1>5. SelectBestRule(rows, M) = rows[b]
  BY DEF SelectBestRule
<1> HIDE DEF b
<1>6. \A j \in M : rows[b].priority <= rows[j].priority
  BY <1>4 DEF Before
<1>7. QED
  BY <1>4, <1>5, <1>6

\* The places in the files whose rows the engine accepts.
Matching(k) == {j \in Scope(k) : EvaluateRule(t, Row(j))}

\* What classifyTransaction returns for the rules of a query, whatever their order.
LEMMA Choice ==
    ASSUME file \in Seq(FileRules), NEW k, NEW rows \in QueryResults(k),
           NEW c, c = ClassifyTransaction(t, rows)
    PROVE  /\ c.isClassified <=> Matching(k) # {}
           /\ c.isClassified =>
                 /\ c.matchedKeywords = GetMatchedKeywords(t, c.rule)
                 /\ \E j \in Matching(k) :
                       /\ c.rule = Row(j)
                       /\ \A h \in Matching(k) : Row(j).priority <= Row(h).priority
<1> DEFINE M == FindMatchingRules(t, rows)
<1>1. /\ \A i \in DOMAIN rows : \E j \in Scope(k) : rows[i] = Row(j)
      /\ \A j \in Scope(k) : \E i \in DOMAIN rows : rows[i] = Row(j)
      /\ DOMAIN rows \subseteq Nat
  BY QueryRows
<1>2. /\ M \subseteq DOMAIN rows
      /\ \A i \in M : \E j \in Matching(k) : rows[i] = Row(j)
      /\ \A j \in Matching(k) : \E i \in M : rows[i] = Row(j)
  BY <1>1 DEF FindMatchingRules, Matching
<1>3. \A j \in Matching(k) : Row(j).priority \in Nat
  <2>1. ASSUME NEW j \in Matching(k)
        PROVE  Row(j).priority \in Nat
    <3>1. file[j] \in FileRules
      BY DEF Matching, Scope
    <3>2. QED
      BY <3>1, StoredType DEF Row, StoredRow
  <2>2. QED
    BY <2>1
<1> HIDE DEF M
<1>4. CASE M = {}
  <2>1. c = Unclassified
    BY <1>4 DEF ClassifyTransaction, M
  <2>2. ~c.isClassified
    BY <2>1 DEF Unclassified
  <2>3. QED
    BY <1>2, <1>4, <2>2
<1>5. CASE M # {}
  <2>1. c = [isClassified |-> TRUE, rule |-> SelectBestRule(rows, M),
             matchedKeywords |-> GetMatchedKeywords(t, SelectBestRule(rows, M))]
    BY <1>5 DEF ClassifyTransaction, M
  <2>2. PICK i \in M : /\ SelectBestRule(rows, M) = rows[i]
                      /\ \A h \in M : rows[i].priority <= rows[h].priority
    <3>1. \A i \in M : rows[i].priority \in Nat
      BY <1>2, <1>3
    <3>2. QED
      BY <1>1, <1>2, <1>5, <3>1, BestChosen
  <2>3. PICK j \in Matching(k) : rows[i] = Row(j)
    BY <1>2
  <2>4. \A h \in Matching(k) : Row(j).priority <= Row(h).priority
    BY <1>2, <2>2, <2>3
  <2>5. c.isClassified /\ c.rule = Row(j) /\ c.matchedKeywords = GetMatchedKeywords(t, c.rule)
    BY <2>1, <2>2, <2>3
  <2>6. QED
    BY <2>4, <2>5
<1>6. QED
  BY <1>4, <1>5

\* The answers for two orders of the same rows differ in the rule chosen.
LEMMA AnswersByRule ==
    ASSUME NEW rows, NEW other, NEW c, NEW d,
           c = ClassifyTransaction(t, rows), d = ClassifyTransaction(t, other),
           c.isClassified <=> d.isClassified, c.isClassified => c.rule = d.rule
    PROVE  c = d
<1> DEFINE M == FindMatchingRules(t, rows)
           N == FindMatchingRules(t, other)
           Answer(r) == [isClassified |-> TRUE, rule |-> r, matchedKeywords |-> GetMatchedKeywords(t, r)]
<1>1. /\ c = IF M = {} THEN Unclassified ELSE Answer(SelectBestRule(rows, M))
      /\ d = IF N = {} THEN Unclassified ELSE Answer(SelectBestRule(other, N))
  BY DEF ClassifyTransaction
<1>2. ~Unclassified.isClassified /\ \A r : Answer(r).isClassified /\ Answer(r).rule = r
  BY DEF Unclassified
<1> HIDE DEF M, N, Answer
<1>3. CASE M = {}
  BY <1>1, <1>2, <1>3
<1>4. CASE M # {}
  BY <1>1, <1>2, <1>4
<1>5. QED
  BY <1>3, <1>4

\* With no max: 0 in the files, the engine accepts what applies as written.
LEMMA MatchingIsApplicable ==
    ASSUME file \in Seq(FileRules), t \in Transactions, NEW k, \A f \in FileRules : f.max # 0
    PROVE  Matching(k) = Applicable(k)
<1>1. ASSUME NEW j \in Scope(k)
      PROVE  EvaluateRule(t, Row(j)) <=> AsWritten(file[j])
  <2>1. file[j] \in FileRules
    BY DEF Scope
  <2>2. QED
    BY <2>1, StoredMeansWritten DEF Row
<1>2. QED
  BY <1>1 DEF Matching, Applicable

\* The priority of a row is that of its rule in the file, 1 if the file has none.
LEMMA UrgencyIs ==
    ASSUME file \in Seq(FileRules), NEW k, NEW j \in Matching(k)
    PROVE  Row(j).priority = Urgency(j)
<1>1. file[j] \in FileRules
  BY DEF Matching, Scope
<1>2. file[j].priority \in (Nat \ {0}) \cup {Null} /\ Null \notin Int
  BY <1>1, MatchAssumption
<1>3. QED
  BY <1>2 DEF Row, StoredRule, Or, Urgency

LEMMA InitInv == Init => Inv
BY DEF Init, Inv

LEMMA NextInv == Inv /\ [Next]_vars => Inv'
<1> SUFFICES ASSUME Inv, [Next]_vars PROVE Inv'
  OBVIOUS
<1>1. CASE Classify
  <2>1. PICK rows \in QueryResults(lookup) : result' = {ClassifyTransaction(t, rows)}
    BY <1>1 DEF Classify
  <2>2. UNCHANGED <<file, t, lookup>>
    BY <1>1 DEF Classify
  <2>3. QueryResults(lookup)' = QueryResults(lookup) /\ \A r : ClassifyTransaction(t, r)' = ClassifyTransaction(t, r)
    BY <2>2 DEF QueryResults, Scope, Row, ClassifyTransaction
  <2>4. QED
    BY <2>1, <2>2, <2>3 DEF Inv
<1>2. ASSUME NEW f \in FileRules, Save(f)
      PROVE  Inv'
  BY <1>2 DEF Save, Inv
<1>3. CASE UNCHANGED vars
  <2>1. UNCHANGED <<file, t, lookup, result>>
    BY <1>3 DEF vars
  <2>2. QueryResults(lookup)' = QueryResults(lookup)
    BY <2>1 DEF QueryResults, Scope, Row
  <2>3. QED
    BY <2>1, <2>2 DEF Inv
<1>4. QED
  BY <1>1, <1>2, <1>3 DEF Next

LEMMA InvCorrect == Spec => []Inv
BY InitInv, NextInv, PTL DEF Spec

\* What a result chooses is the row of a matching rule of its scope.
LEMMA ChosenMatches ==
    ASSUME Inv, NEW c \in Chosen
    PROVE  /\ c.matchedKeywords = GetMatchedKeywords(t, c.rule)
           /\ \E j \in Matching(lookup) :
                 /\ c.rule = Row(j)
                 /\ \A h \in Matching(lookup) : Row(j).priority <= Row(h).priority
<1>1. c \in result /\ c.isClassified
  BY DEF Chosen
<1>2. PICK rows \in QueryResults(lookup) : c = ClassifyTransaction(t, rows)
  BY <1>1 DEF Inv
<1>3. QED
  BY <1>1, <1>2, Choice DEF Inv

\* The row of a place in the files.
LEMMA RowType ==
    ASSUME file \in Seq(FileRules), NEW k, NEW j \in Scope(k)
    PROVE  Row(j) \in StoredRow /\ Row(j).include # {} /\ Row(j).company = file[j].company
<1>1. file[j] \in FileRules
  BY DEF Scope
<1>2. QED
  BY <1>1, StoredType DEF Row, StoredRule

\* All variables keep their types, and what is chosen is a row of the tables.
THEOREM TypeCorrect == Spec => []TypeOK
<1>1. Inv => TypeOK
  <2> SUFFICES ASSUME Inv, NEW c \in Chosen
               PROVE  /\ c.rule.company \in Companies
                      /\ c.rule.transaction_type \in TransactionTypes
                      /\ c.rule.priority \in Nat \ {0}
                      /\ c.matchedKeywords \subseteq c.rule.include
    BY DEF Inv, TypeOK
  <2>1. PICK j \in Matching(lookup) : c.rule = Row(j)
    BY ChosenMatches
  <2>2. c.rule \in StoredRow
    BY <2>1, RowType DEF Inv, Matching
  <2>3. c.matchedKeywords \subseteq c.rule.include
    BY ChosenMatches DEF GetMatchedKeywords
  <2>4. QED
    BY <2>2, <2>3 DEF StoredRow
<1>2. QED
  BY <1>1, InvCorrect, PTL

\* Where no file writes max: 0, a row is classified exactly when a rule of its scope, read
\* as its file writes it, applies to it.
THEOREM ClassificationCorrect ==
    ASSUME \A f \in FileRules : f.max # 0
    PROVE  Spec => []ClassifiedIffRuleApplies
<1>1. Inv => ClassifiedIffRuleApplies
  <2> SUFFICES ASSUME Inv, NEW c \in result
               PROVE  c.isClassified <=> Applicable(lookup) # {}
    BY DEF ClassifiedIffRuleApplies
  <2>1. PICK rows \in QueryResults(lookup) : c = ClassifyTransaction(t, rows)
    BY DEF Inv
  <2>2. c.isClassified <=> Matching(lookup) # {}
    BY <2>1, Choice DEF Inv
  <2>3. QED
    BY <2>2, MatchingIsApplicable DEF Inv
<1>2. QED
  BY <1>1, InvCorrect, PTL

\* Where no file writes max: 0, the rule chosen applies, and none that does precedes it,
\* whatever order the database returned the rows in.
THEOREM PriorityRespected ==
    ASSUME \A f \in FileRules : f.max # 0
    PROVE  Spec => []BestPriorityWins
<1>1. Inv => BestPriorityWins
  <2> SUFFICES ASSUME Inv, NEW c \in Chosen
               PROVE  \E i \in Applicable(lookup) :
                         /\ c.rule = Row(i)
                         /\ \A j \in Applicable(lookup) : Urgency(i) <= Urgency(j)
    BY DEF BestPriorityWins
  <2>1. PICK i \in Matching(lookup) :
           /\ c.rule = Row(i)
           /\ \A j \in Matching(lookup) : Row(i).priority <= Row(j).priority
    BY ChosenMatches
  <2>2. \A j \in Matching(lookup) : Row(j).priority = Urgency(j)
    BY UrgencyIs DEF Inv
  <2>3. Matching(lookup) = Applicable(lookup)
    BY MatchingIsApplicable DEF Inv
  <2>4. QED
    BY <2>1, <2>2, <2>3
<1>2. QED
  BY <1>1, InvCorrect, PTL

\* Where no file writes max: 0, two queries for the same rules classify a row alike unless
\* the rules in front tie: a tie is the only thing the order of the database decides.
THEOREM TiesAlone ==
    ASSUME \A f \in FileRules : f.max # 0
    PROVE  Spec => []OrderMattersOnlyInTies
<1>1. Inv => OrderMattersOnlyInTies
  <2> DEFINE Tie(i, j) ==
                 /\ Row(i) # Row(j)
                 /\ \A h \in Applicable(lookup) : Urgency(i) = Urgency(j) /\ Urgency(j) <= Urgency(h)
  <2> SUFFICES ASSUME Inv, NEW c \in result, NEW rows \in QueryResults(lookup),
                      ClassifyTransaction(t, rows) # c
               PROVE  \E i, j \in Applicable(lookup) : Tie(i, j)
    BY DEF OrderMattersOnlyInTies
  <2>1. PICK before \in QueryResults(lookup) : c = ClassifyTransaction(t, before)
    BY DEF Inv
  <2> DEFINE d == ClassifyTransaction(t, rows)
  <2>2. /\ c.isClassified <=> Matching(lookup) # {}
        /\ c.isClassified => \E i \in Matching(lookup) :
              c.rule = Row(i) /\ \A h \in Matching(lookup) : Row(i).priority <= Row(h).priority
    BY <2>1, Choice DEF Inv
  <2>3. /\ d.isClassified <=> Matching(lookup) # {}
        /\ d.isClassified => \E j \in Matching(lookup) :
              d.rule = Row(j) /\ \A h \in Matching(lookup) : Row(j).priority <= Row(h).priority
    BY Choice DEF Inv
  <2>4. c.isClassified /\ d.isClassified /\ c.rule # d.rule
    BY <2>1, <2>2, <2>3, AnswersByRule
  <2> HIDE DEF d
  <2>5. PICK i \in Matching(lookup) :
           c.rule = Row(i) /\ \A h \in Matching(lookup) : Row(i).priority <= Row(h).priority
    BY <2>2, <2>4
  <2>6. PICK j \in Matching(lookup) :
           d.rule = Row(j) /\ \A h \in Matching(lookup) : Row(j).priority <= Row(h).priority
    BY <2>3, <2>4
  <2>7. \A h \in Matching(lookup) : Row(h).priority = Urgency(h) /\ Row(h).priority \in Nat
    BY UrgencyIs, RowType DEF Inv, Matching, StoredRow
  <2>8. Urgency(i) = Urgency(j) /\ \A h \in Matching(lookup) : Urgency(j) <= Urgency(h)
    BY <2>5, <2>6, <2>7
  <2>9. Matching(lookup) = Applicable(lookup)
    BY MatchingIsApplicable DEF Inv
  <2>10. Tie(i, j)
    BY <2>4, <2>5, <2>6, <2>8, <2>9
  <2>11. QED
    BY <2>9, <2>10
<1>2. QED
  BY <1>1, InvCorrect, PTL

\* An ADMIN's upload attributes a row to a company only if that company's own lookup
\* classifies it, by a rule of the same priority.
THEOREM AdminAgrees == Spec => []AdminAgreesWithOwner
<1>1. Inv => AdminAgreesWithOwner
  <2> SUFFICES ASSUME Inv, lookup = AllKey, NEW c \in Chosen,
                      NEW rows \in QueryResults(c.rule.company)
               PROVE  LET own == ClassifyTransaction(t, rows)
                      IN  own.isClassified /\ own.rule.priority = c.rule.priority
    BY DEF AdminAgreesWithOwner
  <2> DEFINE k == c.rule.company
             own == ClassifyTransaction(t, rows)
  <2>1. PICK j \in Matching(AllKey) :
           /\ c.rule = Row(j)
           /\ \A h \in Matching(AllKey) : Row(j).priority <= Row(h).priority
    BY ChosenMatches
  <2>2. j \in Matching(k) /\ Matching(k) \subseteq Matching(AllKey)
    BY <2>1, RowType DEF Inv, Matching, Scope
  <2>3. own.isClassified /\ \E h \in Matching(k) :
           own.rule = Row(h) /\ \A i \in Matching(k) : Row(h).priority <= Row(i).priority
    BY <2>2, Choice DEF Inv
  <2>4. PICK h \in Matching(k) :
           own.rule = Row(h) /\ \A i \in Matching(k) : Row(h).priority <= Row(i).priority
    BY <2>3
  <2>5. Row(h).priority <= Row(j).priority /\ Row(j).priority <= Row(h).priority
    BY <2>1, <2>2, <2>4
  <2>6. Row(h).priority \in Nat /\ Row(j).priority \in Nat
    BY <2>2, RowType DEF Inv, Matching, StoredRow
  <2>7. QED
    BY <2>1, <2>3, <2>4, <2>5, <2>6
<1>2. QED
  BY <1>1, InvCorrect, PTL

\* The two places that compare keywords agree: for any texts and keywords, what is reported
\* is what the chosen rule's file has and occurs in the row, and that is never nothing.
THEOREM MatchExplained == Spec => []MatchIsExplained
<1>1. Inv => MatchIsExplained
  <2> SUFFICES ASSUME Inv, NEW c \in Chosen
               PROVE  /\ c.matchedKeywords # {}
                      /\ \E i \in Scope(lookup) :
                            /\ c.rule = Row(i)
                            /\ c.matchedKeywords = {Trim(k) : k \in {w \in file[i].include : Occurs(w)}}
    BY DEF MatchIsExplained
  <2>1. PICK j \in Matching(lookup) : c.rule = Row(j)
    BY ChosenMatches
  <2>2. /\ j \in Scope(lookup) /\ file[j] \in FileRules
        /\ file[j].include \subseteq Text /\ file[j].include # {}
        /\ Row(j).include = {Trim(k) : k \in file[j].include}
    BY <2>1, MatchAssumption DEF Inv, Matching, Scope, Row, StoredRule
  <2>3. c.matchedKeywords = {k \in Row(j).include : LowerCase(k) \in SubSeqs(LowerCase(Description(t)))}
    BY <2>1, ChosenMatches DEF GetMatchedKeywords
  <2>4. \A k \in Text : LowerCase(Trim(k)) \in SubSeqs(LowerCase(Description(t))) <=> Occurs(k)
    BY ComparedAlike DEF Inv
  <2>5. c.matchedKeywords = {Trim(k) : k \in {w \in file[j].include : Occurs(w)}}
    BY <2>2, <2>3, <2>4
  <2>6. \E k \in file[j].include : Occurs(k)
    <3> DEFINE Matches(k) == IsKeywordMatch(Trim(LowerCase(Description(t))), Trim(LowerCase(k)))
    <3>1. Row(j).include # {} => \E k \in Row(j).include : Matches(k)
      BY <2>1 DEF Matching, EvaluateRule, CheckKeywordMatching
    <3>2. \A k \in Text : Matches(Trim(k)) <=> Occurs(k)
      BY ComparedAlike DEF Inv
    <3> HIDE DEF Matches
    <3>3. QED
      BY <2>2, <3>1, <3>2
  <2>7. QED
    BY <2>1, <2>2, <2>5, <2>6
<1>2. QED
  BY <1>1, InvCorrect, PTL
=============================================================================
