------------------------------ MODULE Source_proofs -----------------------------
(***************************************************************************)
(* Proofs about reading a source, for every set of files that include one  *)
(* another in whatever way, every opcode file and every macro.             *)
(***************************************************************************)
EXTENDS IncludeContract, SumTheorems, SequenceTheorems, TLAPS

-----------------------------------------------------------------------------
(* FlattenSeq: the function it is the last value of.                       *)
Joins(s, n, g) == g = [i \in 1..n |-> IF i = 1 THEN s[i] ELSE g[i - 1] \o s[i]]

LEMMA JoinsExist ==
  ASSUME NEW s, NEW n \in Nat
  PROVE  \E g : Joins(s, n, g)
<1> DEFINE N == {m \in Nat : \E g : Joins(s, m, g)}
<1>1. 0 \in N
  <2> DEFINE g == [i \in 1..0 |-> s[i]]
  <2>1. g = [i \in 1..0 |-> IF i = 1 THEN s[i] ELSE g[i - 1] \o s[i]]
    <3>1. 1..0 = {}
      OBVIOUS
    <3>2. QED
      BY <3>1
  <2>2. QED
    BY <2>1 DEF Joins
<1>2. ASSUME NEW m \in Nat, m \in N
      PROVE  m + 1 \in N
  <2>1. PICK g : Joins(s, m, g)
    BY <1>2
  <2> DEFINE h == [i \in 1..(m + 1) |-> IF i = 1 THEN s[i] ELSE g[i - 1] \o s[i]]
  <2>2. \A i \in 1..m : g[i] = IF i = 1 THEN s[i] ELSE g[i - 1] \o s[i]
    BY <2>1 DEF Joins
  <2>3. \A i \in 1..m : h[i] = g[i]
    BY <2>2
  <2>4. \A i \in 1..(m + 1) : i # 1 => i - 1 \in 1..m
    OBVIOUS
  <2>5. h = [i \in 1..(m + 1) |-> IF i = 1 THEN s[i] ELSE h[i - 1] \o s[i]]
    <3>1. \A i \in 1..(m + 1) : i # 1 => h[i - 1] = g[i - 1]
      BY <2>3, <2>4
    <3>2. \A i \in 1..(m + 1) : h[i] = IF i = 1 THEN s[i] ELSE g[i - 1] \o s[i]
      OBVIOUS
    <3>3. \A i \in 1..(m + 1) : h[i] = IF i = 1 THEN s[i] ELSE h[i - 1] \o s[i]
      BY <3>1, <3>2
    <3>4. h = [i \in 1..(m + 1) |-> h[i]]
      OBVIOUS
    <3> HIDE DEF h
    <3>5. QED
      BY <3>3, <3>4
  <2>6. Joins(s, m + 1, h)
    <3> HIDE DEF h
    <3>1. QED
      BY <2>5, Zenon DEF Joins
  <2> HIDE DEF h
  <2>7. QED
    BY <2>6
<1>3. \A m \in Nat : m \in N
  <2> HIDE DEF N
  <2>1. QED
    BY <1>1, <1>2, NumberInduction
<1>4. QED
  BY <1>3

LEMMA JoinsFirst ==
  ASSUME NEW s, NEW n \in Nat, NEW g, Joins(s, n, g), n # 0
  PROVE  g[1] = s[1]
<1>1. 1 \in 1..n
  OBVIOUS
<1>2. QED
  BY <1>1 DEF Joins

LEMMA JoinsAt ==
  ASSUME NEW s, NEW n \in Nat, NEW g, Joins(s, n, g)
  PROVE  \A k \in 1..n : k # 1 => g[k] = g[k - 1] \o s[k]
<1> TAKE k \in 1..n
<1>1. g[k] = IF k = 1 THEN s[k] ELSE g[k - 1] \o s[k]
  BY DEF Joins
<1>2. QED
  BY <1>1, Zenon

LEMMA JoinsNext ==
  ASSUME NEW s, NEW n \in Nat, NEW g, Joins(s, n, g),
         NEW i \in Nat, i # 0, i + 1 \in 1..n
  PROVE  g[i + 1] = g[i] \o s[i + 1]
<1> DEFINE k == i + 1
<1>1. k \in 1..n /\ k # 1 /\ k - 1 = i
  OBVIOUS
<1> HIDE DEF k
<1>2. g[k] = g[k - 1] \o s[k]
  BY <1>1, JoinsAt, Zenon
<1>3. QED
  BY <1>1, <1>2 DEF k

(* Two sequences that begin alike are joined alike so far.                 *)
LEMMA JoinsAgree ==
  ASSUME NEW s, NEW n \in Nat, NEW g, Joins(s, n, g),
         NEW t, NEW m \in Nat, NEW h, Joins(t, m, h),
         NEW k \in 1..n, k <= m, \A i \in 1..k : s[i] = t[i]
  PROVE  g[k] = h[k]
<1> DEFINE N == {i \in Nat : i \in 1..k => g[i] = h[i]}
<1>1. n # 0 /\ m # 0
  OBVIOUS
<1>2. g[1] = s[1] /\ h[1] = t[1]
  BY <1>1, JoinsFirst
<1>3. 0 \in N
  OBVIOUS
<1>4. ASSUME NEW i \in Nat, i \in N
      PROVE  i + 1 \in N
  <2> SUFFICES ASSUME i + 1 \in 1..k
               PROVE  g[i + 1] = h[i + 1]
    OBVIOUS
  <2>1. i + 1 \in 1..n /\ i + 1 \in 1..m /\ s[i + 1] = t[i + 1]
    OBVIOUS
  <2>2. CASE i = 0
    BY <1>2, <2>1, <2>2
  <2>3. CASE i # 0
    <3>1. i \in 1..k /\ i + 1 # 1 /\ i + 1 - 1 = i
      BY <2>3
    <3>2. g[i] = h[i]
      BY <1>4, <3>1
    <3>3. g[i + 1] = g[i] \o s[i + 1]
      <4>1. \A j \in 1..n : j # 1 => g[j] = g[j - 1] \o s[j]
        BY JoinsAt
      <4>2. PICK j : j = i + 1
        OBVIOUS
      <4>3. j \in 1..n /\ j # 1 /\ j - 1 = i
        BY <2>1, <3>1, <4>2
      <4>4. g[j] = g[j - 1] \o s[j]
        BY ONLY <4>1, <4>3, Zenon
      <4>5. QED
        BY ONLY <4>2, <4>3, <4>4, Zenon
    <3>4. h[i + 1] = h[i] \o t[i + 1]
      <4>1. \A j \in 1..m : j # 1 => h[j] = h[j - 1] \o t[j]
        BY JoinsAt
      <4>2. PICK j : j = i + 1
        OBVIOUS
      <4>3. j \in 1..m /\ j # 1 /\ j - 1 = i
        BY <2>1, <3>1, <4>2
      <4>4. h[j] = h[j - 1] \o t[j]
        BY ONLY <4>1, <4>3, Zenon
      <4>5. QED
        BY ONLY <4>2, <4>3, <4>4, Zenon
    <3>5. QED
      BY <2>1, <3>2, <3>3, <3>4
  <2>4. QED
    BY <2>2, <2>3
<1>5. \A i \in Nat : i \in N
  <2> HIDE DEF N
  <2>1. QED
    BY <1>3, <1>4, NumberInduction
<1>6. QED
  BY <1>5

LEMMA FlattenIs ==
  ASSUME NEW s, NEW n \in Nat, Len(s) = n, n # 0
  PROVE  \E g : Joins(s, n, g) /\ FlattenSeq(s) = g[n]
<1> DEFINE flatten == CHOOSE g : Joins(s, n, g)
<1>1. Joins(s, n, flatten)
  BY JoinsExist
<1>2. FlattenSeq(s) = flatten[n]
  BY Zenon DEF FlattenSeq, Joins
<1>3. QED
  BY <1>1, <1>2

LEMMA FlattenEmpty == FlattenSeq(<< >>) = << >>
BY DEF FlattenSeq

(* Sequences of what is in S, joined, are one.                             *)
LEMMA FlattenType ==
  ASSUME NEW S, NEW s \in Seq(Seq(S))
  PROVE  FlattenSeq(s) \in Seq(S)
<1>1. Len(s) \in Nat /\ \A i \in 1..Len(s) : s[i] \in Seq(S)
  OBVIOUS
<1>2. CASE Len(s) = 0
  <2>1. FlattenSeq(s) = s
    BY <1>2, Zenon DEF FlattenSeq
  <2>2. s = << >>
    BY <1>2, EmptySeq
  <2>3. << >> \in Seq(S)
    OBVIOUS
  <2>4. QED
    BY <2>1, <2>2, <2>3
<1>3. CASE Len(s) # 0
  <2>1. PICK g : Joins(s, Len(s), g) /\ FlattenSeq(s) = g[Len(s)]
    BY <1>1, <1>3, FlattenIs
  <2> DEFINE N == {i \in Nat : i \in 1..Len(s) => g[i] \in Seq(S)}
  <2>2. g[1] = s[1]
    BY <1>1, <1>3, <2>1, JoinsFirst
  <2>3. 0 \in N
    OBVIOUS
  <2>4. ASSUME NEW i \in Nat, i \in N
        PROVE  i + 1 \in N
    <3> SUFFICES ASSUME i + 1 \in 1..Len(s)
                 PROVE  g[i + 1] \in Seq(S)
      OBVIOUS
    <3>1. CASE i = 0
      BY <1>1, <2>2, <3>1
    <3>2. CASE i # 0
      <4>1. i \in 1..Len(s) /\ i + 1 # 1 /\ i + 1 - 1 = i
        BY <1>1, <3>2
      <4>2. g[i] \in Seq(S) /\ s[i + 1] \in Seq(S)
        BY <1>1, <2>4, <4>1
      <4>3. g[i + 1] = g[i] \o s[i + 1]
        BY <1>1, <2>1, <3>2, JoinsNext
      <4>4. QED
        BY <4>2, <4>3
    <3>3. QED
      BY <3>1, <3>2
  <2>5. \A i \in Nat : i \in N
    <3> HIDE DEF N
    <3>1. QED
      BY <2>3, <2>4, NumberInduction
  <2>6. QED
    BY <1>1, <1>3, <2>1, <2>5
<1>4. QED
  BY <1>2, <1>3

(* One more sequence at the end.                                           *)
LEMMA FlattenMore ==
  ASSUME NEW S, NEW f, NEW n \in Nat, \A k \in 1..(n + 1) : f[k] \in Seq(S)
  PROVE  /\ FlattenSeq([k \in 1..n |-> f[k]]) \in Seq(S)
         /\ FlattenSeq([k \in 1..(n + 1) |-> f[k]]) = FlattenSeq([k \in 1..n |-> f[k]]) \o f[n + 1]
<1> DEFINE s == [k \in 1..n |-> f[k]]
           t == [k \in 1..(n + 1) |-> f[k]]
<1>1. s \in Seq(Seq(S)) /\ Len(s) = n /\ t \in Seq(Seq(S)) /\ Len(t) = n + 1
  OBVIOUS
<1>2. f[n + 1] \in Seq(S) /\ t[n + 1] = f[n + 1] /\ \A k \in 1..n : s[k] = t[k]
  OBVIOUS
<1>3. n + 1 \in Nat /\ n + 1 # 0 /\ n + 1 \in 1..(n + 1)
  OBVIOUS
<1> HIDE DEF s, t
<1>4. FlattenSeq(s) \in Seq(S)
  BY <1>1, FlattenType
<1>5. PICK h : Joins(t, n + 1, h) /\ FlattenSeq(t) = h[n + 1]
  BY <1>1, <1>3, FlattenIs
<1>6. h[1] = t[1]
  BY <1>3, <1>5, JoinsFirst
<1>7. CASE n = 0
  <2>1. s = << >>
    BY <1>1, <1>7
  <2>2. FlattenSeq(s) = << >>
    BY <2>1, FlattenEmpty
  <2>3. FlattenSeq(t) = f[n + 1]
    BY <1>2, <1>5, <1>6, <1>7
  <2>4. QED
    BY <1>2, <1>4, <2>2, <2>3, ConcatEmptySeq DEF s, t
<1>8. CASE n # 0
  <2>1. PICK g : Joins(s, n, g) /\ FlattenSeq(s) = g[n]
    BY <1>1, <1>8, FlattenIs
  <2>2. g[n] = h[n]
    <3>1. n \in 1..n /\ n <= n + 1
      BY <1>8
    <3>2. QED
      BY <1>2, <1>3, <1>5, <2>1, <3>1, JoinsAgree
  <2>3. FlattenSeq(t) = h[n] \o f[n + 1]
    <3>1. h[n + 1] = h[n] \o t[n + 1]
      BY <1>3, <1>5, <1>8, JoinsNext
    <3>2. QED
      BY <1>2, <1>5, <3>1
  <2>4. QED
    BY <1>4, <2>1, <2>2, <2>3 DEF s, t
<1>9. QED
  BY <1>7, <1>8

-----------------------------------------------------------------------------
(* Inclusion is what its definition says: the files that may be included   *)
(* grow fewer from one file to the next.                                   *)
Unfolds(fs, D, g) ==
  g = [above \in D |-> [name \in DOMAIN fs \ above |-> Whole(g[above \cup {name}], fs, name)]]

LEMMA OneFileFewer ==
  ASSUME NEW D, IsFiniteSet(D), NEW above \in SUBSET D, NEW name \in D \ above
  PROVE  /\ above \cup {name} \in SUBSET D
         /\ Cardinality(D \ above) \in Nat /\ Cardinality(D \ above) > 0
         /\ Cardinality(D \ (above \cup {name})) = Cardinality(D \ above) - 1
<1>1. IsFiniteSet(D \ above)
  BY FS_Subset
<1>2. D \ (above \cup {name}) = (D \ above) \ {name}
  OBVIOUS
<1>3. QED
  BY <1>1, <1>2, WithoutOne

(* By induction on the number of files that may still be included.         *)
LEMMA InclusionExists ==
  ASSUME NEW fs, IsFiniteSet(DOMAIN fs)
  PROVE  \E g : Unfolds(fs, SUBSET DOMAIN fs, g)
<1> DEFINE D == DOMAIN fs
           Low(n) == {above \in SUBSET D : Cardinality(D \ above) <= n}
           N == {n \in Nat : \E g : Unfolds(fs, Low(n), g)}
           Body(g, above) == [name \in D \ above |-> Whole(g[above \cup {name}], fs, name)]
<1>1. \A above \in SUBSET D : IsFiniteSet(D \ above) /\ Cardinality(D \ above) \in Nat
  <2> TAKE above \in SUBSET D
  <2>1. IsFiniteSet(D \ above)
    BY FS_Subset
  <2>2. QED
    BY <2>1, FS_CardinalityType
<1>2. \A above \in SUBSET D : \A name \in D \ above :
        /\ above \cup {name} \in SUBSET D
        /\ Cardinality(D \ (above \cup {name})) = Cardinality(D \ above) - 1
  BY OneFileFewer
<1>3. ASSUME NEW n \in Nat, NEW E, E = Low(n), NEW F, NEW g, Unfolds(fs, F, g), F \subseteq E,
             \A above \in E : \A name \in D \ above : above \cup {name} \in F
      PROVE  \E h : Unfolds(fs, E, h)
  <2> DEFINE h == [above \in E |-> Body(g, above)]
  <2>1. \A above \in F : h[above] = g[above]
    <3> TAKE above \in F
    <3>1. g[above] = Body(g, above)
      BY <1>3, Zenon DEF Unfolds
    <3>2. h[above] = Body(g, above)
      BY <1>3
    <3>3. QED
      BY <3>1, <3>2
  <2>2. \A above \in E : Body(g, above) = Body(h, above)
    <3> TAKE above \in E
    <3>1. \A name \in D \ above : h[above \cup {name}] = g[above \cup {name}]
      BY <1>3, <2>1
    <3> HIDE DEF h
    <3>2. \A name \in D \ above :
            Whole(g[above \cup {name}], fs, name) = Whole(h[above \cup {name}], fs, name)
      BY <3>1
    <3>3. QED
      BY <3>2
  <2>3. h = [above \in E |-> Body(h, above)]
    <3>1. \A above \in E : h[above] = Body(h, above)
      BY <2>2
    <3>2. h = [above \in E |-> h[above]]
      OBVIOUS
    <3> HIDE DEF h, Body
    <3>3. QED
      BY <3>1, <3>2
  <2> HIDE DEF h
  <2>4. Unfolds(fs, E, h)
    BY <2>3, Zenon DEF Unfolds
  <2>5. QED
    BY <2>4
<1>4. 0 \in N
  <2> DEFINE F == {}
             g == [above \in F |-> Body([x \in {} |-> x], above)]
  <2>1. Unfolds(fs, F, g)
    <3>1. g = [above \in {} |-> Body(g, above)]
      OBVIOUS
    <3> HIDE DEF g
    <3>2. QED
      BY <3>1, Zenon DEF Unfolds
  <2>2. \A above \in Low(0) : \A name \in D \ above : above \cup {name} \in F
    <3> TAKE above \in Low(0)
    <3>1. D \ above = {}
      BY <1>1, FS_EmptySet
    <3>2. QED
      BY <3>1
  <2> HIDE DEF g
  <2>3. \E h : Unfolds(fs, Low(0), h)
    BY <1>3, <2>1, <2>2
  <2>4. QED
    BY <2>3
<1>5. ASSUME NEW n \in Nat, n \in N
      PROVE  n + 1 \in N
  <2>1. PICK g : Unfolds(fs, Low(n), g)
    BY <1>5
  <2>2. Low(n) \subseteq Low(n + 1)
    BY <1>1
  <2>3. \A above \in Low(n + 1) : \A name \in D \ above : above \cup {name} \in Low(n)
    BY <1>1, <1>2
  <2>4. n + 1 \in Nat
    OBVIOUS
  <2> HIDE DEF Low
  <2>5. \E h : Unfolds(fs, Low(n + 1), h)
    BY <1>3, <2>1, <2>2, <2>3, <2>4
  <2>6. QED
    BY <2>4, <2>5
<1>6. \A n \in Nat : n \in N
  <2> HIDE DEF N
  <2>1. QED
    BY <1>4, <1>5, NumberInduction
<1>7. Cardinality(D) \in Nat /\ Low(Cardinality(D)) = SUBSET D
  <2>1. Cardinality(D) \in Nat
    BY FS_CardinalityType
  <2>2. \A above \in SUBSET D : Cardinality(D \ above) <= Cardinality(D)
    BY FS_Subset
  <2>3. QED
    BY <2>1, <2>2
<1> HIDE DEF Low
<1>8. QED
  BY <1>6, <1>7

LEMMA InclusionUnfolds ==
  ASSUME NEW fs, IsFiniteSet(DOMAIN fs),
         NEW above \in SUBSET DOMAIN fs
  PROVE  /\ DOMAIN Inclusion(fs)[above] = DOMAIN fs \ above
         /\ \A name \in DOMAIN fs \ above :
              Inclusion(fs)[above][name] = Whole(Inclusion(fs)[above \cup {name}], fs, name)
<1> DEFINE inclusion == CHOOSE g : Unfolds(fs, SUBSET DOMAIN fs, g)
<1>1. Unfolds(fs, SUBSET DOMAIN fs, inclusion)
  BY InclusionExists
<1>2. Inclusion(fs) = inclusion
  BY Zenon DEF Inclusion, Unfolds
<1>3. Inclusion(fs)[above] =
        [name \in DOMAIN fs \ above |-> Whole(Inclusion(fs)[above \cup {name}], fs, name)]
  <2> DEFINE f == Inclusion(fs)
  <2>1. Unfolds(fs, SUBSET DOMAIN fs, f)
    BY <1>1, <1>2
  <2> HIDE DEF f
  <2>2. f = [above2 \in SUBSET DOMAIN fs |->
               [name \in DOMAIN fs \ above2 |-> Whole(f[above2 \cup {name}], fs, name)]]
    BY <2>1, Zenon DEF Unfolds
  <2>3. f[above] = [name \in DOMAIN fs \ above |-> Whole(f[above \cup {name}], fs, name)]
    BY <2>2, Zenon
  <2>4. QED
    BY <2>3 DEF f
<1>4. QED
  BY <1>3

(* What kind of thing the lines of a file are.                             *)
Content == [ok : BOOLEAN, lines : Seq(InputData)]

LEMMA PieceType ==
  ASSUME NEW fs, NEW name \in FileName, fs[name] \in Seq(Line), NEW i \in 1..Len(fs[name]),
         NEW inner, \A f \in DOMAIN inner : inner[f] \in Content
  PROVE  Piece(inner, fs, name, i) \in Content
<1> DEFINE line == fs[name][i]
<1>1. line \in Line
  OBVIOUS
<1>2. line.include \in BOOLEAN /\ line.text \in Seq(Token)
  BY <1>1 DEF Line
<1> HIDE DEF line
<1>7. CASE line.fails # "no"
  <2>1. Piece(inner, fs, name, i) = [ok |-> FALSE, lines |-> << >>]
    BY <1>7, Zenon DEF Piece, line
  <2>2. QED
    BY <2>1 DEF Content
<1>3. CASE line.fails = "no" /\ ~line.include
  <2> DEFINE data == [text |-> line.text, file_name |-> name, line_counter |-> i]
  <2>1. data \in InputData
    BY <1>2 DEF InputData
  <2>2. Piece(inner, fs, name, i) = [ok |-> TRUE, lines |-> << data >>]
    BY <1>3, Zenon DEF Piece, line
  <2> HIDE DEF data
  <2>3. QED
    BY <2>1, <2>2 DEF Content
<1>4. CASE line.fails = "no" /\ line.include /\ line.name \in DOMAIN inner
  <2>1. Piece(inner, fs, name, i) = inner[line.name]
    BY <1>4, Zenon DEF Piece, line
  <2>2. QED
    BY <1>4, <2>1
<1>5. CASE line.fails = "no" /\ line.include /\ line.name \notin DOMAIN inner
  <2>1. Piece(inner, fs, name, i) = [ok |-> FALSE, lines |-> << >>]
    BY <1>5, Zenon DEF Piece, line
  <2>2. QED
    BY <2>1 DEF Content
<1>6. QED
  BY <1>2, <1>3, <1>4, <1>5, <1>7

(* A file stands for the pieces of its lines, one after the other.         *)
LEMMA WholeIs ==
  ASSUME NEW fs, NEW name \in FileName, fs[name] \in Seq(Line),
         NEW inner, \A f \in DOMAIN inner : inner[f] \in Content
  PROVE  LET size == Len(fs[name])
             whole == Whole(inner, fs, name)
         IN  /\ whole \in Content
             /\ whole.ok <=> \A i \in 1..size : Piece(inner, fs, name, i).ok
             /\ whole.lines = FlattenSeq([i \in 1..size |-> Piece(inner, fs, name, i).lines])
<1> DEFINE size == Len(fs[name])
           pieces == [i \in 1..size |-> Piece(inner, fs, name, i)]
           parts == [i \in 1..size |-> Piece(inner, fs, name, i).lines]
<1>1. size \in Nat
  OBVIOUS
<1>2. \A i \in 1..size : Piece(inner, fs, name, i) \in Content
  BY PieceType
<1>3. parts \in Seq(Seq(InputData))
  BY <1>1, <1>2 DEF Content
<1>4. [i \in DOMAIN pieces |-> pieces[i].lines] = parts
  OBVIOUS
<1>5. Whole(inner, fs, name) =
        [ok |-> \A i \in DOMAIN pieces : pieces[i].ok, lines |-> FlattenSeq(parts)]
  BY <1>4, Zenon DEF Whole
<1>6. FlattenSeq(parts) \in Seq(InputData)
  BY <1>3, FlattenType
<1>7. Whole(inner, fs, name).ok <=> \A i \in 1..size : Piece(inner, fs, name, i).ok
  <2> DEFINE all_ok == \A i \in DOMAIN pieces : pieces[i].ok
  <2>1. Whole(inner, fs, name) = [ok |-> all_ok, lines |-> FlattenSeq(parts)]
    BY <1>5
  <2> HIDE DEF all_ok, parts
  <2>2. Whole(inner, fs, name).ok = all_ok
    BY <2>1
  <2>3. all_ok <=> \A i \in 1..size : Piece(inner, fs, name, i).ok
    BY Zenon DEF all_ok
  <2>4. QED
    BY <2>2, <2>3, Zenon
<1>8. Whole(inner, fs, name).lines = FlattenSeq(parts)
  BY <1>5
<1>9. Whole(inner, fs, name) \in Content
  BY <1>5, <1>6 DEF Content
<1>10. QED
  BY <1>7, <1>8, <1>9

LEMMA InclusionType ==
  ASSUME NEW fs, IsFiniteSet(DOMAIN fs), DOMAIN fs \subseteq FileName,
         \A f \in DOMAIN fs : fs[f] \in Seq(Line)
  PROVE  \A above \in SUBSET DOMAIN fs : \A name \in DOMAIN fs \ above :
           Inclusion(fs)[above][name] \in Content
<1> DEFINE D == DOMAIN fs
           N == {n \in Nat : \A above \in SUBSET D : Cardinality(D \ above) <= n =>
                   \A name \in D \ above : Inclusion(fs)[above][name] \in Content}
<1>1. \A above \in SUBSET D : IsFiniteSet(D \ above) /\ Cardinality(D \ above) \in Nat
  <2> TAKE above \in SUBSET D
  <2>1. IsFiniteSet(D \ above)
    BY FS_Subset
  <2>2. QED
    BY <2>1, FS_CardinalityType
<1>2. 0 \in N
  <2> SUFFICES ASSUME NEW above \in SUBSET D, Cardinality(D \ above) <= 0
               PROVE  D \ above = {}
    OBVIOUS
  <2> DEFINE rest == D \ above
  <2>1. IsFiniteSet(rest) /\ Cardinality(rest) \in Nat /\ Cardinality(rest) <= 0
    BY <1>1, Zenon
  <2> HIDE DEF rest
  <2>2. rest = {}
    BY <2>1, FS_EmptySet
  <2>3. QED
    BY <2>2 DEF rest
<1>3. ASSUME NEW n \in Nat, n \in N
      PROVE  n + 1 \in N
  <2> SUFFICES ASSUME NEW above \in SUBSET D, Cardinality(D \ above) <= n + 1,
                      NEW name \in D \ above
               PROVE  Inclusion(fs)[above][name] \in Content
    <3>1. n + 1 \in Nat
      OBVIOUS
    <3>2. QED
      BY <3>1, Zenon
  <2> DEFINE open == above \cup {name}
  <2>1. open \in SUBSET D /\ Cardinality(D \ open) <= n
    BY <1>1, OneFileFewer
  <2>2. \A f \in D \ open : Inclusion(fs)[open][f] \in Content
    BY <1>3, <2>1
  <2>3. DOMAIN Inclusion(fs)[open] = D \ open
    BY <2>1, InclusionUnfolds
  <2>4. Inclusion(fs)[above][name] = Whole(Inclusion(fs)[open], fs, name)
    BY InclusionUnfolds
  <2> HIDE DEF open
  <2>5. Whole(Inclusion(fs)[open], fs, name) \in Content
    BY <2>2, <2>3, WholeIs
  <2>6. QED
    BY <2>4, <2>5
<1>4. \A n \in Nat : n \in N
  <2> HIDE DEF N
  <2>1. QED
    BY <1>2, <1>3, NumberInduction
<1>5. QED
  <2> TAKE above \in SUBSET D
  <2>1. PICK n \in Nat : Cardinality(D \ above) = n
    BY <1>1
  <2>2. n \in N /\ Cardinality(D \ above) <= n
    <3> HIDE DEF N, D
    <3>1. QED
      BY <1>4, <2>1
  <2>3. QED
    BY <2>2

-----------------------------------------------------------------------------
(* Functions that go through a sequence step by step.                      *)

GoesThrough(V, base, n, step, g) ==
  /\ g = [i \in 0..n |-> IF i = 0 THEN base ELSE step[i][g[i - 1]]]
  /\ \A i \in 0..n : g[i] \in V

(* There is such a function, and its values are all of one type.           *)
LEMMA StepsExist ==
  ASSUME NEW V, NEW base \in V, NEW n \in Nat, NEW step,
         \A i \in 1..n : \A v \in V : step[i][v] \in V
  PROVE  \E g : GoesThrough(V, base, n, step, g)
<1> DEFINE Good(m, g) == /\ g = [i \in 0..m |-> IF i = 0 THEN base ELSE step[i][g[i - 1]]]
                         /\ \A i \in 0..m : g[i] \in V
           N == {m \in Nat : m <= n => \E g : Good(m, g)}
<1>1. 0 \in N
  <2> DEFINE g == [i \in 0..0 |-> base]
  <2>1. \A i \in 0..0 : i = 0
    OBVIOUS
  <2>2. g = [i \in 0..0 |-> IF i = 0 THEN base ELSE step[i][g[i - 1]]]
    BY <2>1
  <2>3. \A i \in 0..0 : g[i] \in V
    OBVIOUS
  <2> HIDE DEF g
  <2>4. Good(0, g)
    BY <2>2, <2>3, Zenon
  <2>5. QED
    BY <2>4
<1>2. ASSUME NEW m \in Nat, m \in N
      PROVE  m + 1 \in N
  <2> SUFFICES ASSUME m + 1 <= n
               PROVE  \E h : Good(m + 1, h)
    OBVIOUS
  <2>1. m <= n
    OBVIOUS
  <2>2. PICK g : Good(m, g)
    BY <1>2, <2>1
  <2> DEFINE h == [i \in 0..(m + 1) |-> IF i = 0 THEN base ELSE step[i][g[i - 1]]]
  <2>3. \A i \in 0..m : h[i] = g[i]
    <3> TAKE i \in 0..m
    <3>1. g[i] = IF i = 0 THEN base ELSE step[i][g[i - 1]]
      BY <2>2
    <3>2. i \in 0..(m + 1)
      OBVIOUS
    <3>3. QED
      BY <3>1, <3>2
  <2>4. \A i \in 0..(m + 1) : i # 0 => i - 1 \in 0..m /\ i \in 1..n
    OBVIOUS
  <2>5. \A i \in 0..(m + 1) : h[i] = IF i = 0 THEN base ELSE step[i][h[i - 1]]
    <3> TAKE i \in 0..(m + 1)
    <3>1. CASE i = 0
      BY <3>1
    <3>2. CASE i # 0
      <4>1. h[i] = step[i][g[i - 1]]
        BY <3>2
      <4>2. h[i - 1] = g[i - 1]
        BY <2>3, <2>4, <3>2
      <4> HIDE DEF h
      <4>3. QED
        BY <3>2, <4>1, <4>2, Zenon
    <3>3. QED
      BY <3>1, <3>2
  <2>6. \A i \in 0..(m + 1) : h[i] \in V
    <3> TAKE i \in 0..(m + 1)
    <3>1. CASE i = 0
      BY <3>1
    <3>2. CASE i # 0
      <4>1. g[i - 1] \in V
        BY <2>2, <2>4, <3>2
      <4>2. i \in 1..n
        BY <2>4, <3>2
      <4>3. QED
        BY <3>2, <4>1, <4>2
    <3>3. QED
      BY <3>1, <3>2
  <2>7. h = [i \in 0..(m + 1) |-> h[i]]
    OBVIOUS
  <2> HIDE DEF h
  <2>8. h = [i \in 0..(m + 1) |-> IF i = 0 THEN base ELSE step[i][h[i - 1]]]
    BY <2>5, <2>7, Zenon
  <2>9. Good(m + 1, h)
    BY <2>6, <2>8, Zenon
  <2>10. QED
    BY <2>9
<1>3. \A m \in Nat : m \in N
  <2> HIDE DEF N
  <2>1. QED
    BY <1>1, <1>2, NumberInduction
<1>4. n \in N
  BY <1>3
<1>5. QED
  BY <1>4 DEF GoesThrough

LEMMA KeptFromStart ==
  ASSUME NEW V, NEW n \in Nat, NEW g, g[0] \in V,
         \A i \in 1..n : g[i - 1] \in V => g[i] \in V
  PROVE  \A i \in 0..n : g[i] \in V
<1> DEFINE N == {i \in Nat : i <= n => g[i] \in V}
<1>1. 0 \in N
  OBVIOUS
<1>2. ASSUME NEW i \in Nat, i \in N
      PROVE  i + 1 \in N
  <2> SUFFICES ASSUME i + 1 <= n
               PROVE  g[i + 1] \in V
    OBVIOUS
  <2> DEFINE k == i + 1
  <2>1. k \in 1..n /\ k - 1 = i /\ g[i] \in V
    BY <1>2
  <2> HIDE DEF k
  <2>2. g[k] \in V
    BY <2>1
  <2>3. QED
    BY <2>2 DEF k
<1>3. \A i \in Nat : i \in N
  <2> HIDE DEF N
  <2>1. QED
    BY <1>1, <1>2, NumberInduction
<1>4. QED
  BY <1>3

-----------------------------------------------------------------------------
(* A line without its comments.                                            *)
ScanState == [in_comment : BOOLEAN, in_char : BOOLEAN, out : Seq(Token)]

LEMMA ScannedType ==
  ASSUME NEW state \in ScanState, NEW token \in Token
  PROVE  Scanned(state, token) \in ScanState
<1>1. /\ state = [in_comment |-> state.in_comment, in_char |-> state.in_char, out |-> state.out]
      /\ state.in_comment \in BOOLEAN /\ state.in_char \in BOOLEAN /\ state.out \in Seq(Token)
  BY DEF ScanState
<1>2. Comment(state) \in ScanState
  <2>1. (IF state.out = << >> THEN state.out ELSE Front(state.out)) \in Seq(Token)
    BY <1>1 DEF Front
  <2> DEFINE shorter == IF state.out = << >> THEN state.out ELSE Front(state.out)
  <2>2. Comment(state) = [state EXCEPT !.in_comment = TRUE, !.out = shorter]
    BY Zenon DEF Comment, AfterSlash
  <2>3. shorter \in Seq(Token)
    BY <2>1
  <2> HIDE DEF shorter
  <2>4. QED
    BY <2>2, <2>3 DEF ScanState
<1>3. [state EXCEPT !.in_comment = FALSE] \in ScanState
  BY DEF ScanState
<1>4. \A b \in BOOLEAN : [state EXCEPT !.in_char = b] \in ScanState
  BY DEF ScanState
<1>5. ASSUME NEW b \in BOOLEAN
      PROVE  [state EXCEPT !.in_char = b, !.out = Append(@, token)] \in ScanState
  <2> DEFINE longer == Append(state.out, token)
  <2>1. [state EXCEPT !.in_char = b, !.out = Append(@, token)] =
          [state EXCEPT !.in_char = b, !.out = longer]
    BY DEF ScanState
  <2>2. longer \in Seq(Token)
    BY <1>1
  <2> HIDE DEF longer
  <2>3. QED
    BY <2>1, <2>2 DEF ScanState
<1>6. (token = "*") \in BOOLEAN /\ (token = "/") \in BOOLEAN
  OBVIOUS
<1>7. [state EXCEPT !.in_char = (token = "*")] \in ScanState
  BY <1>4, <1>6, Zenon
<1>8. [state EXCEPT !.in_char = (token = "/"), !.out = Append(@, token)] \in ScanState
  BY <1>5, <1>6, Zenon
<1>9. QED
  BY <1>2, <1>3, <1>7, <1>8, Zenon DEF Scanned

Scans(text, inside, scan) ==
  scan = [i \in 0..Len(text) |->
            IF i = 0 THEN [in_comment |-> inside, in_char |-> FALSE, out |-> << >>]
                     ELSE Scanned(scan[i - 1], text[i])]

LEMMA ScansExist ==
  ASSUME NEW text \in Seq(Token), NEW inside \in BOOLEAN
  PROVE  \E scan : Scans(text, inside, scan)
<1> DEFINE n == Len(text)
           base == [in_comment |-> inside, in_char |-> FALSE, out |-> << >>]
           step == [i \in 1..n |-> [v \in ScanState |-> Scanned(v, text[i])]]
<1>1. n \in Nat /\ \A i \in 1..n : text[i] \in Token
  OBVIOUS
<1>2. base \in ScanState
  BY DEF ScanState
<1>3. \A i \in 1..n : \A v \in ScanState : step[i][v] = Scanned(v, text[i]) /\ step[i][v] \in ScanState
  BY <1>1, ScannedType
<1> HIDE DEF base, step, n
<1>10. \A i \in 1..n : \A v \in ScanState : step[i][v] \in ScanState
  BY <1>3
<1>11. PICK g : GoesThrough(ScanState, base, n, step, g)
  BY <1>1, <1>2, <1>10, StepsExist
<1>4. /\ g = [i \in 0..n |-> IF i = 0 THEN base ELSE step[i][g[i - 1]]]
      /\ \A i \in 0..n : g[i] \in ScanState
  BY <1>11, Zenon DEF GoesThrough
<1>5. \A i \in 0..n : (IF i = 0 THEN base ELSE step[i][g[i - 1]]) =
                        (IF i = 0 THEN base ELSE Scanned(g[i - 1], text[i]))
  <2> TAKE i \in 0..n
  <2>1. CASE i = 0
    BY <2>1
  <2>2. CASE i # 0
    <3>1. i \in 1..n /\ i - 1 \in 0..n
      BY <1>1, <2>2
    <3>2. step[i][g[i - 1]] = Scanned(g[i - 1], text[i])
      BY <1>3, <1>4, <3>1
    <3>3. QED
      BY <2>2, <3>2, Zenon
  <2>3. QED
    BY <2>1, <2>2
<1>6. g = [i \in 0..n |-> IF i = 0 THEN base ELSE Scanned(g[i - 1], text[i])]
  BY <1>4, <1>5, Zenon
<1>7. Scans(text, inside, g)
  BY <1>6, Zenon DEF Scans, n, base
<1>8. QED
  BY <1>7

LEMMA ScannedLineType ==
  ASSUME NEW text \in Seq(Token), NEW inside \in BOOLEAN
  PROVE  /\ ScannedLine(text, inside).in_comment \in BOOLEAN
         /\ ScannedLine(text, inside).out \in Seq(Token)
<1> DEFINE scan == CHOOSE g : Scans(text, inside, g)
           n == Len(text)
<1>1. Scans(text, inside, scan)
  BY ScansExist
<1>2. ScannedLine(text, inside) = scan[n]
  BY Zenon DEF ScannedLine, Scans
<1>3. n \in Nat /\ \A i \in 1..n : text[i] \in Token
  OBVIOUS
<1> HIDE DEF scan
<1>4. scan[0] = [in_comment |-> inside, in_char |-> FALSE, out |-> << >>]
  <2>1. 0 \in 0..Len(text)
    BY <1>3
  <2>2. QED
    BY <1>1, <2>1, Zenon DEF Scans
<1>5. scan[0] \in ScanState
  BY <1>4 DEF ScanState
<1>6. ASSUME NEW i \in 1..n, scan[i - 1] \in ScanState
      PROVE  scan[i] \in ScanState
  <2>1. i \in 0..Len(text) /\ i # 0
    BY <1>3
  <2>2. scan[i] = Scanned(scan[i - 1], text[i])
    BY <1>1, <2>1, Zenon DEF Scans
  <2>3. QED
    BY <1>3, <1>6, <2>2, ScannedType
<1>7. \A i \in 0..n : scan[i] \in ScanState
  BY <1>3, <1>5, <1>6, KeptFromStart
<1>8. scan[n] \in ScanState
  BY <1>3, <1>7
<1>9. QED
  BY <1>2, <1>8 DEF ScanState

-----------------------------------------------------------------------------
(* The items of a macro.                                                   *)
Reads(words, read) ==
  read = [i \in 0..Len(words) |->
            IF i = 0 THEN [done |-> << >>, item |-> << >>]
            ELSE IF words[i] = "/"
            THEN [done |-> Append(read[i - 1].done, read[i - 1].item), item |-> << >>]
            ELSE [read[i - 1] EXCEPT !.item = Append(@, words[i])]]

Parts == [done : Seq(Item), item : Item]

ReadOn(parts, word) ==
  IF word = "/" THEN [done |-> Append(parts.done, parts.item), item |-> << >>]
                ELSE [parts EXCEPT !.item = Append(@, word)]

LEMMA ReadOnType ==
  ASSUME NEW parts \in Parts, NEW word \in Token
  PROVE  ReadOn(parts, word) \in Parts
<1>1. parts.done \in Seq(Item) /\ parts.item \in Item
  BY DEF Parts
<1>2. CASE word = "/"
  <2>1. << >> \in Item
    BY DEF Item
  <2>2. Append(parts.done, parts.item) \in Seq(Item)
    BY <1>1
  <2>3. QED
    BY <1>2, <2>1, <2>2 DEF ReadOn, Parts
<1>3. CASE word # "/"
  <2> DEFINE longer == Append(parts.item, word)
  <2>1. longer \in Item
    BY <1>1, <1>3 DEF Item
  <2>2. ReadOn(parts, word) = [parts EXCEPT !.item = longer]
    BY <1>3, Zenon DEF ReadOn
  <2> HIDE DEF longer
  <2>3. QED
    BY <2>1, <2>2 DEF Parts
<1>4. QED
  BY <1>2, <1>3

LEMMA ReadsExist ==
  ASSUME NEW words \in Seq(Token)
  PROVE  \E read : Reads(words, read)
<1> DEFINE n == Len(words)
           base == [done |-> << >>, item |-> << >>]
           step == [i \in 1..n |-> [v \in Parts |-> ReadOn(v, words[i])]]
<1>1. n \in Nat /\ \A i \in 1..n : words[i] \in Token
  OBVIOUS
<1>2. base \in Parts
  BY DEF Parts, Item
<1>3. \A i \in 1..n : \A v \in Parts : step[i][v] = ReadOn(v, words[i]) /\ step[i][v] \in Parts
  BY <1>1, ReadOnType
<1> HIDE DEF base, step, n
<1>4. \A i \in 1..n : \A v \in Parts : step[i][v] \in Parts
  BY <1>3
<1>5. PICK g : GoesThrough(Parts, base, n, step, g)
  BY <1>1, <1>2, <1>4, StepsExist
<1>6. /\ g = [i \in 0..n |-> IF i = 0 THEN base ELSE step[i][g[i - 1]]]
      /\ \A i \in 0..n : g[i] \in Parts
  BY <1>5, Zenon DEF GoesThrough
<1>7. \A i \in 0..n : (IF i = 0 THEN base ELSE step[i][g[i - 1]]) =
                        (IF i = 0 THEN base ELSE ReadOn(g[i - 1], words[i]))
  <2> TAKE i \in 0..n
  <2>1. CASE i = 0
    BY <2>1
  <2>2. CASE i # 0
    <3>1. i \in 1..n /\ i - 1 \in 0..n
      BY <1>1, <2>2
    <3>2. step[i][g[i - 1]] = ReadOn(g[i - 1], words[i])
      BY <1>3, <1>6, <3>1
    <3>3. QED
      BY <2>2, <3>2, Zenon
  <2>3. QED
    BY <2>1, <2>2
<1>8. g = [i \in 0..n |-> IF i = 0 THEN base ELSE ReadOn(g[i - 1], words[i])]
  BY <1>6, <1>7, Zenon
<1>9. Reads(words, g)
  BY <1>8, Zenon DEF Reads, ReadOn, n, base
<1>10. QED
  BY <1>9

LEMMA ItemsOfType ==
  ASSUME NEW words \in Seq(Token)
  PROVE  ItemsOf(words) \in Seq(Item)
<1> DEFINE read == CHOOSE g : Reads(words, g)
           n == Len(words)
           last == read[n]
<1>1. Reads(words, read)
  BY ReadsExist
<1>2. ItemsOf(words) = IF last.item = << >> THEN last.done ELSE Append(last.done, last.item)
  BY Zenon DEF ItemsOf, Reads
<1>3. n \in Nat /\ \A i \in 1..n : words[i] \in Token
  OBVIOUS
<1> HIDE DEF read
<1>4. read[0] = [done |-> << >>, item |-> << >>]
  <2>1. 0 \in 0..Len(words)
    BY <1>3
  <2>2. QED
    BY <1>1, <2>1, Zenon DEF Reads
<1>5. read[0] \in Parts
  BY <1>4 DEF Parts, Item
<1>6. ASSUME NEW i \in 1..n, read[i - 1] \in Parts
      PROVE  read[i] \in Parts
  <2>1. i \in 0..Len(words) /\ i # 0
    BY <1>3
  <2>2. read[i] = ReadOn(read[i - 1], words[i])
    BY <1>1, <2>1, Zenon DEF Reads, ReadOn
  <2>3. QED
    BY <1>3, <1>6, <2>2, ReadOnType
<1>7. \A i \in 0..n : read[i] \in Parts
  BY <1>3, <1>5, <1>6, KeptFromStart
<1>8. last.done \in Seq(Item) /\ last.item \in Item
  BY <1>3, <1>7 DEF Parts
<1> HIDE DEF last
<1>9. QED
  BY <1>2, <1>8

LEMMA HeadIs ==
  ASSUME NEW S, NEW s \in Seq(S), s # << >>
  PROVE  Head(s) = s[1]
OBVIOUS

LEMMA MacroType ==
  ASSUME NEW line \in TableLine, line.opcode = ""
  PROVE  line.words # << >> /\ macro_from_string(line.words) \in Macro
<1>1. line.words \in Seq(Token) /\ line.words # << >> /\ line.words[1] \in MacroName
  BY DEF TableLine
<1>2. Tail(line.words) \in Seq(Token) /\ Head(line.words) \in MacroName
  <2> DEFINE words == line.words
  <2>1. words \in Seq(Token) /\ words # << >> /\ words[1] \in MacroName
    BY <1>1
  <2> HIDE DEF words
  <2>2. Tail(words) \in Seq(Token)
    BY <2>1, HeadTailProperties, Zenon
  <2>3. Head(words) = words[1]
    BY <2>1, HeadIs, Zenon
  <2>4. QED
    BY <2>1, <2>2, <2>3 DEF words
<1>3. ItemsOf(Tail(line.words)) \in Seq(Item)
  BY <1>2, ItemsOfType
<1>4. QED
  BY <1>1, <1>2, <1>3 DEF macro_from_string, Macro

(* A macro call.                                                           *)
LEMMA ItemIsWords == \A item \in Item : item \in Seq(Token)
BY DEF Item

LEMMA ReplacedType ==
  ASSUME NEW T, NEW item \in Seq(T), NEW call \in Seq(T)
  PROVE  Replaced(item, call) \in Seq(T)
<1> DEFINE parts == [i \in DOMAIN item |-> Argument(item[i], call)]
<1>1. \A i \in DOMAIN item : Argument(item[i], call) \in Seq(T)
  <2> TAKE i \in DOMAIN item
  <2>1. item[i] \in T
    OBVIOUS
  <2>2. NumberOf[item[i]] \in 1..(Len(call) - 1) => call[NumberOf[item[i]] + 1] \in T
    OBVIOUS
  <2>3. QED
    BY <2>1, <2>2 DEF Argument
<1>2. parts \in Seq(Seq(T))
  <2>1. DOMAIN item = 1..Len(item) /\ Len(item) \in Nat
    OBVIOUS
  <2> DEFINE a(i) == Argument(item[i], call)
  <2>2. \A i \in DOMAIN item : a(i) \in Seq(T)
    BY <1>1
  <2> HIDE DEF a
  <2>3. [i \in DOMAIN item |-> a(i)] \in Seq(Seq(T))
    BY <2>1, <2>2
  <2>4. QED
    BY <2>3 DEF a
<1>3. QED
  BY <1>2, FlattenType DEF Replaced

(* return_macro finds a macro when one is defined.                         *)
LEMMA DefinedMacro ==
  ASSUME NEW list \in Seq(Macro), NEW words, Defined(list, words)
  PROVE  /\ words # << >>
         /\ return_macro(list, words) \in Macro
<1> DEFINE found == Named(list, words[1])
<1>1. found \subseteq Nat /\ found # {} /\ found \subseteq DOMAIN list
  BY DEF Defined, Named
<1>2. \E i \in found : \A j \in found : i <= j
  <2> HIDE DEF found
  <2>1. QED
    BY <1>1, LeastOf
<1> DEFINE first == CHOOSE i \in found : \A j \in found : i <= j
<1>3. first \in found
  BY <1>2
<1>4. return_macro(list, words) = list[first]
  BY Zenon DEF return_macro
<1> HIDE DEF first
<1>5. list[first] \in Macro
  <2>1. first \in DOMAIN list
    BY <1>1, <1>3
  <2>2. QED
    BY <2>1
<1>6. QED
  BY <1>4, <1>5 DEF Defined

LEMMA ReplacedItems ==
  ASSUME NEW T, NEW items \in Seq(Seq(T)), NEW call \in Seq(T)
  PROVE  [k \in DOMAIN items |-> Replaced(items[k], call)] \in Seq(Seq(T))
<1>1. DOMAIN items = 1..Len(items) /\ Len(items) \in Nat
  OBVIOUS
<1>2. \A k \in DOMAIN items : Replaced(items[k], call) \in Seq(T)
  BY ReplacedType
<1> DEFINE r(k) == Replaced(items[k], call)
<1>3. \A k \in DOMAIN items : r(k) \in Seq(T)
  BY <1>2
<1> HIDE DEF r
<1>4. [k \in DOMAIN items |-> r(k)] \in Seq(Seq(T))
  BY <1>1, <1>3
<1>5. QED
  BY <1>4 DEF r

LEMMA EmbeddedType ==
  ASSUME macros \in Seq(Macro), NEW item \in Item
  PROVE  Embedded(item) \in Seq(Item)
<1>1. CASE Defined(macros, item)
  <2>1. return_macro(macros, item) \in Macro
    BY <1>1, DefinedMacro
  <2>2. Called(item) \in Seq(Item)
    BY <2>1 DEF Called, Macro
  <2> DEFINE items == Called(item)
  <2>3. items \in Seq(Item)
    BY <2>2
  <2>4. Embedded(item) = [k \in DOMAIN items |-> Replaced(items[k], item)]
    BY <1>1, Zenon DEF Embedded
  <2> HIDE DEF items
  <2>5. QED
    BY <2>3, <2>4, ReplacedItems DEF Item
<1>2. CASE ~Defined(macros, item)
  BY <1>2 DEF Embedded
<1>3. QED
  BY <1>1, <1>2

LEMMA DefinitionsType ==
  ASSUME macros \in Seq(Macro), NEW name
  PROVE  Definitions(name) \in Seq(Item)
<1> DEFINE part(i) == IF macros[i].name = name THEN macros[i].items ELSE << >>
<1>1. \A i \in DOMAIN macros : part(i) \in Seq(Item)
  <2> TAKE i \in DOMAIN macros
  <2>1. macros[i] \in Macro
    OBVIOUS
  <2>2. macros[i].items \in Seq(Item)
    BY <2>1 DEF Macro
  <2>3. << >> \in Seq(Item)
    OBVIOUS
  <2>4. QED
    BY <2>2, <2>3
<1>2. Definitions(name) = FlattenSeq([i \in DOMAIN macros |-> part(i)])
  BY Zenon DEF Definitions
<1>3. DOMAIN macros = 1..Len(macros) /\ Len(macros) \in Nat
  OBVIOUS
<1> HIDE DEF part
<1>4. [i \in DOMAIN macros |-> part(i)] \in Seq(Seq(Item))
  BY <1>1, <1>3
<1>5. QED
  BY <1>2, <1>4, FlattenType

LEMMA ExpansionType ==
  ASSUME macros \in Seq(Macro), NEW call \in Seq(Token)
  PROVE  Expansion(call) \in Seq(Seq(Token))
<1> DEFINE items == Definitions(call[1])
<1>1. items \in Seq(Item)
  BY DefinitionsType
<1>2. items \in Seq(Seq(Token))
  <2> HIDE DEF items
  <2>1. \A k \in 1..Len(items) : items[k] \in Seq(Token)
    BY <1>1, ItemIsWords
  <2>2. QED
    BY <1>1, <2>1
<1>3. Expansion(call) = [k \in DOMAIN items |-> Replaced(items[k], call)]
  BY Zenon DEF Expansion
<1> HIDE DEF items
<1>4. QED
  BY <1>2, <1>3, ReplacedItems

LEMMA ErrorsInAre ==
  ASSUME NEW items, NEW call
  PROVE  ErrorsIn(items, call) \subseteq MacroErrors
BY DEF ErrorsIn, ArgumentErrors, MacroErrors

-----------------------------------------------------------------------------
(* The calls in progress.                                                  *)

(* A file is in progress at most once, and no further than its end.        *)
CallsDiffer(fs, s) ==
  /\ \A i \in 1..Len(s) :
       /\ s[i].name \in DOMAIN fs
       /\ s[i].line_number <= Len(fs[s[i].name])
  /\ \A i, j \in 1..Len(s) : i # j => s[i].name # s[j].name

(* Their names are among the opened ones in the order of the calls.        *)
Remembers(opened, s, place) ==
  /\ place \in [1..Len(s) -> 1..Len(opened)]
  /\ \A i \in 1..Len(s) : opened[place[i]] = s[i].name
  /\ \A i, j \in 1..Len(s) : i < j => place[i] < place[j]

Remembered(opened, s) == \E place : Remembers(opened, s, place)

LEMMA LastAndFront ==
  ASSUME NEW S, NEW s \in Seq(S), s # << >>
  PROVE  /\ Len(s) \in Nat /\ Len(s) > 0
         /\ Last(s) = s[Len(s)] /\ Last(s) \in S
         /\ Front(s) \in Seq(S) /\ Len(Front(s)) = Len(s) - 1
         /\ \A i \in 1..(Len(s) - 1) : Front(s)[i] = s[i]
<1> DEFINE n == Len(s)
           front == SubSeq(s, 1, n - 1)
<1>1. n \in Nat /\ n > 0 /\ s[n] \in S
  OBVIOUS
<1>2. front \in Seq(S) /\ Len(front) = n - 1 /\ \A i \in 1..(n - 1) : front[i] = s[i]
  <2> DEFINE m == n - 1
  <2>1. 1 \in Int /\ m \in Int /\ m >= 0 /\ \A i \in 1..m : s[i] \in S
    OBVIOUS
  <2> HIDE DEF m
  <2>2. /\ SubSeq(s, 1, m) \in Seq(S)
        /\ Len(SubSeq(s, 1, m)) = IF 1 <= m THEN m - 1 + 1 ELSE 0
        /\ \A i \in 1..(m - 1 + 1) : SubSeq(s, 1, m)[i] = s[1 + i - 1]
    BY <2>1, SubSeqProperties
  <2>3. Len(SubSeq(s, 1, m)) = m /\ \A i \in 1..m : SubSeq(s, 1, m)[i] = s[i]
    BY <2>1, <2>2
  <2>4. QED
    BY <2>2, <2>3 DEF m
<1>3. Last(s) = s[n] /\ Front(s) = front
  BY Zenon DEF Last, Front
<1> HIDE DEF front
<1>4. QED
  BY <1>1, <1>2, <1>3

(* So there are never more calls than files: read_file_to_vector comes to  *)
(* no infinite recursion.                                                  *)
LEMMA NoMoreCallsThanFiles ==
  ASSUME NEW fs, DOMAIN fs \subseteq FileName, NEW s \in Seq(Frame), CallsDiffer(fs, s)
  PROVE  Len(s) <= Cardinality(FileName)
<1> DEFINE f == [i \in 1..Len(s) |-> s[i].name]
<1>1. f \in [1..Len(s) -> FileName] /\ \A i, j \in 1..Len(s) : f[i] = f[j] => i = j
  BY DEF CallsDiffer
<1>2. f \in Injection(1..Len(s), FileName)
  <2> HIDE DEF f
  <2>1. QED
    BY <1>1, Zenon DEF Injection, IsInjective
<1>3. IsFiniteSet(FileName)
  BY SourceReaderAssumption
<1>4. Cardinality(1..Len(s)) <= Cardinality(FileName)
  BY <1>2, <1>3, FS_Injection, Zenon
<1>5. Len(s) \in Nat /\ Cardinality(1..Len(s)) = Len(s)
  <2> DEFINE n == Len(s)
  <2>1. n \in Nat /\ 1 \in Int /\ n \in Int
    OBVIOUS
  <2> HIDE DEF n
  <2>2. Cardinality(1..n) = IF 1 > n THEN 0 ELSE n - 1 + 1
    BY <2>1, FS_Interval, Zenon
  <2>3. n \in Nat /\ Cardinality(1..n) = n
    BY <2>1, <2>2
  <2>4. QED
    BY <2>3 DEF n
<1>6. QED
  BY <1>4, <1>5

(* A shorter stack with the same names.                                    *)
LEMMA CallsLeft ==
  ASSUME NEW fs, NEW s \in Seq(Frame), NEW t \in Seq(Frame), CallsDiffer(fs, s),
         Len(t) <= Len(s),
         \A i \in 1..Len(t) : t[i].name = s[i].name /\ t[i].line_number <= Len(fs[s[i].name])
  PROVE  CallsDiffer(fs, t)
<1>1. \A i \in 1..Len(t) : i \in 1..Len(s)
  OBVIOUS
<1>2. QED
  BY <1>1 DEF CallsDiffer

LEMMA StillRemembered ==
  ASSUME NEW opened \in Seq(FileName), NEW s \in Seq(Frame), NEW t \in Seq(Frame),
         Remembered(opened, s), Len(t) <= Len(s),
         \A i \in 1..Len(t) : t[i].name = s[i].name
  PROVE  Remembered(opened, t)
<1>1. PICK place : Remembers(opened, s, place)
  BY DEF Remembered
<1> DEFINE shorter == [i \in 1..Len(t) |-> place[i]]
<1>2. \A i \in 1..Len(t) : i \in 1..Len(s)
  OBVIOUS
<1>3. Remembers(opened, t, shorter)
  BY <1>1, <1>2 DEF Remembers
<1>4. QED
  BY <1>3 DEF Remembered

(* opened_files.pop() forgets a file that is done with, even when one that *)
(* failed to open left its name there.                                     *)
LEMMA RememberedFewer ==
  ASSUME NEW opened \in Seq(FileName), NEW s \in Seq(Frame), NEW t \in Seq(Frame),
         Remembered(opened, s), Len(t) < Len(s),
         \A i \in 1..Len(t) : t[i].name = s[i].name
  PROVE  /\ opened # << >>
         /\ Remembered(Front(opened), t)
<1>1. PICK place : Remembers(opened, s, place)
  BY DEF Remembered
<1> DEFINE n == Len(s)
           shorter == [i \in 1..Len(t) |-> place[i]]
<1>2. n \in 1..n /\ n \in Nat
  OBVIOUS
<1>3. \A i \in 1..Len(t) : i \in 1..n /\ i < n
  OBVIOUS
<1>4. place[n] \in 1..Len(opened)
  BY <1>1, <1>2 DEF Remembers
<1>5. opened # << >>
  BY <1>4
<1>6. Front(opened) \in Seq(FileName) /\ Len(Front(opened)) = Len(opened) - 1
      /\ \A i \in 1..(Len(opened) - 1) : Front(opened)[i] = opened[i]
  BY <1>5, LastAndFront
<1>7. \A i \in 1..Len(t) : place[i] \in 1..(Len(opened) - 1)
  <2> TAKE i \in 1..Len(t)
  <2>1. place[i] \in 1..Len(opened) /\ place[i] < place[n]
    BY <1>1, <1>2, <1>3 DEF Remembers
  <2>2. QED
    BY <1>4, <2>1
<1>8. Remembers(Front(opened), t, shorter)
  <2>1. shorter \in [1..Len(t) -> 1..Len(Front(opened))]
    BY <1>6, <1>7
  <2>2. \A i \in 1..Len(t) : Front(opened)[shorter[i]] = t[i].name
    BY <1>1, <1>3, <1>6, <1>7 DEF Remembers
  <2>3. \A i, j \in 1..Len(t) : i < j => shorter[i] < shorter[j]
    BY <1>1, <1>3 DEF Remembers
  <2> HIDE DEF shorter
  <2>4. QED
    BY <2>1, <2>2, <2>3, Zenon DEF Remembers
<1>9. QED
  BY <1>5, <1>8 DEF Remembered

(* opened_files.push() when a call begins.                                 *)
LEMMA RememberedOneMore ==
  ASSUME NEW opened \in Seq(FileName), NEW s \in Seq(Frame), NEW t \in Seq(Frame),
         Remembered(opened, s), Len(t) = Len(s) + 1,
         \A i \in 1..Len(s) : t[i].name = s[i].name,
         NEW name \in FileName, t[Len(s) + 1].name = name
  PROVE  Remembered(Append(opened, name), t)
<1>1. PICK place : Remembers(opened, s, place)
  BY DEF Remembered
<1> DEFINE more == Append(opened, name)
           n == Len(s)
           m == Len(opened)
           longer == [i \in 1..(n + 1) |-> IF i = n + 1 THEN m + 1 ELSE place[i]]
<1>2. n \in Nat /\ m \in Nat /\ Len(more) = m + 1 /\ more[m + 1] = name
      /\ \A i \in 1..m : more[i] = opened[i]
  OBVIOUS
<1>3. \A i \in 1..(n + 1) : i # n + 1 => i \in 1..n
  BY <1>2
<1>4. \A i \in 1..n : place[i] \in 1..m
  BY <1>1 DEF Remembers
<1>5. longer \in [1..(n + 1) -> 1..(m + 1)]
  BY <1>2, <1>3, <1>4
<1>6. \A i \in 1..(n + 1) : more[longer[i]] = t[i].name
  <2> TAKE i \in 1..(n + 1)
  <2>1. CASE i = n + 1
    BY <1>2, <2>1
  <2>2. CASE i # n + 1
    <3>1. longer[i] = place[i] /\ i \in 1..n
      BY <1>3, <2>2
    <3>2. opened[place[i]] = s[i].name
      BY <1>1, <3>1 DEF Remembers
    <3>3. QED
      BY <1>2, <1>4, <3>1, <3>2
  <2>3. QED
    BY <2>1, <2>2
<1>7. \A i, j \in 1..(n + 1) : i < j => longer[i] < longer[j]
  <2> SUFFICES ASSUME NEW i \in 1..(n + 1), NEW j \in 1..(n + 1), i < j
               PROVE  longer[i] < longer[j]
    OBVIOUS
  <2>1. i \in 1..n /\ longer[i] = place[i]
    BY <1>2
  <2>2. CASE j = n + 1
    BY <1>2, <1>4, <2>1, <2>2
  <2>3. CASE j # n + 1
    BY <1>1, <1>3, <2>1, <2>3 DEF Remembers
  <2>4. QED
    BY <2>2, <2>3
<1> HIDE DEF longer, more
<1>8. Remembers(more, t, longer)
  BY <1>2, <1>5, <1>6, <1>7 DEF Remembers
<1>9. QED
  BY <1>8 DEF Remembered, more

LEMMA RememberedAreOpened ==
  ASSUME NEW opened \in Seq(FileName), NEW s \in Seq(Frame), Remembered(opened, s),
         NEW i \in 1..Len(s)
  PROVE  s[i].name \in ToSet(opened)
<1>1. PICK place : Remembers(opened, s, place)
  BY DEF Remembered
<1>2. place[i] \in 1..Len(opened) /\ opened[place[i]] = s[i].name
  BY <1>1 DEF Remembers
<1>3. QED
  BY <1>2 DEF ToSet

(* A call that returns.                                                    *)
LEMMA Returned ==
  ASSUME NEW frames \in Seq(Frame), frames # << >>, NEW result \in Seq(InputData),
         ReturnSome(frames, result)
  PROVE  \/ Len(frames) = 1 /\ stack' = << >> /\ lines' = result /\ phase' = "comments"
         \/ /\ Len(frames) > 1
            /\ stack' \in Seq(Frame)
            /\ Len(stack') = Len(frames) - 1
            /\ \A i \in 1..(Len(frames) - 2) : stack'[i] = frames[i]
            /\ stack'[Len(frames) - 1] =
                 [frames[Len(frames) - 1] EXCEPT !.lines = frames[Len(frames) - 1].lines \o result]
            /\ lines' = lines /\ phase' = phase
<1>1. CASE Len(frames) = 1
  BY <1>1 DEF ReturnSome
<1>2. CASE Len(frames) # 1
  <2> DEFINE callers == Front(frames)
             n == Len(frames)
  <2>9. n > 0 /\ n \in Nat /\ callers \in Seq(Frame) /\ Len(callers) = n - 1
        /\ \A i \in 1..(n - 1) : callers[i] = frames[i]
    BY LastAndFront, Zenon
  <2> HIDE DEF callers
  <2>1. n \in Nat /\ n > 1 /\ callers \in Seq(Frame) /\ Len(callers) = n - 1
        /\ \A i \in 1..(n - 1) : callers[i] = frames[i]
    BY <1>2, <2>9
  <2>2. callers # << >>
    BY <2>1
  <2>3. Last(callers) = frames[n - 1] /\ Last(callers) \in Frame
        /\ Front(callers) \in Seq(Frame) /\ Len(Front(callers)) = n - 2
        /\ \A i \in 1..(n - 2) : Front(callers)[i] = frames[i]
    <3>1. Last(callers) = callers[Len(callers)] /\ Last(callers) \in Frame
          /\ Front(callers) \in Seq(Frame) /\ Len(Front(callers)) = Len(callers) - 1
          /\ \A i \in 1..(Len(callers) - 1) : Front(callers)[i] = callers[i]
      BY <2>1, <2>2, LastAndFront, Zenon
    <3> DEFINE rest == Front(callers)
    <3>2. rest \in Seq(Frame) /\ Len(rest) = Len(callers) - 1
          /\ \A i \in 1..(Len(callers) - 1) : rest[i] = callers[i]
      BY <3>1
    <3> HIDE DEF rest
    <3>3. Len(rest) = n - 2 /\ \A i \in 1..(n - 2) : rest[i] = frames[i]
      BY <2>1, <3>2
    <3>4. callers[Len(callers)] = frames[n - 1]
      BY <2>1
    <3>5. QED
      BY <3>1, <3>3, <3>4 DEF rest
  <2> DEFINE frame == [Last(callers) EXCEPT !.lines = Last(callers).lines \o result]
  <2>4. stack' = Append(Front(callers), frame) /\ lines' = lines /\ phase' = phase
    BY <1>2, Zenon DEF ReturnSome, callers
  <2>5. frame = [frames[n - 1] EXCEPT !.lines = frames[n - 1].lines \o result]
    BY <2>3
  <2>6. frame \in Frame
    <3> DEFINE longer == Last(callers).lines \o result
    <3>1. longer \in Seq(InputData)
      BY <2>3 DEF Frame
    <3> HIDE DEF longer
    <3>2. [Last(callers) EXCEPT !.lines = longer] \in Frame
      BY <2>3, <3>1 DEF Frame
    <3>3. QED
      BY <3>2 DEF longer
  <2> HIDE DEF frame
  <2>7. stack' \in Seq(Frame) /\ Len(stack') = n - 1 /\ stack'[n - 1] = frame
        /\ \A i \in 1..(n - 2) : stack'[i] = frames[i]
    BY <2>1, <2>3, <2>4, <2>6
  <2>8. QED
    BY <2>1, <2>4, <2>5, <2>7
<1>3. QED
  BY <1>1, <1>2

-----------------------------------------------------------------------------
(* What the calls in progress have read.                                   *)
SourceFiles(fs) == DOMAIN fs \subseteq FileName /\ \A f \in DOMAIN fs : fs[f] \in Seq(Line)

SourceCalls(fs, s) == SourceFiles(fs) /\ s \in Seq(Frame) /\ CallsDiffer(fs, s)

MainOf(fs) ==
  IF MainFile \in DOMAIN fs THEN Inclusion(fs)[{}][MainFile] ELSE [ok |-> FALSE, lines |-> << >>]

(* The files read by the callers of call i; how many of its own lines are  *)
(* done with; what one of them stands for.                                 *)
Above(s, i) == {s[j].name : j \in 1..(i - 1)}
LinesDone(s, i) == IF i < Len(s) THEN s[i].line_number - 1 ELSE s[i].line_number
PieceAt(fs, s, i, k) == Piece(Inclusion(fs)[Above(s, i + 1)], fs, s[i].name, k)

(* A call has collected what its lines so far stand for, and waits for the *)
(* file that its last line includes; the source can only be all right when *)
(* this file is.                                                           *)
CallInPlace(fs, s, i) ==
  /\ s[i].lines = FlattenSeq([k \in 1..LinesDone(s, i) |-> PieceAt(fs, s, i, k).lines])
  /\ \A k \in 1..LinesDone(s, i) : PieceAt(fs, s, i, k).ok
  /\ i < Len(s) => /\ s[i].line_number > 0
                   /\ fs[s[i].name][s[i].line_number].fails = "no"
                   /\ fs[s[i].name][s[i].line_number].include
                   /\ fs[s[i].name][s[i].line_number].name = s[i + 1].name
  /\ MainOf(fs).ok => Inclusion(fs)[Above(s, i)][s[i].name].ok

LEMMA FilesFinite ==
  ASSUME NEW fs, SourceFiles(fs)
  PROVE  IsFiniteSet(DOMAIN fs)
BY SourceReaderAssumption, FS_Subset DEF SourceFiles

LEMMA CallFiles ==
  ASSUME NEW fs, NEW s, SourceCalls(fs, s), NEW i \in 1..Len(s)
  PROVE  /\ i \in Nat /\ Len(s) \in Nat
         /\ s[i].name \in FileName /\ s[i].name \in DOMAIN fs
         /\ fs[s[i].name] \in Seq(Line) /\ Len(fs[s[i].name]) \in Nat
         /\ s[i].line_number \in 0..Len(fs[s[i].name])
         /\ s[i].lines \in Seq(InputData)
         /\ Above(s, i) \in SUBSET DOMAIN fs
         /\ s[i].name \in DOMAIN fs \ Above(s, i)
         /\ Above(s, i + 1) = Above(s, i) \cup {s[i].name}
         /\ Above(s, i + 1) \in SUBSET DOMAIN fs
<1>1. s \in Seq(Frame) /\ s[i] \in Frame /\ i \in Nat /\ Len(s) \in Nat
  BY DEF SourceCalls
<1>2. s[i].name \in DOMAIN fs /\ s[i].line_number <= Len(fs[s[i].name])
  BY DEF SourceCalls, CallsDiffer
<1>3. s[i].name \in FileName /\ s[i].line_number \in Nat /\ s[i].lines \in Seq(InputData)
  BY <1>1 DEF Frame
<1>4. fs[s[i].name] \in Seq(Line)
  BY <1>2 DEF SourceCalls, SourceFiles
<1>5. Len(fs[s[i].name]) \in Nat
  BY <1>4
<1>6. \A j \in 1..(i - 1) : j \in 1..Len(s) /\ j # i
  BY <1>1
<1>7. \A j \in 1..(i - 1) : s[j].name \in DOMAIN fs /\ s[j].name # s[i].name
  BY <1>6 DEF SourceCalls, CallsDiffer
<1>8. Above(s, i) \subseteq DOMAIN fs /\ s[i].name \notin Above(s, i)
  BY <1>7 DEF Above
<1>9. Above(s, i + 1) = Above(s, i) \cup {s[i].name}
  <2>1. \A j : j \in 1..(i + 1 - 1) <=> (j \in 1..(i - 1) \/ j = i)
    BY <1>1
  <2>2. QED
    BY <2>1 DEF Above
<1>10. QED
  BY <1>1, <1>2, <1>3, <1>4, <1>5, <1>8, <1>9

LEMMA InnerFiles ==
  ASSUME NEW fs, NEW s, SourceCalls(fs, s), NEW i \in 1..Len(s)
  PROVE  LET inner == Inclusion(fs)[Above(s, i + 1)]
         IN  /\ DOMAIN inner = DOMAIN fs \ Above(s, i + 1)
             /\ \A f \in DOMAIN inner : inner[f] \in Content
             /\ Inclusion(fs)[Above(s, i)][s[i].name] = Whole(inner, fs, s[i].name)
<1>1. SourceFiles(fs) /\ IsFiniteSet(DOMAIN fs)
  BY FilesFinite DEF SourceCalls
<1>2. /\ Above(s, i) \in SUBSET DOMAIN fs /\ s[i].name \in DOMAIN fs \ Above(s, i)
      /\ Above(s, i + 1) = Above(s, i) \cup {s[i].name} /\ Above(s, i + 1) \in SUBSET DOMAIN fs
  BY CallFiles
<1> DEFINE above == Above(s, i)
           open == Above(s, i + 1)
           name == s[i].name
<1>3. /\ above \in SUBSET DOMAIN fs /\ name \in DOMAIN fs \ above
      /\ open = above \cup {name} /\ open \in SUBSET DOMAIN fs
  BY <1>2
<1> HIDE DEF above, open, name
<1>4. DOMAIN Inclusion(fs)[open] = DOMAIN fs \ open
  BY <1>1, <1>3, InclusionUnfolds
<1>5. \A f \in DOMAIN fs \ open : Inclusion(fs)[open][f] \in Content
  BY <1>1, <1>3, InclusionType DEF SourceFiles
<1>6. Inclusion(fs)[above][name] = Whole(Inclusion(fs)[open], fs, name)
  <2>1. Inclusion(fs)[above][name] = Whole(Inclusion(fs)[above \cup {name}], fs, name)
    BY <1>1, <1>3, InclusionUnfolds
  <2>2. QED
    BY <1>3, <2>1
<1>7. QED
  BY <1>4, <1>5, <1>6 DEF above, open, name

(* What the file of a call stands for, piece by piece.                     *)
LEMMA CallStandsFor ==
  ASSUME NEW fs, NEW s, SourceCalls(fs, s), NEW i \in 1..Len(s)
  PROVE  LET size == Len(fs[s[i].name])
             whole == Inclusion(fs)[Above(s, i)][s[i].name]
         IN  /\ whole \in Content
             /\ whole.ok <=> \A k \in 1..size : PieceAt(fs, s, i, k).ok
             /\ whole.lines = FlattenSeq([k \in 1..size |-> PieceAt(fs, s, i, k).lines])
             /\ \A k \in 1..size : PieceAt(fs, s, i, k) \in Content
<1> DEFINE inner == Inclusion(fs)[Above(s, i + 1)]
           name == s[i].name
           whole == Inclusion(fs)[Above(s, i)][s[i].name]
<1>1. /\ \A f \in DOMAIN inner : inner[f] \in Content
      /\ whole = Whole(inner, fs, name)
  BY InnerFiles
<1>2. name \in FileName /\ fs[name] \in Seq(Line)
  BY CallFiles
<1>3. \A k : PieceAt(fs, s, i, k) = Piece(inner, fs, name, k)
  BY DEF PieceAt
<1> HIDE DEF inner, name, whole
<1>4. \A k \in 1..Len(fs[name]) : Piece(inner, fs, name, k) \in Content
  BY <1>1, <1>2, PieceType
<1>5. /\ whole \in Content
      /\ whole.ok <=> \A k \in 1..Len(fs[name]) : Piece(inner, fs, name, k).ok
      /\ whole.lines = FlattenSeq([k \in 1..Len(fs[name]) |-> Piece(inner, fs, name, k).lines])
  BY <1>1, <1>2, WholeIs, Zenon
<1>6. [k \in 1..Len(fs[name]) |-> Piece(inner, fs, name, k).lines] =
        [k \in 1..Len(fs[name]) |-> PieceAt(fs, s, i, k).lines]
  BY <1>3, Zenon
<1>7. (\A k \in 1..Len(fs[name]) : Piece(inner, fs, name, k).ok) <=>
        (\A k \in 1..Len(fs[name]) : PieceAt(fs, s, i, k).ok)
  BY <1>3, Zenon
<1>8. \A k \in 1..Len(fs[name]) : PieceAt(fs, s, i, k) \in Content
  BY <1>3, <1>4, Zenon
<1>9. QED
  BY <1>5, <1>6, <1>7, <1>8, Zenon DEF name, whole

(* A line of text, an include, and one that is not possible or unreadable. *)
LEMMA TextPiece ==
  ASSUME NEW fs, NEW s, SourceCalls(fs, s), NEW i \in 1..Len(s),
         NEW k \in 1..Len(fs[s[i].name]), fs[s[i].name][k].fails = "no",
         ~fs[s[i].name][k].include
  PROVE  PieceAt(fs, s, i, k) = [ok |-> TRUE, lines |->
           << [text |-> fs[s[i].name][k].text, file_name |-> s[i].name, line_counter |-> k] >>]
BY Zenon DEF PieceAt, Piece

LEMMA IncludePiece ==
  ASSUME NEW fs, NEW s, SourceCalls(fs, s), NEW i \in 1..Len(s),
         NEW k \in 1..Len(fs[s[i].name]), fs[s[i].name][k].fails = "no",
         fs[s[i].name][k].include,
         fs[s[i].name][k].name \in DOMAIN fs \ Above(s, i + 1)
  PROVE  PieceAt(fs, s, i, k) = Inclusion(fs)[Above(s, i + 1)][fs[s[i].name][k].name]
<1>1. DOMAIN Inclusion(fs)[Above(s, i + 1)] = DOMAIN fs \ Above(s, i + 1)
  BY InnerFiles
<1>2. QED
  BY <1>1, Zenon DEF PieceAt, Piece

LEMMA LostPiece ==
  ASSUME NEW fs, NEW s, SourceCalls(fs, s), NEW i \in 1..Len(s),
         NEW k \in 1..Len(fs[s[i].name]),
         fs[s[i].name][k].fails # "no" \/
           (/\ fs[s[i].name][k].include
            /\ fs[s[i].name][k].name \notin DOMAIN fs \ Above(s, i + 1))
  PROVE  PieceAt(fs, s, i, k) = [ok |-> FALSE, lines |-> << >>]
<1>1. DOMAIN Inclusion(fs)[Above(s, i + 1)] = DOMAIN fs \ Above(s, i + 1)
  BY InnerFiles
<1>2. QED
  BY <1>1, Zenon DEF PieceAt, Piece

(* As long as every line is all right its number is its place.             *)
LEMMA AllCounted ==
  ASSUME NEW s, NEW n, NEW m \in Nat, \A k \in 1..m : PieceAt(files, s, n, k).ok,
         files[s[n].name][m + 1].fails = "no"
  PROVE  Counted(s[n].name, m + 1) = m + 1
<1>1. ASSUME NEW k, PieceAt(files, s, n, k).ok, files[s[n].name][k].fails # "no"
      PROVE  FALSE
  <2>1. PieceAt(files, s, n, k) = [ok |-> FALSE, lines |-> << >>]
    BY <1>1, Zenon DEF PieceAt, Piece
  <2>2. QED
    BY <1>1, <2>1
<1>2. \A k \in 1..(m + 1) : k \in 1..m \/ k = m + 1
  OBVIOUS
<1>3. \A k \in 1..(m + 1) : files[s[n].name][k].fails = "no"
  BY <1>1, <1>2
<1>4. { i \in 1..(m + 1) : files[s[n].name][i].fails = "no" } = 1..(m + 1)
  BY <1>3
<1>5. Cardinality(1..(m + 1)) = m + 1
  BY FS_Interval
<1>6. QED
  BY <1>4, <1>5, Zenon DEF Counted

LEMMA CountedType ==
  ASSUME NEW name, NEW n \in Nat
  PROVE  Counted(name, n) \in Nat
<1>1. IsFiniteSet(1..n)
  BY FS_Interval
<1>2. IsFiniteSet({ i \in 1..n : files[name][i].fails = "no" })
  BY <1>1, FS_Subset
<1>3. QED
  BY <1>2, FS_CardinalityType DEF Counted

(* Two stacks with the same names down to a call.                          *)
LEMMA AboveSame ==
  ASSUME NEW s, NEW t, NEW i \in Nat, \A j \in 1..(i - 1) : t[j].name = s[j].name
  PROVE  Above(t, i) = Above(s, i)
BY DEF Above

LEMMA PieceSame ==
  ASSUME NEW fs, NEW s, NEW t, NEW i \in Nat, i > 0, \A j \in 1..i : t[j].name = s[j].name
  PROVE  /\ \A k : PieceAt(fs, t, i, k) = PieceAt(fs, s, i, k)
         /\ Above(t, i) = Above(s, i) /\ Above(t, i + 1) = Above(s, i + 1)
<1>1. i + 1 \in Nat /\ i + 1 - 1 = i /\ i \in 1..i /\ \A j \in 1..(i - 1) : j \in 1..i
  OBVIOUS
<1>2. Above(t, i + 1) = Above(s, i + 1) /\ Above(t, i) = Above(s, i) /\ t[i].name = s[i].name
  BY <1>1, AboveSame
<1>3. QED
  BY <1>2, Zenon DEF PieceAt

LEMMA SameCall ==
  ASSUME NEW fs, NEW s \in Seq(Frame), NEW t \in Seq(Frame), NEW i \in Nat, i > 0,
         i < Len(s), i < Len(t), t[i] = s[i],
         \A j \in 1..(i + 1) : t[j].name = s[j].name,
         CallInPlace(fs, s, i)
  PROVE  CallInPlace(fs, t, i)
<1>1. i + 1 \in 1..(i + 1) /\ \A j \in 1..i : j \in 1..(i + 1)
  OBVIOUS
<1>2. /\ \A k : PieceAt(fs, t, i, k) = PieceAt(fs, s, i, k)
      /\ Above(t, i) = Above(s, i) /\ t[i + 1].name = s[i + 1].name
  BY <1>1, PieceSame
<1>3. LinesDone(t, i) = LinesDone(s, i)
  BY DEF LinesDone
<1>4. [k \in 1..LinesDone(t, i) |-> PieceAt(fs, t, i, k).lines] =
        [k \in 1..LinesDone(s, i) |-> PieceAt(fs, s, i, k).lines]
  BY <1>2, <1>3
<1>5. QED
  BY <1>2, <1>3, <1>4, Zenon DEF CallInPlace

-----------------------------------------------------------------------------
(* The steps of the reader keep the calls in progress in place.            *)

LEMMA AppendJoins ==
  ASSUME NEW S, NEW s \in Seq(S), NEW e
  PROVE  Append(s, e) = s \o << e >>
OBVIOUS

LEMMA PiecesMore ==
  ASSUME NEW fs, NEW s, SourceCalls(fs, s), NEW i \in 1..Len(s),
         NEW m \in Nat, m < Len(fs[s[i].name])
  PROVE  FlattenSeq([k \in 1..(m + 1) |-> PieceAt(fs, s, i, k).lines]) =
           FlattenSeq([k \in 1..m |-> PieceAt(fs, s, i, k).lines]) \o PieceAt(fs, s, i, m + 1).lines
<1> DEFINE f == [k \in 1..(m + 1) |-> PieceAt(fs, s, i, k).lines]
<1>1. Len(fs[s[i].name]) \in Nat
  BY CallFiles
<1>2. \A k \in 1..(m + 1) : PieceAt(fs, s, i, k) \in Content
  <2>1. \A k \in 1..(m + 1) : k \in 1..Len(fs[s[i].name])
    BY <1>1
  <2>2. QED
    BY <2>1, CallStandsFor
<1>3. \A k \in 1..(m + 1) : f[k] = PieceAt(fs, s, i, k).lines /\ f[k] \in Seq(InputData)
  BY <1>2 DEF Content
<1>4. [k \in 1..m |-> PieceAt(fs, s, i, k).lines] = [k \in 1..m |-> f[k]]
  BY <1>3
<1>5. [k \in 1..(m + 1) |-> PieceAt(fs, s, i, k).lines] = [k \in 1..(m + 1) |-> f[k]]
  BY <1>3
<1>6. f[m + 1] = PieceAt(fs, s, i, m + 1).lines
  BY <1>3
<1> HIDE DEF f
<1>7. FlattenSeq([k \in 1..(m + 1) |-> f[k]]) = FlattenSeq([k \in 1..m |-> f[k]]) \o f[m + 1]
  BY <1>3, FlattenMore
<1>8. QED
  BY <1>4, <1>5, <1>6, <1>7, Zenon

(* The calls of t, down to the last but one, are those of s.               *)
CallersSame(s, t, n) == \A i \in 1..n : t[i] = s[i]

LEMMA CallersInPlace ==
  ASSUME NEW fs, NEW s \in Seq(Frame), NEW t \in Seq(Frame), NEW n \in Nat,
         n + 1 <= Len(s), n + 1 <= Len(t), CallersSame(s, t, n), t[n + 1].name = s[n + 1].name,
         \A i \in 1..Len(s) : CallInPlace(fs, s, i)
  PROVE  \A i \in 1..n : CallInPlace(fs, t, i)
<1> TAKE i \in 1..n
<1>1. i \in Nat /\ i > 0 /\ i < Len(s) /\ i < Len(t) /\ i \in 1..Len(s)
  OBVIOUS
<1>2. t[i] = s[i]
  BY DEF CallersSame
<1>3. \A j \in 1..(i + 1) : t[j].name = s[j].name
  <2> TAKE j \in 1..(i + 1)
  <2>1. j \in 1..n \/ j = n + 1
    OBVIOUS
  <2>2. QED
    BY <2>1 DEF CallersSame
<1>4. CallInPlace(fs, s, i)
  BY <1>1
<1>5. QED
  BY <1>1, <1>2, <1>3, <1>4, SameCall

(* A line of text is added to the last call.                               *)
LEMMA TextInPlace ==
  ASSUME NEW fs, NEW s, SourceCalls(fs, s), NEW t \in Seq(Frame),
         s # << >>, Len(t) = Len(s), CallersSame(s, t, Len(s) - 1),
         \A i \in 1..Len(s) : CallInPlace(fs, s, i),
         NEW m \in Nat, m = s[Len(s)].line_number, m < Len(fs[s[Len(s)].name]),
         fs[s[Len(s)].name][m + 1].fails = "no", ~fs[s[Len(s)].name][m + 1].include,
         t[Len(s)].name = s[Len(s)].name, t[Len(s)].line_number = m + 1,
         t[Len(s)].lines = Append(s[Len(s)].lines,
           [text |-> fs[s[Len(s)].name][m + 1].text, file_name |-> s[Len(s)].name,
            line_counter |-> m + 1])
  PROVE  \A i \in 1..Len(t) : CallInPlace(fs, t, i)
<1> DEFINE n == Len(s)
           data == [text |-> fs[s[n].name][m + 1].text, file_name |-> s[n].name,
                    line_counter |-> m + 1]
<1>1. s \in Seq(Frame) /\ n \in Nat /\ n > 0 /\ n \in 1..Len(s)
  BY DEF SourceCalls
<1>2. \A i \in 1..(n - 1) : CallInPlace(fs, t, i)
  <2> DEFINE p == n - 1
  <2>1. p \in Nat /\ p + 1 <= Len(s) /\ p + 1 <= Len(t) /\ t[p + 1].name = s[p + 1].name
        /\ CallersSame(s, t, p)
    BY <1>1
  <2> HIDE DEF p
  <2>2. \A i \in 1..p : CallInPlace(fs, t, i)
    BY <1>1, <2>1, CallersInPlace
  <2>3. QED
    BY <2>2 DEF p
<1>3. CallInPlace(fs, s, n)
  BY <1>1
<1>4. \A j \in 1..n : t[j].name = s[j].name
  <2> TAKE j \in 1..n
  <2>1. j \in 1..(n - 1) \/ j = n
    BY <1>1
  <2>2. QED
    BY <2>1 DEF CallersSame
<1>5. /\ \A k : PieceAt(fs, t, n, k) = PieceAt(fs, s, n, k)
      /\ Above(t, n) = Above(s, n) /\ Above(t, n + 1) = Above(s, n + 1)
  <2> HIDE DEF n
  <2>1. QED
    BY ONLY <1>1, <1>4, PieceSame
<1>6. PieceAt(fs, s, n, m + 1) = [ok |-> TRUE, lines |-> << data >>]
  <2> DEFINE k == m + 1
  <2>1. Len(fs[s[n].name]) \in Nat
    BY <1>1, CallFiles
  <2>2. k \in 1..Len(fs[s[n].name]) /\ fs[s[n].name][k].fails = "no" /\ ~fs[s[n].name][k].include
    BY <2>1
  <2>3. data = [text |-> fs[s[n].name][k].text, file_name |-> s[n].name, line_counter |-> k]
    OBVIOUS
  <2> HIDE DEF k, n
  <2>4. PieceAt(fs, s, n, k) = [ok |-> TRUE, lines |->
          << [text |-> fs[s[n].name][k].text, file_name |-> s[n].name, line_counter |-> k] >>]
    BY ONLY SourceCalls(fs, s), <1>1, <2>2, TextPiece
  <2>5. QED
    BY <2>3, <2>4, Zenon DEF k
<1>7. LinesDone(s, n) = m /\ LinesDone(t, n) = m + 1
  BY <1>1 DEF LinesDone
<1>8. /\ s[n].lines = FlattenSeq([k \in 1..m |-> PieceAt(fs, s, n, k).lines])
      /\ \A k \in 1..m : PieceAt(fs, s, n, k).ok
      /\ MainOf(fs).ok => Inclusion(fs)[Above(s, n)][s[n].name].ok
  BY <1>3, <1>7, Zenon DEF CallInPlace
<1>9. s[n].lines \in Seq(InputData)
  BY <1>1, CallFiles
<1>10. t[n].lines = FlattenSeq([k \in 1..(m + 1) |-> PieceAt(fs, s, n, k).lines])
  <2>1. t[n].lines = s[n].lines \o << data >>
    <3>1. t[n].lines = Append(s[n].lines, data)
      OBVIOUS
    <3> HIDE DEF data
    <3>2. QED
      BY <1>9, <3>1, AppendJoins
  <2>2. PieceAt(fs, s, n, m + 1).lines = << data >>
    <3> HIDE DEF data
    <3>1. QED
      BY ONLY <1>6
  <2>3. FlattenSeq([k \in 1..(m + 1) |-> PieceAt(fs, s, n, k).lines]) =
          FlattenSeq([k \in 1..m |-> PieceAt(fs, s, n, k).lines]) \o PieceAt(fs, s, n, m + 1).lines
    BY <1>1, PiecesMore
  <2> HIDE DEF data
  <2>4. QED
    BY <1>8, <2>1, <2>2, <2>3
<1>11. \A k \in 1..(m + 1) : PieceAt(fs, s, n, k).ok
  <2>1. PieceAt(fs, s, n, m + 1).ok
    BY <1>6
  <2>2. \A k \in 1..(m + 1) : k \in 1..m \/ k = m + 1
    OBVIOUS
  <2>3. QED
    BY <1>8, <2>1, <2>2
<1>12. CallInPlace(fs, t, n)
  <2>1. t[n].lines = FlattenSeq([k \in 1..LinesDone(t, n) |-> PieceAt(fs, t, n, k).lines])
    BY <1>5, <1>7, <1>10, Zenon
  <2>2. \A k \in 1..LinesDone(t, n) : PieceAt(fs, t, n, k).ok
    BY <1>5, <1>7, <1>11, Zenon
  <2>3. ~(n < Len(t))
    BY <1>1
  <2>4. MainOf(fs).ok => Inclusion(fs)[Above(t, n)][t[n].name].ok
    BY <1>5, <1>8, Zenon
  <2>5. QED
    BY <2>1, <2>2, <2>3, <2>4, Zenon DEF CallInPlace
<1>13. \A i \in 1..Len(t) : i \in 1..(n - 1) \/ i = n
  BY <1>1
<1> HIDE DEF n
<1>14. QED
  BY <1>2, <1>12, <1>13

LEMMA NamedPiece ==
  ASSUME NEW fs, NEW s, SourceCalls(fs, s), NEW i \in 1..Len(s),
         NEW k \in 1..Len(fs[s[i].name]), fs[s[i].name][k].fails = "no",
         fs[s[i].name][k].include,
         NEW name, fs[s[i].name][k].name = name, name \in DOMAIN fs \ Above(s, i + 1)
  PROVE  PieceAt(fs, s, i, k) = Inclusion(fs)[Above(s, i + 1)][name]
<1>1. PieceAt(fs, s, i, k) = Inclusion(fs)[Above(s, i + 1)][fs[s[i].name][k].name]
  BY IncludePiece
<1>2. QED
  BY <1>1

(* A call for the file of an include begins.                               *)
LEMMA IncludeInPlace ==
  ASSUME NEW fs, NEW s, SourceCalls(fs, s), NEW t \in Seq(Frame),
         NEW n \in 1..Len(s), n = Len(s), Len(t) = n + 1, CallersSame(s, t, n - 1),
         \A i \in 1..Len(s) : CallInPlace(fs, s, i),
         NEW m \in Nat, NEW next, next = m + 1, m = s[n].line_number,
         m < Len(fs[s[n].name]),
         fs[s[n].name][next].fails = "no", fs[s[n].name][next].include,
         NEW name, name = fs[s[n].name][next].name,
         name \in DOMAIN fs \ Above(s, n + 1),
         t[n].name = s[n].name, t[n].line_number = next,
         t[n].lines = s[n].lines,
         t[n + 1] = Opened(name)
  PROVE  \A i \in 1..Len(t) : CallInPlace(fs, t, i)
<1>1. s \in Seq(Frame) /\ n \in Nat /\ n > 0 /\ n \in 1..Len(s)
  BY DEF SourceCalls
<1>2. \A i \in 1..(n - 1) : CallInPlace(fs, t, i)
  <2> DEFINE p == n - 1
  <2>1. p \in Nat /\ p + 1 <= Len(s) /\ p + 1 <= Len(t) /\ t[p + 1].name = s[p + 1].name
        /\ CallersSame(s, t, p)
    BY <1>1
  <2> HIDE DEF p
  <2>2. \A i \in 1..p : CallInPlace(fs, t, i)
    BY <1>1, <2>1, CallersInPlace
  <2>3. QED
    BY <2>2 DEF p
<1>3. CallInPlace(fs, s, n)
  BY <1>1
<1>4. \A j \in 1..n : t[j].name = s[j].name
  <2> TAKE j \in 1..n
  <2>1. j \in 1..(n - 1) \/ j = n
    BY <1>1
  <2>2. QED
    BY <2>1 DEF CallersSame
<1>5. /\ \A k : PieceAt(fs, t, n, k) = PieceAt(fs, s, n, k)
      /\ Above(t, n) = Above(s, n) /\ Above(t, n + 1) = Above(s, n + 1)
  BY ONLY <1>1, <1>4, PieceSame
<1>6. LinesDone(s, n) = m /\ LinesDone(t, n) = m /\ LinesDone(t, n + 1) = 0
  <2>1. t[n + 1].line_number = 0
    BY DEF Opened
  <2>2. QED
    BY <1>1, <2>1 DEF LinesDone
<1>7. /\ s[n].lines = FlattenSeq([k \in 1..m |-> PieceAt(fs, s, n, k).lines])
      /\ \A k \in 1..m : PieceAt(fs, s, n, k).ok
      /\ MainOf(fs).ok => Inclusion(fs)[Above(s, n)][s[n].name].ok
  BY <1>3, <1>6, Zenon DEF CallInPlace
<1>8. t[n + 1].name = name /\ t[n + 1].lines = << >>
  BY DEF Opened
<1>9. CallInPlace(fs, t, n)
  <2>1. t[n].lines = FlattenSeq([k \in 1..LinesDone(t, n) |-> PieceAt(fs, t, n, k).lines])
    BY <1>5, <1>6, <1>7, Zenon
  <2>2. \A k \in 1..LinesDone(t, n) : PieceAt(fs, t, n, k).ok
    BY <1>5, <1>6, <1>7, Zenon
  <2>3. t[n].line_number > 0
    OBVIOUS
  <2>4. /\ fs[t[n].name][t[n].line_number].fails = "no"
        /\ fs[t[n].name][t[n].line_number].include
        /\ fs[t[n].name][t[n].line_number].name = t[n + 1].name
    BY <1>8, Zenon
  <2>5. MainOf(fs).ok => Inclusion(fs)[Above(t, n)][t[n].name].ok
    BY <1>5, <1>7, Zenon
  <2>6. QED
    BY <2>1, <2>2, <2>3, <2>4, <2>5, Zenon DEF CallInPlace
<1>10. CallInPlace(fs, t, n + 1)
  <2> DEFINE q == n + 1
             empty == [k \in 1..LinesDone(t, q) |-> PieceAt(fs, t, q, k).lines]
  <2>1. empty = << >>
    <3>1. 1..LinesDone(t, q) = {}
      BY <1>6
    <3>2. QED
      BY <3>1
  <2> HIDE DEF empty
  <2>2. t[q].lines = FlattenSeq(empty)
    BY <1>8, <2>1, FlattenEmpty
  <2>3. \A k \in 1..LinesDone(t, q) : PieceAt(fs, t, q, k).ok
    <3>1. 1..LinesDone(t, q) = {}
      BY <1>6
    <3>2. QED
      BY <3>1
  <2>4. ~(q < Len(t))
    BY <1>1
  <2>5. MainOf(fs).ok => Inclusion(fs)[Above(t, q)][t[q].name].ok
    <3>1. Inclusion(fs)[Above(s, n)][s[n].name].ok =>
            \A k \in 1..Len(fs[s[n].name]) : PieceAt(fs, s, n, k).ok
      BY <1>1, CallStandsFor
    <3>2. next \in 1..Len(fs[s[n].name])
      <4>1. Len(fs[s[n].name]) \in Nat
        BY <1>1, CallFiles
      <4>2. QED
        BY <4>1
    <3>3. PieceAt(fs, s, n, next) = Inclusion(fs)[Above(s, n + 1)][name]
      <4>1. SourceCalls(fs, s) /\ n \in 1..Len(s) /\ name \in DOMAIN fs \ Above(s, n + 1)
        OBVIOUS
      <4>2. /\ fs[s[n].name][next].fails = "no" /\ fs[s[n].name][next].include
            /\ fs[s[n].name][next].name = name
        OBVIOUS
      <4>3. QED
        BY ONLY <3>2, <4>1, <4>2, NamedPiece, SMTT(20)
    <3>4. MainOf(fs).ok => PieceAt(fs, s, n, next).ok
      BY ONLY <1>7, <3>1, <3>2, Zenon
    <3>5. Above(t, q) = Above(s, n + 1) /\ t[q].name = name
      BY <1>5, <1>8, Zenon
    <3>6. QED
      BY ONLY <3>3, <3>4, <3>5, Zenon
  <2> HIDE DEF q
  <2>6. CallInPlace(fs, t, q)
    BY <2>2, <2>3, <2>4, <2>5, Zenon DEF CallInPlace, empty
  <2>7. QED
    BY <2>6 DEF q
<1>11. \A i \in 1..Len(t) : i \in 1..(n - 1) \/ i = n \/ i = n + 1
  BY <1>1
<1>12. QED
  BY <1>2, <1>9, <1>10, <1>11

(* At the end of its file a call has all that it stands for.               *)
LEMMA LastCallWhole ==
  ASSUME NEW fs, NEW s, SourceCalls(fs, s), NEW i \in 1..Len(s), i = Len(s),
         CallInPlace(fs, s, i), s[i].line_number = Len(fs[s[i].name])
  PROVE  /\ Inclusion(fs)[Above(s, i)][s[i].name].ok
         /\ Inclusion(fs)[Above(s, i)][s[i].name].lines = s[i].lines
<1>1. LinesDone(s, i) = Len(fs[s[i].name])
  <2>1. i \in Nat /\ Len(s) \in Nat
    BY CallFiles
  <2>2. QED
    BY <2>1 DEF LinesDone
<1>2. /\ s[i].lines = FlattenSeq([k \in 1..Len(fs[s[i].name]) |-> PieceAt(fs, s, i, k).lines])
      /\ \A k \in 1..Len(fs[s[i].name]) : PieceAt(fs, s, i, k).ok
  BY <1>1, Zenon DEF CallInPlace
<1> DEFINE size == Len(fs[s[i].name])
           whole == Inclusion(fs)[Above(s, i)][s[i].name]
<1>3. /\ whole.ok <=> \A k \in 1..size : PieceAt(fs, s, i, k).ok
      /\ whole.lines = FlattenSeq([k \in 1..size |-> PieceAt(fs, s, i, k).lines])
  BY CallStandsFor, Zenon
<1>4. QED
  BY <1>2, <1>3, Zenon

(* An include that is not possible is one of the source.                   *)
LEMMA LostLine ==
  ASSUME NEW fs, NEW s, SourceCalls(fs, s), NEW i \in 1..Len(s), CallInPlace(fs, s, i),
         NEW k \in 1..Len(fs[s[i].name]),
         fs[s[i].name][k].fails # "no" \/
           (/\ fs[s[i].name][k].include
            /\ fs[s[i].name][k].name \notin DOMAIN fs \ Above(s, i + 1))
  PROVE  ~MainOf(fs).ok
<1>1. PieceAt(fs, s, i, k) = [ok |-> FALSE, lines |-> << >>]
  BY LostPiece
<1>2. ~PieceAt(fs, s, i, k).ok
  BY <1>1
<1> DEFINE size == Len(fs[s[i].name])
           whole == Inclusion(fs)[Above(s, i)][s[i].name]
<1>3. whole.ok <=> \A j \in 1..size : PieceAt(fs, s, i, j).ok
  BY CallStandsFor, Zenon
<1>4. ~whole.ok
  BY <1>2, <1>3, Zenon
<1>5. QED
  BY <1>4, Zenon DEF CallInPlace

(* The lines of an included file are added to those of its caller.         *)
LEMMA ReturnInPlace ==
  ASSUME NEW fs, NEW s, SourceCalls(fs, s), NEW t \in Seq(Frame),
         NEW p \in Nat, p > 0, Len(s) = p + 1, Len(t) = p, CallersSame(s, t, p - 1),
         \A i \in 1..Len(s) : CallInPlace(fs, s, i),
         s[p + 1].line_number = Len(fs[s[p + 1].name]),
         t[p].name = s[p].name, t[p].line_number = s[p].line_number,
         t[p].lines = s[p].lines \o s[p + 1].lines
  PROVE  \A i \in 1..Len(t) : CallInPlace(fs, t, i)
<1>1. s \in Seq(Frame) /\ p \in 1..Len(s) /\ p + 1 \in 1..Len(s)
  BY DEF SourceCalls
<1>2. \A i \in 1..(p - 1) : CallInPlace(fs, t, i)
  <2> DEFINE r == p - 1
  <2>1. r \in Nat /\ r + 1 <= Len(s) /\ r + 1 <= Len(t) /\ t[r + 1].name = s[r + 1].name
        /\ CallersSame(s, t, r)
    BY <1>1
  <2> HIDE DEF r
  <2>2. \A i \in 1..r : CallInPlace(fs, t, i)
    BY <1>1, <2>1, CallersInPlace
  <2>3. QED
    BY <2>2 DEF r
<1>3. CallInPlace(fs, s, p) /\ CallInPlace(fs, s, p + 1)
  BY <1>1
<1>4. \A j \in 1..p : t[j].name = s[j].name
  <2> TAKE j \in 1..p
  <2>1. j \in 1..(p - 1) \/ j = p
    OBVIOUS
  <2>2. QED
    BY <2>1 DEF CallersSame
<1>5. /\ \A k : PieceAt(fs, t, p, k) = PieceAt(fs, s, p, k)
      /\ Above(t, p) = Above(s, p)
  <2>1. p \in Nat /\ p > 0
    OBVIOUS
  <2>2. QED
    BY ONLY <1>4, <2>1, PieceSame
<1> DEFINE whole == Inclusion(fs)[Above(s, p + 1)][s[p + 1].name]
<1>6. whole.ok /\ whole.lines = s[p + 1].lines
  <2> DEFINE n == p + 1
  <2>1. SourceCalls(fs, s) /\ n \in 1..Len(s) /\ n = Len(s) /\ CallInPlace(fs, s, n)
        /\ s[n].line_number = Len(fs[s[n].name])
    BY <1>1, <1>3
  <2> HIDE DEF n
  <2>2. /\ Inclusion(fs)[Above(s, n)][s[n].name].ok
        /\ Inclusion(fs)[Above(s, n)][s[n].name].lines = s[n].lines
    BY <2>1, LastCallWhole
  <2>3. QED
    BY <2>2 DEF n
<1>7. PICK m : m \in Nat /\ s[p].line_number = m + 1 /\ m < Len(fs[s[p].name])
               /\ Len(fs[s[p].name]) \in Nat
  <2>1. s[p].line_number \in 0..Len(fs[s[p].name]) /\ Len(fs[s[p].name]) \in Nat
    BY <1>1, CallFiles
  <2>2. s[p].line_number > 0
    BY <1>1, <1>3 DEF CallInPlace
  <2> DEFINE m == s[p].line_number - 1
  <2>3. m \in Nat /\ s[p].line_number = m + 1 /\ m < Len(fs[s[p].name])
    BY <2>1, <2>2
  <2>4. QED
    BY <2>1, <2>3
<1>8. LinesDone(s, p) = m /\ LinesDone(t, p) = m + 1
  BY <1>1, <1>7 DEF LinesDone
<1>9. PieceAt(fs, s, p, m + 1) = whole
  <2>1. PICK k : k = m + 1
    OBVIOUS
  <2>2. PICK name : name = s[p + 1].name
    OBVIOUS
  <2>3. k \in 1..Len(fs[s[p].name]) /\ s[p].line_number = k
    BY <1>7, <2>1
  <2>4. fs[s[p].name][k].fails = "no" /\ fs[s[p].name][k].include /\ fs[s[p].name][k].name = name
    BY <1>1, <1>3, <2>2, <2>3 DEF CallInPlace
  <2>5. SourceCalls(fs, s) /\ p \in 1..Len(s) /\ name \in DOMAIN fs \ Above(s, p + 1)
    BY <1>1, <2>2, CallFiles
  <2>6. PieceAt(fs, s, p, k) = Inclusion(fs)[Above(s, p + 1)][name]
    BY ONLY <2>3, <2>4, <2>5, NamedPiece, SMTT(20)
  <2>7. QED
    BY <2>1, <2>2, <2>6
<1>10. /\ s[p].lines = FlattenSeq([k \in 1..m |-> PieceAt(fs, s, p, k).lines])
       /\ \A k \in 1..m : PieceAt(fs, s, p, k).ok
       /\ MainOf(fs).ok => Inclusion(fs)[Above(s, p)][s[p].name].ok
  BY <1>3, <1>8, Zenon DEF CallInPlace
<1> HIDE DEF whole
<1>11. t[p].lines = FlattenSeq([k \in 1..(m + 1) |-> PieceAt(fs, s, p, k).lines])
  <2>1. FlattenSeq([k \in 1..(m + 1) |-> PieceAt(fs, s, p, k).lines]) =
          FlattenSeq([k \in 1..m |-> PieceAt(fs, s, p, k).lines]) \o PieceAt(fs, s, p, m + 1).lines
    BY <1>1, <1>7, PiecesMore
  <2>2. PieceAt(fs, s, p, m + 1).lines = s[p + 1].lines
    BY <1>6, <1>9
  <2>3. QED
    BY <1>10, <2>1, <2>2
<1>12. \A k \in 1..(m + 1) : PieceAt(fs, s, p, k).ok
  <2>1. PieceAt(fs, s, p, m + 1).ok
    BY <1>6, <1>9, Zenon
  <2>2. \A k \in 1..(m + 1) : k \in 1..m \/ k = m + 1
    BY <1>7
  <2>3. QED
    BY <1>10, <2>1, <2>2
<1>13. CallInPlace(fs, t, p)
  <2>1. t[p].lines = FlattenSeq([k \in 1..LinesDone(t, p) |-> PieceAt(fs, t, p, k).lines])
    BY <1>5, <1>8, <1>11, Zenon
  <2>2. \A k \in 1..LinesDone(t, p) : PieceAt(fs, t, p, k).ok
    BY <1>5, <1>8, <1>12, Zenon
  <2>3. ~(p < Len(t))
    OBVIOUS
  <2>4. MainOf(fs).ok => Inclusion(fs)[Above(t, p)][t[p].name].ok
    BY <1>5, <1>10, Zenon
  <2>5. QED
    BY <2>1, <2>2, <2>3, <2>4, Zenon DEF CallInPlace
<1>14. \A i \in 1..Len(t) : i \in 1..(p - 1) \/ i = p
  OBVIOUS
<1>15. QED
  BY <1>2, <1>13, <1>14

-----------------------------------------------------------------------------
(* The inductive invariant.                                                *)

KnownErrors == ReadErrors \cup TableErrors \cup MacroErrors \cup {"comment"}

(* Where the pass over the source stands: nothing is left of the reader    *)
(* once it returned, and the texts of the lines are collected in step.     *)
Progress ==
  /\ phase \in {"table", "embedded", "reading"} =>
       lines = << >> /\ next_line = 1 /\ new_lines = << >> /\ in_comment = FALSE
  /\ phase # "reading" => stack = << >>
  /\ phase \in {"table", "embedded"} => opened_files = << >> /\ errors \cap ReadErrors = {}
  /\ phase = "reading" /\ stack = << >> => opened_files = << >> /\ errors \cap ReadErrors = {}
  /\ phase = "comments" => Len(new_lines) = next_line - 1
  /\ phase \in {"macros", "done"} => Len(new_lines) = Len(lines)

(* opened_files has the names of the calls in progress, in their order.    *)
CallsRemembered == CallsDiffer(files, stack) /\ Remembered(opened_files, stack)

(* While there is no Error the open files are exactly those of the calls,  *)
(* each call is in place, and what main() goes on with is the whole source.*)
ReadSoFar ==
  /\ stack # << >> => stack[1].name = MainFile
  /\ phase = "reading" => opened_files = [i \in 1..Len(stack) |-> stack[i].name]
  /\ \A i \in 1..Len(stack) : CallInPlace(files, stack, i)
  /\ phase \in {"comments", "macros", "done"} => MainOf(files).ok /\ lines = MainOf(files).lines
  /\ phase = "failed" => "no table" \in errors

(* An Error of the reader is never left for a source that is all right.    *)
InPlace ==
  /\ errors \cap ReadErrors = {} => ReadSoFar
  /\ errors \cap ReadErrors # {} => ~MainOf(files).ok

IInv == TypeOK /\ Progress /\ CallsRemembered /\ InPlace

(* What a step of read_file_to_vector leaves.                              *)
ReadingStep ==
  /\ files' = files /\ next_line' = next_line /\ in_comment' = in_comment
  /\ new_lines' = new_lines
  /\ stack' \in Seq(Frame) /\ opened_files' \in Seq(FileName) /\ lines' \in Seq(InputData)
  /\ CallsDiffer(files, stack') /\ Remembered(opened_files', stack')
  /\ \/ phase' = "reading" /\ lines' = lines /\ stack' # << >>
     \/ phase' \in {"comments", "failed"} /\ stack' = << >>
  /\ errors \subseteq errors' /\ errors' \subseteq errors \cup ReadErrors

LEMMA Emptied ==
  ASSUME NEW fs, NEW opened
  PROVE  CallsDiffer(fs, << >>) /\ Remembered(opened, << >>)
<1>1. CallsDiffer(fs, << >>)
  BY DEF CallsDiffer
<1>2. Remembers(opened, << >>, [i \in 1..0 |-> 0])
  BY DEF Remembers
<1>3. QED
  BY <1>1, <1>2 DEF Remembered

(* Any step of read_file_to_vector keeps the types and the calls.          *)
LEMMA AfterReading ==
  ASSUME TypeOK, Progress, phase = "reading", ReadingStep, UNCHANGED macroVars
  PROVE  TypeOK' /\ Progress' /\ CallsRemembered'
<1>1. lines = << >> /\ next_line = 1 /\ new_lines = << >> /\ in_comment = FALSE
  BY DEF Progress
<1>2. Len(stack') <= Cardinality(FileName)
  BY NoMoreCallsThanFiles DEF TypeOK, ReaderTypeOK, ReadingStep
<1>3. MacroTypeOK'
  BY DEF TypeOK, MacroTypeOK, macroVars
<1>4. ReaderTypeOK'
  <2>1. next_line' \in 1..(Len(lines') + 1)
    BY <1>1 DEF ReadingStep
  <2>2. QED
    BY <1>2, <2>1 DEF TypeOK, ReaderTypeOK, ReadingStep
<1>5. errors' \subseteq KnownErrors
  BY DEF ReadingStep, TypeOK, KnownErrors
<1>6. TypeOK'
  BY <1>3, <1>4, <1>5 DEF ReadingStep, TypeOK, KnownErrors
<1>7. Progress'
  <2>1. CASE phase' = "reading" /\ lines' = lines /\ stack' # << >>
    BY <1>1, <2>1 DEF ReadingStep, Progress
  <2>2. CASE phase' \in {"comments", "failed"} /\ stack' = << >>
    BY <1>1, <2>2 DEF ReadingStep, Progress
  <2>3. QED
    BY <2>1, <2>2 DEF ReadingStep
<1>8. CallsRemembered'
  BY DEF ReadingStep, CallsRemembered
<1>9. QED
  BY <1>6, <1>7, <1>8

LEMMA CallsOfSource ==
  ASSUME TypeOK, CallsRemembered
  PROVE  SourceCalls(files, stack) /\ SourceFiles(files) /\ opened_files \in Seq(FileName)
BY DEF TypeOK, ReaderTypeOK, CallsRemembered, SourceCalls, SourceFiles

-----------------------------------------------------------------------------
(* The steps of read_file_to_vector: the calls and the open files.         *)

LEMMA OpenedFrame ==
  ASSUME NEW name \in FileName
  PROVE  /\ Opened(name) \in Frame
         /\ Opened(name).name = name /\ Opened(name).line_number = 0 /\ Opened(name).lines = << >>
BY DEF Opened, Frame

LEMMA Opens ==
  ASSUME TypeOK, Progress, CallsRemembered, OpenMain
  PROVE  ReadingStep
<1>1. phase = "reading" /\ stack = << >> /\ MainFile \in FileName
  BY SourceReaderAssumption DEF OpenMain
<1>2. /\ files' = files /\ next_line' = next_line /\ in_comment' = in_comment
      /\ new_lines' = new_lines /\ lines' = lines
  BY DEF OpenMain, commentVars
<1>3. lines \in Seq(InputData) /\ opened_files \in Seq(FileName)
  BY DEF TypeOK, ReaderTypeOK
<1>4. CASE MainFile \in DOMAIN files
  <2>1. /\ stack' = << Opened(MainFile) >> /\ opened_files' = << MainFile >>
        /\ phase' = phase /\ errors' = errors
    BY <1>4 DEF OpenMain
  <2>2. /\ Opened(MainFile) \in Frame /\ Opened(MainFile).name = MainFile
        /\ Opened(MainFile).line_number = 0
    BY <1>1, OpenedFrame
  <2>3. stack' \in Seq(Frame) /\ Len(stack') = 1 /\ stack'[1] = Opened(MainFile)
        /\ opened_files' \in Seq(FileName) /\ Len(opened_files') = 1 /\ opened_files'[1] = MainFile
    BY <1>1, <2>1, <2>2
  <2>4. CallsDiffer(files, stack')
    <3>1. Len(files[MainFile]) \in Nat
      BY <1>4 DEF TypeOK, ReaderTypeOK
    <3>2. \A i \in 1..Len(stack') : i = 1
      BY <2>3
    <3>3. QED
      BY <1>4, <2>2, <2>3, <3>1, <3>2 DEF CallsDiffer
  <2>5. Remembered(opened_files', stack')
    <3>1. Remembers(opened_files', stack', [i \in 1..1 |-> 1])
      BY <2>2, <2>3 DEF Remembers
    <3>2. QED
      BY <3>1 DEF Remembered
  <2>6. stack' # << >>
    BY <2>3
  <2>7. QED
    BY <1>1, <1>2, <1>3, <2>1, <2>3, <2>4, <2>5, <2>6 DEF ReadingStep
<1>5. CASE MainFile \notin DOMAIN files
  <2>1. /\ stack' = stack /\ opened_files' = opened_files
        /\ phase' = "failed" /\ errors' = errors \cup {"no file"}
    BY <1>5 DEF OpenMain
  <2>2. CallsDiffer(files, stack') /\ Remembered(opened_files', stack') /\ stack' \in Seq(Frame)
    <3>1. stack' = << >>
      BY <1>1, <2>1
    <3>2. CallsDiffer(files, << >>) /\ Remembered(opened_files', << >>)
      BY Emptied
    <3>3. QED
      BY <3>1, <3>2
  <2>3. QED
    BY <1>1, <1>2, <1>3, <2>1, <2>2 DEF ReadingStep, ReadErrors
<1>6. QED
  BY <1>4, <1>5

LEMMA TopIs ==
  ASSUME TypeOK, CallsRemembered, stack # << >>, NEW n, n = Len(stack)
  PROVE  /\ n \in 1..Len(stack) /\ n \in Nat /\ n > 0
         /\ Top = stack[n] /\ Top \in Frame
         /\ NextLine = files[stack[n].name][stack[n].line_number + 1]
         /\ AtEnd <=> stack[n].line_number = Len(files[stack[n].name])
         /\ stack[n].line_number \in 0..Len(files[stack[n].name])
         /\ Len(files[stack[n].name]) \in Nat
         /\ stack[n].name \in FileName /\ stack[n].name \in DOMAIN files
         /\ stack[n].lines \in Seq(InputData)
         /\ Front(stack) \in Seq(Frame) /\ Len(Front(stack)) = n - 1
         /\ \A i \in 1..(n - 1) : Front(stack)[i] = stack[i]
<1>1. stack \in Seq(Frame) /\ SourceCalls(files, stack)
  BY CallsOfSource DEF SourceCalls
<1>2. /\ Len(stack) \in Nat /\ Len(stack) > 0
      /\ Last(stack) = stack[Len(stack)] /\ Last(stack) \in Frame
      /\ Front(stack) \in Seq(Frame) /\ Len(Front(stack)) = Len(stack) - 1
      /\ \A i \in 1..(Len(stack) - 1) : Front(stack)[i] = stack[i]
  BY <1>1, LastAndFront, Zenon
<1>3. n \in 1..Len(stack) /\ n \in Nat /\ n > 0
  BY <1>2
<1>4. /\ stack[n].line_number \in 0..Len(files[stack[n].name])
      /\ Len(files[stack[n].name]) \in Nat
      /\ stack[n].name \in FileName /\ stack[n].name \in DOMAIN files
      /\ stack[n].lines \in Seq(InputData)
  BY <1>1, <1>3, CallFiles
<1>5. Top = stack[n] /\ Top \in Frame
  BY <1>2 DEF Top
<1>6. NextLine = files[stack[n].name][stack[n].line_number + 1]
  BY <1>5, Zenon DEF NextLine
<1>7. AtEnd <=> stack[n].line_number = Len(files[stack[n].name])
  BY <1>5, Zenon DEF AtEnd
<1>8. QED
  BY <1>2, <1>3, <1>4, <1>5, <1>6, <1>7

(* The line that is read next.                                             *)
LEMMA NextIs ==
  ASSUME TypeOK, CallsRemembered, stack # << >>, ~AtEnd, NEW n, n = Len(stack)
  PROVE  /\ NextLine \in Line
         /\ stack[n].line_number + 1 \in 1..Len(files[stack[n].name])
         /\ stack[n].line_number \in Nat /\ stack[n].line_number < Len(files[stack[n].name])
<1>1. /\ AtEnd <=> stack[n].line_number = Len(files[stack[n].name])
      /\ stack[n].line_number \in 0..Len(files[stack[n].name])
      /\ Len(files[stack[n].name]) \in Nat
      /\ NextLine = files[stack[n].name][stack[n].line_number + 1]
      /\ stack[n].name \in DOMAIN files
  BY TopIs
<1>2. files[stack[n].name] \in Seq(Line)
  BY <1>1 DEF TypeOK, ReaderTypeOK
<1>3. stack[n].line_number + 1 \in 1..Len(files[stack[n].name])
  BY <1>1
<1>4. QED
  BY <1>1, <1>2, <1>3

LEMMA LineFurther ==
  ASSUME NEW frame \in Frame
  PROVE  LET further == [frame EXCEPT !.line_number = @ + 1]
         IN  /\ further = [name |-> frame.name, line_number |-> frame.line_number + 1,
                           lines |-> frame.lines]
             /\ \A data : [further EXCEPT !.lines = Append(@, data)] =
                  [name |-> frame.name, line_number |-> frame.line_number + 1,
                   lines |-> Append(frame.lines, data)]
<1> DEFINE more == frame.line_number + 1
           further == [frame EXCEPT !.line_number = more]
<1>1. [frame EXCEPT !.line_number = @ + 1] = further
  OBVIOUS
<1>2. further = [name |-> frame.name, line_number |-> more, lines |-> frame.lines]
  <2> HIDE DEF more
  <2>1. QED
    BY DEF Frame
<1>3. ASSUME NEW data
      PROVE  [further EXCEPT !.lines = Append(@, data)] =
               [name |-> frame.name, line_number |-> more, lines |-> Append(frame.lines, data)]
  <2> HIDE DEF more, further
  <2>1. QED
    BY <1>2
<1> HIDE DEF further
<1>4. QED
  BY <1>1, <1>2, <1>3, Zenon

LEMMA TwoMore ==
  ASSUME NEW S, NEW s \in Seq(S), NEW a \in S, NEW b \in S, NEW n \in Nat, Len(s) = n - 1
  PROVE  LET more == s \o << a, b >>
         IN  /\ more \in Seq(S) /\ Len(more) = n + 1 /\ more[n] = a /\ more[n + 1] = b
             /\ \A i \in 1..(n - 1) : more[i] = s[i]
OBVIOUS

(* The stack with its last call one line further.                          *)
LEMMA ReadTextStack ==
  ASSUME TypeOK, CallsRemembered, ReadText, NEW n, n = Len(stack)
  PROVE  /\ stack' \in Seq(Frame) /\ Len(stack') = n /\ CallersSame(stack, stack', n - 1)
         /\ stack'[n].name = stack[n].name
         /\ stack'[n].line_number = stack[n].line_number + 1
         /\ stack'[n].lines = Append(stack[n].lines,
              [text |-> NextLine.text, file_name |-> stack[n].name,
               line_counter |-> Counted(stack[n].name, stack[n].line_number + 1)])
<1>1. stack # << >> /\ ~AtEnd
  BY DEF ReadText
<1>2. /\ n \in Nat /\ n > 0 /\ Top = stack[n] /\ Top \in Frame
      /\ stack[n].name \in FileName /\ stack[n].lines \in Seq(InputData)
      /\ Front(stack) \in Seq(Frame) /\ Len(Front(stack)) = n - 1
      /\ \A i \in 1..(n - 1) : Front(stack)[i] = stack[i]
  BY <1>1, TopIs, Zenon
<1>3. NextLine \in Line /\ stack[n].line_number \in Nat
  BY <1>1, NextIs
<1> DEFINE data == [text |-> NextLine.text, file_name |-> Top.name,
                    line_counter |-> Counted(Top.name, Top.line_number + 1)]
           longer == Append(Top.lines, data)
           more == Top.line_number + 1
           frame == [name |-> Top.name, line_number |-> more, lines |-> longer]
<1>4. data \in InputData
  <2>1. NextLine.text \in Seq(Token)
    BY <1>3 DEF Line
  <2>2. Top.name \in FileName /\ Top.line_number + 1 \in Nat
    BY <1>2, <1>3
  <2>3. Counted(Top.name, Top.line_number + 1) \in Nat
    BY <2>2, CountedType
  <2>4. QED
    BY <2>1, <2>2, <2>3 DEF InputData
<1>5. longer \in Seq(InputData) /\ more \in Nat
  BY <1>2, <1>3, <1>4 DEF Frame
<1>6. [Advanced EXCEPT !.lines = Append(@, data)] = frame
  <2> HIDE DEF data
  <2>1. QED
    BY <1>2, LineFurther, Zenon DEF Advanced
<1>7. frame \in Frame
  <2> HIDE DEF longer, more
  <2>1. QED
    BY <1>2, <1>5 DEF Frame
<1>8. stack' = Append(Front(stack), frame)
  BY <1>6, Zenon DEF ReadText
<1>9. frame.name = stack[n].name /\ frame.line_number = stack[n].line_number + 1
      /\ frame.lines = Append(stack[n].lines,
              [text |-> NextLine.text, file_name |-> stack[n].name,
               line_counter |-> Counted(stack[n].name, stack[n].line_number + 1)])
  BY <1>2
<1> HIDE DEF frame
<1>10. stack' \in Seq(Frame) /\ Len(stack') = n /\ stack'[n] = frame
       /\ \A i \in 1..(n - 1) : stack'[i] = stack[i]
  BY <1>2, <1>7, <1>8
<1>11. QED
  BY <1>9, <1>10 DEF CallersSame

LEMMA LineFailsStack ==
  ASSUME TypeOK, CallsRemembered, LineFails, stack' # stack, NEW n, n = Len(stack)
  PROVE  /\ stack' \in Seq(Frame) /\ Len(stack') = n /\ CallersSame(stack, stack', n - 1)
         /\ stack'[n].name = stack[n].name
         /\ stack'[n].line_number = stack[n].line_number + 1
<1>1. stack # << >> /\ ~AtEnd /\ stack' = Append(Front(stack), Advanced)
  BY DEF LineFails
<1>2. /\ n \in Nat /\ n > 0 /\ Top = stack[n] /\ Top \in Frame
      /\ Front(stack) \in Seq(Frame) /\ Len(Front(stack)) = n - 1
      /\ \A i \in 1..(n - 1) : Front(stack)[i] = stack[i]
  BY <1>1, TopIs, Zenon
<1>3. stack[n].line_number \in Nat
  BY <1>1, NextIs
<1> DEFINE more == Top.line_number + 1
           frame == [name |-> Top.name, line_number |-> more, lines |-> Top.lines]
<1>4. Advanced = frame
  BY <1>2, LineFurther, Zenon DEF Advanced
<1>5. frame \in Frame
  <2>1. more \in Nat
    BY <1>2, <1>3
  <2> HIDE DEF more
  <2>2. QED
    BY <1>2, <2>1 DEF Frame
<1>6. stack' = Append(Front(stack), frame)
  BY <1>1, <1>4
<1>7. frame.name = stack[n].name /\ frame.line_number = stack[n].line_number + 1
  BY <1>2
<1> HIDE DEF frame
<1>8. stack' \in Seq(Frame) /\ Len(stack') = n /\ stack'[n] = frame
      /\ \A i \in 1..(n - 1) : stack'[i] = stack[i]
  BY <1>2, <1>5, <1>6
<1>9. QED
  BY <1>7, <1>8 DEF CallersSame

LEMMA ReadIncludeStack ==
  ASSUME TypeOK, CallsRemembered, ReadInclude, NEW n, n = Len(stack)
  PROVE  /\ stack' \in Seq(Frame) /\ Len(stack') = n + 1 /\ CallersSame(stack, stack', n - 1)
         /\ stack'[n].name = stack[n].name
         /\ stack'[n].line_number = stack[n].line_number + 1
         /\ stack'[n].lines = stack[n].lines
         /\ NextLine.name \in FileName /\ stack'[n + 1] = Opened(NextLine.name)
<1>1. stack # << >> /\ ~AtEnd /\ NextLine.name # ""
  BY DEF ReadInclude
<1>2. /\ n \in Nat /\ n > 0 /\ Top = stack[n] /\ Top \in Frame
      /\ stack[n].name \in FileName /\ stack[n].lines \in Seq(InputData)
      /\ Front(stack) \in Seq(Frame) /\ Len(Front(stack)) = n - 1
      /\ \A i \in 1..(n - 1) : Front(stack)[i] = stack[i]
  BY <1>1, TopIs, Zenon
<1>3. NextLine \in Line /\ stack[n].line_number \in Nat
  BY <1>1, NextIs
<1>4. NextLine.name \in FileName
  BY <1>1, <1>3 DEF Line
<1> DEFINE more == Top.line_number + 1
           frame == [name |-> Top.name, line_number |-> more, lines |-> Top.lines]
           new == Opened(NextLine.name)
<1>5. Advanced = frame
  BY <1>2, LineFurther, Zenon DEF Advanced
<1>6. frame \in Frame /\ new \in Frame
  <2>1. more \in Nat
    BY <1>2, <1>3
  <2> HIDE DEF more
  <2>2. QED
    BY <1>2, <1>4, <2>1, OpenedFrame DEF Frame
<1>7. stack' = Front(stack) \o << frame, new >>
  BY <1>5, Zenon DEF ReadInclude
<1>8. frame.name = stack[n].name /\ frame.line_number = stack[n].line_number + 1
      /\ frame.lines = stack[n].lines
  BY <1>2
<1> HIDE DEF frame
<1>9. stack' \in Seq(Frame) /\ Len(stack') = n + 1 /\ stack'[n] = frame /\ stack'[n + 1] = new
      /\ \A i \in 1..(n - 1) : stack'[i] = stack[i]
  <2>1. Front(stack) \in Seq(Frame) /\ Len(Front(stack)) = n - 1 /\ n \in Nat
    BY <1>2
  <2>2. \A i \in 1..(n - 1) : Front(stack)[i] = stack[i]
    BY <1>2
  <2> HIDE DEF new
  <2>3. /\ stack' \in Seq(Frame) /\ Len(stack') = n + 1 /\ stack'[n] = frame
        /\ stack'[n + 1] = new /\ \A i \in 1..(n - 1) : stack'[i] = Front(stack)[i]
    BY <1>6, <1>7, <2>1, TwoMore
  <2>4. QED
    BY <2>2, <2>3
<1>10. QED
  BY <1>4, <1>8, <1>9 DEF CallersSame

LEMMA LineReads ==
  ASSUME TypeOK, CallsRemembered, ReadText \/ (LineFails /\ stack' # stack)
  PROVE  ReadingStep
<1>1. PICK n : n = Len(stack)
  OBVIOUS
<1>2. phase = "reading" /\ stack # << >> /\ ~AtEnd
      /\ files' = files /\ next_line' = next_line /\ in_comment' = in_comment
      /\ new_lines' = new_lines /\ lines' = lines /\ phase' = phase
      /\ errors \subseteq errors' /\ errors' \subseteq errors \cup ReadErrors
      /\ opened_files' = opened_files
  BY DEF ReadText, LineFails, commentVars, ReadErrors
<1>3. stack \in Seq(Frame) /\ opened_files \in Seq(FileName) /\ lines \in Seq(InputData)
  BY DEF TypeOK, ReaderTypeOK
<1>4. n \in Nat /\ n > 0 /\ Len(files[stack[n].name]) \in Nat
  BY <1>1, <1>2, TopIs
<1>5. /\ stack[n].line_number \in Nat /\ stack[n].line_number < Len(files[stack[n].name])
  BY <1>1, <1>2, NextIs
<1>6. /\ stack' \in Seq(Frame) /\ Len(stack') = n /\ CallersSame(stack, stack', n - 1)
      /\ stack'[n].name = stack[n].name
      /\ stack'[n].line_number = stack[n].line_number + 1
  BY <1>1, ReadTextStack, LineFailsStack
<1>7. \A i \in 1..Len(stack') :
        stack'[i].name = stack[i].name /\ stack'[i].line_number <= Len(files[stack[i].name])
  <2> TAKE i \in 1..Len(stack')
  <2>1. CASE i = n
    BY <1>4, <1>5, <1>6, <2>1
  <2>2. CASE i # n
    <3>1. i \in 1..(n - 1) /\ i \in 1..Len(stack)
      BY <1>1, <1>4, <1>6, <2>2
    <3>2. stack'[i] = stack[i]
      BY <1>6, <3>1 DEF CallersSame
    <3>3. stack[i].line_number <= Len(files[stack[i].name])
      BY <3>1 DEF CallsRemembered, CallsDiffer
    <3>4. QED
      BY <3>2, <3>3
  <2>3. QED
    BY <2>1, <2>2
<1>8. Len(stack') <= Len(stack)
  BY <1>1, <1>4, <1>6
<1>9. CallsDiffer(files, stack')
  BY <1>3, <1>6, <1>7, <1>8, CallsLeft DEF CallsRemembered
<1>10. Remembered(opened_files, stack')
  BY <1>3, <1>6, <1>7, <1>8, StillRemembered DEF CallsRemembered
<1>11. stack' # << >>
  BY <1>4, <1>6
<1>12. QED
  BY <1>2, <1>3, <1>6, <1>9, <1>10, <1>11 DEF ReadingStep

LEMMA ReadsText ==
  ASSUME TypeOK, CallsRemembered, ReadText \/ LineFails
  PROVE  ReadingStep
<1>1. CASE ReadText \/ (LineFails /\ stack' # stack)
  BY <1>1, LineReads
<1>2. CASE LineFails /\ stack' = stack
  <2>1. /\ phase = "reading" /\ stack # << >>
        /\ files' = files /\ next_line' = next_line /\ in_comment' = in_comment
        /\ new_lines' = new_lines /\ lines' = lines /\ phase' = phase
        /\ errors \subseteq errors' /\ errors' \subseteq errors \cup ReadErrors
        /\ opened_files' = opened_files
    BY <1>2 DEF LineFails, commentVars, ReadErrors
  <2>2. stack \in Seq(Frame) /\ opened_files \in Seq(FileName) /\ lines \in Seq(InputData)
    BY DEF TypeOK, ReaderTypeOK
  <2>3. CallsDiffer(files, stack') /\ Remembered(opened_files', stack')
    BY <1>2, <2>1 DEF CallsRemembered
  <2>4. QED
    BY <1>2, <2>1, <2>2, <2>3 DEF ReadingStep
<1>3. QED
  BY <1>1, <1>2

LEMMA ReadsInclude ==
  ASSUME TypeOK, CallsRemembered, ReadInclude
  PROVE  ReadingStep
<1>1. PICK n : n = Len(stack)
  OBVIOUS
<1>2. phase = "reading" /\ stack # << >> /\ ~AtEnd /\ CanOpen(NextLine.name)
      /\ files' = files /\ next_line' = next_line /\ in_comment' = in_comment
      /\ new_lines' = new_lines /\ lines' = lines /\ phase' = phase /\ errors' = errors
      /\ opened_files' = Append(opened_files, NextLine.name)
  BY DEF ReadInclude, commentVars
<1>3. stack \in Seq(Frame) /\ opened_files \in Seq(FileName) /\ lines \in Seq(InputData)
  BY DEF TypeOK, ReaderTypeOK
<1>4. n \in Nat /\ n > 0 /\ Len(files[stack[n].name]) \in Nat
  BY <1>1, <1>2, TopIs
<1>5. /\ stack[n].line_number \in Nat /\ stack[n].line_number < Len(files[stack[n].name])
  BY <1>1, <1>2, NextIs
<1>6. PICK name : name = NextLine.name
  OBVIOUS
<1>7. /\ stack' \in Seq(Frame) /\ Len(stack') = n + 1 /\ CallersSame(stack, stack', n - 1)
      /\ stack'[n].name = stack[n].name
      /\ stack'[n].line_number = stack[n].line_number + 1
      /\ name \in FileName /\ stack'[n + 1] = Opened(name)
  BY <1>1, <1>6, ReadIncludeStack
<1>8. stack'[n + 1].name = name /\ stack'[n + 1].line_number = 0
  BY <1>7, OpenedFrame
<1>9. \A i \in 1..n :
        stack'[i].name = stack[i].name /\ stack'[i].line_number <= Len(files[stack[i].name])
  <2> TAKE i \in 1..n
  <2>1. CASE i = n
    BY <1>4, <1>5, <1>7, <2>1
  <2>2. CASE i # n
    <3>1. i \in 1..(n - 1) /\ i \in 1..Len(stack)
      BY <1>1, <1>4, <1>7, <2>2
    <3>2. stack'[i] = stack[i]
      BY <1>7, <3>1 DEF CallersSame
    <3>3. stack[i].line_number <= Len(files[stack[i].name])
      BY <3>1 DEF CallsRemembered, CallsDiffer
    <3>4. QED
      BY <3>2, <3>3
  <2>3. QED
    BY <2>1, <2>2
<1>10. name \in DOMAIN files /\ \A i \in 1..n : stack[i].name # name
  <2>1. name \in DOMAIN files /\ name \notin ToSet(opened_files)
    BY <1>2, <1>6 DEF CanOpen
  <2>2. \A i \in 1..n : stack[i].name \in ToSet(opened_files)
    BY <1>1, <1>3, RememberedAreOpened DEF CallsRemembered
  <2>3. QED
    BY <2>1, <2>2
<1>11. CallsDiffer(files, stack')
  <2>1. \A i \in 1..Len(stack') : i \in 1..n \/ i = n + 1
    BY <1>4, <1>7
  <2>2. 0 <= Len(files[name])
    BY <1>10 DEF TypeOK, ReaderTypeOK
  <2>3. \A i \in 1..n : stack[i].name \in DOMAIN files
    BY <1>1 DEF CallsRemembered, CallsDiffer
  <2>4. \A i, j \in 1..n : i # j => stack[i].name # stack[j].name
    BY <1>1 DEF CallsRemembered, CallsDiffer
  <2>5. \A i \in 1..Len(stack') :
          stack'[i].name \in DOMAIN files /\ stack'[i].line_number <= Len(files[stack'[i].name])
    BY <1>8, <1>9, <1>10, <2>1, <2>2, <2>3
  <2>6. \A i, j \in 1..Len(stack') : i # j => stack'[i].name # stack'[j].name
    BY <1>8, <1>9, <1>10, <2>1, <2>4
  <2>7. QED
    BY <2>5, <2>6 DEF CallsDiffer
<1>12. Remembered(Append(opened_files, name), stack')
  <2>1. \A i \in 1..Len(stack) : stack'[i].name = stack[i].name
    BY <1>1, <1>9
  <2>2. Len(stack') = Len(stack) + 1 /\ stack'[Len(stack) + 1].name = name
    BY <1>1, <1>7, <1>8
  <2>3. QED
    BY <1>3, <1>7, <2>1, <2>2, RememberedOneMore DEF CallsRemembered
<1>13. stack' # << >>
  BY <1>4, <1>7
<1>14. opened_files' \in Seq(FileName) /\ opened_files' = Append(opened_files, name)
  BY <1>2, <1>3, <1>6, <1>7
<1>15. QED
  BY <1>2, <1>3, <1>7, <1>11, <1>12, <1>13, <1>14 DEF ReadingStep

(* A return leaves the callers as they were.                               *)
LEMMA ReturnLeaves ==
  ASSUME TypeOK, CallsRemembered, phase = "reading",
         NEW frames \in Seq(Frame), frames # << >>, Len(frames) <= Len(stack),
         \A i \in 1..Len(frames) : frames[i] = stack[i],
         NEW result \in Seq(InputData), ReturnSome(frames, result)
  PROVE  /\ stack' \in Seq(Frame) /\ Len(stack') < Len(stack)
         /\ \A i \in 1..Len(stack') :
              stack'[i].name = stack[i].name /\ stack'[i].line_number = stack[i].line_number
         /\ lines' \in Seq(InputData)
         /\ \/ phase' = "reading" /\ lines' = lines /\ stack' # << >>
            \/ phase' = "comments" /\ stack' = << >>
<1>1. stack \in Seq(Frame) /\ lines \in Seq(InputData)
  BY DEF TypeOK, ReaderTypeOK
<1>2. Len(frames) \in Nat /\ Len(frames) > 0 /\ Len(stack) \in Nat
  BY <1>1
<1>3. CASE Len(frames) = 1 /\ stack' = << >> /\ lines' = result /\ phase' = "comments"
  <2>1. stack' \in Seq(Frame) /\ Len(stack') = 0
    BY <1>3
  <2>2. QED
    BY <1>2, <1>3, <2>1
<1>4. CASE /\ Len(frames) > 1
           /\ stack' \in Seq(Frame)
           /\ Len(stack') = Len(frames) - 1
           /\ \A i \in 1..(Len(frames) - 2) : stack'[i] = frames[i]
           /\ stack'[Len(frames) - 1] =
                [frames[Len(frames) - 1] EXCEPT !.lines = frames[Len(frames) - 1].lines \o result]
           /\ lines' = lines /\ phase' = phase
  <2>1. PICK p : p = Len(frames) - 1
    OBVIOUS
  <2>2. p \in 1..Len(frames) /\ p \in Nat
    BY <1>2, <1>4, <2>1
  <2>3. frames[p] \in Frame
    BY <2>2
  <2>4. stack'[p] = [frames[p] EXCEPT !.lines = frames[p].lines \o result]
    BY <1>4, <2>1
  <2>5. stack'[p].name = frames[p].name /\ stack'[p].line_number = frames[p].line_number
    BY <2>3, <2>4 DEF Frame
  <2>6. \A i \in 1..Len(stack') : i \in 1..Len(frames) /\ (i \in 1..(Len(frames) - 2) \/ i = p)
    BY <1>2, <1>4, <2>1
  <2>7. \A i \in 1..Len(stack') :
          stack'[i].name = stack[i].name /\ stack'[i].line_number = stack[i].line_number
    BY <1>4, <2>5, <2>6
  <2>8. Len(stack') < Len(stack) /\ stack' # << >>
    BY <1>2, <1>4
  <2>9. QED
    BY <1>1, <1>4, <2>7, <2>8
<1>5. QED
  BY <1>3, <1>4, Returned, Zenon

(* One call fewer, or more than one.                                       *)
CallsEnded ==
  /\ stack' \in Seq(Frame) /\ Len(stack') < Len(stack)
  /\ \A i \in 1..Len(stack') :
       stack'[i].name = stack[i].name /\ stack'[i].line_number = stack[i].line_number
  /\ lines' \in Seq(InputData)
  /\ \/ phase' = "reading" /\ lines' = lines /\ stack' # << >>
     \/ phase' \in {"comments", "failed"} /\ stack' = << >>

LEMMA FewerCalls ==
  ASSUME TypeOK, CallsRemembered, CallsEnded
  PROVE  /\ CallsDiffer(files, stack')
         /\ Remembered(opened_files, stack')
         /\ opened_files # << >> /\ Remembered(Front(opened_files), stack')
<1>1. stack \in Seq(Frame) /\ opened_files \in Seq(FileName)
  BY DEF TypeOK, ReaderTypeOK
<1>2. /\ stack' \in Seq(Frame) /\ Len(stack') < Len(stack)
      /\ \A i \in 1..Len(stack') :
           stack'[i].name = stack[i].name /\ stack'[i].line_number = stack[i].line_number
  BY DEF CallsEnded
<1>3. \A i \in 1..Len(stack') : i \in 1..Len(stack)
  BY <1>1, <1>2
<1>4. CallsDiffer(files, stack) /\ Remembered(opened_files, stack)
  BY DEF CallsRemembered
<1>5. \A i \in 1..Len(stack') :
        stack'[i].name = stack[i].name /\ stack'[i].line_number <= Len(files[stack[i].name])
  BY <1>2, <1>3, <1>4 DEF CallsDiffer
<1>6. Len(stack') <= Len(stack)
  BY <1>1, <1>2
<1>7. CallsDiffer(files, stack')
  BY <1>1, <1>2, <1>4, <1>5, <1>6, CallsLeft
<1>8. Remembered(opened_files, stack')
  BY <1>1, <1>2, <1>4, <1>6, StillRemembered
<1>9. opened_files # << >> /\ Remembered(Front(opened_files), stack')
  BY <1>1, <1>2, <1>4, RememberedFewer
<1>10. QED
  BY <1>7, <1>8, <1>9

LEMMA IncludeReturns ==
  ASSUME TypeOK, CallsRemembered, IncludeFails \/ EndOfFile
  PROVE  CallsEnded
<1>1. phase = "reading" /\ stack # << >> /\ ReturnSome(stack, Top.lines)
  BY DEF IncludeFails, EndOfFile
<1>2. stack \in Seq(Frame) /\ Top.lines \in Seq(InputData)
  <2>1. PICK n : n = Len(stack)
    OBVIOUS
  <2>2. Top = stack[n] /\ stack[n].lines \in Seq(InputData)
    BY <1>1, <2>1, TopIs
  <2>3. QED
    BY <2>2 DEF TypeOK, ReaderTypeOK
<1>3. Len(stack) <= Len(stack) /\ \A i \in 1..Len(stack) : stack[i] = stack[i]
  BY <1>2
<1>4. PICK result : result = Top.lines
  OBVIOUS
<1>5. result \in Seq(InputData) /\ ReturnSome(stack, result)
  BY <1>1, <1>2, <1>4
<1>6. QED
  BY <1>1, <1>2, <1>3, <1>5, ReturnLeaves DEF CallsEnded

LEMMA NoNameReturns ==
  ASSUME TypeOK, CallsRemembered, Progress, IncludeWithoutName
  PROVE  CallsEnded
<1>1. phase = "reading" /\ stack # << >> /\ ReturnNone(stack)
  BY DEF IncludeWithoutName
<1>2. stack \in Seq(Frame) /\ lines \in Seq(InputData)
  BY DEF TypeOK, ReaderTypeOK
<1>3. CASE Len(stack) = 1
  <2>1. stack' = << >> /\ lines' = lines /\ phase' = "failed"
    BY <1>1, <1>3, Zenon DEF ReturnNone
  <2>2. stack' \in Seq(Frame) /\ Len(stack') = 0
    BY <2>1
  <2>3. QED
    BY <1>2, <1>3, <2>1, <2>2 DEF CallsEnded
<1>4. CASE Len(stack) # 1
  <2>1. PICK n : n = Len(stack)
    OBVIOUS
  <2>2. /\ n \in Nat /\ n > 0 /\ Front(stack) \in Seq(Frame) /\ Len(Front(stack)) = n - 1
        /\ \A i \in 1..(n - 1) : Front(stack)[i] = stack[i]
    BY <1>1, <2>1, TopIs
  <2>3. PICK frames : frames = Front(stack)
    OBVIOUS
  <2>4. /\ frames \in Seq(Frame) /\ Len(frames) = n - 1
        /\ \A i \in 1..(n - 1) : frames[i] = stack[i]
    BY <2>2, <2>3
  <2>5. frames # << >> /\ Len(frames) <= Len(stack)
        /\ \A i \in 1..Len(frames) : frames[i] = stack[i]
    BY <1>4, <2>1, <2>2, <2>4
  <2>6. Last(frames) \in Frame
    BY <2>4, <2>5, LastAndFront
  <2>7. PICK result : result = Last(frames).lines
    OBVIOUS
  <2>8. result \in Seq(InputData)
    BY <2>6, <2>7 DEF Frame
  <2>9. ReturnSome(frames, result)
    BY <1>1, <1>4, <2>3, <2>7 DEF ReturnNone
  <2>10. QED
    BY <1>1, <2>4, <2>5, <2>8, <2>9, ReturnLeaves DEF CallsEnded
<1>5. QED
  BY <1>3, <1>4

LEMMA Returns ==
  ASSUME TypeOK, CallsRemembered, Progress, IncludeFails \/ IncludeWithoutName \/ EndOfFile
  PROVE  CallsEnded /\ ReadingStep
<1>1. CallsEnded
  BY IncludeReturns, NoNameReturns
<1>2. /\ CallsDiffer(files, stack')
      /\ Remembered(opened_files, stack')
      /\ opened_files # << >> /\ Remembered(Front(opened_files), stack')
  BY <1>1, FewerCalls
<1>3. opened_files \in Seq(FileName) /\ Front(opened_files) \in Seq(FileName)
  <2>1. opened_files \in Seq(FileName)
    BY DEF TypeOK, ReaderTypeOK
  <2>2. QED
    BY <1>2, <2>1, LastAndFront
<1>4. /\ files' = files /\ next_line' = next_line /\ in_comment' = in_comment
      /\ new_lines' = new_lines
  BY DEF IncludeFails, IncludeWithoutName, EndOfFile, commentVars
<1>5. errors \subseteq errors' /\ errors' \subseteq errors \cup ReadErrors
  <2>1. CASE IncludeFails
    BY <2>1 DEF IncludeFails, WhyNot, ReadErrors
  <2>2. CASE IncludeWithoutName
    BY <2>2 DEF IncludeWithoutName, ReadErrors
  <2>3. CASE EndOfFile
    BY <2>3 DEF EndOfFile
  <2>4. QED
    BY <2>1, <2>2, <2>3
<1>6. opened_files' = opened_files \/ opened_files' = Front(opened_files)
  BY DEF IncludeFails, IncludeWithoutName, EndOfFile, NamesAfterFile
<1>7. opened_files' \in Seq(FileName) /\ Remembered(opened_files', stack')
  BY <1>2, <1>3, <1>6
<1>8. ReadingStep
  BY <1>1, <1>2, <1>4, <1>5, <1>7 DEF ReadingStep, CallsEnded
<1>9. QED
  BY <1>1, <1>8

-----------------------------------------------------------------------------
(* The same steps: the lines read so far.                                  *)

(* MainInclusion.ok, and what it comes from.                               *)
LEMMA OpensInPlace ==
  ASSUME TypeOK, Progress, CallsRemembered, OpenMain
  PROVE  InPlace'
<1>1. phase = "reading" /\ stack = << >> /\ errors \cap ReadErrors = {} /\ files' = files
  BY DEF OpenMain, Progress
<1>2. CASE MainFile \in DOMAIN files
  <2>1. PICK t : t = stack'
    OBVIOUS
  <2>2. /\ t = << Opened(MainFile) >> /\ opened_files' = << MainFile >>
        /\ phase' = "reading" /\ errors' = errors
    BY <1>1, <1>2, <2>1 DEF OpenMain
  <2>3. Opened(MainFile).name = MainFile /\ Opened(MainFile).line_number = 0
        /\ Opened(MainFile).lines = << >>
    BY DEF Opened
  <2>4. Len(t) = 1 /\ t[1] = Opened(MainFile) /\ t # << >>
    BY <2>2
  <2>5. LinesDone(t, 1) = 0 /\ Above(t, 1) = {}
    BY <2>3, <2>4 DEF LinesDone, Above
  <2>6. CallInPlace(files, t, 1)
    <3> DEFINE empty == [k \in 1..LinesDone(t, 1) |-> PieceAt(files, t, 1, k).lines]
    <3>1. empty = << >>
      <4>1. 1..LinesDone(t, 1) = {}
        BY <2>5
      <4>2. QED
        BY <4>1
    <3> HIDE DEF empty
    <3>2. t[1].lines = FlattenSeq(empty)
      BY <2>3, <2>4, <3>1, FlattenEmpty
    <3>3. \A k \in 1..LinesDone(t, 1) : PieceAt(files, t, 1, k).ok
      <4>1. 1..LinesDone(t, 1) = {}
        BY <2>5
      <4>2. QED
        BY <4>1
    <3>4. ~(1 < Len(t))
      BY <2>4
    <3>5. MainOf(files).ok => Inclusion(files)[Above(t, 1)][t[1].name].ok
      <4>1. MainOf(files) = Inclusion(files)[{}][MainFile]
        BY <1>2 DEF MainOf
      <4>2. Inclusion(files)[Above(t, 1)][t[1].name] = Inclusion(files)[{}][MainFile]
        BY <2>3, <2>4, <2>5
      <4>3. QED
        BY <4>1, <4>2, Zenon
    <3>6. QED
      BY <3>2, <3>3, <3>4, <3>5, Zenon DEF CallInPlace, empty
  <2>7. \A i \in 1..Len(t) : i = 1
    BY <2>4
  <2>8. \A i \in 1..Len(t) : CallInPlace(files, t, i)
    BY <2>6, <2>7
  <2>9. << MainFile >> = [i \in 1..Len(t) |-> t[i].name]
    BY <2>3, <2>4, <2>7
  <2>10. ReadSoFar'
    <3>1. stack'[1].name = MainFile
      BY <2>1, <2>3, <2>4
    <3>2. opened_files' = [i \in 1..Len(stack') |-> stack'[i].name]
      BY <2>1, <2>2, <2>9
    <3>3. \A i \in 1..Len(stack') : CallInPlace(files', stack', i)
      BY <1>1, <2>1, <2>8
    <3>4. QED
      BY <2>2, <3>1, <3>2, <3>3 DEF ReadSoFar
  <2>11. QED
    BY <1>1, <2>2, <2>10 DEF InPlace
<1>3. CASE MainFile \notin DOMAIN files
  <2>1. MainOf(files) = [ok |-> FALSE, lines |-> << >>]
    BY <1>3 DEF MainOf
  <2>2. ~MainOf(files').ok
    BY <1>1, <2>1
  <2>3. "no file" \in errors' \cap ReadErrors
    BY <1>3 DEF OpenMain, ReadErrors
  <2>4. QED
    BY <2>2, <2>3 DEF InPlace
<1>4. QED
  BY <1>2, <1>3

(* An Error means that the source is not all right, for good.              *)
LEMMA ErrorsStay ==
  ASSUME InPlace, errors \cap ReadErrors # {}, errors \subseteq errors', files' = files
  PROVE  InPlace'
<1>1. ~MainOf(files').ok
  BY DEF InPlace
<1>2. errors' \cap ReadErrors # {}
  OBVIOUS
<1>3. QED
  BY <1>1, <1>2 DEF InPlace

LEMMA ReadsTextInPlace ==
  ASSUME TypeOK, CallsRemembered, InPlace, ReadText
  PROVE  InPlace'
<1>1. phase = "reading" /\ stack # << >> /\ ~AtEnd
      /\ NextLine.fails = "no" /\ ~NextLine.include
      /\ files' = files /\ phase' = phase /\ errors' = errors /\ opened_files' = opened_files
  BY DEF ReadText
<1>2. CASE errors \cap ReadErrors # {}
  BY <1>1, <1>2, ErrorsStay
<1>3. CASE errors \cap ReadErrors = {}
  <2>1. ReadSoFar
    BY <1>3 DEF InPlace
  <2>2. PICK s : s = stack
    OBVIOUS
  <2>3. PICK t : t = stack'
    OBVIOUS
  <2>4. PICK n : n = Len(stack)
    OBVIOUS
  <2>5. PICK m : m = stack[n].line_number
    OBVIOUS
  <2>6. SourceCalls(files, s)
    BY <2>2, CallsOfSource
  <2>7. m \in Nat /\ m < Len(files[s[n].name]) /\ n > 0 /\ n \in Nat
        /\ NextLine = files[s[n].name][m + 1]
    BY <1>1, <2>2, <2>4, <2>5, TopIs, NextIs
  <2>8. /\ t \in Seq(Frame) /\ Len(t) = n /\ CallersSame(s, t, n - 1)
        /\ t[n].name = s[n].name
        /\ t[n].line_number = m + 1
        /\ t[n].lines = Append(s[n].lines,
              [text |-> NextLine.text, file_name |-> s[n].name,
               line_counter |-> Counted(s[n].name, m + 1)])
    BY <2>2, <2>3, <2>4, <2>5, ReadTextStack
  <2>9. \A i \in 1..Len(s) : CallInPlace(files, s, i)
    BY <2>1, <2>2 DEF ReadSoFar
  <2>15. Counted(s[n].name, m + 1) = m + 1
    <3>1. LinesDone(s, n) = m /\ n \in 1..Len(s)
      BY <2>2, <2>4, <2>5, <2>7 DEF LinesDone
    <3>2. \A k \in 1..m : PieceAt(files, s, n, k).ok
      BY <2>9, <3>1, Zenon DEF CallInPlace
    <3>3. files[s[n].name][m + 1].fails = "no"
      BY <1>1, <2>7, Zenon
    <3>4. QED
      BY ONLY <2>7, <3>2, <3>3, AllCounted
  <2>10. \A i \in 1..Len(t) : CallInPlace(files, t, i)
    <3>1. files[s[n].name][m + 1].fails = "no" /\ ~files[s[n].name][m + 1].include
      BY <1>1, <2>7, Zenon
    <3>2. t[n].lines = Append(s[n].lines,
              [text |-> files[s[n].name][m + 1].text, file_name |-> s[n].name,
               line_counter |-> m + 1])
      BY <2>7, <2>8, <2>15, Zenon
    <3>3. n = Len(s) /\ s # << >> /\ m = s[n].line_number
      BY <1>1, <2>2, <2>4, <2>5
    <3>4. QED
      BY ONLY <2>6, <2>7, <2>8, <2>9, <3>1, <3>2, <3>3, TextInPlace
  <2>11. \A i \in 1..n : t[i].name = s[i].name
    <3> TAKE i \in 1..n
    <3>1. i \in 1..(n - 1) \/ i = n
      BY <2>7
    <3>2. QED
      BY <2>8, <3>1 DEF CallersSame
  <2>12. [i \in 1..Len(t) |-> t[i].name] = [i \in 1..Len(s) |-> s[i].name]
    BY <2>2, <2>4, <2>8, <2>11
  <2>13. ReadSoFar'
    <3>1. stack'[1].name = MainFile
      BY <1>1, <2>1, <2>2, <2>3, <2>7, <2>11 DEF ReadSoFar
    <3>2. opened_files' = [i \in 1..Len(stack') |-> stack'[i].name]
      BY <1>1, <2>1, <2>2, <2>3, <2>12 DEF ReadSoFar
    <3>3. \A i \in 1..Len(stack') : CallInPlace(files', stack', i)
      BY <1>1, <2>3, <2>10
    <3>4. QED
      BY <1>1, <3>1, <3>2, <3>3 DEF ReadSoFar
  <2>14. QED
    BY <1>1, <1>3, <2>13 DEF InPlace
<1>4. QED
  BY <1>2, <1>3

LEMMA AboveAreOpened ==
  ASSUME NEW s, NEW n \in Nat, n = Len(s), NEW opened, opened = [i \in 1..Len(s) |-> s[i].name]
  PROVE  ToSet(opened) = Above(s, n + 1)
<1>1. DOMAIN opened = 1..n /\ \A i \in 1..n : opened[i] = s[i].name
  OBVIOUS
<1>2. n + 1 - 1 = n
  OBVIOUS
<1>3. ToSet(opened) = {opened[i] : i \in DOMAIN opened}
  BY Zenon DEF ToSet
<1>4. QED
  BY <1>1, <1>2, <1>3 DEF Above

LEMMA AppendIs ==
  ASSUME NEW S, NEW s \in Seq(S), NEW e
  PROVE  Append(s, e) = [i \in 1..(Len(s) + 1) |-> IF i = Len(s) + 1 THEN e ELSE s[i]]
<1>1. PICK more : more = Append(s, e)
  OBVIOUS
<1>2. /\ more \in Seq(S \cup {e}) /\ Len(more) = Len(s) + 1 /\ Len(s) \in Nat
      /\ \A i \in 1..Len(s) : more[i] = s[i]
      /\ more[Len(s) + 1] = e
  BY <1>1
<1>3. more = [i \in 1..(Len(s) + 1) |-> more[i]]
  BY <1>2
<1>4. \A i \in 1..(Len(s) + 1) : more[i] = IF i = Len(s) + 1 THEN e ELSE s[i]
  BY <1>2
<1>5. QED
  BY <1>1, <1>3, <1>4, Zenon

LEMMA ReadsIncludeInPlace ==
  ASSUME TypeOK, CallsRemembered, InPlace, ReadInclude
  PROVE  InPlace'
<1>1. phase = "reading" /\ stack # << >> /\ ~AtEnd
      /\ NextLine.fails = "no" /\ NextLine.include
      /\ files' = files /\ phase' = phase /\ errors' = errors /\ CanOpen(NextLine.name)
      /\ opened_files' = Append(opened_files, NextLine.name)
  BY DEF ReadInclude
<1>2. CASE errors \cap ReadErrors # {}
  BY <1>1, <1>2, ErrorsStay
<1>3. CASE errors \cap ReadErrors = {}
  <2>1. ReadSoFar
    BY <1>3 DEF InPlace
  <2>2. PICK s : s = stack
    OBVIOUS
  <2>3. PICK t : t = stack'
    OBVIOUS
  <2>4. PICK n : n = Len(stack)
    OBVIOUS
  <2>5. PICK m : m = stack[n].line_number
    OBVIOUS
  <2>6. PICK name : name = NextLine.name
    OBVIOUS
  <2>7. SourceCalls(files, s)
    BY <2>2, CallsOfSource
  <2>8. m \in Nat /\ m < Len(files[s[n].name]) /\ n > 0 /\ n \in Nat
        /\ NextLine = files[s[n].name][m + 1]
    BY <1>1, <2>2, <2>4, <2>5, TopIs, NextIs
  <2>9. PICK next : next = m + 1
    OBVIOUS
  <2>10. /\ t \in Seq(Frame) /\ Len(t) = n + 1 /\ CallersSame(s, t, n - 1)
         /\ t[n].name = s[n].name
         /\ t[n].line_number = m + 1
         /\ t[n].lines = s[n].lines
         /\ name \in FileName /\ t[n + 1] = Opened(name)
    BY <2>2, <2>3, <2>4, <2>5, <2>6, ReadIncludeStack
  <2>11. \A i \in 1..Len(s) : CallInPlace(files, s, i)
    BY <2>1, <2>2 DEF ReadSoFar
  <2>12. opened_files = [i \in 1..Len(s) |-> s[i].name]
    BY <1>1, <2>1, <2>2 DEF ReadSoFar
  <2>13. name \in DOMAIN files \ Above(s, n + 1)
    <3>1. ToSet(opened_files) = Above(s, n + 1)
      BY <2>2, <2>4, <2>8, <2>12, AboveAreOpened
    <3>2. QED
      BY <1>1, <2>6, <3>1 DEF CanOpen
  <2>14. \A i \in 1..Len(t) : CallInPlace(files, t, i)
    <3>1. files[s[n].name][next].fails = "no" /\ files[s[n].name][next].include
          /\ name = files[s[n].name][next].name
      BY <1>1, <2>6, <2>8, <2>9, Zenon
    <3>2. n = Len(s) /\ m = s[n].line_number /\ t[n].line_number = next
      BY ONLY <2>2, <2>4, <2>5, <2>9, <2>10
    <3>3. n \in 1..Len(s)
      BY ONLY <2>8, <3>2
    <3>4. QED
      BY ONLY <2>7, <2>8, <2>9, <2>10, <2>11, <2>13, <3>1, <3>2, <3>3, IncludeInPlace, ZenonT(30)
  <2>15. \A i \in 1..n : t[i].name = s[i].name
    <3> TAKE i \in 1..n
    <3>1. i \in 1..(n - 1) \/ i = n
      BY <2>8
    <3>2. QED
      BY <2>10, <3>1 DEF CallersSame
  <2>16. t[n + 1].name = name
    BY <2>10, OpenedFrame
  <2>17. Append(opened_files, name) = [i \in 1..Len(t) |-> t[i].name]
    <3> DEFINE more == [i \in 1..Len(t) |-> t[i].name]
    <3>1. Append(opened_files, name) = [i \in 1..(n + 1) |-> IF i = n + 1 THEN name ELSE opened_files[i]]
      <4>1. Len(opened_files) = n
        BY <2>2, <2>4, <2>8, <2>12
      <4>2. opened_files \in Seq(FileName)
        BY DEF TypeOK, ReaderTypeOK
      <4>3. QED
        BY <4>1, <4>2, AppendIs
    <3>2. \A i \in 1..(n + 1) : (IF i = n + 1 THEN name ELSE opened_files[i]) = t[i].name
      <4> TAKE i \in 1..(n + 1)
      <4>1. CASE i = n + 1
        BY <2>16, <4>1
      <4>2. CASE i # n + 1
        <5>1. i \in 1..n /\ i \in 1..Len(s)
          BY <2>2, <2>4, <2>8, <4>2
        <5>2. opened_files[i] = s[i].name
          BY <2>12, <5>1
        <5>3. QED
          BY <2>15, <4>2, <5>1, <5>2
      <4>3. QED
        BY <4>1, <4>2
    <3>3. QED
      BY <2>10, <3>1, <3>2, Zenon
  <2>18. ReadSoFar'
    <3>1. stack'[1].name = MainFile
      <4>1. s[1].name = MainFile /\ 1 \in 1..n
        BY <1>1, <2>1, <2>2, <2>8 DEF ReadSoFar
      <4>2. QED
        BY <2>3, <2>15, <4>1
    <3>2. opened_files' = [i \in 1..Len(stack') |-> stack'[i].name]
      BY <1>1, <2>3, <2>6, <2>17
    <3>3. \A i \in 1..Len(stack') : CallInPlace(files', stack', i)
      BY <1>1, <2>3, <2>14
    <3>4. QED
      BY <1>1, <3>1, <3>2, <3>3 DEF ReadSoFar
  <2>19. QED
    BY <1>1, <1>3, <2>18 DEF InPlace
<1>4. QED
  BY <1>2, <1>3

(* An include that is not possible, or a line that cannot be read, leaves  *)
(* an Error at once.                                                       *)
LEMMA FailureNoticed ==
  ASSUME TypeOK, CallsRemembered, InPlace, IncludeFails \/ IncludeWithoutName \/ LineFails
  PROVE  InPlace'
<1>1. phase = "reading" /\ stack # << >> /\ ~AtEnd
      /\ files' = files /\ errors \subseteq errors'
      /\ (NextLine.fails # "no" \/
            (NextLine.include /\ (NextLine.name = "" \/ ~CanOpen(NextLine.name))))
  BY DEF IncludeFails, IncludeWithoutName, LineFails
<1>2. errors' \cap ReadErrors # {}
  BY DEF IncludeFails, IncludeWithoutName, LineFails, ReadErrors
<1>3. CASE errors \cap ReadErrors # {}
  BY <1>1, <1>3, ErrorsStay
<1>4. CASE errors \cap ReadErrors = {}
  <2>1. ReadSoFar
    BY <1>4 DEF InPlace
  <2>2. PICK n : n = Len(stack)
    OBVIOUS
  <2>3. PICK k : k = stack[n].line_number + 1
    OBVIOUS
  <2>4. /\ n \in 1..Len(stack) /\ n \in Nat /\ k \in 1..Len(files[stack[n].name])
        /\ NextLine = files[stack[n].name][k]
    BY <1>1, <2>2, <2>3, TopIs, NextIs
  <2>5. NextLine.fails # "no" \/
          (NextLine.include /\ NextLine.name \notin DOMAIN files \ Above(stack, n + 1))
    <3>1. CASE NextLine.include /\ NextLine.name = ""
      BY <3>1, SourceReaderAssumption DEF TypeOK, ReaderTypeOK
    <3>2. CASE NextLine.include /\ ~CanOpen(NextLine.name)
      <4>1. opened_files = [i \in 1..Len(stack) |-> stack[i].name]
        BY <1>1, <2>1 DEF ReadSoFar
      <4>2. ToSet(opened_files) = Above(stack, n + 1)
        BY <2>2, <2>4, <4>1, AboveAreOpened
      <4>3. QED
        BY <3>2, <4>2 DEF CanOpen
    <3>3. QED
      BY <1>1, <3>1, <3>2
  <2>6. CallInPlace(files, stack, n)
    BY <2>1, <2>4 DEF ReadSoFar
  <2>7. SourceCalls(files, stack)
    BY CallsOfSource
  <2>8. files[stack[n].name][k].fails # "no" \/
          (/\ files[stack[n].name][k].include
           /\ files[stack[n].name][k].name \notin DOMAIN files \ Above(stack, n + 1))
    BY <1>1, <2>4, <2>5, Zenon
  <2>9. ~MainOf(files).ok
    BY ONLY <2>4, <2>6, <2>7, <2>8, LostLine
  <2>10. QED
    BY <1>1, <1>2, <2>9 DEF InPlace
<1>5. QED
  BY <1>3, <1>4

(* At the end of the main file the lines are those of the whole source.    *)
LEMMA EndsInPlace ==
  ASSUME TypeOK, CallsRemembered, InPlace, EndOfFile
  PROVE  InPlace'
<1>1. phase = "reading" /\ stack # << >> /\ AtEnd /\ ReturnSome(stack, Top.lines)
      /\ files' = files /\ errors' = errors /\ opened_files' = Front(opened_files)
  BY DEF EndOfFile, NamesAfterFile
<1>2. CASE errors \cap ReadErrors # {}
  BY <1>1, <1>2, ErrorsStay
<1>3. CASE errors \cap ReadErrors = {}
  <2>1. ReadSoFar
    BY <1>3 DEF InPlace
  <2>2. PICK s : s = stack
    OBVIOUS
  <2>3. PICK t : t = stack'
    OBVIOUS
  <2>4. PICK n : n = Len(s)
    OBVIOUS
  <2>5. /\ n \in 1..Len(s) /\ n \in Nat /\ n > 0 /\ Top = s[n]
        /\ s[n].line_number = Len(files[s[n].name]) /\ s[n].lines \in Seq(InputData)
    BY <1>1, <2>2, <2>4, TopIs
  <2>6. SourceCalls(files, s) /\ s \in Seq(Frame) /\ s # << >>
    BY <1>1, <2>2, CallsOfSource DEF SourceCalls
  <2>7. \A i \in 1..Len(s) : CallInPlace(files, s, i)
    BY <2>1, <2>2 DEF ReadSoFar
  <2>8. PICK result : result = s[n].lines
    OBVIOUS
  <2>9. result \in Seq(InputData) /\ ReturnSome(s, result)
    BY <1>1, <2>2, <2>5, <2>8
  <2>10. CASE Len(s) = 1 /\ stack' = << >> /\ lines' = result /\ phase' = "comments"
    <3>1. n = 1 /\ s[1].name = MainFile
      BY <2>1, <2>2, <2>4, <2>6, <2>10 DEF ReadSoFar
    <3>2. /\ Inclusion(files)[Above(s, n)][s[n].name].ok
          /\ Inclusion(files)[Above(s, n)][s[n].name].lines = s[n].lines
      BY <2>4, <2>5, <2>6, <2>7, LastCallWhole
    <3>3. Above(s, n) = {}
      BY <3>1 DEF Above
    <3>4. MainOf(files) = Inclusion(files)[Above(s, n)][s[n].name]
      <4>1. MainFile \in DOMAIN files
        BY <2>5, <2>6, <3>1, CallFiles
      <4>2. QED
        BY <3>1, <3>3, <4>1 DEF MainOf
    <3>5. MainOf(files).ok /\ lines' = MainOf(files).lines
      BY <2>8, <2>10, <3>2, <3>4, Zenon
    <3>6. ReadSoFar'
      <4>1. \A i \in 1..Len(stack') : CallInPlace(files', stack', i)
        BY <2>10
      <4>2. QED
        BY <1>1, <2>10, <3>5, <4>1 DEF ReadSoFar
    <3>7. QED
      BY <1>1, <1>3, <3>6 DEF InPlace
  <2>11. CASE /\ Len(s) > 1
              /\ stack' \in Seq(Frame)
              /\ Len(stack') = Len(s) - 1
              /\ \A i \in 1..(Len(s) - 2) : stack'[i] = s[i]
              /\ stack'[Len(s) - 1] = [s[Len(s) - 1] EXCEPT !.lines = s[Len(s) - 1].lines \o result]
              /\ lines' = lines /\ phase' = phase
    <3>1. PICK p : p = n - 1
      OBVIOUS
    <3>2. p \in Nat /\ p > 0 /\ n = p + 1 /\ Len(s) = p + 1 /\ p \in 1..Len(s)
      BY <2>4, <2>5, <2>11, <3>1
    <3>3. t \in Seq(Frame) /\ Len(t) = p
      BY <2>3, <2>11, <3>2
    <3>4. CallersSame(s, t, p - 1)
      BY <2>3, <2>11, <3>2 DEF CallersSame
    <3>5. t[p] = [s[p] EXCEPT !.lines = s[p].lines \o result]
      <4>1. Len(s) - 1 = p
        BY <3>2
      <4>2. QED
        BY <2>3, <2>11, <4>1
    <3>6. t[p].name = s[p].name /\ t[p].line_number = s[p].line_number
          /\ t[p].lines = s[p].lines \o s[p + 1].lines
      <4>1. s[p] \in Frame
        BY <2>6, <3>2
      <4>2. QED
        BY <2>8, <3>2, <3>5, <4>1 DEF Frame
    <3>7. s[p + 1].line_number = Len(files[s[p + 1].name])
      BY <2>5, <3>2
    <3>8. \A i \in 1..Len(t) : CallInPlace(files, t, i)
      BY ONLY <2>6, <2>7, <3>2, <3>3, <3>4, <3>6, <3>7, ReturnInPlace
    <3>9. \A i \in 1..p : t[i].name = s[i].name
      <4> TAKE i \in 1..p
      <4>1. i \in 1..(p - 1) \/ i = p
        BY <3>2
      <4>2. QED
        BY <3>4, <3>6, <4>1 DEF CallersSame
    <3>10. Front(opened_files) = [i \in 1..Len(t) |-> t[i].name]
      <4>1. opened_files = [i \in 1..Len(s) |-> s[i].name]
        BY <1>1, <2>1, <2>2 DEF ReadSoFar
      <4>2. Len(opened_files) = p + 1 /\ opened_files \in Seq(FileName) /\ opened_files # << >>
        <5>1. opened_files \in Seq(FileName)
          BY DEF TypeOK, ReaderTypeOK
        <5>2. Len(opened_files) = p + 1
          BY <3>2, <4>1
        <5>3. QED
          BY <3>2, <5>1, <5>2
      <4>3. PICK front : front = Front(opened_files)
        OBVIOUS
      <4>4. front \in Seq(FileName) /\ Len(front) = p /\ \A i \in 1..p : front[i] = opened_files[i]
        <5>1. Front(opened_files) \in Seq(FileName) /\ Len(Front(opened_files)) = Len(opened_files) - 1
              /\ \A i \in 1..(Len(opened_files) - 1) : Front(opened_files)[i] = opened_files[i]
          BY <4>2, LastAndFront, Zenon
        <5>2. Len(opened_files) - 1 = p
          BY <3>2, <4>2
        <5>3. QED
          BY <4>3, <5>1, <5>2
      <4>5. front = [i \in 1..p |-> front[i]]
        BY <4>4
      <4>6. \A i \in 1..p : front[i] = t[i].name
        <5> TAKE i \in 1..p
        <5>1. i \in 1..Len(s)
          BY <3>2
        <5>2. QED
          BY <3>9, <4>1, <4>4, <5>1
      <4>7. QED
        BY <3>3, <4>3, <4>5, <4>6, Zenon
    <3>11. ReadSoFar'
      <4>1. stack'[1].name = MainFile
        <5>1. stack[1].name = MainFile
          BY <1>1, <2>1, Zenon DEF ReadSoFar
        <5>2. 1 \in 1..p
          BY <3>2
        <5>3. QED
          BY <2>2, <2>3, <3>9, <5>1, <5>2
      <4>2. opened_files' = [i \in 1..Len(stack') |-> stack'[i].name]
        BY <1>1, <2>3, <3>10
      <4>3. \A i \in 1..Len(stack') : CallInPlace(files', stack', i)
        BY <1>1, <2>3, <3>8
      <4>4. QED
        BY <1>1, <2>11, <4>1, <4>2, <4>3 DEF ReadSoFar
    <3>12. QED
      BY <1>1, <1>3, <3>11 DEF InPlace
  <2>12. QED
    BY <2>6, <2>9, <2>10, <2>11, Returned, Zenon
<1>4. QED
  BY <1>2, <1>3

-----------------------------------------------------------------------------
(* What the steps before and after the source is read leave alone.         *)
SourceLeftAlone ==
  /\ files' = files /\ stack' = stack /\ opened_files' = opened_files /\ lines' = lines
  /\ stack = << >>
  /\ errors \subseteq errors' /\ errors' \subseteq errors \cup (KnownErrors \ ReadErrors)
  /\ phase' \in {"comments", "macros", "done"} => phase \in {"comments", "macros", "done"}
  /\ phase' = "reading" => opened_files = << >>
  /\ phase' = "failed" => "no table" \in errors'

LEMMA StaysInPlace ==
  ASSUME TypeOK, CallsRemembered, InPlace, SourceLeftAlone
  PROVE  CallsRemembered' /\ InPlace'
<1>1. CallsRemembered'
  BY DEF CallsRemembered, SourceLeftAlone
<1>2. errors' \cap ReadErrors = errors \cap ReadErrors
  BY DEF SourceLeftAlone
<1>3. ASSUME errors \cap ReadErrors # {}
      PROVE  InPlace'
  <2>1. errors \subseteq errors' /\ files' = files
    BY DEF SourceLeftAlone
  <2>2. QED
    BY <1>3, <2>1, ErrorsStay
<1>4. ASSUME errors \cap ReadErrors = {}
      PROVE  InPlace'
  <2>1. ReadSoFar
    BY <1>4 DEF InPlace
  <2>2. stack' = << >>
    BY DEF SourceLeftAlone
  <2>3. phase' = "reading" => opened_files' = [i \in 1..Len(stack') |-> stack'[i].name]
    <3>1. 1..Len(stack') = {}
      BY <2>2
    <3>2. << >> = [i \in 1..Len(stack') |-> stack'[i].name]
      BY <3>1
    <3>3. QED
      BY <3>2 DEF SourceLeftAlone
  <2>4. \A i \in 1..Len(stack') : CallInPlace(files', stack', i)
    BY <2>2
  <2>5. phase' \in {"comments", "macros", "done"} => MainOf(files').ok /\ lines' = MainOf(files').lines
    BY <2>1 DEF SourceLeftAlone, ReadSoFar
  <2>6. ReadSoFar'
    BY <2>2, <2>3, <2>4, <2>5 DEF SourceLeftAlone, ReadSoFar
  <2>7. QED
    BY <1>2, <1>4, <2>6 DEF InPlace
<1>5. QED
  BY <1>1, <1>2, <1>3, <1>4

(* The opcode file.                                                        *)
LEMMA TableKeeps ==
  ASSUME TypeOK, Progress, Table
  PROVE  TypeOK' /\ Progress' /\ SourceLeftAlone
<1>1. phase = "table" /\ stack = << >> /\ opened_files = << >>
  BY DEF Table, EmptyTable, ReadOpcode, ReadMacro, TableRead, Progress
<1>2. UNCHANGED programVars /\ table' = table /\ pass' = pass /\ changed' = changed
      /\ pass0' = pass0
  BY DEF Table, EmptyTable, ReadOpcode, ReadMacro, TableRead, macroVars
<1>3. ReaderTypeOK'
  BY <1>2 DEF programVars, commentVars, TypeOK, ReaderTypeOK
<1>4. errors \subseteq errors' /\ errors' \subseteq errors \cup TableErrors
  BY DEF Table, EmptyTable, ReadOpcode, ReadMacro, TableRead, TableErrors
<1>5. errors' \subseteq KnownErrors
  BY <1>4 DEF TypeOK, KnownErrors
<1>6. phase' \in {"table", "embedded"} \/ (phase' = "failed" /\ "no table" \in errors')
  BY <1>1 DEF Table, EmptyTable, ReadOpcode, ReadMacro, TableRead
<1>7. /\ table \in Seq(TableLine) /\ opcodes \in Seq(OpcodeName) /\ macros \in Seq(Macro)
      /\ Len(opcodes) + Len(macros) <= Len(table)
      /\ Len(opcodes) \in Nat /\ Len(macros) \in Nat /\ Len(table) \in Nat
  BY DEF TypeOK, MacroTypeOK
<1>8. /\ opcodes' \in Seq(OpcodeName) /\ macros' \in Seq(Macro)
      /\ Len(opcodes') + Len(macros') <= Len(table)
  <2>1. CASE EmptyTable \/ TableRead
    BY <1>7, <2>1 DEF EmptyTable, TableRead, macroVars
  <2> DEFINE line == table[LinesRead + 1]
  <2>2. LinesRead < Len(table) => line \in TableLine
    BY <1>7 DEF LinesRead
  <2> HIDE DEF line
  <2>3. CASE ReadOpcode
    <3>1. line.opcode \in OpcodeName
      <4>1. LinesRead < Len(table) /\ line.opcode # ""
        BY <2>3 DEF ReadOpcode, line
      <4>2. QED
        BY <2>2, <4>1 DEF TableLine
    <3>2. opcodes' = Append(opcodes, line.opcode) /\ macros' = macros /\ LinesRead < Len(table)
      BY <2>3 DEF ReadOpcode, line
    <3>3. QED
      BY <1>7, <3>1, <3>2 DEF LinesRead
  <2>4. CASE ReadMacro
    <3>1. LinesRead < Len(table) /\ line.opcode = ""
          /\ macros' = Append(macros, macro_from_string(line.words)) /\ opcodes' = opcodes
      BY <2>4 DEF ReadMacro, line
    <3>2. macro_from_string(line.words) \in Macro
      BY <2>2, <3>1, MacroType
    <3>3. PICK macro : macro = macro_from_string(line.words)
      OBVIOUS
    <3>4. macro \in Macro /\ macros' = Append(macros, macro) /\ opcodes' = opcodes
      BY <3>1, <3>2, <3>3
    <3>5. macros' \in Seq(Macro) /\ Len(macros') = Len(macros) + 1
      BY <1>7, <3>4
    <3>6. Len(opcodes) + Len(macros) < Len(table) /\ opcodes' = opcodes
      BY <3>1, Zenon DEF LinesRead
    <3>7. QED
      BY <1>7, <3>5, <3>6
  <2>5. QED
    BY <2>1, <2>3, <2>4 DEF Table
<1>9. MacroTypeOK'
  BY <1>2, <1>7, <1>8 DEF TypeOK, MacroTypeOK
<1>10. TypeOK'
  BY <1>3, <1>5, <1>6, <1>9 DEF TypeOK, KnownErrors
<1>11. errors' \cap ReadErrors = errors \cap ReadErrors
  BY <1>4 DEF TableErrors, ReadErrors
<1>12. Progress'
  BY <1>1, <1>2, <1>6, <1>11 DEF Progress, programVars, commentVars
<1>13. SourceLeftAlone
  <2>1. errors' \subseteq errors \cup (KnownErrors \ ReadErrors)
    BY <1>4 DEF TableErrors, ReadErrors, KnownErrors
  <2>2. QED
    BY <1>1, <1>2, <1>4, <1>6, <2>1 DEF SourceLeftAlone, programVars
<1>14. QED
  BY <1>10, <1>12, <1>13

(* Macros within macros.                                                   *)
LEMMA EmbeddedMacros ==
  ASSUME macros \in Seq(Macro),
         NEW list, list = [i \in DOMAIN macros |-> [macros[i] EXCEPT
             !.items = FlattenSeq([k \in DOMAIN @ |-> Embedded(@[k])])]]
  PROVE  list \in Seq(Macro) /\ Len(list) = Len(macros)
<1> DEFINE Part(i) == [k \in DOMAIN macros[i].items |-> Embedded(macros[i].items[k])]
           Rewritten(i) == [macros[i] EXCEPT !.items = FlattenSeq(Part(i))]
<1>1. \A i \in DOMAIN macros : Rewritten(i) \in Macro
  <2> TAKE i \in DOMAIN macros
  <2>1. macros[i] \in Macro
    OBVIOUS
  <2>2. PICK items : items = macros[i].items
    OBVIOUS
  <2>3. items \in Seq(Item)
    BY <2>1, <2>2 DEF Macro
  <2>4. \A k \in DOMAIN items : Embedded(items[k]) \in Seq(Item)
    BY <2>3, EmbeddedType
  <2>5. [k \in DOMAIN items |-> Embedded(items[k])] \in Seq(Seq(Item))
    <3> DEFINE e(k) == Embedded(items[k])
    <3>1. \A k \in DOMAIN items : e(k) \in Seq(Item)
      BY <2>4
    <3>2. DOMAIN items = 1..Len(items) /\ Len(items) \in Nat
      BY <2>3
    <3> HIDE DEF e
    <3>3. [k \in DOMAIN items |-> e(k)] \in Seq(Seq(Item))
      BY <3>1, <3>2
    <3>4. QED
      BY <3>3 DEF e
  <2>6. Part(i) \in Seq(Seq(Item))
    BY <2>2, <2>5, Zenon
  <2>7. FlattenSeq(Part(i)) \in Seq(Item)
    BY <2>6, FlattenType
  <2>8. PICK flat : flat = FlattenSeq(Part(i))
    OBVIOUS
  <2>9. [macros[i] EXCEPT !.items = flat] \in Macro
    BY <2>1, <2>7, <2>8 DEF Macro
  <2>10. QED
    BY <2>8, <2>9, Zenon
<1>2. list = [i \in DOMAIN macros |-> Rewritten(i)]
  BY Zenon
<1>3. DOMAIN macros = 1..Len(macros) /\ Len(macros) \in Nat
  OBVIOUS
<1> HIDE DEF Rewritten
<1>4. list \in Seq(Macro)
  BY ONLY <1>1, <1>2, <1>3
<1>5. Len(list) = Len(macros)
  BY ONLY <1>2, <1>3
<1>6. QED
  BY <1>4, <1>5

LEMMA EmbeddingKeeps ==
  ASSUME TypeOK, Progress, Embedding
  PROVE  TypeOK' /\ Progress' /\ SourceLeftAlone
<1>1. phase = "embedded" /\ stack = << >> /\ opened_files = << >>
  BY DEF Embedding, EmbedMacros, EmbeddingEnds, Progress
<1>2. UNCHANGED programVars /\ table' = table /\ opcodes' = opcodes /\ pass0' = pass0
  BY DEF Embedding, EmbedMacros, EmbeddingEnds, macroVars
<1>3. ReaderTypeOK'
  BY <1>2 DEF programVars, commentVars, TypeOK, ReaderTypeOK
<1>4. errors \subseteq errors' /\ errors' \subseteq errors \cup MacroErrors
  <2>1. UNION { ErrorsIn(Called(call), call) : call \in Calls } \subseteq MacroErrors
    BY ErrorsInAre
  <2>2. "too many passes" \in MacroErrors
    BY DEF MacroErrors
  <2>3. CASE EmbedMacros
    BY <2>1, <2>3 DEF EmbedMacros
  <2>4. CASE EmbeddingEnds
    BY <2>2, <2>4 DEF EmbeddingEnds
  <2>5. QED
    BY <2>3, <2>4 DEF Embedding
<1>5. errors' \subseteq KnownErrors
  BY <1>4 DEF TypeOK, KnownErrors
<1>6. phase' \in {"embedded", "panicked", "reading"}
  BY <1>1 DEF Embedding, EmbedMacros, EmbeddingEnds
<1>7. /\ macros \in Seq(Macro) /\ pass \in 0..MaxPasses /\ changed \in BOOLEAN /\ MaxPasses \in Nat
      /\ table \in Seq(TableLine) /\ opcodes \in Seq(OpcodeName)
      /\ Len(opcodes) + Len(macros) <= Len(table)
  BY MacrosAssumption DEF TypeOK, MacroTypeOK
<1>8. macros' \in Seq(Macro) /\ Len(macros') = Len(macros) /\ pass' \in 0..MaxPasses
      /\ changed' \in BOOLEAN
  <2>1. CASE EmbedMacros
    <3>1. changed' \in BOOLEAN
      BY <2>1 DEF EmbedMacros
    <3>2. CASE macros' = macros /\ pass' = pass
      BY <1>7, <3>1, <3>2
    <3>3. CASE /\ macros' = [i \in DOMAIN macros |-> [macros[i] EXCEPT
                    !.items = FlattenSeq([k \in DOMAIN @ |-> Embedded(@[k])])]]
               /\ pass' = pass + 1
      <4>1. PICK list : list = macros'
        OBVIOUS
      <4>2. list \in Seq(Macro) /\ Len(list) = Len(macros)
        BY <1>7, <3>3, <4>1, EmbeddedMacros
      <4>3. pass < MaxPasses
        BY <2>1 DEF EmbedMacros
      <4>4. QED
        BY <1>7, <3>1, <3>3, <4>1, <4>2, <4>3
    <3>4. QED
      BY <2>1, <3>2, <3>3, Zenon DEF EmbedMacros, NextPass
  <2>2. CASE EmbeddingEnds
    BY <1>7, <2>2 DEF EmbeddingEnds, macroVars
  <2>3. QED
    BY <2>1, <2>2 DEF Embedding
<1>9. MacroTypeOK'
  BY <1>2, <1>7, <1>8 DEF TypeOK, MacroTypeOK
<1>10. TypeOK'
  BY <1>3, <1>5, <1>6, <1>9 DEF TypeOK, KnownErrors
<1>11. errors' \cap ReadErrors = errors \cap ReadErrors
  BY <1>4 DEF MacroErrors, ReadErrors
<1>12. Progress'
  BY <1>1, <1>2, <1>6, <1>11 DEF Progress, programVars, commentVars
<1>13. SourceLeftAlone
  <2>1. errors' \subseteq errors \cup (KnownErrors \ ReadErrors)
    BY <1>4 DEF MacroErrors, ReadErrors, KnownErrors
  <2>2. QED
    BY <1>1, <1>2, <1>4, <1>6, <2>1 DEF SourceLeftAlone, programVars
<1>14. QED
  BY <1>10, <1>12, <1>13

(* remove_block_comments, a line at a time.                                *)
LEMMA CommentsKeep ==
  ASSUME TypeOK, Progress, Comments
  PROVE  TypeOK' /\ Progress' /\ SourceLeftAlone
<1>1. phase = "comments" /\ stack = << >> /\ Len(new_lines) = next_line - 1
  BY DEF Comments, RemoveComments, EndComments, Progress
<1>2. UNCHANGED macroVars /\ files' = files /\ stack' = stack /\ opened_files' = opened_files
      /\ lines' = lines
  BY DEF Comments, RemoveComments, EndComments
<1>3. MacroTypeOK'
  BY <1>2 DEF macroVars, TypeOK, MacroTypeOK
<1>4. /\ lines \in Seq(InputData) /\ next_line \in 1..(Len(lines) + 1) /\ Len(lines) \in Nat
      /\ new_lines \in Seq(InputData) /\ in_comment \in BOOLEAN /\ Len(new_lines) \in Nat
  BY DEF TypeOK, ReaderTypeOK
<1>5. CASE RemoveComments
  <2>1. PICK line : line = lines[next_line]
    OBVIOUS
  <2>2. PICK other_file : other_file =
          (next_line = 1 \/ lines[next_line - 1].file_name # line.file_name)
    OBVIOUS
  <2>3. PICK inside : inside = (in_comment /\ ~other_file)
    OBVIOUS
  <2>4. PICK scanned : scanned = ScannedLine(line.text, inside)
    OBVIOUS
  <2>5. next_line <= Len(lines) /\ next_line' = next_line + 1 /\ phase' = phase
    BY <1>5 DEF RemoveComments
  <2>6. line \in InputData /\ line.text \in Seq(Token)
    <3>1. line \in InputData
      BY <1>4, <2>1, <2>5
    <3>2. QED
      BY <3>1 DEF InputData
  <2>7. inside \in BOOLEAN
    BY <2>3
  <2>8. scanned.in_comment \in BOOLEAN /\ scanned.out \in Seq(Token)
    BY <2>4, <2>6, <2>7, ScannedLineType
  <2>9. [line EXCEPT !.text = scanned.out] \in InputData
    BY <2>6, <2>8 DEF InputData
  <2>10. in_comment' = scanned.in_comment
         /\ new_lines' = Append(new_lines, [line EXCEPT !.text = scanned.out])
    BY <1>5, <2>1, <2>2, <2>3, <2>4, Zenon DEF RemoveComments
  <2>11. errors \subseteq errors' /\ errors' \subseteq errors \cup {"comment"}
    BY <1>5 DEF RemoveComments
  <2>12. PICK new : new = [line EXCEPT !.text = scanned.out]
    OBVIOUS
  <2>13. new \in InputData /\ new_lines' = Append(new_lines, new)
    BY <2>9, <2>10, <2>12
  <2>14. new_lines' \in Seq(InputData) /\ Len(new_lines') = Len(new_lines) + 1
    BY <1>4, <2>13
  <2>15. next_line' \in 1..(Len(lines) + 1) /\ Len(new_lines') = next_line' - 1
    BY <1>1, <1>4, <2>5, <2>14
  <2>16. ReaderTypeOK'
    BY <1>2, <2>8, <2>10, <2>14, <2>15 DEF TypeOK, ReaderTypeOK
  <2>17. errors' \subseteq KnownErrors
    BY <2>11 DEF TypeOK, KnownErrors
  <2>18. TypeOK'
    BY <1>1, <1>3, <2>5, <2>16, <2>17 DEF TypeOK, KnownErrors
  <2>19. Progress'
    BY <1>1, <1>2, <2>5, <2>15 DEF Progress
  <2>20. errors' \subseteq errors \cup (KnownErrors \ ReadErrors)
    BY <2>11 DEF KnownErrors, ReadErrors
  <2>21. SourceLeftAlone
    BY <1>1, <1>2, <2>5, <2>11, <2>20 DEF SourceLeftAlone
  <2>22. QED
    BY <2>18, <2>19, <2>21
<1>6. CASE EndComments
  <2>1. /\ next_line > Len(lines) /\ phase' = "macros" /\ next_line' = 1 /\ errors' = errors
        /\ in_comment' = in_comment /\ new_lines' = new_lines
    BY <1>6 DEF EndComments, commentVars
  <2>2. next_line' \in 1..(Len(lines) + 1)
    BY <1>4, <2>1
  <2>3. ReaderTypeOK'
    BY <1>2, <2>1, <2>2 DEF TypeOK, ReaderTypeOK
  <2>4. TypeOK'
    BY <1>3, <2>1, <2>3 DEF TypeOK
  <2>5. Len(new_lines') = Len(lines')
    BY <1>1, <1>2, <1>4, <2>1
  <2>6. Progress'
    BY <1>1, <1>2, <2>1, <2>5 DEF Progress
  <2>7. SourceLeftAlone
    BY <1>1, <1>2, <2>1 DEF SourceLeftAlone
  <2>8. QED
    BY <2>4, <2>6, <2>7
<1>7. QED
  BY <1>5, <1>6 DEF Comments

LEMMA LinesOfTexts ==
  ASSUME NEW line \in InputData, NEW texts \in Seq(Seq(Token))
  PROVE  [k \in DOMAIN texts |-> [line EXCEPT !.text = texts[k]]] \in Seq(InputData)
<1> DEFINE L(k) == [line EXCEPT !.text = texts[k]]
<1>1. \A k \in DOMAIN texts : L(k) \in InputData
  <2> TAKE k \in DOMAIN texts
  <2>1. PICK text : text = texts[k]
    OBVIOUS
  <2>2. text \in Seq(Token)
    BY <2>1
  <2>3. [line EXCEPT !.text = text] \in InputData
    BY <2>2 DEF InputData
  <2>4. QED
    BY <2>1, <2>3
<1>2. DOMAIN texts = 1..Len(texts) /\ Len(texts) \in Nat
  OBVIOUS
<1> HIDE DEF L
<1>3. [k \in DOMAIN texts |-> L(k)] \in Seq(InputData)
  BY <1>1, <1>2
<1>4. QED
  BY <1>3 DEF L

(* expand_macros, a line at a time.                                        *)
LEMMA ExpandingKeeps ==
  ASSUME TypeOK, Progress, Expanding
  PROVE  TypeOK' /\ Progress' /\ SourceLeftAlone
<1>1. phase = "macros" /\ stack = << >> /\ Len(new_lines) = Len(lines)
  BY DEF Expanding, ExpandLine, ExpansionEnds, Progress
<1>2. /\ files' = files /\ stack' = stack /\ opened_files' = opened_files /\ lines' = lines
      /\ in_comment' = in_comment /\ new_lines' = new_lines
      /\ table' = table /\ opcodes' = opcodes /\ macros' = macros /\ pass' = pass
      /\ changed' = changed
  BY DEF Expanding, ExpandLine, ExpansionEnds, programVars, macroVars, commentVars
<1>3. /\ next_line \in 1..(Len(lines) + 1) /\ Len(lines) \in Nat /\ pass0 \in Seq(InputData)
      /\ new_lines \in Seq(InputData) /\ macros \in Seq(Macro)
  BY DEF TypeOK, ReaderTypeOK, MacroTypeOK
<1>4. CASE ExpandLine
  <2>1. PICK line : line = new_lines[next_line]
    OBVIOUS
  <2>2. PICK call : call = line.text
    OBVIOUS
  <2>3. PICK texts : texts =
          IF IsCall(call) /\ Defined(macros, call) THEN Expansion(call) ELSE << call >>
    OBVIOUS
  <2>4. next_line <= Len(new_lines) /\ next_line' = next_line + 1 /\ phase' = phase
    BY <1>4 DEF ExpandLine
  <2>5. line \in InputData /\ call \in Seq(Token)
    <3>1. line \in InputData
      BY <1>3, <2>1, <2>4
    <3>2. QED
      BY <2>2, <3>1 DEF InputData
  <2>6. texts \in Seq(Seq(Token))
    <3>1. Expansion(call) \in Seq(Seq(Token))
      BY <1>3, <2>5, ExpansionType
    <3>2. << call >> \in Seq(Seq(Token))
      BY <2>5
    <3>3. QED
      BY <2>3, <3>1, <3>2
  <2>7. pass0' = pass0 \o [k \in DOMAIN texts |-> [line EXCEPT !.text = texts[k]]]
    BY <1>4, <2>1, <2>2, <2>3, Zenon DEF ExpandLine
  <2>8. PICK more : more = [k \in DOMAIN texts |-> [line EXCEPT !.text = texts[k]]]
    OBVIOUS
  <2>9. more \in Seq(InputData) /\ pass0' = pass0 \o more
    BY <2>5, <2>6, <2>7, <2>8, LinesOfTexts
  <2>10. pass0' \in Seq(InputData)
    BY <1>3, <2>9
  <2>11. errors \subseteq errors' /\ errors' \subseteq errors \cup MacroErrors
    <3>1. ErrorsIn(Definitions(call[1]), call) \subseteq MacroErrors
      BY ErrorsInAre
    <3>2. {"macro not found"} \subseteq MacroErrors
      BY DEF MacroErrors
    <3>3. errors' = errors \cup
              IF ~IsCall(call) THEN {}
              ELSE IF Defined(macros, call) THEN ErrorsIn(Definitions(call[1]), call)
              ELSE {"macro not found"}
      BY <1>4, <2>1, <2>2, Zenon DEF ExpandLine
    <3>4. QED
      BY <3>1, <3>2, <3>3
  <2>12. next_line' \in 1..(Len(lines) + 1)
    BY <1>1, <1>3, <2>4
  <2>13. ReaderTypeOK'
    BY <1>2, <2>12 DEF TypeOK, ReaderTypeOK
  <2>14. MacroTypeOK'
    BY <1>2, <2>10 DEF TypeOK, MacroTypeOK
  <2>15. errors' \subseteq KnownErrors
    BY <2>11 DEF TypeOK, KnownErrors
  <2>16. TypeOK'
    BY <1>1, <2>4, <2>13, <2>14, <2>15 DEF TypeOK, KnownErrors
  <2>17. Progress'
    BY <1>1, <1>2, <2>4 DEF Progress
  <2>18. errors' \subseteq errors \cup (KnownErrors \ ReadErrors)
    BY <2>11 DEF KnownErrors, MacroErrors, ReadErrors
  <2>19. SourceLeftAlone
    BY <1>1, <1>2, <2>4, <2>11, <2>18 DEF SourceLeftAlone
  <2>20. QED
    BY <2>16, <2>17, <2>19
<1>5. CASE ExpansionEnds
  <2>1. phase' = "done" /\ errors' = errors /\ next_line' = next_line /\ pass0' = pass0
    BY <1>5 DEF ExpansionEnds, programVars, macroVars
  <2>2. TypeOK'
    BY <1>2, <2>1 DEF TypeOK, ReaderTypeOK, MacroTypeOK
  <2>3. Progress'
    BY <1>1, <1>2, <2>1 DEF Progress
  <2>4. SourceLeftAlone
    BY <1>1, <1>2, <2>1 DEF SourceLeftAlone
  <2>5. QED
    BY <2>2, <2>3, <2>4
<1>6. QED
  BY <1>4, <1>5 DEF Expanding

-----------------------------------------------------------------------------
(* The inductive invariant holds.                                          *)

LEMMA InitInv == Init => IInv
<1> SUFFICES ASSUME Init
             PROVE  IInv
  OBVIOUS
<1>1. /\ stack = << >> /\ opened_files = << >> /\ lines = << >> /\ next_line = 1
      /\ in_comment = FALSE /\ new_lines = << >> /\ opcodes = << >> /\ macros = << >>
      /\ pass = 0 /\ changed = TRUE /\ pass0 = << >> /\ phase = "table" /\ errors = {}
  BY DEF Init, ReaderInit, MacrosInit
<1>2. /\ table \in Seq(TableLine) /\ DOMAIN files \subseteq FileName
      /\ \A f \in DOMAIN files : files[f] \in Seq(Line)
  BY InputsAssumption DEF Init
<1>3. ReaderTypeOK
  <2>1. IsFiniteSet(FileName)
    BY SourceReaderAssumption
  <2>2. Cardinality(FileName) \in Nat
    BY <2>1, FS_CardinalityType
  <2>3. Len(stack) <= Cardinality(FileName)
    BY <1>1, <2>2
  <2>4. next_line \in 1..(Len(lines) + 1)
    BY <1>1
  <2>5. /\ stack \in Seq(Frame) /\ opened_files \in Seq(FileName) /\ lines \in Seq(InputData)
        /\ new_lines \in Seq(InputData) /\ in_comment \in BOOLEAN
    <3>1. \A S : << >> \in Seq(S)
      OBVIOUS
    <3>2. QED
      BY <1>1, <3>1, Zenon
  <2>6. QED
    BY <1>2, <2>3, <2>4, <2>5 DEF ReaderTypeOK
<1>4. MacroTypeOK
  <2>1. MaxPasses \in Nat
    BY MacrosAssumption
  <2>2. Len(table) \in Nat
    BY <1>2
  <2>3. QED
    BY <1>1, <1>2, <2>1, <2>2 DEF MacroTypeOK
<1>5. TypeOK
  BY <1>1, <1>3, <1>4 DEF TypeOK
<1>6. Progress
  BY <1>1 DEF Progress
<1>7. CallsRemembered
  BY <1>1, Emptied DEF CallsRemembered
<1>8. InPlace
  <2>1. \A i \in 1..Len(stack) : CallInPlace(files, stack, i)
    BY <1>1
  <2>2. QED
    BY <1>1, <2>1 DEF InPlace, ReadSoFar
<1>9. QED
  BY <1>5, <1>6, <1>7, <1>8 DEF IInv

LEMMA NextInv == IInv /\ [Next]_vars => IInv'
<1> SUFFICES ASSUME IInv, [Next]_vars
             PROVE  IInv'
  OBVIOUS
<1>1. TypeOK /\ Progress /\ CallsRemembered /\ InPlace
  BY DEF IInv
<1>2. ASSUME UNCHANGED vars
      PROVE  IInv'
  BY <1>1, <1>2 DEF IInv, vars, programVars, macroVars, commentVars, TypeOK, ReaderTypeOK,
     MacroTypeOK, Progress, CallsRemembered, InPlace, ReadSoFar
<1>3. ASSUME Table \/ Embedding \/ Comments \/ Expanding
      PROVE  IInv'
  <2>1. TypeOK' /\ Progress' /\ SourceLeftAlone
    BY <1>1, <1>3, TableKeeps, EmbeddingKeeps, CommentsKeep, ExpandingKeeps
  <2>2. CallsRemembered' /\ InPlace'
    BY <1>1, <2>1, StaysInPlace
  <2>3. QED
    BY <2>1, <2>2 DEF IInv
<1>4. ASSUME Source
      PROVE  IInv'
  <2>1. phase = "reading" /\ UNCHANGED macroVars
    BY <1>4 DEF Source, Reading, OpenMain, ReadText, LineFails, ReadInclude, IncludeFails,
       IncludeWithoutName, EndOfFile
  <2>2. ReadingStep
    BY <1>1, <1>4, Opens, ReadsText, ReadsInclude, Returns DEF Source, Reading
  <2>3. TypeOK' /\ Progress' /\ CallsRemembered'
    BY <1>1, <2>1, <2>2, AfterReading
  <2>4. InPlace'
    BY <1>1, <1>4, OpensInPlace, ReadsTextInPlace, ReadsIncludeInPlace, FailureNoticed,
       EndsInPlace DEF Source, Reading
  <2>5. QED
    BY <2>3, <2>4 DEF IInv
<1>5. QED
  BY <1>2, <1>3, <1>4 DEF Next

(* The inductive invariant holds in every state of every pass over any     *)
(* source and opcode file (files.rs, macros.rs, main.rs).                  *)
THEOREM Inductive == Spec => []IInv
<1>1. QED
  BY InitInv, NextInv, PTL DEF Spec

(* TypeCorrect: read_file_to_vector, the opcode file, remove_block_comments*)
(* and expand_macros work on what TypeOK says whatever files and macros    *)
(* there are; in particular a file that is read is never read again inside *)
(* itself, so there are never more calls of read_file_to_vector than files.*)
THEOREM TypeCorrect == Spec => []TypeOK
<1>1. IInv => TypeOK
  BY DEF IInv
<1>2. QED
  BY <1>1, Inductive, PTL

(* IncludesInPlaceAlways: whatever tree of !include lines the files make,  *)
(* and however often a file is included, read_file_to_vector either leaves *)
(* an Error or gives exactly the lines of the files, each in its place     *)
(* with its own file name and line number; and it leaves no Error for a    *)
(* source whose includes are all right.                                    *)
THEOREM IncludesInPlaceAlways == Spec => []IncludesInPlace
<1>1. IInv => IncludesInPlace
  <2> SUFFICES ASSUME IInv
               PROVE  IncludesInPlace
    OBVIOUS
  <2>1. MainOf(files) = MainInclusion
    BY Zenon DEF MainOf, MainInclusion
  <2>2. InPlace
    BY DEF IInv
  <2>3. CASE errors \cap ReadErrors = {}
    <3>1. /\ phase \in {"comments", "macros", "done"} =>
               MainInclusion.ok /\ lines = MainInclusion.lines
          /\ phase = "failed" => "no table" \in errors
      BY <2>1, <2>2, <2>3 DEF InPlace, ReadSoFar
    <3>2. QED
      BY <2>3, <3>1, Zenon DEF IncludesInPlace
  <2>4. CASE errors \cap ReadErrors # {}
    <3>1. ~MainInclusion.ok
      BY <2>1, <2>2, <2>4 DEF InPlace
    <3>2. QED
      BY <2>4, <3>1, Zenon DEF IncludesInPlace
  <2>5. QED
    BY <2>3, <2>4
<1>2. QED
  BY <1>1, Inductive, PTL
================================================================================
