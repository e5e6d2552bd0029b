-------------------------- MODULE SourceContract_proofs -------------------------
(***************************************************************************)
(* What becomes of the lines of a program, for every tree of files and     *)
(* every opcode file: block comments, over any number of lines, are taken  *)
(* out and nothing else is; macro calls, through any number of macros, are *)
(* replaced by their whole expansion or leave an Error.                    *)
(***************************************************************************)
EXTENDS SourceContract, Source_proofs

-----------------------------------------------------------------------------
(* A text without its comments: the function that Uncommented goes by.     *)
Char == Token \cup {"newline"}
Remains == [kept : Seq(Char), open : BOOLEAN]

FirstClosing(text, i) == CHOOSE j \in Closings(text, i) : \A k \in Closings(text, i) : j <= k

From(text, g, i) ==
  IF i > Len(text) THEN [kept |-> << >>, open |-> FALSE]
  ELSE IF ~OpensAt(text, i) THEN [g[i + 1] EXCEPT !.kept = << text[i] >> \o @]
  ELSE IF Closings(text, i) = {} THEN [kept |-> Ends(text, i, Len(text)), open |-> TRUE]
  ELSE [g[FirstClosing(text, i) + 2] EXCEPT !.kept = Ends(text, i, FirstClosing(text, i)) \o @]

LEMMA FirstClosingIs ==
  ASSUME NEW text, NEW i \in Nat, Closings(text, i) # {}
  PROVE  /\ FirstClosing(text, i) \in Closings(text, i)
         /\ \A k \in Closings(text, i) : FirstClosing(text, i) <= k
<1> DEFINE found == Closings(text, i)
<1>1. found \subseteq Nat /\ found # {}
  BY DEF Closings
<1>2. \E j \in found : \A k \in found : j <= k
  <2> HIDE DEF found
  <2>1. QED
    BY <1>1, LeastOf
<1>3. QED
  BY <1>2 DEF FirstClosing

LEMMA ClosingWithin ==
  ASSUME NEW text \in Seq(Char), NEW i \in Nat, NEW j \in Closings(text, i)
  PROVE  /\ j \in Nat /\ j >= i + 2 /\ j + 1 <= Len(text)
         /\ j + 2 \in (i + 1)..(Len(text) + 1)
<1>1. Len(text) \in Nat
  OBVIOUS
<1>2. j \in (i + 2)..Len(text) /\ j + 1 <= Len(text)
  BY DEF Closings, ClosedAt
<1>3. QED
  BY <1>1, <1>2

LEMMA LineEndIsChar == << "newline" >> \in Seq(Char) /\ << >> \in Seq(Char)
<1>1. "newline" \in Char
  BY DEF Char
<1>2. QED
  BY <1>1

LEMMA EndsType ==
  ASSUME NEW text \in Seq(Char), NEW i \in Nat, NEW j \in Nat, j + 1 >= i
  PROVE  Ends(text, i, j) \in Seq(Char)
<1> DEFINE e(k) == IF text[i + k - 1] = "newline" THEN << "newline" >> ELSE << >>
           n == j - i + 1
<1>1. \A k : e(k) \in Seq(Char)
  BY LineEndIsChar
<1>2. n \in Nat
  OBVIOUS
<1>3. Ends(text, i, j) = FlattenSeq([k \in 1..n |-> e(k)])
  BY Zenon DEF Ends
<1> HIDE DEF e, n
<1>4. [k \in 1..n |-> e(k)] \in Seq(Seq(Char))
  BY <1>1, <1>2
<1>5. QED
  BY <1>3, <1>4, FlattenType

(* One position more.                                                      *)
LEMMA EndsMore ==
  ASSUME NEW text \in Seq(Char), NEW i \in Nat, NEW j \in Nat, j + 1 >= i
  PROVE  Ends(text, i, j + 1) =
           Ends(text, i, j) \o IF text[j + 1] = "newline" THEN << "newline" >> ELSE << >>
<1> DEFINE e(k) == IF text[i + k - 1] = "newline" THEN << "newline" >> ELSE << >>
           n == j - i + 1
           f == [k \in 1..(n + 1) |-> e(k)]
<1>1. \A k : e(k) \in Seq(Char)
  BY LineEndIsChar
<1>2. n \in Nat /\ j + 1 - i + 1 = n + 1 /\ i + (n + 1) - 1 = j + 1
  OBVIOUS
<1>3. Ends(text, i, j) = FlattenSeq([k \in 1..n |-> e(k)])
  BY Zenon DEF Ends
<1>4. Ends(text, i, j + 1) = FlattenSeq([k \in 1..(n + 1) |-> e(k)])
  <2>1. PICK m : m = j + 1
    OBVIOUS
  <2>2. Ends(text, i, m) = FlattenSeq([k \in 1..(m - i + 1) |-> e(k)])
    BY Zenon DEF Ends
  <2>3. m - i + 1 = n + 1
    BY <2>1
  <2>4. QED
    BY <2>1, <2>2, <2>3, Zenon
<1>5. e(n + 1) = IF text[j + 1] = "newline" THEN << "newline" >> ELSE << >>
  BY <1>2
<1> HIDE DEF e, n
<1>6. /\ \A k \in 1..(n + 1) : f[k] = e(k)
      /\ [k \in 1..n |-> e(k)] = [k \in 1..n |-> f[k]]
      /\ [k \in 1..(n + 1) |-> e(k)] = [k \in 1..(n + 1) |-> f[k]]
      /\ f[n + 1] = e(n + 1)
  BY <1>2
<1>7. \A k \in 1..(n + 1) : f[k] \in Seq(Char)
  BY <1>1, <1>6
<1> HIDE DEF f
<1>8. FlattenSeq([k \in 1..(n + 1) |-> f[k]]) = FlattenSeq([k \in 1..n |-> f[k]]) \o f[n + 1]
  BY <1>2, <1>7, FlattenMore
<1>9. QED
  BY <1>3, <1>4, <1>5, <1>6, <1>8, Zenon

LEMMA NoEnds ==
  ASSUME NEW text \in Seq(Char), NEW i \in Nat, i > 0
  PROVE  Ends(text, i, i - 1) = << >>
<1>1. i - 1 - i + 1 = 0
  OBVIOUS
<1>2. \A e : [k \in 1..0 |-> e[k]] = << >>
  OBVIOUS
<1> DEFINE e == [k \in Nat |-> IF text[i + k - 1] = "newline" THEN << "newline" >> ELSE << >>]
<1>3. Ends(text, i, i - 1) =
        FlattenSeq([k \in 1..0 |-> IF text[i + k - 1] = "newline" THEN << "newline" >> ELSE << >>])
  BY <1>1, Zenon DEF Ends
<1>4. [k \in 1..0 |-> IF text[i + k - 1] = "newline" THEN << "newline" >> ELSE << >>] = << >>
  OBVIOUS
<1>5. QED
  BY <1>3, <1>4, FlattenEmpty

LEMMA FromType ==
  ASSUME NEW text \in Seq(Char), NEW g, NEW i \in 1..(Len(text) + 1),
         \A k \in (i + 1)..(Len(text) + 1) : g[k] \in Remains
  PROVE  From(text, g, i) \in Remains
<1>1. i \in Nat /\ i > 0 /\ Len(text) \in Nat
  OBVIOUS
<1>2. CASE i > Len(text)
  <2>1. << >> \in Seq(Char)
    OBVIOUS
  <2>2. QED
    BY <1>2, <2>1 DEF From, Remains
<1>3. ASSUME NEW r \in Remains, NEW more \in Seq(Char)
      PROVE  [r EXCEPT !.kept = more \o @] \in Remains
  <2>1. r.kept \in Seq(Char)
    BY DEF Remains
  <2>2. PICK all : all = more \o r.kept
    OBVIOUS
  <2>3. all \in Seq(Char)
    BY <2>1, <2>2
  <2>4. [r EXCEPT !.kept = all] \in Remains
    BY <2>3 DEF Remains
  <2>5. QED
    BY <2>2, <2>4
<1>4. CASE i <= Len(text) /\ ~OpensAt(text, i)
  <2>1. << text[i] >> \in Seq(Char) /\ g[i + 1] \in Remains
    BY <1>1, <1>4
  <2>2. From(text, g, i) = [g[i + 1] EXCEPT !.kept = << text[i] >> \o @]
    BY <1>1, <1>4 DEF From
  <2>3. QED
    BY <1>3, <2>1, <2>2
<1>5. CASE i <= Len(text) /\ OpensAt(text, i) /\ Closings(text, i) = {}
  <2>1. Ends(text, i, Len(text)) \in Seq(Char)
    BY <1>1, <1>5, EndsType
  <2>2. From(text, g, i) = [kept |-> Ends(text, i, Len(text)), open |-> TRUE]
    BY <1>1, <1>5 DEF From
  <2>3. QED
    BY <2>1, <2>2 DEF Remains
<1>6. CASE i <= Len(text) /\ OpensAt(text, i) /\ Closings(text, i) # {}
  <2>1. PICK j : j = FirstClosing(text, i)
    OBVIOUS
  <2>2. j \in Closings(text, i)
    BY <1>1, <1>6, <2>1, FirstClosingIs
  <2>3. j \in Nat /\ j + 1 >= i /\ j + 2 \in (i + 1)..(Len(text) + 1)
    BY <1>1, <2>2, ClosingWithin
  <2>4. Ends(text, i, j) \in Seq(Char) /\ g[j + 2] \in Remains
    BY <1>1, <2>3, EndsType
  <2>5. From(text, g, i) = [g[j + 2] EXCEPT !.kept = Ends(text, i, j) \o @]
    BY <1>1, <1>6, <2>1 DEF From
  <2>6. QED
    BY <1>3, <2>4, <2>5
<1>7. QED
  BY <1>1, <1>2, <1>4, <1>5, <1>6

LEMMA FromSame ==
  ASSUME NEW text \in Seq(Char), NEW g, NEW h, NEW i \in 1..(Len(text) + 1),
         \A k \in (i + 1)..(Len(text) + 1) : g[k] = h[k]
  PROVE  From(text, g, i) = From(text, h, i)
<1>1. i \in Nat /\ i > 0 /\ Len(text) \in Nat
  OBVIOUS
<1>2. CASE i > Len(text)
  BY <1>2 DEF From
<1>3. CASE i <= Len(text) /\ ~OpensAt(text, i)
  <2>1. g[i + 1] = h[i + 1]
    BY <1>1, <1>3
  <2>2. QED
    BY <1>1, <1>3, <2>1 DEF From
<1>4. CASE i <= Len(text) /\ OpensAt(text, i) /\ Closings(text, i) = {}
  BY <1>1, <1>4 DEF From
<1>5. CASE i <= Len(text) /\ OpensAt(text, i) /\ Closings(text, i) # {}
  <2>1. PICK j : j = FirstClosing(text, i)
    OBVIOUS
  <2>2. j \in Closings(text, i)
    BY <1>1, <1>5, <2>1, FirstClosingIs
  <2>3. j + 2 \in (i + 1)..(Len(text) + 1)
    BY <1>1, <2>2, ClosingWithin
  <2>4. g[j + 2] = h[j + 2]
    BY <2>3
  <2>5. \A x : x[j + 2] = g[j + 2] =>
          From(text, x, i) = [g[j + 2] EXCEPT !.kept = Ends(text, i, j) \o @]
    BY <1>1, <1>5, <2>1 DEF From
  <2>6. QED
    BY <2>4, <2>5
<1>6. QED
  BY <1>1, <1>2, <1>3, <1>4, <1>5

-----------------------------------------------------------------------------
(* There is such a function: it is made from the end of the text on.       *)
Leaves(text, g) == g = [i \in 1..(Len(text) + 1) |-> From(text, g, i)]

LEMMA LeavesExist ==
  ASSUME NEW text \in Seq(Char)
  PROVE  \E g : Leaves(text, g) /\ \A i \in 1..(Len(text) + 1) : g[i] \in Remains
<1> DEFINE m == Len(text) + 1
           D(k) == (m - k)..m
           Good(k, g) == /\ g = [i \in D(k) |-> From(text, g, i)]
                         /\ \A i \in D(k) : g[i] \in Remains
           N == {k \in Nat : k < m => \E g : Good(k, g)}
<1>1. m \in Nat /\ m > 0 /\ m = Len(text) + 1
  OBVIOUS
<1> HIDE DEF m
<1>2. ASSUME NEW k \in Nat, k < m, NEW g, \A i \in (m - k + 1)..m : g[i] \in Remains,
             \A i \in (m - k + 1)..m : g[i] = From(text, g, i)
      PROVE  \E h : Good(k, h)
  <2> DEFINE h == [i \in D(k) |-> From(text, g, i)]
  <2>1. \A i \in D(k) : i \in 1..(Len(text) + 1) /\ \A j \in (i + 1)..(Len(text) + 1) : j \in (m - k + 1)..m
    BY <1>1, <1>2
  <2>2. \A i \in D(k) : h[i] = From(text, g, i) /\ h[i] \in Remains
    <3> TAKE i \in D(k)
    <3>1. \A j \in (i + 1)..(Len(text) + 1) : g[j] \in Remains
      BY <1>2, <2>1
    <3>2. From(text, g, i) \in Remains
      BY <2>1, <3>1, FromType
    <3>3. QED
      BY <3>2
  <2>3. \A i \in (m - k + 1)..m : i \in D(k)
    BY <1>1, <1>2
  <2> HIDE DEF h
  <2>4. \A i \in (m - k + 1)..m : h[i] = g[i]
    BY <1>2, <2>2, <2>3
  <2>5. \A i \in D(k) : h[i] = From(text, h, i)
    <3> TAKE i \in D(k)
    <3>1. \A j \in (i + 1)..(Len(text) + 1) : g[j] = h[j]
      BY <2>1, <2>4
    <3>2. From(text, g, i) = From(text, h, i)
      BY <2>1, <3>1, FromSame
    <3>3. QED
      BY <2>2, <3>2
  <2>6. h = [i \in D(k) |-> h[i]]
    BY DEF h
  <2>7. h = [i \in D(k) |-> From(text, h, i)]
    BY <2>5, <2>6, Zenon
  <2>8. Good(k, h)
    BY <2>2, <2>7, Zenon
  <2>9. QED
    BY <2>8
<1>3. 0 \in N
  <2>1. PICK g : g = [i \in {} |-> 0]
    OBVIOUS
  <2>2. \A i \in (m - 0 + 1)..m : g[i] \in Remains /\ g[i] = From(text, g, i)
    BY <1>1
  <2>3. 0 \in Nat /\ 0 < m
    BY <1>1
  <2>4. \E h : Good(0, h)
    <3> HIDE DEF Good
    <3>1. QED
      BY <1>2, <2>2, <2>3
  <2>5. QED
    BY <2>4
<1>4. ASSUME NEW k \in Nat, k \in N
      PROVE  k + 1 \in N
  <2> SUFFICES ASSUME k + 1 < m
               PROVE  \E h : Good(k + 1, h)
    OBVIOUS
  <2>1. PICK g : Good(k, g)
    BY <1>1, <1>4
  <2>2. g = [i \in D(k) |-> From(text, g, i)] /\ \A i \in D(k) : g[i] \in Remains
    BY <2>1
  <2>3. \A i \in D(k) : g[i] = From(text, g, i)
    BY <2>2
  <2>4. PICK k1 : k1 = k + 1
    OBVIOUS
  <2>5. k1 \in Nat /\ k1 < m /\ \A i \in (m - k1 + 1)..m : i \in D(k)
    BY <1>1, <2>4
  <2>6. \A i \in (m - k1 + 1)..m : g[i] \in Remains /\ g[i] = From(text, g, i)
    BY <2>2, <2>3, <2>5
  <2>7. \E h : Good(k1, h)
    <3> HIDE DEF Good
    <3>1. QED
      BY <1>2, <2>5, <2>6
  <2>8. QED
    BY <2>4, <2>7
<1>5. \A k \in Nat : k \in N
  <2> HIDE DEF N
  <2>1. QED
    BY <1>3, <1>4, NumberInduction
<1>6. PICK k : k = m - 1
  OBVIOUS
<1>7. k \in Nat /\ k < m /\ m - k = 1
  BY <1>1, <1>6
<1>8. PICK g : Good(k, g)
  BY <1>5, <1>7
<1>9. D(k) = 1..(Len(text) + 1)
  BY <1>1, <1>7
<1>10. Leaves(text, g) /\ \A i \in 1..(Len(text) + 1) : g[i] \in Remains
  BY <1>8, <1>9, Zenon DEF Leaves
<1>11. QED
  BY <1>10

LEMMA UncommentedLeaves ==
  ASSUME NEW text \in Seq(Char)
  PROVE  \A i \in 1..(Len(text) + 1) : /\ Uncommented(text)[i] = From(text, Uncommented(text), i)
                                       /\ Uncommented(text)[i] \in Remains
<1> DEFINE u == CHOOSE u : Leaves(text, u)
           m == Len(text) + 1
<1>1. PICK g : Leaves(text, g)
  BY LeavesExist
<1>2. Leaves(text, u)
  BY <1>1
<1>3. Uncommented(text) = u
  BY Zenon DEF Uncommented, Leaves, From, FirstClosing
<1> HIDE DEF u
<1>4. u = [i \in 1..m |-> From(text, u, i)]
  BY <1>2, Zenon DEF Leaves
<1>5. m \in Nat /\ m > 0 /\ m = Len(text) + 1
  OBVIOUS
<1> HIDE DEF m
<1>6. \A i \in 1..m : u[i] = From(text, u, i)
  BY <1>4
<1> DEFINE N == {k \in Nat : k < m => \A i \in (m - k)..m : u[i] \in Remains}
<1>7. 0 \in N
  <2>1. m \in 1..(Len(text) + 1) /\ \A j \in (m + 1)..(Len(text) + 1) : u[j] \in Remains
    BY <1>5
  <2>2. From(text, u, m) \in Remains
    BY <2>1, FromType
  <2>3. u[m] \in Remains
    BY <1>5, <1>6, <2>2
  <2>4. \A i \in (m - 0)..m : i = m
    BY <1>5
  <2>5. QED
    BY <2>3, <2>4
<1>8. ASSUME NEW k \in Nat, k \in N
      PROVE  k + 1 \in N
  <2> SUFFICES ASSUME k + 1 < m
               PROVE  \A i \in (m - (k + 1))..m : u[i] \in Remains
    OBVIOUS
  <2>1. \A i \in (m - k)..m : u[i] \in Remains
    BY <1>5, <1>8
  <2>2. PICK i : i = m - (k + 1)
    OBVIOUS
  <2>3. i \in 1..m /\ i \in 1..(Len(text) + 1) /\ \A j \in (i + 1)..(Len(text) + 1) : j \in (m - k)..m
    BY <1>5, <2>2
  <2>4. \A j \in (i + 1)..(Len(text) + 1) : u[j] \in Remains
    BY <2>1, <2>3
  <2>5. From(text, u, i) \in Remains
    BY <2>3, <2>4, FromType
  <2>6. u[i] \in Remains
    BY <1>6, <2>3, <2>5
  <2>7. \A j \in i..m : j = i \/ j \in (m - k)..m
    BY <1>5, <2>2
  <2>8. QED
    BY <2>1, <2>2, <2>6, <2>7
<1>9. \A k \in Nat : k \in N
  <2> HIDE DEF N
  <2>1. QED
    BY <1>7, <1>8, NumberInduction
<1>10. \A i \in 1..m : u[i] \in Remains
  <2>1. PICK k : k = m - 1
    OBVIOUS
  <2>2. k \in Nat /\ k < m /\ m - k = 1
    BY <1>5, <2>1
  <2>3. \A i \in (m - k)..m : u[i] \in Remains
    BY <1>9, <2>2
  <2>4. QED
    BY <2>2, <2>3
<1>11. QED
  BY <1>3, <1>5, <1>6, <1>10

(* What is left from a position on, in each of the cases.                  *)
LEMMA LeavesNothing ==
  ASSUME NEW text \in Seq(Char), NEW i, i = Len(text) + 1
  PROVE  Uncommented(text)[i].kept = << >> /\ Uncommented(text)[i].open = FALSE
<1>1. i \in 1..(Len(text) + 1) /\ i > Len(text)
  OBVIOUS
<1>2. Uncommented(text)[i] = [kept |-> << >>, open |-> FALSE]
  BY <1>1, UncommentedLeaves DEF From
<1>3. QED
  BY <1>2

LEMMA LeavesChar ==
  ASSUME NEW text \in Seq(Char), NEW i \in 1..Len(text), ~OpensAt(text, i)
  PROVE  /\ Uncommented(text)[i].kept = << text[i] >> \o Uncommented(text)[i + 1].kept
         /\ Uncommented(text)[i].open = Uncommented(text)[i + 1].open
<1>1. i \in 1..(Len(text) + 1) /\ i + 1 \in 1..(Len(text) + 1) /\ ~(i > Len(text))
  OBVIOUS
<1>2. PICK r : r = Uncommented(text)[i + 1]
  OBVIOUS
<1>3. r \in Remains
  BY <1>1, <1>2, UncommentedLeaves
<1>4. Uncommented(text)[i] = [r EXCEPT !.kept = << text[i] >> \o @]
  BY <1>1, <1>2, UncommentedLeaves DEF From
<1>5. QED
  BY <1>2, <1>3, <1>4 DEF Remains

LEMMA LeavesOpen ==
  ASSUME NEW text \in Seq(Char), NEW i \in 1..Len(text), OpensAt(text, i), Closings(text, i) = {}
  PROVE  /\ Uncommented(text)[i].kept = Ends(text, i, Len(text))
         /\ Uncommented(text)[i].open = TRUE
<1>1. i \in 1..(Len(text) + 1) /\ ~(i > Len(text))
  OBVIOUS
<1>2. Uncommented(text)[i] = [kept |-> Ends(text, i, Len(text)), open |-> TRUE]
  BY <1>1, UncommentedLeaves DEF From
<1>3. QED
  BY <1>2

LEMMA LeavesComment ==
  ASSUME NEW text \in Seq(Char), NEW i \in 1..Len(text), OpensAt(text, i),
         NEW j \in Closings(text, i), \A k \in Closings(text, i) : j <= k
  PROVE  /\ Uncommented(text)[i].kept = Ends(text, i, j) \o Uncommented(text)[j + 2].kept
         /\ Uncommented(text)[i].open = Uncommented(text)[j + 2].open
<1>1. i \in 1..(Len(text) + 1) /\ ~(i > Len(text)) /\ i \in Nat /\ Closings(text, i) # {}
  OBVIOUS
<1>2. /\ FirstClosing(text, i) \in Closings(text, i)
      /\ \A k \in Closings(text, i) : FirstClosing(text, i) <= k
  BY <1>1, FirstClosingIs
<1>3. FirstClosing(text, i) = j
  <2>1. FirstClosing(text, i) \in Nat /\ j \in Nat
    BY <1>1, <1>2, ClosingWithin
  <2>2. QED
    BY <1>2, <2>1
<1>4. j + 2 \in (i + 1)..(Len(text) + 1)
  BY <1>1, ClosingWithin
<1>5. j + 2 \in 1..(Len(text) + 1)
  BY <1>1, <1>4
<1>6. PICK r : r = Uncommented(text)[j + 2]
  OBVIOUS
<1>7. r \in Remains
  BY <1>5, <1>6, UncommentedLeaves
<1>8. Uncommented(text)[i] = [r EXCEPT !.kept = Ends(text, i, j) \o @]
  BY <1>1, <1>3, <1>6, UncommentedLeaves DEF From
<1>9. QED
  BY <1>6, <1>7, <1>8 DEF Remains

-----------------------------------------------------------------------------
(* The scan at a position of a text: what it has written, before the       *)
(* current line and in it, and what is left of the rest of the text make   *)
(* up what is left of the whole.                                           *)
Settled(text, p, before, out) ==
  /\ Uncommented(text)[1].kept = before \o (out \o Uncommented(text)[p + 1].kept)
  /\ Uncommented(text)[1].open = Uncommented(text)[p + 1].open

(* Outside comments; in_char remembers a "/" only after a comment's end.   *)
Outside(text, p, before, out) ==
  /\ Settled(text, p, before, out)
  /\ p > 0 /\ text[p] = "/" => p > 1 /\ text[p - 1] = "*"

(* The "/" just written may yet open a comment.                            *)
AtSlash(text, p, before, out) ==
  /\ p > 0
  /\ text[p] = "/"
  /\ \E rest \in Seq(Char) :
       /\ out = Append(rest, "/")
       /\ Uncommented(text)[1].kept = before \o (rest \o Uncommented(text)[p].kept)
       /\ Uncommented(text)[1].open = Uncommented(text)[p].open

(* In a comment that begins at o.                                          *)
InComment(text, p, before, out) ==
  \E o \in 1..(p - 1) : \E rest \in Seq(Char) :
    /\ OpensAt(text, o)
    /\ \A j \in Closings(text, o) : j + 1 > p
    /\ before \o out = rest \o Ends(text, o, p)
    /\ Uncommented(text)[1].kept = rest \o Uncommented(text)[o].kept
    /\ Uncommented(text)[1].open = Uncommented(text)[o].open

ScannedTo(text, p, before, out, inside) ==
  IF inside THEN InComment(text, p, before, out)
  ELSE Outside(text, p, before, out) \/ AtSlash(text, p, before, out)

LEMMA Regrouped ==
  \A a, b, c \in Seq(Char) : (a \o b) \o c = a \o (b \o c)
BY ConcatAssociative, SMTT(30)

LEMMA LeavesChars ==
  ASSUME NEW text \in Seq(Char), NEW i \in 1..(Len(text) + 1)
  PROVE  Uncommented(text)[i].kept \in Seq(Char) /\ Uncommented(text)[i].open \in BOOLEAN
<1>1. Uncommented(text)[i] \in Remains
  BY UncommentedLeaves
<1>2. QED
  BY <1>1 DEF Remains

LEMMA ScanStarts ==
  ASSUME NEW text \in Seq(Char)
  PROVE  ScannedTo(text, 0, << >>, << >>, FALSE)
<1>1. PICK k : k = Uncommented(text)[1].kept
  OBVIOUS
<1>2. k \in Seq(Char)
  <2>1. 1 \in 1..(Len(text) + 1)
    OBVIOUS
  <2>2. QED
    BY <1>1, <2>1, LeavesChars
<1>3. k = << >> \o (<< >> \o k)
  BY <1>2
<1>4. 0 + 1 = 1 /\ ~(0 > 0)
  OBVIOUS
<1>5. QED
  BY <1>1, <1>3, <1>4 DEF ScannedTo, Outside, Settled

(* A "/" that opens no comment is written for good.                        *)
LEMMA SlashSettles ==
  ASSUME NEW text \in Seq(Char), NEW p \in 1..Len(text), NEW before \in Seq(Char),
         NEW out \in Seq(Char), AtSlash(text, p, before, out), ~OpensAt(text, p)
  PROVE  Settled(text, p, before, out)
<1>1. PICK rest \in Seq(Char) :
        /\ out = Append(rest, "/")
        /\ Uncommented(text)[1].kept = before \o (rest \o Uncommented(text)[p].kept)
        /\ Uncommented(text)[1].open = Uncommented(text)[p].open
  BY DEF AtSlash
<1>2. PICK k : k = Uncommented(text)[p + 1].kept
  OBVIOUS
<1>3. k \in Seq(Char)
  BY <1>2, LeavesChars
<1>4. text[p] = "/"
  BY DEF AtSlash
<1>5. /\ Uncommented(text)[p].kept = << "/" >> \o k
      /\ Uncommented(text)[p].open = Uncommented(text)[p + 1].open
  BY <1>2, <1>4, LeavesChar
<1>6. PICK slash : slash = << "/" >>
  OBVIOUS
<1>7. slash \in Seq(Char) /\ out = rest \o slash
  <2>1. "/" \in Char
    BY DEF Char, Token
  <2>2. QED
    BY <1>1, <1>6, <2>1, AppendJoins
<1>8. rest \o (slash \o k) = out \o k
  <2>1. (rest \o slash) \o k = rest \o (slash \o k)
    <3>1. rest \in Seq(Char) /\ slash \in Seq(Char) /\ k \in Seq(Char)
      BY <1>3, <1>7
    <3>2. QED
      BY ONLY <3>1, Regrouped, Zenon
  <2>2. QED
    BY <1>7, <2>1
<1>9. QED
  BY <1>1, <1>2, <1>5, <1>6, <1>8 DEF Settled

LEMMA CharSettles ==
  ASSUME NEW text \in Seq(Char), NEW p \in Nat, p < Len(text), NEW before \in Seq(Char),
         NEW out \in Seq(Char), Settled(text, p, before, out), ~OpensAt(text, p + 1)
  PROVE  Settled(text, p + 1, before, Append(out, text[p + 1]))
<1>1. PICK i : i = p + 1
  OBVIOUS
<1>2. i \in 1..Len(text) /\ i + 1 \in 1..(Len(text) + 1)
  BY <1>1
<1>3. PICK k : k = Uncommented(text)[i + 1].kept
  OBVIOUS
<1>4. k \in Seq(Char)
  BY <1>2, <1>3, LeavesChars
<1>5. PICK c : c = << text[i] >>
  OBVIOUS
<1>6. text[i] \in Char /\ c \in Seq(Char)
  BY <1>2, <1>5
<1>7. /\ Uncommented(text)[i].kept = c \o k
      /\ Uncommented(text)[i].open = Uncommented(text)[i + 1].open
  BY <1>1, <1>2, <1>3, <1>5, LeavesChar
<1>8. PICK more : more = Append(out, text[i])
  OBVIOUS
<1>9. more = out \o c
  BY <1>5, <1>6, <1>8, AppendJoins
<1>10. out \o (c \o k) = more \o k
  BY <1>4, <1>6, <1>9, Regrouped
<1>11. /\ Uncommented(text)[1].kept = before \o (out \o Uncommented(text)[i].kept)
       /\ Uncommented(text)[1].open = Uncommented(text)[i].open
  BY <1>1 DEF Settled
<1>12. Settled(text, i, before, more)
  BY <1>3, <1>7, <1>10, <1>11 DEF Settled
<1>13. QED
  BY <1>1, <1>8, <1>12

(* A character outside comments that is written.                           *)
LEMMA WritesOn ==
  ASSUME NEW text \in Seq(Char), NEW p \in Nat, p < Len(text), NEW before \in Seq(Char),
         NEW out \in Seq(Char), ScannedTo(text, p, before, out, FALSE),
         ~(p > 0 /\ text[p] = "/" /\ text[p + 1] = "*")
  PROVE  ScannedTo(text, p + 1, before, Append(out, text[p + 1]), FALSE)
<1>1. Settled(text, p, before, out)
  <2>1. CASE Outside(text, p, before, out)
    BY <2>1 DEF Outside
  <2>2. CASE AtSlash(text, p, before, out)
    <3>1. p \in 1..Len(text) /\ ~OpensAt(text, p)
      BY <2>2 DEF AtSlash, OpensAt
    <3>2. QED
      BY <2>2, <3>1, SlashSettles
  <2>3. QED
    BY <2>1, <2>2 DEF ScannedTo
<1>2. CASE text[p + 1] = "/"
  <2>1. PICK i : i = p + 1
    OBVIOUS
  <2>2. i > 0 /\ text[i] = "/"
    BY <1>2, <2>1
  <2>3. /\ Uncommented(text)[1].kept = before \o (out \o Uncommented(text)[i].kept)
        /\ Uncommented(text)[1].open = Uncommented(text)[i].open
    BY <1>1, <2>1 DEF Settled
  <2>4. AtSlash(text, i, before, Append(out, text[i]))
    BY <2>2, <2>3 DEF AtSlash
  <2>5. QED
    BY <2>1, <2>4 DEF ScannedTo
<1>3. CASE text[p + 1] # "/"
  <2>1. ~OpensAt(text, p + 1)
    BY <1>3 DEF OpensAt
  <2>2. Settled(text, p + 1, before, Append(out, text[p + 1]))
    BY <1>1, <2>1, CharSettles
  <2>3. QED
    BY <1>3, <2>2 DEF ScannedTo, Outside
<1>4. QED
  BY <1>2, <1>3

LEMMA NoEndsInDelimiter ==
  ASSUME NEW text \in Seq(Char), NEW o \in Nat, o > 0, text[o] # "newline", text[o + 1] # "newline"
  PROVE  Ends(text, o, o + 1) = << >>
<1>1. Ends(text, o, o - 1) = << >>
  BY NoEnds
<1>2. PICK i : i = o - 1
  OBVIOUS
<1>3. i \in Nat /\ i + 1 = o /\ i + 1 >= o
  BY <1>2
<1>4. Ends(text, o, i) = << >>
  BY <1>1, <1>2
<1>5. Ends(text, o, i + 1) = Ends(text, o, i) \o << >>
  BY <1>3, EndsMore
<1>6. Ends(text, o, o) = << >>
  BY <1>3, <1>4, <1>5
<1>7. Ends(text, o, o + 1) = Ends(text, o, o) \o << >>
  <2>1. o + 1 >= o
    OBVIOUS
  <2>2. QED
    BY <2>1, EndsMore
<1>8. QED
  BY <1>6, <1>7

LEMMA AppendFront ==
  ASSUME NEW S, NEW s \in Seq(S), NEW e \in S, NEW all, all = Append(s, e)
  PROVE  Front(all) = s
<1>1. all \in Seq(S) /\ all # << >> /\ Len(all) = Len(s) + 1
  OBVIOUS
<1>2. Front(all) \in Seq(S) /\ Len(Front(all)) = Len(all) - 1
      /\ \A i \in 1..(Len(all) - 1) : Front(all)[i] = all[i]
  BY <1>1, LastAndFront
<1>3. PICK f : f = Front(all)
  OBVIOUS
<1>4. f \in Seq(S) /\ Len(f) = Len(s) /\ \A i \in 1..Len(s) : f[i] = all[i]
  BY <1>1, <1>2, <1>3
<1>5. \A i \in 1..Len(s) : f[i] = s[i]
  BY <1>4
<1>6. f = s
  BY <1>4, <1>5
<1>7. QED
  BY <1>3, <1>6

(* "/*" opens a comment and takes the "/" back.                            *)
LEMMA CommentOpens ==
  ASSUME NEW text \in Seq(Char), NEW p \in 1..Len(text), p < Len(text), NEW before \in Seq(Char),
         NEW out \in Seq(Char), ScannedTo(text, p, before, out, FALSE), ~Touching(text),
         text[p] = "/", text[p + 1] = "*"
  PROVE  out # << >> /\ ScannedTo(text, p + 1, before, Front(out), TRUE)
<1>1. AtSlash(text, p, before, out)
  <2>1. CASE Outside(text, p, before, out)
    <3>1. p \in 2..(Len(text) - 1) /\ text[p - 1] = "*"
      BY <2>1 DEF Outside
    <3>2. QED
      BY <3>1 DEF Touching
  <2>2. QED
    BY <2>1 DEF ScannedTo
<1>2. PICK rest \in Seq(Char) :
        /\ out = Append(rest, "/")
        /\ Uncommented(text)[1].kept = before \o (rest \o Uncommented(text)[p].kept)
        /\ Uncommented(text)[1].open = Uncommented(text)[p].open
  BY <1>1 DEF AtSlash
<1>3. Front(out) = rest
  <2>1. "/" \in Char
    BY DEF Char, Token
  <2>2. QED
    BY <1>2, <2>1, AppendFront
<1>4. PICK all : all = before \o rest
  OBVIOUS
<1>5. all \in Seq(Char)
  BY <1>4
<1>6. PICK k : k = Uncommented(text)[p].kept
  OBVIOUS
<1>7. k \in Seq(Char)
  BY <1>6, LeavesChars
<1>8. Uncommented(text)[1].kept = all \o k
  <2>1. (before \o rest) \o k = before \o (rest \o k)
    <3>1. \A b, c \in Seq(Char) : (before \o b) \o c = before \o (b \o c)
      BY Regrouped, Zenon
    <3>2. QED
      BY <1>7, <3>1, Zenon
  <2>2. QED
    BY <1>2, <1>4, <1>6, <2>1
<1>9. OpensAt(text, p) /\ p \in 1..(p + 1 - 1)
  BY DEF OpensAt
<1>10. \A j \in Closings(text, p) : j + 1 > p + 1
  BY ClosingWithin
<1>11. Ends(text, p, p + 1) = << >>
  BY NoEndsInDelimiter
<1>12. before \o rest = all \o Ends(text, p, p + 1)
  <2>1. all \o << >> = all
    BY <1>5
  <2>2. QED
    BY <1>4, <1>11, <2>1
<1>13. InComment(text, p + 1, before, rest)
  <2>1. PICK i : i = p + 1
    OBVIOUS
  <2>2. p \in 1..(i - 1) /\ (\A j \in Closings(text, p) : j + 1 > i)
        /\ before \o rest = all \o Ends(text, p, i)
    BY <1>9, <1>10, <1>12, <2>1
  <2>3. InComment(text, i, before, rest)
    BY <1>2, <1>5, <1>6, <1>8, <1>9, <2>2 DEF InComment
  <2>4. QED
    BY <2>1, <2>3
<1>14. out # << >>
  BY <1>2
<1>15. QED
  BY <1>3, <1>13, <1>14 DEF ScannedTo

(* The first "*/" after it ends the comment.                               *)
LEMMA CommentCloses ==
  ASSUME NEW text \in Seq(Char), NEW p \in 1..Len(text), p < Len(text), NEW before \in Seq(Char),
         NEW out \in Seq(Char), ScannedTo(text, p, before, out, TRUE), ~Touching(text),
         text[p] = "*", text[p + 1] = "/"
  PROVE  ScannedTo(text, p + 1, before, out, FALSE)
<1>1. PICK o \in 1..(p - 1), rest \in Seq(Char) :
        /\ OpensAt(text, o)
        /\ \A j \in Closings(text, o) : j + 1 > p
        /\ before \o out = rest \o Ends(text, o, p)
        /\ Uncommented(text)[1].kept = rest \o Uncommented(text)[o].kept
        /\ Uncommented(text)[1].open = Uncommented(text)[o].open
  BY DEF ScannedTo, InComment
<1>2. o \in 1..Len(text) /\ o \in Nat /\ p \in Nat /\ p + 1 >= o
  BY <1>1
<1>3. p # o + 1
  <2> SUFFICES ASSUME p = o + 1
               PROVE  FALSE
    OBVIOUS
  <2>1. p \in 2..(Len(text) - 1) /\ text[p - 1] = "/"
    BY <1>1, <1>2 DEF OpensAt
  <2>2. QED
    BY <2>1 DEF Touching
<1>4. p \in Closings(text, o)
  BY <1>1, <1>2, <1>3 DEF Closings, ClosedAt
<1>5. \A j \in Closings(text, o) : p <= j
  BY <1>1, <1>2, ClosingWithin
<1>6. PICK k : k = Uncommented(text)[p + 2].kept
  OBVIOUS
<1>7. PICK e : e = Ends(text, o, p)
  OBVIOUS
<1>8. k \in Seq(Char) /\ e \in Seq(Char)
  <2>1. p + 2 \in 1..(Len(text) + 1)
    BY <1>2
  <2>2. QED
    BY <1>2, <1>6, <1>7, <2>1, LeavesChars, EndsType
<1>9. /\ Uncommented(text)[o].kept = e \o k
      /\ Uncommented(text)[o].open = Uncommented(text)[p + 2].open
  BY <1>1, <1>2, <1>4, <1>5, <1>6, <1>7, LeavesComment
<1>10. Uncommented(text)[1].kept = before \o (out \o k)
  <2>1. Uncommented(text)[1].kept = rest \o (e \o k)
    BY <1>1, <1>9
  <2>2. /\ \A b, c \in Seq(Char) : (rest \o b) \o c = rest \o (b \o c)
        /\ \A b, c \in Seq(Char) : (before \o b) \o c = before \o (b \o c)
    BY Regrouped, Zenon
  <2>3. rest \o (e \o k) = (rest \o e) \o k /\ (before \o out) \o k = before \o (out \o k)
    BY <1>8, <2>2, Zenon
  <2>4. QED
    BY <1>1, <1>7, <2>1, <2>3
<1>11. PICK i : i = p + 1
  OBVIOUS
<1>12. i + 1 = p + 2 /\ i > 1 /\ i - 1 = p
  BY <1>2, <1>11
<1>13. Settled(text, i, before, out)
  BY <1>1, <1>6, <1>9, <1>10, <1>12 DEF Settled
<1>14. Outside(text, i, before, out)
  BY <1>12, <1>13 DEF Outside
<1>15. QED
  BY <1>11, <1>14 DEF ScannedTo

(* Anything else in a comment leaves only the ends of lines.               *)
LEMMA CommentGoesOn ==
  ASSUME NEW text \in Seq(Char), NEW p \in 1..Len(text), p < Len(text), NEW before \in Seq(Char),
         NEW out \in Seq(Char), ScannedTo(text, p, before, out, TRUE),
         ~(text[p] = "*" /\ text[p + 1] = "/")
  PROVE  ScannedTo(text, p + 1, before,
           out \o IF text[p + 1] = "newline" THEN << "newline" >> ELSE << >>, TRUE)
<1>1. PICK o \in 1..(p - 1), rest \in Seq(Char) :
        /\ OpensAt(text, o)
        /\ \A j \in Closings(text, o) : j + 1 > p
        /\ before \o out = rest \o Ends(text, o, p)
        /\ Uncommented(text)[1].kept = rest \o Uncommented(text)[o].kept
        /\ Uncommented(text)[1].open = Uncommented(text)[o].open
  BY DEF ScannedTo, InComment
<1>2. o \in 1..Len(text) /\ o \in Nat /\ p \in Nat /\ p + 1 >= o /\ o \in 1..(p + 1 - 1)
  BY <1>1
<1>3. \A j \in Closings(text, o) : j + 1 > p + 1
  <2> TAKE j \in Closings(text, o)
  <2>1. j \in Nat /\ j + 1 > p /\ ClosedAt(text, j)
    BY <1>1, <1>2, ClosingWithin DEF Closings
  <2>2. j # p
    BY <2>1 DEF ClosedAt
  <2>3. QED
    BY <1>2, <2>1, <2>2
<1>4. PICK more : more = IF text[p + 1] = "newline" THEN << "newline" >> ELSE << >>
  OBVIOUS
<1>5. PICK e : e = Ends(text, o, p)
  OBVIOUS
<1>6. more \in Seq(Char) /\ e \in Seq(Char)
  BY <1>2, <1>4, <1>5, EndsType, LineEndIsChar
<1>7. Ends(text, o, p + 1) = e \o more
  BY <1>2, <1>4, <1>5, EndsMore
<1>8. before \o (out \o more) = rest \o (e \o more)
  <2>1. /\ \A b, c \in Seq(Char) : (rest \o b) \o c = rest \o (b \o c)
        /\ \A b, c \in Seq(Char) : (before \o b) \o c = before \o (b \o c)
    BY Regrouped, Zenon
  <2>2. /\ (before \o out) \o more = before \o (out \o more)
        /\ (rest \o e) \o more = rest \o (e \o more)
    BY <1>6, <2>1, Zenon
  <2>3. QED
    BY <1>1, <1>5, <2>2
<1>9. PICK longer : longer = out \o more
  OBVIOUS
<1>10. InComment(text, p + 1, before, longer)
  <2>1. PICK i : i = p + 1
    OBVIOUS
  <2>2. o \in 1..(i - 1) /\ (\A j \in Closings(text, o) : j + 1 > i)
        /\ before \o longer = rest \o Ends(text, o, i)
    <3>1. o \in 1..(i - 1) /\ Ends(text, o, i) = e \o more
      BY <1>2, <1>7, <2>1
    <3>2. \A j \in Closings(text, o) : j + 1 > i
      BY <1>3, <2>1
    <3>3. QED
      BY <1>8, <1>9, <3>1, <3>2
  <2>3. InComment(text, i, before, longer)
    BY <1>1, <2>2 DEF InComment
  <2>4. QED
    BY <2>1, <2>3
<1>11. QED
  BY <1>4, <1>9, <1>10 DEF ScannedTo

(* The whole text.                                                         *)
LEMMA ScanEnds ==
  ASSUME NEW text \in Seq(Char), NEW p, p = Len(text), NEW before \in Seq(Char),
         NEW out \in Seq(Char), NEW inside \in BOOLEAN, ScannedTo(text, p, before, out, inside)
  PROVE  /\ Uncommented(text)[1].kept = before \o out
         /\ Uncommented(text)[1].open = inside
<1>1. p \in Nat /\ p + 1 = Len(text) + 1
  OBVIOUS
<1>2. CASE inside
  <2>1. PICK o \in 1..(p - 1), rest \in Seq(Char) :
          /\ OpensAt(text, o)
          /\ \A j \in Closings(text, o) : j + 1 > p
          /\ before \o out = rest \o Ends(text, o, p)
          /\ Uncommented(text)[1].kept = rest \o Uncommented(text)[o].kept
          /\ Uncommented(text)[1].open = Uncommented(text)[o].open
    BY <1>2 DEF ScannedTo, InComment
  <2>2. o \in 1..Len(text) /\ o \in Nat
    BY <1>1
  <2>3. Closings(text, o) = {}
    BY <2>1, <2>2, ClosingWithin
  <2>4. /\ Uncommented(text)[o].kept = Ends(text, o, Len(text))
        /\ Uncommented(text)[o].open = TRUE
    BY <2>1, <2>2, <2>3, LeavesOpen
  <2>5. QED
    BY <1>2, <2>1, <2>4
<1>3. CASE ~inside
  <2>1. Settled(text, p, before, out)
    <3>1. CASE AtSlash(text, p, before, out)
      <4>1. p \in 1..Len(text) /\ ~OpensAt(text, p)
        BY <1>1, <3>1 DEF AtSlash, OpensAt
      <4>2. QED
        BY <3>1, <4>1, SlashSettles
    <3>2. QED
      BY <1>3, <3>1 DEF ScannedTo, Outside
  <2>2. /\ Uncommented(text)[p + 1].kept = << >>
        /\ Uncommented(text)[p + 1].open = FALSE
    BY <1>1, LeavesNothing
  <2>3. out \o << >> = out
    OBVIOUS
  <2>4. QED
    BY <1>3, <2>1, <2>2, <2>3 DEF Settled
<1>4. QED
  BY <1>2, <1>3

(* The next line begins.                                                   *)
LEMMA ScanNextLine ==
  ASSUME NEW text \in Seq(Char), NEW p \in 0..Len(text), NEW before \in Seq(Char),
         NEW out \in Seq(Char), NEW inside \in BOOLEAN, ScannedTo(text, p, before, out, inside),
         p > 0 => text[p] = "newline"
  PROVE  ScannedTo(text, p, before \o out, << >>, inside)
<1>1. PICK all : all = before \o out
  OBVIOUS
<1>2. all \in Seq(Char) /\ all \o << >> = all
  BY <1>1
<1>3. CASE inside
  BY <1>1, <1>2, <1>3 DEF ScannedTo, InComment
<1>4. CASE ~inside
  <2>1. Outside(text, p, before, out)
    BY <1>4 DEF ScannedTo, AtSlash
  <2>2. PICK k : k = Uncommented(text)[p + 1].kept
    OBVIOUS
  <2>3. k \in Seq(Char)
    <3>1. p + 1 \in 1..(Len(text) + 1)
      OBVIOUS
    <3>2. QED
      BY <2>2, <3>1, LeavesChars
  <2>4. before \o (out \o k) = all \o (<< >> \o k)
    <3>1. (before \o out) \o k = before \o (out \o k)
      BY <2>3, Regrouped
    <3>2. << >> \o k = k
      BY <2>3
    <3>3. QED
      BY <1>1, <3>1, <3>2
  <2>5. Outside(text, p, all, << >>)
    BY <2>1, <2>2, <2>4 DEF Outside, Settled
  <2>6. QED
    BY <1>1, <1>4, <2>5 DEF ScannedTo
<1>5. QED
  BY <1>3, <1>4

-----------------------------------------------------------------------------
(* A line of a text, as remove_block_comments goes through it.             *)
LineIn(text, p, x) ==
  /\ x \in Seq(Token) /\ p \in Nat /\ p + Len(x) + 1 <= Len(text)
  /\ \A i \in 1..Len(x) : text[p + i] = x[i]
  /\ text[p + Len(x) + 1] = "newline"
  /\ p > 0 => text[p] = "newline"

InLine(text, p, before, i, state) ==
  /\ state \in ScanState
  /\ ScannedTo(text, p + i, before, state.out, state.in_comment)
  /\ state.in_char <=> p + i > 0 /\ text[p + i] = IF state.in_comment THEN "*" ELSE "/"

LEMMA TokenOnInComment ==
  ASSUME NEW text \in Seq(Char), ~Touching(text), NEW q \in Nat, q < Len(text),
         NEW before \in Seq(Char), NEW state \in ScanState, state.in_comment,
         ScannedTo(text, q, before, state.out, TRUE),
         state.in_char <=> q > 0 /\ text[q] = "*",
         NEW token \in Token, text[q + 1] = token
  PROVE  LET next == Scanned(state, token)
         IN  /\ ScannedTo(text, q + 1, before, next.out, next.in_comment)
             /\ next.in_char <=> text[q + 1] = IF next.in_comment THEN "*" ELSE "/"
<1>1. state.out \in Seq(Token) /\ state.in_comment = TRUE /\ state.in_char \in BOOLEAN
      /\ state = [in_comment |-> state.in_comment, in_char |-> state.in_char, out |-> state.out]
  BY DEF ScanState
<1>2. state.out \in Seq(Char)
  BY <1>1 DEF Char
<1>3. q \in 1..Len(text)
  <2>1. \E o \in 1..(q - 1) : TRUE
    BY DEF ScannedTo, InComment
  <2>2. QED
    BY <2>1
<1>4. token # "newline"
  BY SourceReaderAssumption DEF Token
<1>5. CASE token = "/" /\ state.in_char
  <2>1. ScannedTo(text, q + 1, before, state.out, FALSE)
    BY <1>2, <1>3, <1>5, CommentCloses
  <2>2. Scanned(state, token) = [state EXCEPT !.in_comment = FALSE]
    BY <1>1, <1>5 DEF Scanned
  <2>3. /\ Scanned(state, token).in_comment = FALSE
        /\ Scanned(state, token).in_char = state.in_char
        /\ Scanned(state, token).out = state.out
    BY <1>1, <2>2
  <2>4. QED
    BY <1>5, <2>1, <2>3
<1>6. CASE ~(token = "/" /\ state.in_char)
  <2>1. ScannedTo(text, q + 1, before, state.out \o << >>, TRUE)
    <3>1. text[q + 1] # "newline" /\ ~(text[q] = "*" /\ text[q + 1] = "/")
      BY <1>3, <1>4, <1>6
    <3>2. ScannedTo(text, q + 1, before,
            state.out \o IF text[q + 1] = "newline" THEN << "newline" >> ELSE << >>, TRUE)
      BY <1>2, <1>3, <3>1, CommentGoesOn
    <3>3. QED
      BY <3>1, <3>2
  <2>2. Scanned(state, token) = [state EXCEPT !.in_char = (token = "*")]
    BY <1>1, <1>6 DEF Scanned
  <2>3. PICK b : b = (token = "*")
    OBVIOUS
  <2>4. Scanned(state, token) = [in_comment |-> TRUE, in_char |-> b, out |-> state.out]
    BY <1>1, <2>2, <2>3
  <2>5. state.out \o << >> = state.out
    BY <1>2
  <2>6. /\ Scanned(state, token).in_comment = TRUE
        /\ Scanned(state, token).in_char = b
        /\ Scanned(state, token).out = state.out
    BY <2>4
  <2>7. Scanned(state, token).in_char <=> text[q + 1] = "*"
    BY <2>3, <2>6
  <2>8. QED
    BY <2>1, <2>5, <2>6, <2>7
<1>7. QED
  BY <1>5, <1>6

LEMMA TokenOnOutside ==
  ASSUME NEW text \in Seq(Char), ~Touching(text), NEW q \in Nat, q < Len(text),
         NEW before \in Seq(Char), NEW state \in ScanState, ~state.in_comment,
         ScannedTo(text, q, before, state.out, FALSE),
         state.in_char <=> q > 0 /\ text[q] = "/",
         NEW token \in Token, text[q + 1] = token
  PROVE  LET next == Scanned(state, token)
         IN  /\ ScannedTo(text, q + 1, before, next.out, next.in_comment)
             /\ next.in_char <=> text[q + 1] = IF next.in_comment THEN "*" ELSE "/"
<1>1. state.out \in Seq(Token) /\ state.in_comment = FALSE /\ state.in_char \in BOOLEAN
      /\ state = [in_comment |-> state.in_comment, in_char |-> state.in_char, out |-> state.out]
  BY DEF ScanState
<1>2. state.out \in Seq(Char)
  BY <1>1 DEF Char
<1>3. CASE token = "*" /\ state.in_char
  <2>1. q \in 1..Len(text)
    BY <1>3
  <2>2. state.out # << >> /\ ScannedTo(text, q + 1, before, Front(state.out), TRUE)
    BY <1>2, <1>3, <2>1, CommentOpens
  <2>3. PICK f : f = Front(state.out)
    OBVIOUS
  <2>4. Scanned(state, token) = [state EXCEPT !.in_comment = TRUE, !.out = f]
    <3>1. Comment(state) = [state EXCEPT !.in_comment = TRUE, !.out = IF @ = << >> THEN @ ELSE Front(@)]
      BY Zenon DEF Comment, AfterSlash
    <3>2. (IF state.out = << >> THEN state.out ELSE Front(state.out)) = f
      BY <2>2, <2>3
    <3>3. Comment(state) = [state EXCEPT !.in_comment = TRUE, !.out = f]
      BY <1>1, <3>1, <3>2
    <3>4. QED
      BY <1>1, <1>3, <3>3 DEF Scanned
  <2>5. Scanned(state, token) = [in_comment |-> TRUE, in_char |-> state.in_char, out |-> f]
    BY <1>1, <2>4
  <2>6. /\ Scanned(state, token).in_comment = TRUE
        /\ Scanned(state, token).in_char = state.in_char
        /\ Scanned(state, token).out = f
    BY <2>5
  <2>7. Scanned(state, token).in_char <=> text[q + 1] = "*"
    BY <1>3, <2>6
  <2>8. QED
    BY <2>2, <2>3, <2>6, <2>7
<1>4. CASE ~(token = "*" /\ state.in_char)
  <2>1. ScannedTo(text, q + 1, before, Append(state.out, token), FALSE)
    BY <1>2, <1>4, WritesOn
  <2>2. Scanned(state, token) = [state EXCEPT !.in_char = (token = "/"), !.out = Append(@, token)]
    BY <1>1, <1>4 DEF Scanned
  <2>3. PICK b : b = (token = "/")
    OBVIOUS
  <2>4. PICK longer : longer = Append(state.out, token)
    OBVIOUS
  <2>5. Scanned(state, token) = [in_comment |-> FALSE, in_char |-> b, out |-> longer]
    BY <1>1, <2>2, <2>3, <2>4
  <2>6. /\ Scanned(state, token).in_comment = FALSE
        /\ Scanned(state, token).in_char = b
        /\ Scanned(state, token).out = longer
    BY <2>5
  <2>7. Scanned(state, token).in_char <=> text[q + 1] = "/"
    BY <2>3, <2>6
  <2>8. QED
    BY <2>1, <2>4, <2>6, <2>7
<1>5. QED
  BY <1>3, <1>4

LEMMA TokenOn ==
  ASSUME NEW text \in Seq(Char), ~Touching(text), NEW x, NEW p, LineIn(text, p, x),
         NEW before \in Seq(Char), NEW i \in 1..Len(x), NEW state,
         InLine(text, p, before, i - 1, state)
  PROVE  InLine(text, p, before, i, Scanned(state, x[i]))
<1>1. PICK q : q = p + (i - 1)
  OBVIOUS
<1>2. p \in Nat /\ q \in Nat /\ q < Len(text) /\ q + 1 = p + i /\ x[i] \in Token /\ text[q + 1] = x[i]
  <2>1. p \in Nat /\ x \in Seq(Token) /\ p + Len(x) + 1 <= Len(text) /\ text[p + i] = x[i]
    BY DEF LineIn
  <2>2. Len(x) \in Nat /\ Len(text) \in Nat
    BY <2>1
  <2>3. QED
    BY <1>1, <2>1, <2>2
<1>3. PICK token : token = x[i]
  OBVIOUS
<1>4. /\ state \in ScanState
      /\ ScannedTo(text, q, before, state.out, state.in_comment)
      /\ state.in_char <=> q > 0 /\ text[q] = IF state.in_comment THEN "*" ELSE "/"
  BY <1>1 DEF InLine
<1>5. Scanned(state, token) \in ScanState
  BY <1>2, <1>3, <1>4, ScannedType
<1>6. state.in_comment \in BOOLEAN
  BY <1>4 DEF ScanState
<1>7. PICK next : next = Scanned(state, token)
  OBVIOUS
<1>8. /\ ScannedTo(text, q + 1, before, next.out, next.in_comment)
      /\ next.in_char <=> text[q + 1] = IF next.in_comment THEN "*" ELSE "/"
  <2>1. CASE state.in_comment
    <3>1. ScannedTo(text, q, before, state.out, TRUE) /\ (state.in_char <=> q > 0 /\ text[q] = "*")
      BY <1>4, <1>6, <2>1
    <3>2. token \in Token /\ text[q + 1] = token
      BY <1>2, <1>3
    <3>3. QED
      BY <1>2, <1>4, <1>7, <2>1, <3>1, <3>2, TokenOnInComment
  <2>2. CASE ~state.in_comment
    <3>1. ScannedTo(text, q, before, state.out, FALSE) /\ (state.in_char <=> q > 0 /\ text[q] = "/")
      BY <1>4, <1>6, <2>2
    <3>2. token \in Token /\ text[q + 1] = token
      BY <1>2, <1>3
    <3>3. QED
      BY <1>2, <1>4, <1>7, <2>2, <3>1, <3>2, TokenOnOutside
  <2>3. QED
    BY <2>1, <2>2
<1>9. p + i > 0
  BY <1>2
<1>10. QED
  BY <1>2, <1>3, <1>5, <1>7, <1>8, <1>9 DEF InLine

(* The whole line with its end.                                            *)
LEMMA LineScanned ==
  ASSUME NEW text \in Seq(Char), ~Touching(text), NEW x, NEW p, LineIn(text, p, x),
         NEW before \in Seq(Char), NEW inside \in BOOLEAN,
         ScannedTo(text, p, before, << >>, inside)
  PROVE  ScannedTo(text, p + Len(x) + 1, before,
           Append(ScannedLine(x, inside).out, "newline"), ScannedLine(x, inside).in_comment)
<1> DEFINE scan == CHOOSE scan : Scans(x, inside, scan)
           n == Len(x)
<1>1. p \in Nat /\ x \in Seq(Token) /\ n \in Nat /\ n = Len(x) /\ p + n + 1 <= Len(text)
      /\ text[p + n + 1] = "newline" /\ (p > 0 => text[p] = "newline")
  BY DEF LineIn
<1>2. Scans(x, inside, scan)
  BY <1>1, ScansExist
<1>3. ScannedLine(x, inside) = scan[n]
  BY Zenon DEF ScannedLine, Scans
<1> HIDE DEF scan, n
<1>4. /\ scan[0] = [in_comment |-> inside, in_char |-> FALSE, out |-> << >>]
      /\ \A i \in 1..n : scan[i] = Scanned(scan[i - 1], x[i])
  <2>1. scan = [i \in 0..n |-> IF i = 0 THEN [in_comment |-> inside, in_char |-> FALSE, out |-> << >>]
                                       ELSE Scanned(scan[i - 1], x[i])]
    BY <1>1, <1>2, Zenon DEF Scans
  <2>2. 0 \in 0..n /\ \A i \in 1..n : i \in 0..n /\ i # 0
    BY <1>1
  <2>3. QED
    BY <2>1, <2>2, Zenon
<1>5. InLine(text, p, before, 0, scan[0])
  <2>1. scan[0] \in ScanState
    BY <1>4 DEF ScanState
  <2>2. p + 0 = p /\ scan[0].out = << >> /\ scan[0].in_comment = inside /\ scan[0].in_char = FALSE
    BY <1>1, <1>4
  <2>3. p > 0 => text[p] # "*" /\ text[p] # "/"
    BY <1>1
  <2>4. QED
    BY <2>1, <2>2, <2>3 DEF InLine
<1> DEFINE N == {i \in Nat : i <= n => InLine(text, p, before, i, scan[i])}
<1>6. 0 \in N
  BY <1>5
<1>7. ASSUME NEW i \in Nat, i \in N
      PROVE  i + 1 \in N
  <2> SUFFICES ASSUME i + 1 <= n
               PROVE  InLine(text, p, before, i + 1, scan[i + 1])
    OBVIOUS
  <2>1. PICK j : j = i + 1
    OBVIOUS
  <2>2. j \in 1..n /\ j - 1 = i /\ i <= n
    BY <1>1, <2>1
  <2>3. InLine(text, p, before, j - 1, scan[j - 1])
    BY <1>7, <2>2
  <2>4. PICK s : s = scan[j - 1]
    OBVIOUS
  <2>5. InLine(text, p, before, j, Scanned(s, x[j]))
    BY <1>1, <2>2, <2>3, <2>4, TokenOn
  <2>6. QED
    BY <1>4, <2>1, <2>2, <2>4, <2>5
<1>8. InLine(text, p, before, n, scan[n])
  <2>1. \A i \in Nat : i \in N
    <3> HIDE DEF N
    <3>1. QED
      BY <1>6, <1>7, NumberInduction
  <2>2. QED
    BY <1>1, <2>1
<1>9. PICK last : last = scan[n]
  OBVIOUS
<1>10. PICK q : q = p + n
  OBVIOUS
<1>11. /\ last \in ScanState /\ ScannedTo(text, q, before, last.out, last.in_comment)
       /\ q \in Nat /\ q < Len(text) /\ text[q + 1] = "newline" /\ q + 1 = p + n + 1
  BY <1>1, <1>8, <1>9, <1>10 DEF InLine
<1>12. last.out \in Seq(Token) /\ last.in_comment \in BOOLEAN
  BY <1>11 DEF ScanState
<1>13. last.out \in Seq(Char)
  BY <1>12 DEF Char
<1>14. ScannedTo(text, q + 1, before, Append(last.out, "newline"), last.in_comment)
  <2>1. CASE last.in_comment
    <3>1. ScannedTo(text, q, before, last.out, TRUE)
      BY <1>11, <1>12, <2>1
    <3>2. q \in 1..Len(text)
      <4>1. \E o \in 1..(q - 1) : TRUE
        BY <3>1 DEF ScannedTo, InComment
      <4>2. QED
        BY <1>11, <4>1
    <3>3. ~(text[q] = "*" /\ text[q + 1] = "/")
      BY <1>11
    <3>4. ScannedTo(text, q + 1, before,
            last.out \o IF text[q + 1] = "newline" THEN << "newline" >> ELSE << >>, TRUE)
      BY <1>11, <1>13, <3>1, <3>2, <3>3, CommentGoesOn
    <3>5. last.out \o << "newline" >> = Append(last.out, "newline")
      BY <1>13, AppendJoins
    <3>6. QED
      BY <1>11, <1>12, <2>1, <3>4, <3>5
  <2>2. CASE ~last.in_comment
    <3>1. ScannedTo(text, q, before, last.out, FALSE)
      BY <1>11, <1>12, <2>2
    <3>2. ~(q > 0 /\ text[q] = "/" /\ text[q + 1] = "*")
      BY <1>11
    <3>3. ScannedTo(text, q + 1, before, Append(last.out, text[q + 1]), FALSE)
      BY <1>11, <1>13, <3>1, <3>2, WritesOn
    <3>4. QED
      BY <1>11, <1>12, <2>2, <3>3
  <2>3. QED
    BY <2>1, <2>2
<1>15. QED
  BY <1>1, <1>3, <1>9, <1>11, <1>14

-----------------------------------------------------------------------------
(* The lines of a stretch, joined to a text.                               *)
LineChars(data, first, i) == Append(data[first + i - 1].text, "newline")

LEMMA LineCharsType ==
  ASSUME NEW data \in Seq(InputData), NEW k \in 1..Len(data)
  PROVE  data[k].text \in Seq(Token) /\ Append(data[k].text, "newline") \in Seq(Char)
<1>1. data[k].text \in Seq(Token)
  <2>1. data[k] \in InputData
    OBVIOUS
  <2>2. QED
    BY <2>1 DEF InputData
<1>2. data[k].text \in Seq(Char) /\ "newline" \in Char
  BY <1>1 DEF Char
<1>3. PICK x : x = data[k].text
  OBVIOUS
<1>4. Append(x, "newline") \in Seq(Char)
  BY <1>2, <1>3
<1>5. QED
  BY <1>1, <1>3, <1>4

LEMMA NoText ==
  ASSUME NEW data, NEW first \in Nat
  PROVE  TextOf(data, first, first - 1) = << >>
<1>1. PICK last : last = first - 1
  OBVIOUS
<1>2. last - first + 1 = 0
  BY <1>1
<1>3. TextOf(data, first, last) = FlattenSeq([i \in 1..(last - first + 1) |-> LineChars(data, first, i)])
  BY Zenon DEF TextOf, LineChars
<1>4. [i \in 1..(last - first + 1) |-> LineChars(data, first, i)] = << >>
  BY <1>2
<1>5. QED
  BY <1>1, <1>3, <1>4, FlattenEmpty

LEMMA TextSame ==
  ASSUME NEW a, NEW b, NEW first \in Nat, NEW last \in Nat, \A k \in first..last : a[k] = b[k]
  PROVE  TextOf(a, first, last) = TextOf(b, first, last)
<1>1. \A i \in 1..(last - first + 1) : first + i - 1 \in first..last
  OBVIOUS
<1>2. \A i \in 1..(last - first + 1) :
        Append(a[first + i - 1].text, "newline") = Append(b[first + i - 1].text, "newline")
  BY <1>1
<1>3. [i \in 1..(last - first + 1) |-> Append(a[first + i - 1].text, "newline")] =
        [i \in 1..(last - first + 1) |-> Append(b[first + i - 1].text, "newline")]
  BY <1>2, Zenon
<1>4. QED
  BY <1>3, Zenon DEF TextOf

LEMMA OneLineMore ==
  ASSUME NEW data \in Seq(InputData), NEW first \in Nat, first > 0, NEW m \in Nat, first <= m + 1,
         m + 1 <= Len(data)
  PROVE  /\ TextOf(data, first, m) \in Seq(Char)
         /\ TextOf(data, first, m + 1) = TextOf(data, first, m) \o Append(data[m + 1].text, "newline")
<1> DEFINE n == m - first + 1
           f == [i \in 1..(n + 1) |-> LineChars(data, first, i)]
<1>1. n \in Nat /\ first + (n + 1) - 1 = m + 1 /\ Len(data) \in Nat
      /\ \A i \in 1..(n + 1) : first + i - 1 \in 1..Len(data)
  OBVIOUS
<1>2. \A i \in 1..(n + 1) : LineChars(data, first, i) \in Seq(Char)
  BY <1>1, LineCharsType DEF LineChars
<1>3. TextOf(data, first, m) = FlattenSeq([i \in 1..n |-> LineChars(data, first, i)])
  BY Zenon DEF TextOf, LineChars
<1>4. TextOf(data, first, m + 1) = FlattenSeq([i \in 1..(n + 1) |-> LineChars(data, first, i)])
  <2>1. PICK j : j = m + 1
    OBVIOUS
  <2>2. TextOf(data, first, j) = FlattenSeq([i \in 1..(j - first + 1) |-> LineChars(data, first, i)])
    BY Zenon DEF TextOf, LineChars
  <2>3. j - first + 1 = n + 1
    BY <2>1
  <2>4. QED
    BY <2>1, <2>2, <2>3, Zenon
<1>5. LineChars(data, first, n + 1) = Append(data[m + 1].text, "newline")
  BY <1>1 DEF LineChars
<1> HIDE DEF n
<1>6. /\ \A i \in 1..(n + 1) : f[i] \in Seq(Char)
      /\ [i \in 1..n |-> LineChars(data, first, i)] = [i \in 1..n |-> f[i]]
      /\ [i \in 1..(n + 1) |-> LineChars(data, first, i)] = [i \in 1..(n + 1) |-> f[i]]
      /\ f[n + 1] = LineChars(data, first, n + 1)
  BY <1>1, <1>2
<1> HIDE DEF f
<1>7. /\ FlattenSeq([i \in 1..n |-> f[i]]) \in Seq(Char)
      /\ FlattenSeq([i \in 1..(n + 1) |-> f[i]]) = FlattenSeq([i \in 1..n |-> f[i]]) \o f[n + 1]
  <2>1. n \in Nat /\ \A i \in 1..(n + 1) : f[i] \in Seq(Char)
    BY <1>1, <1>6
  <2>2. QED
    BY ONLY <2>1, FlattenMore
<1>8. QED
  BY <1>3, <1>4, <1>5, <1>6, <1>7, Zenon

LEMMA TextType ==
  ASSUME NEW data \in Seq(InputData), NEW first \in Nat, first > 0, NEW m \in Nat, first <= m + 1,
         m <= Len(data)
  PROVE  TextOf(data, first, m) \in Seq(Char)
<1>1. CASE m + 1 = first
  <2>1. first - 1 = m /\ << >> \in Seq(Char)
    BY <1>1
  <2>2. TextOf(data, first, first - 1) = << >>
    BY NoText
  <2>3. QED
    BY <2>1, <2>2
<1>2. CASE m + 1 # first
  <2>1. PICK k : k = m - 1
    OBVIOUS
  <2>2. k \in Nat /\ k + 1 = m /\ first <= k + 1 /\ k + 1 <= Len(data) /\ k + 1 \in 1..Len(data)
    BY <1>2, <2>1
  <2>3. /\ TextOf(data, first, k) \in Seq(Char)
        /\ TextOf(data, first, k + 1) = TextOf(data, first, k) \o Append(data[k + 1].text, "newline")
    BY <2>2, OneLineMore
  <2>4. Append(data[k + 1].text, "newline") \in Seq(Char)
    BY <2>2, LineCharsType
  <2>5. TextOf(data, first, k + 1) \in Seq(Char)
    <3>1. \A a, b \in Seq(Char) : a \o b \in Seq(Char)
      OBVIOUS
    <3>2. QED
      BY ONLY <2>3, <2>4, <3>1
  <2>6. QED
    BY <2>2, <2>5
<1>3. QED
  BY <1>1, <1>2

(* It begins with what there is of it up to any line.                      *)
LEMMA TextBegins ==
  ASSUME NEW data \in Seq(InputData), NEW first \in Nat, first > 0, NEW m \in Nat, first <= m + 1,
         NEW last \in Nat, m <= last, last <= Len(data)
  PROVE  \E rest \in Seq(Char) : TextOf(data, first, last) = TextOf(data, first, m) \o rest
<1> DEFINE Begins(k) == \E rest \in Seq(Char) :
                          TextOf(data, first, k) = TextOf(data, first, m) \o rest
           N == {d \in Nat : m + d <= last => Begins(m + d)}
<1>1. 0 \in N
  <2>1. TextOf(data, first, m) \in Seq(Char)
    BY TextType
  <2>2. m + 0 = m /\ << >> \in Seq(Char)
    OBVIOUS
  <2>3. TextOf(data, first, m + 0) = TextOf(data, first, m) \o << >>
    BY <2>1, <2>2
  <2>4. Begins(m + 0)
    BY <2>2, <2>3
  <2> HIDE DEF Begins
  <2>5. QED
    BY <2>4
<1>2. ASSUME NEW d \in Nat, d \in N
      PROVE  d + 1 \in N
  <2> SUFFICES ASSUME m + (d + 1) <= last
               PROVE  Begins(m + (d + 1))
    <3> HIDE DEF Begins
    <3>1. QED
      OBVIOUS
  <2>1. PICK rest \in Seq(Char) : TextOf(data, first, m + d) = TextOf(data, first, m) \o rest
    <3>1. Begins(m + d)
      <4> HIDE DEF Begins
      <4>1. QED
        BY <1>2
    <3>2. QED
      BY <3>1
  <2>2. PICK k : k = m + d
    OBVIOUS
  <2>3. k \in Nat /\ first <= k + 1 /\ k + 1 <= Len(data) /\ k + 1 \in 1..Len(data)
        /\ m + (d + 1) = k + 1
    BY <2>2
  <2>4. TextOf(data, first, k + 1) = TextOf(data, first, k) \o Append(data[k + 1].text, "newline")
    BY <2>3, OneLineMore
  <2>5. PICK line : line = Append(data[k + 1].text, "newline")
    OBVIOUS
  <2>6. line \in Seq(Char)
    BY <2>3, <2>5, LineCharsType
  <2>7. PICK start : start = TextOf(data, first, m)
    OBVIOUS
  <2>8. start \in Seq(Char)
    BY <2>7, TextType
  <2>9. rest \in Seq(Char)
    BY <2>1
  <2>10. (start \o rest) \o line = start \o (rest \o line)
    BY ONLY <2>6, <2>8, <2>9, Regrouped
  <2>11. rest \o line \in Seq(Char)
    BY <2>6, <2>9
  <2>12. TextOf(data, first, m + (d + 1)) = start \o (rest \o line)
    BY <2>1, <2>2, <2>3, <2>4, <2>5, <2>7, <2>10
  <2>13. QED
    BY <2>7, <2>11, <2>12
<1>3. \A d \in Nat : d \in N
  <2> HIDE DEF N
  <2>1. QED
    BY <1>1, <1>2, NumberInduction
<1>4. PICK d : d = last - m
  OBVIOUS
<1>5. d \in Nat /\ m + d = last
  BY <1>4
<1>6. Begins(last)
  <2> HIDE DEF Begins
  <2>1. d \in N /\ m + d <= last
    <3> HIDE DEF N
    <3>1. QED
      BY <1>3, <1>5
  <2>2. Begins(m + d)
    BY <2>1
  <2>3. QED
    BY <1>5, <2>2
<1>7. QED
  BY <1>6

LEMMA JoinedChars ==
  ASSUME NEW a \in Seq(Char), NEW b \in Seq(Char), NEW c, c = a \o b
  PROVE  /\ c \in Seq(Char) /\ Len(c) = Len(a) + Len(b) /\ Len(a) \in Nat /\ Len(b) \in Nat
         /\ \A i \in 1..Len(a) : c[i] = a[i]
         /\ \A i \in 1..Len(b) : c[Len(a) + i] = b[i]
OBVIOUS

(* Where a line is in it.                                                  *)
LEMMA LineOfText ==
  ASSUME NEW data \in Seq(InputData), NEW first \in Nat, first > 0, NEW m \in Nat, first <= m + 1,
         NEW last \in Nat, m + 1 <= last, last <= Len(data),
         NEW text, text = TextOf(data, first, last),
         NEW p, p = Len(TextOf(data, first, m))
  PROVE  /\ LineIn(text, p, data[m + 1].text)
         /\ Len(TextOf(data, first, m + 1)) = p + Len(data[m + 1].text) + 1
         /\ p \in 0..Len(text)
<1>1. PICK start : start = TextOf(data, first, m)
  OBVIOUS
<1>2. PICK x : x = data[m + 1].text
  OBVIOUS
<1>3. PICK line : line = Append(x, "newline")
  OBVIOUS
<1>4. start \in Seq(Char) /\ x \in Seq(Token) /\ line \in Seq(Char) /\ x \in Seq(Char)
  <2>1. m + 1 \in 1..Len(data) /\ m <= Len(data)
    OBVIOUS
  <2>2. x \in Seq(Token)
    BY <1>2, <2>1, LineCharsType
  <2>3. start \in Seq(Char)
    BY <1>1, <2>1, TextType
  <2>4. line \in Seq(Char)
    BY <1>2, <1>3, <2>1, LineCharsType
  <2>5. x \in Seq(Char)
    BY <2>2 DEF Char
  <2>6. QED
    BY <2>2, <2>3, <2>4, <2>5
<1>5. TextOf(data, first, m + 1) = start \o line
  <2>1. m + 1 <= Len(data)
    OBVIOUS
  <2>2. TextOf(data, first, m + 1) = TextOf(data, first, m) \o Append(data[m + 1].text, "newline")
    BY <2>1, OneLineMore
  <2>3. QED
    BY <1>1, <1>2, <1>3, <2>2
<1>6. PICK rest \in Seq(Char) : text = (start \o line) \o rest
  <2>1. PICK k : k = m + 1
    OBVIOUS
  <2>2. /\ data \in Seq(InputData) /\ first \in Nat /\ first > 0 /\ k \in Nat /\ first <= k + 1
        /\ last \in Nat /\ k <= last /\ last <= Len(data)
    BY <2>1
  <2>3. \E rest \in Seq(Char) : TextOf(data, first, last) = TextOf(data, first, k) \o rest
    BY <2>2, TextBegins, ZenonT(30)
  <2>4. QED
    BY <1>5, <2>1, <2>3
<1>7. PICK both : both = start \o line
  OBVIOUS
<1>8. /\ p \in Nat /\ Len(x) \in Nat /\ Len(line) = Len(x) + 1 /\ p = Len(start)
      /\ \A i \in 1..Len(x) : line[i] = x[i]
      /\ line[Len(x) + 1] = "newline"
  BY <1>1, <1>3, <1>4
<1>9. /\ both \in Seq(Char) /\ Len(both) = p + Len(x) + 1
      /\ \A i \in 1..p : both[i] = start[i]
      /\ \A i \in 1..(Len(x) + 1) : both[p + i] = line[i]
  <2>1. /\ both \in Seq(Char) /\ Len(both) = Len(start) + Len(line)
        /\ \A i \in 1..Len(start) : both[i] = start[i]
        /\ \A i \in 1..Len(line) : both[Len(start) + i] = line[i]
    BY <1>4, <1>7, JoinedChars
  <2>2. QED
    BY <1>8, <2>1
<1>10. /\ text \in Seq(Char) /\ Len(text) = Len(both) + Len(rest) /\ Len(rest) \in Nat
       /\ \A i \in 1..Len(both) : text[i] = both[i]
  <2>1. text = both \o rest /\ both \in Seq(Char) /\ rest \in Seq(Char)
    BY <1>6, <1>7, <1>9
  <2>2. QED
    BY <2>1, JoinedChars
<1>11. \A i \in 1..Len(x) : text[p + i] = x[i]
  <2> TAKE i \in 1..Len(x)
  <2>1. p + i \in 1..Len(both) /\ i \in 1..(Len(x) + 1)
    BY <1>8, <1>9
  <2>2. QED
    BY <1>8, <1>9, <1>10, <2>1
<1>12. text[p + Len(x) + 1] = "newline"
  <2>1. PICK i : i = Len(x) + 1
    OBVIOUS
  <2>2. p + i \in 1..Len(both) /\ i \in 1..(Len(x) + 1) /\ p + i = p + Len(x) + 1
    BY <1>8, <1>9, <2>1
  <2>3. text[p + i] = line[i]
    BY <1>9, <1>10, <2>2
  <2>4. QED
    BY <1>8, <2>1, <2>2, <2>3
<1>13. p > 0 => text[p] = "newline"
  <2> SUFFICES ASSUME p > 0
               PROVE  text[p] = "newline"
    OBVIOUS
  <2>1. first # m + 1
    <3> SUFFICES ASSUME first = m + 1
                 PROVE  FALSE
      OBVIOUS
    <3>1. first - 1 = m
      OBVIOUS
    <3>2. start = << >>
      BY <1>1, <3>1, NoText
    <3>3. QED
      BY <1>8, <3>2
  <2>2. PICK k : k = m - 1
    OBVIOUS
  <2>3. k \in Nat /\ k + 1 = m /\ first <= k + 1 /\ k + 1 <= Len(data) /\ m \in 1..Len(data)
    BY <2>1, <2>2
  <2>4. /\ TextOf(data, first, k) \in Seq(Char)
        /\ TextOf(data, first, k + 1) = TextOf(data, first, k) \o Append(data[k + 1].text, "newline")
    BY <2>3, OneLineMore
  <2>5. PICK y : y = data[m].text
    OBVIOUS
  <2>6. y \in Seq(Char)
    BY <2>3, <2>5, LineCharsType DEF Char
  <2>7. PICK a : a = TextOf(data, first, k)
    OBVIOUS
  <2>8. a \in Seq(Char) /\ start = a \o Append(y, "newline")
    BY <1>1, <2>3, <2>4, <2>5, <2>7
  <2>9. start[Len(start)] = "newline"
    <3>1. PICK b : b = Append(y, "newline")
      OBVIOUS
    <3>2. "newline" \in Char
      BY DEF Char
    <3>3. b \in Seq(Char) /\ Len(b) = Len(y) + 1 /\ b[Len(b)] = "newline" /\ Len(y) \in Nat
      BY <2>6, <3>1, <3>2
    <3>4. Len(start) = Len(a) + Len(b) /\ Len(a) \in Nat
      BY <2>8, <3>1, <3>3
    <3>5. start[Len(a) + Len(b)] = b[Len(b)]
      BY <2>8, <3>1, <3>3
    <3>6. QED
      BY <3>3, <3>4, <3>5
  <2>10. p \in 1..p /\ p \in 1..Len(both)
    BY <1>8, <1>9
  <2>11. QED
    BY <1>8, <1>9, <1>10, <2>9, <2>10
<1>14. LineIn(text, p, x)
  <2>1. p + Len(x) + 1 <= Len(text)
    BY <1>9, <1>10, <1>8
  <2>2. QED
    BY <1>4, <1>8, <1>11, <1>12, <1>13, <2>1 DEF LineIn
<1>15. QED
  <2>1. Len(TextOf(data, first, m + 1)) = p + Len(x) + 1
    BY <1>5, <1>7, <1>9
  <2>2. p \in 0..Len(text)
    BY <1>8, <1>9, <1>10
  <2>3. QED
    BY <1>2, <1>14, <2>1, <2>2

-----------------------------------------------------------------------------
(* remove_block_comments, a line at a time.                                *)
TextBefore(s) == TextOf(lines, s.first, s.last)

(* What it has done of a stretch up to a line: the next line goes on in the*)
(* comment that this one leaves open.                                      *)
WrittenTo(s, m, new, next, inside) ==
  \E open \in BOOLEAN :
    /\ ScannedTo(TextBefore(s), Len(TextOf(lines, s.first, m)), TextOf(new, s.first, m), << >>, open)
    /\ m + 1 = next => open = inside

WrittenSoFar(new, next, inside) ==
  \A s \in Stretches : ~Touching(TextBefore(s)) =>
    \A m \in s.first..s.last : m < next => WrittenTo(s, m, new, next, inside)

OpenStretch(s) == Uncommented(TextBefore(s))[1].open

LEMMA StretchIs ==
  ASSUME lines \in Seq(InputData), NEW s \in Stretches
  PROVE  /\ s.first \in Nat /\ s.last \in Nat /\ s.first > 0 /\ s.first <= s.last
         /\ s.last <= Len(lines) /\ Len(lines) \in Nat
         /\ \A i \in s.first..s.last : BeginsFile(i) <=> i = s.first
         /\ s.last < Len(lines) => BeginsFile(s.last + 1)
         /\ TextBefore(s) \in Seq(Char)
<1>1. s \in [first : DOMAIN lines, last : DOMAIN lines] /\ s.first <= s.last
      /\ (\A i \in s.first..s.last : BeginsFile(i) <=> i = s.first)
      /\ (s.last < Len(lines) => BeginsFile(s.last + 1))
  BY DEF Stretches
<1>2. DOMAIN lines = 1..Len(lines) /\ Len(lines) \in Nat
  OBVIOUS
<1>3. s.first \in 1..Len(lines) /\ s.last \in 1..Len(lines)
  BY <1>1, <1>2
<1>4. TextBefore(s) \in Seq(Char)
  BY <1>1, <1>2, <1>3, TextType DEF TextBefore
<1>5. QED
  BY <1>1, <1>2, <1>3, <1>4

(* A line that another file begins with ends a stretch.                    *)
LEMMA StretchBefore ==
  ASSUME lines \in Seq(InputData), NEW k \in 2..Len(lines), BeginsFile(k)
  PROVE  \E s \in Stretches : s.last = k - 1
<1> DEFINE T == {d \in Nat : d < k - 1 /\ BeginsFile(k - 1 - d)}
<1>1. Len(lines) \in Nat /\ DOMAIN lines = 1..Len(lines) /\ k \in Nat /\ k > 1
  OBVIOUS
<1>2. k - 2 \in T
  <2>1. PICK d : d = k - 2
    OBVIOUS
  <2>2. d \in Nat /\ d < k - 1 /\ k - 1 - d = 1
    BY <1>1, <2>1
  <2>3. BeginsFile(k - 1 - d)
    BY <2>2 DEF BeginsFile
  <2>4. QED
    BY <2>1, <2>2, <2>3
<1>3. PICK d \in T : \A e \in T : d <= e
  <2>1. T \subseteq Nat /\ T # {}
    BY <1>2
  <2> HIDE DEF T
  <2>2. QED
    BY <2>1, LeastOf
<1>4. PICK first : first = k - 1 - d
  OBVIOUS
<1>5. first \in 1..(k - 1) /\ first \in Nat /\ BeginsFile(first) /\ d \in Nat /\ d < k - 1
  BY <1>1, <1>3, <1>4
<1>6. \A i \in first..(k - 1) : BeginsFile(i) <=> i = first
  <2> TAKE i \in first..(k - 1)
  <2>1. CASE i = first
    BY <1>5, <2>1
  <2>2. CASE i # first
    <3>1. PICK e : e = k - 1 - i
      OBVIOUS
    <3>2. e \in Nat /\ e < k - 1 /\ k - 1 - e = i /\ ~(d <= e)
      BY <1>1, <1>4, <1>5, <2>2, <3>1
    <3>3. e \notin T
      BY <1>3, <3>2
    <3>4. ~BeginsFile(k - 1 - e)
      BY <3>2, <3>3
    <3>5. QED
      BY <2>2, <3>2, <3>4
  <2>3. QED
    BY <2>1, <2>2
<1>7. PICK s : s = [first |-> first, last |-> k - 1]
  OBVIOUS
<1>8. s.first = first /\ s.last = k - 1 /\ s.last + 1 = k
  BY <1>1, <1>7
<1>9. s \in [first : DOMAIN lines, last : DOMAIN lines]
  BY <1>1, <1>5, <1>7
<1>10. s \in Stretches
  <2>1. s.first <= s.last /\ (\A i \in s.first..s.last : BeginsFile(i) <=> i = s.first)
        /\ BeginsFile(s.last + 1)
    BY <1>5, <1>6, <1>8
  <2>2. QED
    BY <1>9, <2>1 DEF Stretches
<1>11. QED
  BY <1>8, <1>10

(* The step for one line.                                                  *)
OtherFile == next_line = 1 \/ lines[next_line - 1].file_name # lines[next_line].file_name

LEMMA RemovesLine ==
  ASSUME TypeOK, Progress, RemoveComments
  PROVE  \E new :
    /\ next_line \in 1..Len(lines) /\ next_line \in Nat /\ Len(lines) \in Nat
    /\ lines[next_line] \in InputData
    /\ new = [lines[next_line] EXCEPT !.text =
                ScannedLine(lines[next_line].text, in_comment /\ ~OtherFile).out]
    /\ new \in InputData
    /\ new.text = ScannedLine(lines[next_line].text, in_comment /\ ~OtherFile).out
    /\ new.text \in Seq(Token)
    /\ in_comment \in BOOLEAN
    /\ in_comment' = ScannedLine(lines[next_line].text, in_comment /\ ~OtherFile).in_comment
    /\ in_comment' \in BOOLEAN
    /\ new_lines' = Append(new_lines, new) /\ new_lines \in Seq(InputData)
    /\ Len(new_lines) = next_line - 1 /\ new_lines' \in Seq(InputData)
    /\ Len(new_lines') = next_line /\ new_lines'[next_line] = new
    /\ \A i \in 1..(next_line - 1) : new_lines'[i] = new_lines[i]
    /\ next_line' = next_line + 1
    /\ errors' = errors \cup IF OtherFile /\ in_comment THEN {"comment"} ELSE {}
    /\ lines' = lines /\ phase' = phase /\ phase = "comments"
<1>1. phase = "comments" /\ Len(new_lines) = next_line - 1 /\ lines' = lines /\ phase' = phase
      /\ next_line <= Len(lines) /\ next_line' = next_line + 1
  BY DEF RemoveComments, Progress
<1>2. /\ lines \in Seq(InputData) /\ next_line \in 1..(Len(lines) + 1) /\ Len(lines) \in Nat
      /\ new_lines \in Seq(InputData) /\ in_comment \in BOOLEAN
  BY DEF TypeOK, ReaderTypeOK
<1>3. next_line \in 1..Len(lines) /\ next_line \in Nat
  BY <1>1, <1>2
<1>4. PICK line : line = lines[next_line]
  OBVIOUS
<1>5. line \in InputData
  BY <1>2, <1>3, <1>4
<1>6. line.text \in Seq(Token)
  BY <1>5 DEF InputData
<1>7. PICK inside : inside = (in_comment /\ ~OtherFile)
  OBVIOUS
<1>8. inside \in BOOLEAN
  BY <1>7
<1>9. PICK scanned : scanned = ScannedLine(line.text, inside)
  OBVIOUS
<1>10. scanned.in_comment \in BOOLEAN /\ scanned.out \in Seq(Token)
  BY <1>6, <1>8, <1>9, ScannedLineType
<1>11. PICK out : out = scanned.out
  OBVIOUS
<1>12. PICK new : new = [line EXCEPT !.text = out]
  OBVIOUS
<1>13. new \in InputData /\ new.text = out
  BY <1>5, <1>10, <1>11, <1>12 DEF InputData
<1>14. /\ in_comment' = scanned.in_comment
       /\ new_lines' = Append(new_lines, new)
       /\ errors' = errors \cup IF OtherFile /\ in_comment THEN {"comment"} ELSE {}
  BY <1>4, <1>7, <1>9, <1>11, <1>12, Zenon DEF RemoveComments, OtherFile
<1>15. /\ new_lines' \in Seq(InputData) /\ Len(new_lines') = next_line
       /\ new_lines'[next_line] = new
       /\ \A i \in 1..(next_line - 1) : new_lines'[i] = new_lines[i]
  BY <1>1, <1>2, <1>3, <1>13, <1>14
<1>16. /\ new = [lines[next_line] EXCEPT !.text =
                   ScannedLine(lines[next_line].text, in_comment /\ ~OtherFile).out]
       /\ new.text = ScannedLine(lines[next_line].text, in_comment /\ ~OtherFile).out
       /\ in_comment' = ScannedLine(lines[next_line].text, in_comment /\ ~OtherFile).in_comment
  BY <1>4, <1>7, <1>9, <1>11, <1>12, <1>13, <1>14, Zenon
<1>17. new.text \in Seq(Token) /\ in_comment' \in BOOLEAN /\ lines[next_line] \in InputData
  BY <1>4, <1>5, <1>10, <1>11, <1>13, <1>14
<1>18. QED
  BY <1>1, <1>2, <1>3, <1>13, <1>14, <1>15, <1>16, <1>17

LEMMA LineIsWritten ==
  ASSUME TypeOK, Progress, RemoveComments, next_line = 1 => ~in_comment,
         WrittenSoFar(new_lines, next_line, in_comment)
  PROVE  WrittenSoFar(new_lines', next_line', in_comment')
<1>1. PICK new :
    /\ next_line \in 1..Len(lines) /\ next_line \in Nat /\ Len(lines) \in Nat
    /\ new.text = ScannedLine(lines[next_line].text, in_comment /\ ~OtherFile).out
    /\ new.text \in Seq(Token)
    /\ in_comment \in BOOLEAN
    /\ in_comment' = ScannedLine(lines[next_line].text, in_comment /\ ~OtherFile).in_comment
    /\ in_comment' \in BOOLEAN
    /\ new_lines \in Seq(InputData)
    /\ Len(new_lines) = next_line - 1 /\ new_lines' \in Seq(InputData)
    /\ Len(new_lines') = next_line /\ new_lines'[next_line] = new
    /\ \A i \in 1..(next_line - 1) : new_lines'[i] = new_lines[i]
    /\ next_line' = next_line + 1
  BY RemovesLine, Zenon
<1>2. lines \in Seq(InputData)
  BY DEF TypeOK, ReaderTypeOK
<1> SUFFICES ASSUME NEW s \in Stretches, ~Touching(TextBefore(s)),
                    NEW m \in s.first..s.last, m < next_line'
             PROVE  WrittenTo(s, m, new_lines', next_line', in_comment')
  BY DEF WrittenSoFar
<1>3. /\ s.first \in Nat /\ s.last \in Nat /\ s.first > 0 /\ s.first <= s.last
      /\ s.last <= Len(lines)
      /\ \A i \in s.first..s.last : BeginsFile(i) <=> i = s.first
      /\ TextBefore(s) \in Seq(Char)
  BY <1>2, StretchIs
<1>4. m \in Nat /\ s.first <= m /\ m <= s.last
  BY <1>3
<1>5. CASE m < next_line
  <2>1. WrittenTo(s, m, new_lines, next_line, in_comment)
    BY <1>5 DEF WrittenSoFar
  <2>2. \A k \in s.first..m : new_lines'[k] = new_lines[k]
    <3> TAKE k \in s.first..m
    <3>1. k \in 1..(next_line - 1)
      BY ONLY <1>1, <1>3, <1>4, <1>5
    <3>2. QED
      BY <1>1, <3>1
  <2>3. TextOf(new_lines', s.first, m) = TextOf(new_lines, s.first, m)
    BY <1>3, <1>4, <2>2, TextSame
  <2>4. m + 1 # next_line'
    BY <1>1, <1>4, <1>5
  <2>5. QED
    BY <2>1, <2>3, <2>4 DEF WrittenTo
<1>6. CASE m = next_line
  <2>1. PICK k : k = m - 1
    OBVIOUS
  <2>2. k \in Nat /\ k + 1 = m /\ s.first <= k + 1 /\ k + 1 <= s.last
    BY <1>3, <1>4, <2>1
  <2>3. PICK text : text = TextBefore(s)
    OBVIOUS
  <2>4. PICK p : p = Len(TextOf(lines, s.first, k))
    OBVIOUS
  <2>5. PICK before : before = TextOf(new_lines, s.first, k)
    OBVIOUS
  <2>6. PICK inside : inside = (in_comment /\ ~OtherFile)
    OBVIOUS
  <2>7. before \in Seq(Char)
    BY <1>1, <1>3, <1>6, <2>2, <2>5, TextType
  <2>8. ScannedTo(text, p, before, << >>, inside)
    <3>1. CASE m = s.first
      <4>1. s.first - 1 = k
        BY <2>1, <3>1
      <4>2. TextOf(lines, s.first, k) = << >> /\ TextOf(new_lines, s.first, k) = << >>
        BY <1>3, <4>1, NoText
      <4>3. p = 0 /\ before = << >>
        BY <2>4, <2>5, <4>2
      <4>4. BeginsFile(m)
        BY <1>3, <3>1
      <4>5. inside = FALSE
        BY <1>6, <2>6, <4>4 DEF BeginsFile, OtherFile
      <4>6. QED
        BY <1>3, <2>3, <4>3, <4>5, ScanStarts
    <3>2. CASE m # s.first
      <4>1. k \in s.first..s.last /\ k < next_line /\ k + 1 = next_line
        BY <1>3, <1>4, <1>6, <2>2, <3>2
      <4>2. WrittenTo(s, k, new_lines, next_line, in_comment)
        BY <4>1 DEF WrittenSoFar
      <4>3. ScannedTo(text, p, before, << >>, in_comment)
        BY <2>3, <2>4, <2>5, <4>1, <4>2 DEF WrittenTo
      <4>4. ~BeginsFile(m)
        BY <1>3, <3>2
      <4>5. ~OtherFile
        BY <1>6, <4>4 DEF BeginsFile, OtherFile
      <4>6. inside = in_comment
        BY <1>1, <2>6, <4>5
      <4>7. QED
        BY <4>3, <4>6
    <3>3. QED
      BY <3>1, <3>2
  <2>9. PICK x : x = lines[m].text
    OBVIOUS
  <2>10. /\ LineIn(text, p, x)
         /\ Len(TextOf(lines, s.first, m)) = p + Len(x) + 1
    <3>1. /\ LineIn(text, p, lines[k + 1].text)
          /\ Len(TextOf(lines, s.first, k + 1)) = p + Len(lines[k + 1].text) + 1
      <4>1. PICK first : first = s.first
        OBVIOUS
      <4>2. PICK last : last = s.last
        OBVIOUS
      <4>3. /\ lines \in Seq(InputData) /\ first \in Nat /\ first > 0 /\ k \in Nat /\ first <= k + 1
            /\ last \in Nat /\ k + 1 <= last /\ last <= Len(lines)
            /\ text = TextOf(lines, first, last) /\ p = Len(TextOf(lines, first, k))
        BY <1>2, <1>3, <2>2, <2>3, <2>4, <4>1, <4>2 DEF TextBefore
      <4>4. /\ LineIn(text, p, lines[k + 1].text)
            /\ Len(TextOf(lines, first, k + 1)) = p + Len(lines[k + 1].text) + 1
        BY ONLY <4>3, LineOfText
      <4>5. QED
        BY <4>1, <4>4
    <3>2. QED
      BY <2>2, <2>9, <3>1
  <2>11. inside \in BOOLEAN /\ text \in Seq(Char) /\ ~Touching(text)
    BY <1>3, <2>3, <2>6
  <2>12. PICK written : written = Append(new.text, "newline")
    OBVIOUS
  <2>13. ScannedTo(text, p + Len(x) + 1, before, written, in_comment')
    <3>1. ScannedTo(text, p + Len(x) + 1, before,
            Append(ScannedLine(x, inside).out, "newline"), ScannedLine(x, inside).in_comment)
      BY <2>7, <2>8, <2>10, <2>11, LineScanned
    <3>2. /\ new.text = ScannedLine(x, inside).out
          /\ in_comment' = ScannedLine(x, inside).in_comment
      BY <1>1, <1>6, <2>6, <2>9
    <3>3. QED
      BY <2>12, <3>1, <3>2
  <2>14. PICK q : q = p + Len(x) + 1
    OBVIOUS
  <2>15. q \in 0..Len(text) /\ text[q] = "newline"
    <3>1. p \in Nat /\ x \in Seq(Token) /\ p + Len(x) + 1 <= Len(text)
          /\ text[p + Len(x) + 1] = "newline"
      BY <2>10 DEF LineIn
    <3>2. Len(x) \in Nat /\ Len(text) \in Nat
      BY <2>11, <3>1
    <3>3. QED
      BY <2>14, <3>1, <3>2
  <2>16. written \in Seq(Char)
    <3>1. new.text \in Seq(Char) /\ "newline" \in Char
      BY <1>1 DEF Char
    <3>2. PICK t : t = new.text
      OBVIOUS
    <3>3. Append(t, "newline") \in Seq(Char)
      BY <3>1, <3>2
    <3>4. QED
      BY <2>12, <3>2, <3>3
  <2>17. ScannedTo(text, q, before \o written, << >>, in_comment')
    BY <1>1, <2>7, <2>11, <2>13, <2>14, <2>15, <2>16, ScanNextLine
  <2>18. TextOf(new_lines', s.first, m) = before \o written
    <3>1. k + 1 <= Len(new_lines')
      BY <1>1, <1>6, <2>2
    <3>2. TextOf(new_lines', s.first, k + 1) =
            TextOf(new_lines', s.first, k) \o Append(new_lines'[k + 1].text, "newline")
      BY <1>1, <1>3, <2>2, <3>1, OneLineMore
    <3>3. \A i \in s.first..k : new_lines'[i] = new_lines[i]
      BY <1>1, <1>3, <1>6, <2>2
    <3>4. TextOf(new_lines', s.first, k) = before
      BY <1>3, <2>2, <2>5, <3>3, TextSame
    <3>5. new_lines'[k + 1] = new
      BY <1>1, <1>6, <2>2
    <3>6. QED
      BY <2>2, <2>12, <3>2, <3>4, <3>5
  <2>19. ScannedTo(TextBefore(s), Len(TextOf(lines, s.first, m)), TextOf(new_lines', s.first, m),
                   << >>, in_comment')
    BY <2>3, <2>10, <2>14, <2>17, <2>18
  <2>20. QED
    BY <1>1, <2>19 DEF WrittenTo
<1>7. QED
  BY <1>1, <1>4, <1>5, <1>6

-----------------------------------------------------------------------------
(* A stretch that is done with.                                            *)
LEMMA StretchDone ==
  ASSUME lines \in Seq(InputData), NEW s \in Stretches, NEW new \in Seq(InputData),
         s.last <= Len(new), NEW next, NEW inside,
         WrittenTo(s, s.last, new, next, inside)
  PROVE  /\ TextOf(new, s.first, s.last) = Uncommented(TextBefore(s))[1].kept
         /\ s.last + 1 = next => OpenStretch(s) = inside
<1>1. /\ s.first \in Nat /\ s.last \in Nat /\ s.first > 0 /\ s.first <= s.last
      /\ TextBefore(s) \in Seq(Char)
  BY StretchIs
<1>2. PICK text : text = TextBefore(s)
  OBVIOUS
<1>3. PICK before : before = TextOf(new, s.first, s.last)
  OBVIOUS
<1>4. PICK p : p = Len(TextOf(lines, s.first, s.last))
  OBVIOUS
<1>5. PICK open \in BOOLEAN :
        ScannedTo(text, p, before, << >>, open) /\ (s.last + 1 = next => open = inside)
  BY <1>2, <1>3, <1>4 DEF WrittenTo
<1>6. text \in Seq(Char) /\ p = Len(text) /\ before \in Seq(Char) /\ << >> \in Seq(Char)
  BY <1>1, <1>2, <1>3, <1>4, TextType DEF TextBefore
<1>7. Uncommented(text)[1].kept = before \o << >> /\ Uncommented(text)[1].open = open
  <2>1. open \in BOOLEAN /\ ScannedTo(text, p, before, << >>, open)
    BY <1>5
  <2>2. ASSUME NEW out, out = << >>
        PROVE  Uncommented(text)[1].kept = before \o out /\ Uncommented(text)[1].open = open
    <3>1. out \in Seq(Char) /\ ScannedTo(text, p, before, out, open)
      BY <2>1, <2>2
    <3>2. QED
      BY <1>6, <2>1, <3>1, ScanEnds
  <2>3. QED
    BY <2>2
<1>8. before \o << >> = before
  BY <1>6
<1>9. QED
  BY <1>2, <1>3, <1>5, <1>7, <1>8 DEF OpenStretch

OpenErrors(counted, next) ==
  (\A s \in Stretches : ~Touching(TextBefore(s))) =>
    (counted <=> \E s \in Stretches : s.last + 1 < next /\ OpenStretch(s))

LEMMA OpenErrorCounted ==
  ASSUME TypeOK, Progress, RemoveComments, next_line = 1 => ~in_comment,
         WrittenSoFar(new_lines, next_line, in_comment),
         OpenErrors("comment" \in errors, next_line)
  PROVE  OpenErrors("comment" \in errors', next_line')
<1>1. PICK new :
    /\ next_line \in 1..Len(lines) /\ next_line \in Nat /\ Len(lines) \in Nat
    /\ in_comment \in BOOLEAN
    /\ new_lines \in Seq(InputData)
    /\ Len(new_lines) = next_line - 1
    /\ next_line' = next_line + 1
    /\ errors' = errors \cup IF OtherFile /\ in_comment THEN {"comment"} ELSE {}
  BY RemovesLine, Zenon
<1>2. lines \in Seq(InputData)
  BY DEF TypeOK, ReaderTypeOK
<1> SUFFICES ASSUME \A s \in Stretches : ~Touching(TextBefore(s))
             PROVE  "comment" \in errors' <=>
                      \E s \in Stretches : s.last + 1 < next_line' /\ OpenStretch(s)
  BY DEF OpenErrors
<1>3. "comment" \in errors <=> \E s \in Stretches : s.last + 1 < next_line /\ OpenStretch(s)
  BY DEF OpenErrors
<1>4. ASSUME NEW s \in Stretches, s.last + 1 = next_line
      PROVE  OpenStretch(s) = in_comment
  <2>1. s.first \in Nat /\ s.last \in Nat /\ s.first <= s.last
    BY <1>2, StretchIs
  <2>2. s.last \in s.first..s.last /\ s.last < next_line /\ s.last <= Len(new_lines)
    BY <1>1, <1>4, <2>1
  <2>3. WrittenTo(s, s.last, new_lines, next_line, in_comment)
    BY <2>2 DEF WrittenSoFar
  <2>4. QED
    BY <1>1, <1>2, <1>4, <2>2, <2>3, StretchDone
<1>5. (OtherFile /\ in_comment) <=> \E s \in Stretches : s.last + 1 = next_line /\ OpenStretch(s)
  <2>1. ASSUME OtherFile, in_comment
        PROVE  \E s \in Stretches : s.last + 1 = next_line /\ OpenStretch(s)
    <3>1. next_line # 1
      BY <2>1
    <3>2. next_line \in 2..Len(lines) /\ BeginsFile(next_line)
      BY <1>1, <2>1, <3>1 DEF OtherFile, BeginsFile
    <3>3. PICK s \in Stretches : s.last = next_line - 1
      BY <1>2, <3>2, StretchBefore
    <3>4. s.last + 1 = next_line
      BY <1>1, <3>3
    <3>5. OpenStretch(s) = in_comment
      BY <1>4, <3>4
    <3>6. QED
      BY <2>1, <3>4, <3>5
  <2>2. ASSUME NEW s \in Stretches, s.last + 1 = next_line, OpenStretch(s)
        PROVE  OtherFile /\ in_comment
    <3>1. in_comment
      BY <1>4, <2>2
    <3>2. /\ s.last \in Nat /\ s.last <= Len(lines)
          /\ s.last < Len(lines) => BeginsFile(s.last + 1)
      BY <1>2, StretchIs
    <3>3. BeginsFile(next_line)
      BY <1>1, <2>2, <3>2
    <3>4. QED
      BY <3>1, <3>3 DEF BeginsFile, OtherFile
  <2>3. QED
    BY <2>1, <2>2
<1>6. "comment" \in errors' <=> "comment" \in errors \/ (OtherFile /\ in_comment)
  BY <1>1
<1>7. \A s \in Stretches :
        s.last + 1 < next_line' <=> s.last + 1 < next_line \/ s.last + 1 = next_line
  <2> TAKE s \in Stretches
  <2>1. s.last \in Nat
    BY <1>2, StretchIs
  <2>2. QED
    BY <1>1, <2>1
<1>8. QED
  BY <1>3, <1>5, <1>6, <1>7

LineKept(new, i) == new[i] = [lines[i] EXCEPT !.text = new[i].text]

LEMMA LinesKept ==
  ASSUME TypeOK, Progress, RemoveComments, \A i \in 1..(next_line - 1) : LineKept(new_lines, i)
  PROVE  \A i \in 1..(next_line' - 1) : LineKept(new_lines', i)
<1>1. PICK new :
    /\ next_line \in 1..Len(lines) /\ next_line \in Nat /\ Len(lines) \in Nat
    /\ new = [lines[next_line] EXCEPT !.text =
                ScannedLine(lines[next_line].text, in_comment /\ ~OtherFile).out]
    /\ new.text = ScannedLine(lines[next_line].text, in_comment /\ ~OtherFile).out
    /\ new_lines'[next_line] = new
    /\ \A i \in 1..(next_line - 1) : new_lines'[i] = new_lines[i]
    /\ next_line' = next_line + 1
  BY RemovesLine, Zenon
<1>2. PICK text : text = new.text
  OBVIOUS
<1>3. new = [lines[next_line] EXCEPT !.text = text]
  BY <1>1, <1>2, Zenon
<1> TAKE i \in 1..(next_line' - 1)
<1>4. i \in 1..(next_line - 1) \/ i = next_line
  BY <1>1
<1>5. CASE i = next_line
  BY <1>1, <1>2, <1>3, <1>5, Zenon DEF LineKept
<1>6. CASE i \in 1..(next_line - 1)
  <2>1. LineKept(new_lines, i) /\ new_lines'[i] = new_lines[i]
    BY <1>1, <1>6
  <2>2. QED
    BY <2>1, Zenon DEF LineKept
<1>7. QED
  BY <1>4, <1>5, <1>6

-----------------------------------------------------------------------------
(* The inductive invariant for comments.                                   *)
CommentsInv ==
  /\ phase \in {"table", "embedded", "reading"} => "comment" \notin errors
  /\ phase = "comments" =>
       /\ next_line = 1 => ~in_comment
       /\ WrittenSoFar(new_lines, next_line, in_comment)
       /\ OpenErrors("comment" \in errors, next_line)
       /\ \A i \in 1..(next_line - 1) : LineKept(new_lines, i)
  /\ CommentsRemoved

LEMMA CommentsBegin ==
  ASSUME TypeOK, Progress, CommentsInv, phase = "reading", ReadingStep
  PROVE  CommentsInv'
<1>1. "comment" \notin errors /\ next_line = 1 /\ new_lines = << >> /\ in_comment = FALSE
  BY DEF CommentsInv, Progress
<1>2. "comment" \notin errors'
  BY <1>1 DEF ReadingStep, ReadErrors
<1>3. next_line' = 1 /\ in_comment' = FALSE /\ phase' \in {"reading", "comments", "failed"}
      /\ lines' \in Seq(InputData)
  BY <1>1 DEF ReadingStep
<1>4. \A s \in Stretches' : s.first \in Nat /\ s.last \in Nat /\ s.first > 0 /\ s.first <= s.last
  BY <1>3 DEF Stretches
<1>5. WrittenSoFar(new_lines, next_line, in_comment)'
  <2>1. \A s \in Stretches' : \A m \in s.first..s.last : ~(m < next_line')
    BY <1>3, <1>4
  <2>2. QED
    BY <2>1 DEF WrittenSoFar
<1>6. OpenErrors("comment" \in errors, next_line)'
  <2>1. \A s \in Stretches' : ~(s.last + 1 < next_line')
    BY <1>3, <1>4
  <2>2. QED
    BY <1>2, <2>1 DEF OpenErrors
<1>7. \A i \in 1..(next_line' - 1) : FALSE
  BY <1>3
<1>8. CommentsRemoved'
  BY <1>3 DEF CommentsRemoved
<1>9. QED
  BY <1>2, <1>3, <1>5, <1>6, <1>7, <1>8 DEF CommentsInv

LEMMA CommentsGoOn ==
  ASSUME TypeOK, Progress, CommentsInv, RemoveComments
  PROVE  CommentsInv'
<1>1. phase = "comments" /\ phase' = "comments" /\ lines' = lines
  BY DEF RemoveComments
<1>2. next_line \in Nat /\ next_line > 0 /\ next_line' = next_line + 1
  <2>1. next_line \in 1..(Len(lines) + 1) /\ Len(lines) \in Nat
    BY DEF TypeOK, ReaderTypeOK
  <2>2. QED
    BY <2>1 DEF RemoveComments
<1>3. /\ next_line = 1 => ~in_comment
      /\ WrittenSoFar(new_lines, next_line, in_comment)
      /\ OpenErrors("comment" \in errors, next_line)
      /\ \A i \in 1..(next_line - 1) : LineKept(new_lines, i)
  BY <1>1 DEF CommentsInv
<1>4. Stretches' = Stretches
  BY <1>1 DEF Stretches, BeginsFile
<1>5. \A s : TextBefore(s)' = TextBefore(s)
  BY <1>1 DEF TextBefore
<1>6. WrittenSoFar(new_lines, next_line, in_comment)'
  <2>1. WrittenSoFar(new_lines', next_line', in_comment')
    BY <1>3, LineIsWritten
  <2>2. QED
    BY <1>1, <1>4, <1>5, <2>1 DEF WrittenSoFar, WrittenTo
<1>7. OpenErrors("comment" \in errors, next_line)'
  <2>1. OpenErrors("comment" \in errors', next_line')
    BY <1>3, OpenErrorCounted
  <2>2. QED
    BY <1>4, <1>5, <2>1 DEF OpenErrors, OpenStretch
<1>8. (\A i \in 1..(next_line - 1) : LineKept(new_lines, i))'
  <2>1. \A i \in 1..(next_line' - 1) : LineKept(new_lines', i)
    BY <1>3, LinesKept
  <2>2. QED
    BY <1>1, <2>1 DEF LineKept
<1>9. next_line' # 1
  BY <1>2
<1>10. CommentsRemoved'
  BY <1>1 DEF CommentsRemoved
<1>11. QED
  BY <1>1, <1>6, <1>7, <1>8, <1>9, <1>10 DEF CommentsInv

LEMMA CommentsAreRemoved ==
  ASSUME TypeOK, Progress, CommentsInv, EndComments
  PROVE  CommentsInv'
<1>1. phase = "comments" /\ phase' = "macros" /\ lines' = lines /\ new_lines' = new_lines
      /\ errors' = errors /\ next_line > Len(lines) /\ Len(new_lines) = next_line - 1
  BY DEF EndComments, commentVars, Progress
<1>2. /\ lines \in Seq(InputData) /\ next_line \in 1..(Len(lines) + 1) /\ Len(lines) \in Nat
      /\ new_lines \in Seq(InputData)
  BY DEF TypeOK, ReaderTypeOK
<1>3. next_line = Len(lines) + 1 /\ Len(new_lines) = Len(lines)
  BY <1>1, <1>2
<1>4. /\ WrittenSoFar(new_lines, next_line, in_comment)
      /\ OpenErrors("comment" \in errors, next_line)
      /\ \A i \in 1..(next_line - 1) : LineKept(new_lines, i)
  BY <1>1 DEF CommentsInv
<1>5. DOMAIN new_lines = DOMAIN lines /\ DOMAIN lines = 1..Len(lines)
  BY <1>2, <1>3
<1>6. \A i \in DOMAIN lines : new_lines[i] = [lines[i] EXCEPT !.text = new_lines[i].text]
  <2>1. next_line - 1 = Len(lines)
    BY <1>2, <1>3
  <2>2. QED
    BY <1>4, <1>5, <2>1 DEF LineKept
<1>7. \A s \in Stretches : ~Touching(TextBefore(s)) =>
        TextOf(new_lines, s.first, s.last) = Uncommented(TextBefore(s))[1].kept
  <2> SUFFICES ASSUME NEW s \in Stretches, ~Touching(TextBefore(s))
               PROVE  TextOf(new_lines, s.first, s.last) = Uncommented(TextBefore(s))[1].kept
    OBVIOUS
  <2>1. s.first \in Nat /\ s.last \in Nat /\ s.first <= s.last /\ s.last <= Len(lines)
    BY <1>2, StretchIs
  <2>2. s.last \in s.first..s.last /\ s.last < next_line /\ s.last <= Len(new_lines)
    BY <1>2, <1>3, <2>1
  <2>3. WrittenTo(s, s.last, new_lines, next_line, in_comment)
    BY <1>4, <2>2 DEF WrittenSoFar
  <2>4. QED
    BY <1>2, <2>2, <2>3, StretchDone
<1>8. (\A s \in Stretches : ~Touching(TextBefore(s))) =>
        ("comment" \in errors <=> \E s \in Stretches : s.last < Len(lines) /\ OpenStretch(s))
  <2>1. \A s \in Stretches : s.last + 1 < next_line <=> s.last < Len(lines)
    <3> TAKE s \in Stretches
    <3>1. s.last \in Nat
      BY <1>2, StretchIs
    <3>2. QED
      BY <1>2, <1>3, <3>1
  <2>2. QED
    BY <1>4, <2>1 DEF OpenErrors
<1> DEFINE plain == {s \in Stretches : ~Touching(TextBefore(s))}
           Removed == /\ DOMAIN new_lines = DOMAIN lines
                      /\ \A i \in DOMAIN lines :
                           new_lines[i] = [lines[i] EXCEPT !.text = new_lines[i].text]
                      /\ \A s \in plain :
                           TextOf(new_lines, s.first, s.last) = Uncommented(TextBefore(s))[1].kept
                      /\ plain = Stretches =>
                           ("comment" \in errors <=>
                              \E s \in plain : s.last < Len(lines) /\ Uncommented(TextBefore(s))[1].open)
<1>9. Removed
  <2>1. plain = Stretches => \A s \in Stretches : ~Touching(TextBefore(s))
    OBVIOUS
  <2>2. plain = Stretches =>
          ("comment" \in errors <=>
             \E s \in plain : s.last < Len(lines) /\ Uncommented(TextBefore(s))[1].open)
    BY <1>8, <2>1 DEF OpenStretch
  <2>3. QED
    BY <1>5, <1>6, <1>7, <2>2
<1>10. Removed'
  <2>1. Stretches' = Stretches
    BY <1>1 DEF Stretches, BeginsFile
  <2>2. \A s : TextBefore(s)' = TextBefore(s)
    BY <1>1 DEF TextBefore
  <2>3. plain' = plain
    BY <2>1, <2>2
  <2> HIDE DEF plain
  <2>4. QED
    BY <1>1, <1>9, <2>1, <2>2, <2>3
<1>11. CommentsRemoved'
  BY <1>10, Zenon DEF CommentsRemoved, TextBefore
<1>12. QED
  BY <1>1, <1>11 DEF CommentsInv

LEMMA BeforeComments ==
  ASSUME TypeOK, CommentsInv, Table \/ Embedding
  PROVE  CommentsInv'
<1>1. phase \in {"table", "embedded"} /\ phase' \in {"table", "embedded", "reading", "failed", "panicked"}
  BY DEF Table, Embedding, EmptyTable, ReadOpcode, ReadMacro, TableRead, EmbedMacros, EmbeddingEnds
<1>2. "comment" \notin errors
  BY <1>1 DEF CommentsInv
<1>3. errors' \subseteq errors \cup TableErrors \cup MacroErrors
  <2>1. CASE Table
    BY <2>1 DEF Table, EmptyTable, ReadOpcode, ReadMacro, TableRead, TableErrors
  <2>2. CASE EmbeddingEnds
    BY <2>2 DEF EmbeddingEnds, MacroErrors
  <2>3. CASE EmbedMacros
    <3>1. errors' = errors \cup UNION { ErrorsIn(Called(call), call) : call \in Calls }
      BY <2>3 DEF EmbedMacros
    <3>2. \A call : ErrorsIn(Called(call), call) \subseteq MacroErrors
      BY ErrorsInAre
    <3>3. QED
      BY <3>1, <3>2
  <2>4. QED
    BY <2>1, <2>2, <2>3 DEF Embedding
<1>4. "comment" \notin errors'
  BY <1>2, <1>3 DEF TableErrors, MacroErrors
<1>5. CommentsRemoved'
  BY <1>1 DEF CommentsRemoved
<1>6. QED
  BY <1>1, <1>4, <1>5 DEF CommentsInv

LEMMA AfterComments ==
  ASSUME CommentsInv, Expanding
  PROVE  CommentsInv'
<1>1. phase = "macros" /\ phase' \in {"macros", "done"} /\ lines' = lines /\ new_lines' = new_lines
  BY DEF Expanding, ExpandLine, ExpansionEnds, programVars, commentVars
<1>2. "comment" \in errors' <=> "comment" \in errors
  <2>1. CASE ExpandLine
    <3>1. PICK call : errors' = errors \cup
              IF ~IsCall(call) THEN {}
              ELSE IF Defined(macros, call) THEN ErrorsIn(Definitions(call[1]), call)
              ELSE {"macro not found"}
      BY <2>1 DEF ExpandLine
    <3>2. ErrorsIn(Definitions(call[1]), call) \subseteq MacroErrors
      BY ErrorsInAre
    <3>3. QED
      BY <3>1, <3>2 DEF MacroErrors
  <2>2. CASE ExpansionEnds
    BY <2>2 DEF ExpansionEnds
  <2>3. QED
    BY <2>1, <2>2 DEF Expanding
<1>3. CommentsRemoved
  BY DEF CommentsInv
<1>4. CommentsRemoved'
  <2>1. Stretches' = Stretches
    BY <1>1 DEF Stretches, BeginsFile
  <2>2. QED
    BY <1>1, <1>2, <1>3, <2>1 DEF CommentsRemoved
<1>5. QED
  BY <1>1, <1>4 DEF CommentsInv

LEMMA CommentsInvStep == IInv /\ CommentsInv /\ [Next]_vars => CommentsInv'
<1> SUFFICES ASSUME IInv, CommentsInv, [Next]_vars
             PROVE  CommentsInv'
  OBVIOUS
<1>1. TypeOK /\ Progress /\ CallsRemembered
  BY DEF IInv
<1>2. CASE UNCHANGED vars
  <2>1. lines' = lines /\ new_lines' = new_lines /\ errors' = errors /\ phase' = phase
        /\ next_line' = next_line /\ in_comment' = in_comment
    BY <1>2 DEF vars, programVars, commentVars
  <2>2. Stretches' = Stretches /\ (\A s : TextBefore(s)' = TextBefore(s))
    BY <2>1 DEF Stretches, BeginsFile, TextBefore
  <2>3. CommentsRemoved'
    BY <2>1, <2>2 DEF CommentsInv, CommentsRemoved
  <2>4. WrittenSoFar(new_lines, next_line, in_comment)' <=> WrittenSoFar(new_lines, next_line, in_comment)
    BY <2>1, <2>2 DEF WrittenSoFar, WrittenTo
  <2>5. OpenErrors("comment" \in errors, next_line)' <=> OpenErrors("comment" \in errors, next_line)
    BY <2>1, <2>2 DEF OpenErrors, OpenStretch
  <2>6. QED
    BY <2>1, <2>3, <2>4, <2>5 DEF CommentsInv, LineKept
<1>3. CASE Table \/ Embedding
  BY <1>1, <1>3, BeforeComments
<1>4. CASE Source
  <2>1. phase = "reading"
    BY <1>4 DEF Source, Reading, OpenMain, ReadText, LineFails, ReadInclude, IncludeFails,
       IncludeWithoutName, EndOfFile
  <2>2. ReadingStep
    BY <1>1, <1>4, Opens, ReadsText, ReadsInclude, Returns DEF Source, Reading
  <2>3. QED
    BY <1>1, <2>1, <2>2, CommentsBegin
<1>5. CASE Comments
  BY <1>1, <1>5, CommentsGoOn, CommentsAreRemoved DEF Comments
<1>6. CASE Expanding
  BY <1>6, AfterComments
<1>7. QED
  BY <1>2, <1>3, <1>4, <1>5, <1>6 DEF Next

(***************************************************************************)
(* CommentsRemovedAlways: whatever the files of a program are, a stretch of*)
(* lines of one file in which no two delimiters touch keeps what stands    *)
(* outside its block comments, each character on its line, and nothing     *)
(* else; exactly a comment that another file cuts off is an Error          *)
(* (remove_block_comments of files.rs).                                    *)
(***************************************************************************)
THEOREM CommentsRemovedAlways == Spec => []CommentsRemoved
<1>1. Init => CommentsInv
  BY DEF Init, CommentsInv, CommentsRemoved
<1>2. CommentsInv => CommentsRemoved
  BY DEF CommentsInv
<1>3. QED
  BY <1>1, <1>2, Inductive, CommentsInvStep, PTL DEF Spec

-----------------------------------------------------------------------------
(* Sequences of sequences, joined.                                         *)
LEMMA JoinedIs ==
  ASSUME NEW S, NEW a \in Seq(S), NEW b \in Seq(S), NEW c, c = a \o b
  PROVE  /\ c \in Seq(S) /\ Len(c) = Len(a) + Len(b) /\ Len(a) \in Nat /\ Len(b) \in Nat
         /\ \A i \in 1..Len(a) : c[i] = a[i]
         /\ \A i \in 1..Len(b) : c[Len(a) + i] = b[i]
OBVIOUS

(* One sequence more.                                                      *)
LEMMA FlattenNext ==
  ASSUME NEW S, NEW s \in Seq(Seq(S)), NEW e \in Seq(S)
  PROVE  FlattenSeq(Append(s, e)) = FlattenSeq(s) \o e
<1> DEFINE f == [k \in 1..(Len(s) + 1) |-> IF k = Len(s) + 1 THEN e ELSE s[k]]
           n == Len(s)
<1>1. n \in Nat /\ s = [k \in 1..n |-> s[k]] /\ n = Len(s)
  OBVIOUS
<1>2. Append(s, e) = f
  BY AppendIs
<1>3. f = [k \in 1..(n + 1) |-> f[k]] /\ f[n + 1] = e /\ \A k \in 1..(n + 1) : f[k] \in Seq(S)
  OBVIOUS
<1>4. [k \in 1..n |-> f[k]] = s
  BY <1>1
<1> HIDE DEF f, n
<1>5. FlattenSeq([k \in 1..(n + 1) |-> f[k]]) = FlattenSeq([k \in 1..n |-> f[k]]) \o f[n + 1]
  <2>1. n \in Nat /\ \A k \in 1..(n + 1) : f[k] \in Seq(S)
    BY <1>1, <1>3
  <2>2. QED
    BY ONLY <2>1, FlattenMore
<1>6. QED
  BY <1>2, <1>3, <1>4, <1>5

(* Every sequence is empty or one longer than another.                     *)
LEMMA SequenceInduction ==
  ASSUME NEW S, NEW P, << >> \in P,
         \A s \in Seq(S), e \in S : s \in P => Append(s, e) \in P
  PROVE  \A s \in Seq(S) : s \in P
<1> DEFINE N == {n \in Nat : \A s \in Seq(S) : Len(s) = n => s \in P}
<1>1. 0 \in N
  <2>1. \A s \in Seq(S) : Len(s) = 0 => s = << >>
    BY EmptySeq
  <2>2. QED
    BY <2>1
<1>2. ASSUME NEW n \in Nat, n \in N
      PROVE  n + 1 \in N
  <2> SUFFICES ASSUME NEW s \in Seq(S), Len(s) = n + 1
               PROVE  s \in P
    OBVIOUS
  <2>1. s # << >>
    BY <1>2
  <2>2. Front(s) \in Seq(S) /\ Len(Front(s)) = Len(s) - 1 /\ Last(s) \in S /\ Last(s) = s[Len(s)]
        /\ \A i \in 1..(Len(s) - 1) : Front(s)[i] = s[i]
    BY <2>1, LastAndFront
  <2>3. PICK f : f = Front(s)
    OBVIOUS
  <2>4. PICK e : e = Last(s)
    OBVIOUS
  <2>5. f \in Seq(S) /\ Len(f) = n /\ e \in S /\ e = s[n + 1] /\ \A i \in 1..n : f[i] = s[i]
    BY <1>2, <2>2, <2>3, <2>4
  <2>6. f \in P
    BY <1>2, <2>5
  <2>7. s = Append(f, e)
    <3>1. PICK a : a = Append(f, e)
      OBVIOUS
    <3>2. a \in Seq(S) /\ Len(a) = n + 1 /\ a[n + 1] = e /\ \A i \in 1..n : a[i] = f[i]
      BY <2>5, <3>1
    <3>3. \A i \in 1..(n + 1) : a[i] = s[i]
      <4> TAKE i \in 1..(n + 1)
      <4>1. i = n + 1 \/ i \in 1..n
        OBVIOUS
      <4>2. QED
        BY <2>5, <3>2, <4>1
    <3>4. a = s
      BY <1>2, <3>2, <3>3
    <3>5. QED
      BY <3>1, <3>4
  <2>8. QED
    BY <2>5, <2>6, <2>7
<1>3. \A n \in Nat : n \in N
  <2> HIDE DEF N
  <2>1. QED
    BY <1>1, <1>2, NumberInduction
<1>4. QED
  <2> TAKE s \in Seq(S)
  <2>1. PICK n : n = Len(s)
    OBVIOUS
  <2>2. n \in Nat
    BY <2>1
  <2>3. n \in N
    <3> HIDE DEF N
    <3>1. QED
      BY <1>3, <2>2
  <2>4. QED
    BY <2>1, <2>3

LEMMA FlattenJoined ==
  ASSUME NEW S, NEW a \in Seq(Seq(S)), NEW b \in Seq(Seq(S))
  PROVE  FlattenSeq(a \o b) = FlattenSeq(a) \o FlattenSeq(b)
<1> DEFINE P == {t \in Seq(Seq(S)) : FlattenSeq(a \o t) = FlattenSeq(a) \o FlattenSeq(t)}
<1>1. FlattenSeq(a) \in Seq(S)
  BY FlattenType
<1>2. << >> \in P
  <2>1. a \o << >> = a /\ FlattenSeq(a) \o << >> = FlattenSeq(a) /\ << >> \in Seq(Seq(S))
    BY <1>1
  <2>2. QED
    BY <2>1, FlattenEmpty
<1>3. ASSUME NEW t \in Seq(Seq(S)), NEW e \in Seq(S), t \in P
      PROVE  Append(t, e) \in P
  <2>1. PICK both : both = a \o t
    OBVIOUS
  <2>2. both \in Seq(Seq(S)) /\ a \o Append(t, e) = Append(both, e)
    BY <2>1
  <2>3. FlattenSeq(Append(both, e)) = FlattenSeq(both) \o e
    BY <2>2, FlattenNext
  <2>4. FlattenSeq(both) = FlattenSeq(a) \o FlattenSeq(t)
    BY <1>3, <2>1
  <2>5. FlattenSeq(t) \in Seq(S)
    BY FlattenType
  <2>6. (FlattenSeq(a) \o FlattenSeq(t)) \o e = FlattenSeq(a) \o (FlattenSeq(t) \o e)
    <3>1. \A x, y, z \in Seq(S) : (x \o y) \o z = x \o (y \o z)
      <4> TAKE x, y, z \in Seq(S)
      <4>1. QED
        BY ConcatAssociative, SMTT(30)
    <3>2. \A y, z \in Seq(S) : (FlattenSeq(a) \o y) \o z = FlattenSeq(a) \o (y \o z)
      BY <1>1, <3>1, Zenon
    <3>3. QED
      BY <2>5, <3>2, Zenon
  <2>7. FlattenSeq(Append(t, e)) = FlattenSeq(t) \o e
    BY FlattenNext
  <2>8. Append(t, e) \in Seq(Seq(S))
    OBVIOUS
  <2>9. QED
    BY <2>2, <2>3, <2>4, <2>6, <2>7, <2>8
<1>4. \A t \in Seq(Seq(S)) : t \in P
  <2> HIDE DEF P
  <2>1. QED
    BY <1>2, <1>3, SequenceInduction
<1>5. QED
  BY <1>4

LEMMA FlattenMembers ==
  ASSUME NEW S, NEW s \in Seq(Seq(S)), NEW z
  PROVE  z \in ToSet(FlattenSeq(s)) <=> \E k \in DOMAIN s : z \in ToSet(s[k])
<1> DEFINE P == {t \in Seq(Seq(S)) : z \in ToSet(FlattenSeq(t)) <=> \E k \in DOMAIN t : z \in ToSet(t[k])}
<1>1. << >> \in P
  <2>1. FlattenSeq(<< >>) = << >>
    BY FlattenEmpty
  <2>2. ToSet(<< >>) = {}
    BY DEF ToSet
  <2>3. QED
    BY <2>1, <2>2
<1>2. ASSUME NEW t \in Seq(Seq(S)), NEW e \in Seq(S), t \in P
      PROVE  Append(t, e) \in P
  <2>1. PICK f : f = FlattenSeq(t)
    OBVIOUS
  <2>2. f \in Seq(S)
    BY <2>1, FlattenType
  <2>3. PICK fe : fe = f \o e
    OBVIOUS
  <2>4. FlattenSeq(Append(t, e)) = fe
    BY <2>1, <2>3, FlattenNext
  <2>5. /\ fe \in Seq(S) /\ Len(fe) = Len(f) + Len(e) /\ Len(f) \in Nat /\ Len(e) \in Nat
        /\ \A i \in 1..Len(f) : fe[i] = f[i]
        /\ \A i \in 1..Len(e) : fe[Len(f) + i] = e[i]
    BY <2>2, <2>3, JoinedIs
  <2>6. z \in ToSet(fe) <=> z \in ToSet(f) \/ z \in ToSet(e)
    <3>1. ASSUME z \in ToSet(fe)
          PROVE  z \in ToSet(f) \/ z \in ToSet(e)
      <4>1. PICK i \in 1..Len(fe) : fe[i] = z
        BY <2>5, <3>1 DEF ToSet
      <4>2. CASE i <= Len(f)
        <5>1. i \in DOMAIN f /\ f[i] = z
          BY <2>2, <2>5, <4>1, <4>2
        <5>2. QED
          BY <5>1 DEF ToSet
      <4>3. CASE i > Len(f)
        <5>1. PICK j : j = i - Len(f)
          OBVIOUS
        <5>2. j \in 1..Len(e) /\ Len(f) + j = i
          BY <2>5, <4>1, <4>3, <5>1
        <5>3. e[j] = z /\ j \in DOMAIN e
          BY <2>5, <4>1, <5>2
        <5>4. QED
          BY <5>3 DEF ToSet
      <4>4. QED
        BY <2>5, <4>1, <4>2, <4>3
    <3>2. ASSUME z \in ToSet(f)
          PROVE  z \in ToSet(fe)
      <4>1. PICK i \in 1..Len(f) : f[i] = z
        <5>1. DOMAIN f = 1..Len(f) /\ \E i \in DOMAIN f : f[i] = z
          BY <2>2, <3>2 DEF ToSet
        <5>2. QED
          BY <5>1
      <4>2. i \in DOMAIN fe /\ fe[i] = z
        BY <2>5, <4>1
      <4>3. QED
        BY <4>2 DEF ToSet
    <3>3. ASSUME z \in ToSet(e)
          PROVE  z \in ToSet(fe)
      <4>1. PICK i \in 1..Len(e) : e[i] = z
        <5>1. DOMAIN e = 1..Len(e) /\ \E i \in DOMAIN e : e[i] = z
          BY <3>3 DEF ToSet
        <5>2. QED
          BY <5>1
      <4>2. Len(f) + i \in DOMAIN fe /\ fe[Len(f) + i] = z
        BY <2>5, <4>1
      <4>3. QED
        BY <4>2 DEF ToSet
    <3>4. QED
      BY <3>1, <3>2, <3>3
  <2>7. PICK te : te = Append(t, e)
    OBVIOUS
  <2>8. /\ te \in Seq(Seq(S)) /\ DOMAIN te = 1..(Len(t) + 1) /\ te[Len(t) + 1] = e
        /\ \A k \in DOMAIN t : te[k] = t[k] /\ DOMAIN t = 1..Len(t) /\ Len(t) \in Nat
    BY <2>7
  <2>9. Len(t) \in Nat /\ DOMAIN t = 1..Len(t)
    OBVIOUS
  <2>10. (\E k \in DOMAIN te : z \in ToSet(te[k])) <=>
           (\E k \in DOMAIN t : z \in ToSet(t[k])) \/ z \in ToSet(e)
    <3>1. \A k : k \in DOMAIN te <=> k \in DOMAIN t \/ k = Len(t) + 1
      BY <2>8, <2>9
    <3>2. QED
      BY <2>8, <3>1
  <2>11. z \in ToSet(f) <=> \E k \in DOMAIN t : z \in ToSet(t[k])
    BY <1>2, <2>1
  <2>12. QED
    BY <2>4, <2>6, <2>7, <2>8, <2>10, <2>11
<1>3. \A t \in Seq(Seq(S)) : t \in P
  <2> HIDE DEF P
  <2>1. QED
    BY <1>1, <1>2, SequenceInduction
<1>4. QED
  BY <1>3

(* What a function makes of the members of a sequence.                     *)
Mapped(F, s) == [i \in DOMAIN s |-> F[s[i]]]

LEMMA MappedIs ==
  ASSUME NEW S, NEW F, NEW s \in Seq(S)
  PROVE  /\ Mapped(F, s) = [i \in 1..Len(s) |-> F[s[i]]]
         /\ Len(Mapped(F, s)) = Len(s) /\ Len(s) \in Nat
         /\ DOMAIN s = 1..Len(s) /\ DOMAIN Mapped(F, s) = 1..Len(s)
         /\ \A i \in 1..Len(s) : Mapped(F, s)[i] = F[s[i]]
<1>1. Len(s) \in Nat /\ DOMAIN s = 1..Len(s)
  OBVIOUS
<1>2. Mapped(F, s) = [i \in 1..Len(s) |-> F[s[i]]]
  BY <1>1 DEF Mapped
<1>3. QED
  BY <1>1, <1>2

LEMMA MappedType ==
  ASSUME NEW S, NEW Y, NEW F, \A x \in S : F[x] \in Y, NEW s \in Seq(S)
  PROVE  Mapped(F, s) \in Seq(Y)
<1>1. Mapped(F, s) = [i \in 1..Len(s) |-> F[s[i]]] /\ Len(s) \in Nat
  BY MappedIs
<1>2. \A i \in 1..Len(s) : F[s[i]] \in Y
  OBVIOUS
<1>3. QED
  BY <1>1, <1>2

LEMMA MappedNext ==
  ASSUME NEW S, NEW F, NEW s \in Seq(S), NEW e \in S
  PROVE  Mapped(F, Append(s, e)) = Append(Mapped(F, s), F[e])
<1> DEFINE Y == {F[x] : x \in S}
<1>1. PICK m : m = Mapped(F, s)
  OBVIOUS
<1>2. PICK t : t = Append(s, e)
  OBVIOUS
<1>3. /\ m \in Seq(Y) /\ Len(m) = Len(s) /\ Len(s) \in Nat
      /\ \A i \in 1..Len(s) : m[i] = F[s[i]]
  <2>1. \A x \in S : F[x] \in Y
    OBVIOUS
  <2> HIDE DEF Y
  <2>2. QED
    BY <1>1, <2>1, MappedIs, MappedType
<1>4. t \in Seq(S) /\ t = [i \in 1..(Len(s) + 1) |-> IF i = Len(s) + 1 THEN e ELSE s[i]]
  BY <1>2, AppendIs
<1> HIDE DEF Y
<1>5. Append(m, F[e]) = [i \in 1..(Len(s) + 1) |-> IF i = Len(s) + 1 THEN F[e] ELSE m[i]]
  BY <1>3, AppendIs
<1>6. Mapped(F, t) = [i \in 1..(Len(s) + 1) |-> F[t[i]]]
  BY <1>4 DEF Mapped
<1>7. \A i \in 1..(Len(s) + 1) : F[t[i]] = IF i = Len(s) + 1 THEN F[e] ELSE m[i]
  BY <1>3, <1>4
<1>8. QED
  BY <1>1, <1>2, <1>5, <1>6, <1>7

LEMMA MappedJoined ==
  ASSUME NEW S, NEW F, NEW a \in Seq(S), NEW b \in Seq(S)
  PROVE  Mapped(F, a \o b) = Mapped(F, a) \o Mapped(F, b)
<1> DEFINE Y == {F[x] : x \in S}
<1>1. PICK c : c = a \o b
  OBVIOUS
<1>2. PICK ma : ma = Mapped(F, a)
  OBVIOUS
<1>3. PICK mb : mb = Mapped(F, b)
  OBVIOUS
<1>4. PICK mc : mc = Mapped(F, c)
  OBVIOUS
<1>5. PICK both : both = ma \o mb
  OBVIOUS
<1>0. \A x \in S : F[x] \in Y
  OBVIOUS
<1> HIDE DEF Y
<1>6. /\ ma \in Seq(Y) /\ Len(ma) = Len(a) /\ Len(a) \in Nat
      /\ \A i \in 1..Len(a) : ma[i] = F[a[i]]
  BY <1>0, <1>2, MappedIs, MappedType
<1>7. /\ mb \in Seq(Y) /\ Len(mb) = Len(b) /\ Len(b) \in Nat
      /\ \A i \in 1..Len(b) : mb[i] = F[b[i]]
  BY <1>0, <1>3, MappedIs, MappedType
<1>8. /\ c \in Seq(S) /\ Len(c) = Len(a) + Len(b)
      /\ \A i \in 1..Len(a) : c[i] = a[i]
      /\ \A i \in 1..Len(b) : c[Len(a) + i] = b[i]
  BY <1>1, JoinedIs
<1>9. /\ mc \in Seq(Y) /\ Len(mc) = Len(c)
      /\ \A i \in 1..Len(c) : mc[i] = F[c[i]]
  <2>1. c \in Seq(S)
    BY <1>8
  <2>2. QED
    BY ONLY <1>0, <1>4, <2>1, MappedIs, MappedType
<1>10. /\ both \in Seq(Y) /\ Len(both) = Len(ma) + Len(mb)
       /\ \A i \in 1..Len(ma) : both[i] = ma[i]
       /\ \A i \in 1..Len(mb) : both[Len(ma) + i] = mb[i]
  <2>1. ma \in Seq(Y) /\ mb \in Seq(Y)
    BY <1>6, <1>7
  <2>2. QED
    BY ONLY <1>5, <2>1, JoinedIs
<1>11. \A i \in 1..Len(c) : mc[i] = both[i]
  <2> TAKE i \in 1..Len(c)
  <2>1. CASE i <= Len(a)
    <3>1. i \in 1..Len(a) /\ i \in 1..Len(ma)
      BY <1>6, <2>1
    <3>2. mc[i] = F[a[i]] /\ both[i] = ma[i]
      BY <1>8, <1>9, <1>10, <3>1
    <3>3. QED
      BY <1>6, <3>1, <3>2
  <2>2. CASE i > Len(a)
    <3>1. PICK j : j = i - Len(a)
      OBVIOUS
    <3>2. j \in 1..Len(b) /\ i = Len(a) + j
      BY <1>6, <1>7, <1>8, <2>2, <3>1
    <3>3. mc[i] = F[b[j]] /\ both[i] = mb[j]
      BY <1>6, <1>7, <1>8, <1>9, <1>10, <3>2
    <3>4. QED
      BY <1>7, <3>2, <3>3
  <2>3. QED
    BY <1>6, <2>1, <2>2
<1>12. mc = both
  <2>1. mc \in Seq(Y) /\ both \in Seq(Y) /\ Len(mc) = Len(both) /\ Len(mc) = Len(c)
    BY <1>6, <1>7, <1>8, <1>9, <1>10
  <2>2. \A i \in 1..Len(mc) : mc[i] = both[i]
    BY <1>11, <2>1
  <2>3. QED
    BY ONLY <2>1, <2>2, SeqEqual
<1>13. QED
  BY <1>1, <1>2, <1>3, <1>4, <1>5, <1>12

(* To map a joined sequence is to map each and join them.                  *)
LEMMA FlattenNested ==
  ASSUME NEW S, NEW Y, NEW F, \A x \in S : F[x] \in Seq(Y), NEW s \in Seq(Seq(S)),
         NEW G, \A t \in Seq(S) : G[t] = FlattenSeq(Mapped(F, t))
  PROVE  FlattenSeq(Mapped(F, FlattenSeq(s))) = FlattenSeq(Mapped(G, s))
<1> DEFINE P == {t \in Seq(Seq(S)) : FlattenSeq(Mapped(F, FlattenSeq(t))) = FlattenSeq(Mapped(G, t))}
<1>1. << >> \in P
  <2>1. Mapped(F, << >>) = << >> /\ Mapped(G, << >>) = << >>
    BY DEF Mapped
  <2>2. << >> \in Seq(Seq(S))
    OBVIOUS
  <2>3. QED
    BY <2>1, <2>2, FlattenEmpty
<1>2. ASSUME NEW t \in Seq(Seq(S)), NEW e \in Seq(S), t \in P
      PROVE  Append(t, e) \in P
  <2>1. PICK f : f = FlattenSeq(t)
    OBVIOUS
  <2>2. f \in Seq(S)
    BY <2>1, FlattenType
  <2>3. FlattenSeq(Append(t, e)) = f \o e
    BY <2>1, FlattenNext
  <2>4. Mapped(F, f \o e) = Mapped(F, f) \o Mapped(F, e)
    BY <2>2, MappedJoined
  <2>5. Mapped(F, f) \in Seq(Seq(Y)) /\ Mapped(F, e) \in Seq(Seq(Y)) /\ Mapped(G, t) \in Seq(Seq(Y))
    <3>1. Mapped(F, f) \in Seq(Seq(Y)) /\ Mapped(F, e) \in Seq(Seq(Y))
      BY <2>2, MappedType
    <3>2. \A x \in Seq(S) : G[x] \in Seq(Y)
      BY MappedType, FlattenType
    <3>3. QED
      BY <3>1, <3>2, MappedType
  <2>6. FlattenSeq(Mapped(F, f) \o Mapped(F, e)) = FlattenSeq(Mapped(F, f)) \o FlattenSeq(Mapped(F, e))
    BY <2>5, FlattenJoined
  <2>7. FlattenSeq(Mapped(F, e)) = G[e] /\ G[e] \in Seq(Y)
    BY <2>5, FlattenType
  <2>8. Mapped(G, Append(t, e)) = Append(Mapped(G, t), G[e])
    BY MappedNext
  <2>9. FlattenSeq(Append(Mapped(G, t), G[e])) = FlattenSeq(Mapped(G, t)) \o G[e]
    BY <2>5, <2>7, FlattenNext
  <2>10. FlattenSeq(Mapped(F, f)) = FlattenSeq(Mapped(G, t))
    BY <1>2, <2>1
  <2>11. Append(t, e) \in Seq(Seq(S))
    OBVIOUS
  <2>12. QED
    BY <2>3, <2>4, <2>6, <2>7, <2>8, <2>9, <2>10, <2>11
<1>3. \A t \in Seq(Seq(S)) : t \in P
  <2> HIDE DEF P
  <2>1. QED
    BY <1>1, <1>2, SequenceInduction
<1>4. QED
  BY <1>3

(* Sequences of one joined.                                                *)
LEMMA FlattenSingles ==
  ASSUME NEW S, NEW F, \A e \in S : F[e] = << e >>, NEW s \in Seq(S)
  PROVE  FlattenSeq(Mapped(F, s)) = s
<1> DEFINE P == {t \in Seq(S) : FlattenSeq(Mapped(F, t)) = t}
<1>1. << >> \in P
  <2>1. Mapped(F, << >>) = << >> /\ << >> \in Seq(S)
    BY DEF Mapped
  <2>2. QED
    BY <2>1, FlattenEmpty
<1>2. ASSUME NEW t \in Seq(S), NEW e \in S, t \in P
      PROVE  Append(t, e) \in P
  <2>1. Mapped(F, Append(t, e)) = Append(Mapped(F, t), F[e]) /\ Mapped(F, t) \in Seq(Seq(S))
    <3>1. \A x \in S : F[x] \in Seq(S)
      <4> TAKE x \in S
      <4>1. << x >> \in Seq(S)
        OBVIOUS
      <4>2. QED
        BY <4>1
    <3>2. QED
      BY <3>1, MappedNext, MappedType
  <2>2. FlattenSeq(Append(Mapped(F, t), F[e])) = FlattenSeq(Mapped(F, t)) \o F[e]
    <3>1. << e >> \in Seq(S) /\ F[e] = << e >>
      OBVIOUS
    <3>2. F[e] \in Seq(S)
      BY <3>1
    <3>3. QED
      BY <2>1, <3>2, FlattenNext
  <2>3. FlattenSeq(Mapped(F, t)) = t /\ F[e] = << e >>
    BY <1>2
  <2>4. Append(t, e) = t \o << e >> /\ Append(t, e) \in Seq(S)
    BY AppendJoins
  <2>5. QED
    BY <2>1, <2>2, <2>3, <2>4
<1>3. \A t \in Seq(S) : t \in P
  <2> HIDE DEF P
  <2>1. QED
    BY <1>1, <1>2, SequenceInduction
<1>4. QED
  BY <1>3

-----------------------------------------------------------------------------
(* The words of a call in the places of an item's placeholders.            *)
Fits(item, call) == \A i \in DOMAIN item : Argument(item[i], call) # << >>

LEMMA ErrorsInItems ==
  ASSUME NEW items, NEW call
  PROVE  ErrorsIn(items, call) = {} <=> \A k \in DOMAIN items : Fits(items[k], call)
<1>1. \A k : ArgumentErrors(items[k], call) = {} <=> Fits(items[k], call)
  <2> TAKE k
  <2>1. PICK item : item = items[k]
    OBVIOUS
  <2>2. PICK lost : lost = { j \in DOMAIN item : Argument(item[j], call) = << >> }
    OBVIOUS
  <2>3. ArgumentErrors(item, call) =
          { IF NumberOf[item[i]] = 0 THEN "invalid argument" ELSE "missing argument" : i \in lost }
    BY <2>2 DEF ArgumentErrors
  <2>4. ArgumentErrors(item, call) = {} <=> lost = {}
    <3>1. ASSUME NEW i \in lost
          PROVE  ArgumentErrors(item, call) # {}
      <4>1. (IF NumberOf[item[i]] = 0 THEN "invalid argument" ELSE "missing argument")
              \in ArgumentErrors(item, call)
        BY <2>3, <3>1
      <4>2. QED
        BY <4>1
    <3>2. lost = {} => ArgumentErrors(item, call) = {}
      BY <2>3
    <3>3. QED
      BY <3>1, <3>2
  <2>5. QED
    BY <2>1, <2>2, <2>4 DEF Fits
<1>2. ErrorsIn(items, call) = {} <=> \A k \in DOMAIN items : ArgumentErrors(items[k], call) = {}
  BY DEF ErrorsIn
<1>3. QED
  BY <1>1, <1>2

LEMMA PlaceholderIsToken == Placeholder \subseteq Token /\ MacroName \subseteq Token
BY MacrosAssumption DEF Token

(* Which word it is.                                                       *)
LEMMA WordSubstituted ==
  ASSUME NEW item \in Seq(Token), NEW call \in Seq(Token)
  PROVE  /\ Substituted(item, call) \in Seq(Token) /\ Len(Substituted(item, call)) = Len(item)
         /\ Len(item) \in Nat
         /\ \A i \in 1..Len(item) :
              IF item[i] \in Placeholder /\ NumberOf[item[i]] \in 1..(Len(call) - 1)
              THEN Substituted(item, call)[i] = call[NumberOf[item[i]] + 1]
              ELSE Substituted(item, call)[i] = item[i]
<1>1. DOMAIN item = 1..Len(item) /\ Len(item) \in Nat /\ Len(call) \in Nat
  OBVIOUS
<1>2. \A i \in 1..Len(item) :
        IF item[i] \in Placeholder /\ NumberOf[item[i]] \in 1..(Len(call) - 1)
        THEN /\ Argument(item[i], call) = << call[NumberOf[item[i]] + 1] >>
             /\ call[NumberOf[item[i]] + 1] \in Token
        ELSE Argument(item[i], call) \in {<< >>, << item[i] >>}
  <2> TAKE i \in 1..Len(item)
  <2>1. CASE item[i] \in Placeholder /\ NumberOf[item[i]] \in 1..(Len(call) - 1)
    <3>1. PICK m : m = NumberOf[item[i]] + 1
      OBVIOUS
    <3>2. m \in 1..Len(call)
      BY <1>1, <2>1, <3>1
    <3>3. call[m] \in Token
      BY <3>2
    <3>4. QED
      BY <2>1, <3>1, <3>3 DEF Argument
  <2>2. CASE ~(item[i] \in Placeholder /\ NumberOf[item[i]] \in 1..(Len(call) - 1))
    BY <2>2 DEF Argument
  <2>3. QED
    BY <2>1, <2>2
<1>3. Substituted(item, call)
        = [i \in 1..Len(item) |-> IF Argument(item[i], call) = << >> THEN item[i]
                                  ELSE Argument(item[i], call)[1]]
  BY <1>1 DEF Substituted
<1>4. PICK s : s = Substituted(item, call)
  OBVIOUS
<1>5. \A e : << e >> # << >> /\ << e >>[1] = e
  OBVIOUS
<1>6. \A i \in 1..Len(item) :
        IF item[i] \in Placeholder /\ NumberOf[item[i]] \in 1..(Len(call) - 1)
        THEN s[i] = call[NumberOf[item[i]] + 1] ELSE s[i] = item[i]
  <2> TAKE i \in 1..Len(item)
  <2>1. s[i] = IF Argument(item[i], call) = << >> THEN item[i] ELSE Argument(item[i], call)[1]
    BY <1>3, <1>4
  <2>2. QED
    BY <1>2, <1>5, <2>1, Zenon
<1>7. \A i \in 1..Len(item) : s[i] \in Token
  BY <1>2, <1>6
<1>8. s = [i \in 1..Len(item) |-> s[i]]
  BY <1>3, <1>4
<1>9. s \in Seq(Token) /\ Len(s) = Len(item)
  BY <1>1, <1>7, <1>8
<1>10. QED
  BY <1>1, <1>4, <1>6, <1>9

LEMMA FitsIs ==
  ASSUME NEW item \in Seq(Token), NEW call \in Seq(Token)
  PROVE  Fits(item, call) <=>
           \A i \in 1..Len(item) : item[i] \in Placeholder => NumberOf[item[i]] \in 1..(Len(call) - 1)
<1>1. DOMAIN item = 1..Len(item)
  OBVIOUS
<1>2. \A e : << e >> # << >>
  OBVIOUS
<1>3. QED
  BY <1>1, <1>2 DEF Fits, Argument

(* If each has one, expand_macros puts in what Substituted says.           *)
LEMMA ReplacedIs ==
  ASSUME NEW item \in Seq(Token), NEW call \in Seq(Token), Fits(item, call)
  PROVE  Replaced(item, call) = Substituted(item, call)
<1> DEFINE F == [x \in Token |-> << x >>]
<1>1. PICK s : s = Substituted(item, call)
  OBVIOUS
<1>2. DOMAIN item = 1..Len(item) /\ Len(item) \in Nat /\ s \in Seq(Token) /\ Len(s) = Len(item)
  BY <1>1, WordSubstituted
<1>3. \A i \in 1..Len(item) : Argument(item[i], call) = << s[i] >>
  <2> TAKE i \in 1..Len(item)
  <2>1. Argument(item[i], call) # << >>
    BY <1>2 DEF Fits
  <2>2. CASE item[i] \in Placeholder
    <3>1. NumberOf[item[i]] \in 1..(Len(call) - 1)
      BY <2>1, <2>2 DEF Argument
    <3>2. s[i] = call[NumberOf[item[i]] + 1]
      BY <1>1, <2>2, <3>1, WordSubstituted
    <3>3. QED
      BY <2>2, <3>1, <3>2 DEF Argument
  <2>3. CASE item[i] \notin Placeholder
    <3>1. s[i] = item[i]
      BY <1>1, <2>3, WordSubstituted
    <3>2. QED
      BY <2>3, <3>1 DEF Argument
  <2>4. QED
    BY <2>2, <2>3
<1>4. Replaced(item, call) = FlattenSeq([i \in 1..Len(item) |-> << s[i] >>])
  <2>1. [i \in DOMAIN item |-> Argument(item[i], call)] = [i \in 1..Len(item) |-> << s[i] >>]
    BY <1>2, <1>3
  <2>2. QED
    BY <2>1 DEF Replaced
<1>5. Mapped(F, s) = [i \in 1..Len(item) |-> << s[i] >>]
  <2>1. DOMAIN s = 1..Len(item) /\ \A i \in 1..Len(item) : s[i] \in Token
    BY <1>2
  <2>2. QED
    BY <2>1 DEF Mapped
<1>6. \A e \in Token : F[e] = << e >>
  OBVIOUS
<1> HIDE DEF F
<1>7. FlattenSeq(Mapped(F, s)) = s
  BY <1>2, <1>6, FlattenSingles
<1>8. QED
  BY <1>1, <1>4, <1>5, <1>7

(* To put words into an item that words were put into is to put them into  *)
(* the call whose words those were.                                        *)
LEMMA SubstitutedTwice ==
  ASSUME NEW item \in Seq(Token), NEW call \in Seq(Token), NEW outer \in Seq(Token),
         Fits(item, call)
  PROVE  Substituted(Substituted(item, call), outer) = Substituted(item, Substituted(call, outer))
<1>1. PICK s : s = Substituted(item, call)
  OBVIOUS
<1>2. PICK d : d = Substituted(call, outer)
  OBVIOUS
<1>3. s \in Seq(Token) /\ Len(s) = Len(item) /\ Len(item) \in Nat
  BY <1>1, WordSubstituted
<1>4. d \in Seq(Token) /\ Len(d) = Len(call) /\ Len(call) \in Nat
  BY <1>2, WordSubstituted
<1>5. PICK left : left = Substituted(s, outer)
  OBVIOUS
<1>6. PICK right : right = Substituted(item, d)
  OBVIOUS
<1>7. left \in Seq(Token) /\ Len(left) = Len(item)
  BY <1>3, <1>5, WordSubstituted
<1>8. right \in Seq(Token) /\ Len(right) = Len(item)
  BY <1>4, <1>6, WordSubstituted
<1>9. \A i \in 1..Len(left) : left[i] = right[i]
  <2> SUFFICES ASSUME NEW i \in 1..Len(item)
               PROVE  left[i] = right[i]
    BY <1>7
  <2>1. IF s[i] \in Placeholder /\ NumberOf[s[i]] \in 1..(Len(outer) - 1)
        THEN left[i] = outer[NumberOf[s[i]] + 1] ELSE left[i] = s[i]
    <3>1. i \in 1..Len(s)
      BY <1>3
    <3>2. QED
      BY <1>3, <1>5, <3>1, WordSubstituted
  <2>2. CASE item[i] \in Placeholder
    <3>1. PICK m : m = NumberOf[item[i]]
      OBVIOUS
    <3>2. m \in 1..(Len(call) - 1)
      BY <2>2, <3>1, FitsIs
    <3>3. s[i] = call[m + 1]
      BY <1>1, <2>2, <3>1, <3>2, WordSubstituted
    <3>4. right[i] = d[m + 1]
      BY <1>4, <1>6, <2>2, <3>1, <3>2, WordSubstituted
    <3>5. PICK k : k = m + 1
      OBVIOUS
    <3>6. k \in 1..Len(call)
      BY <1>4, <3>2, <3>5
    <3>7. IF call[k] \in Placeholder /\ NumberOf[call[k]] \in 1..(Len(outer) - 1)
          THEN d[k] = outer[NumberOf[call[k]] + 1] ELSE d[k] = call[k]
      BY <1>2, <3>6, WordSubstituted
    <3>8. QED
      BY <2>1, <3>3, <3>4, <3>5, <3>7
  <2>3. CASE item[i] \notin Placeholder
    <3>1. s[i] = item[i]
      BY <1>1, <2>3, WordSubstituted
    <3>2. right[i] = item[i]
      BY <1>4, <1>6, <2>3, WordSubstituted
    <3>3. QED
      BY <2>1, <2>3, <3>1, <3>2
  <2>4. QED
    BY <2>2, <2>3
<1>10. left = right
  <2>1. Len(left) = Len(right)
    BY <1>7, <1>8
  <2>2. QED
    BY ONLY <1>7, <1>8, <1>9, <2>1, SeqEqual
<1>11. QED
  BY <1>1, <1>2, <1>5, <1>6, <1>10

LEMMA FitsTwice ==
  ASSUME NEW item \in Seq(Token), NEW call \in Seq(Token), NEW outer \in Seq(Token),
         Fits(item, call), Fits(call, outer)
  PROVE  Fits(Substituted(item, call), outer)
<1>1. PICK s : s = Substituted(item, call)
  OBVIOUS
<1>2. s \in Seq(Token) /\ Len(s) = Len(item) /\ Len(item) \in Nat
  BY <1>1, WordSubstituted
<1>3. \A i \in 1..Len(s) : s[i] \in Placeholder => NumberOf[s[i]] \in 1..(Len(outer) - 1)
  <2> SUFFICES ASSUME NEW i \in 1..Len(item), s[i] \in Placeholder
               PROVE  NumberOf[s[i]] \in 1..(Len(outer) - 1)
    BY <1>2
  <2>1. item[i] \in Placeholder
    BY <1>1, WordSubstituted
  <2>2. PICK m : m = NumberOf[item[i]]
    OBVIOUS
  <2>3. m \in 1..(Len(call) - 1)
    BY <2>1, <2>2, FitsIs
  <2>4. PICK k : k = m + 1
    OBVIOUS
  <2>5. k \in 1..Len(call) /\ s[i] = call[k]
    <3>1. Len(call) \in Nat
      OBVIOUS
    <3>2. QED
      BY <1>1, <2>1, <2>2, <2>3, <2>4, <3>1, WordSubstituted
  <2>6. QED
    BY <2>5, FitsIs
<1>4. QED
  BY <1>1, <1>2, <1>3, FitsIs

(* How many words a call has is all that counts.                           *)
LEMMA FitsSameLength ==
  ASSUME NEW item \in Seq(Token), NEW call \in Seq(Token), NEW other \in Seq(Token),
         Len(call) = Len(other), Fits(item, call)
  PROVE  Fits(item, other)
BY FitsIs

-----------------------------------------------------------------------------
(* Which items call a macro, before and after.                             *)
LEMMA NamesAreMacros ==
  ASSUME table \in Seq(TableLine)
  PROVE  TableNames \subseteq MacroName
<1>1. \A i \in MacroLines : table[i] \in TableLine
  <2>1. DOMAIN table = 1..Len(table) /\ \A i \in 1..Len(table) : table[i] \in TableLine
    OBVIOUS
  <2>2. QED
    BY <2>1 DEF MacroLines
<1>2. QED
  BY <1>1 DEF TableNames, TableLine, MacroLines

LEMMA NameKept ==
  ASSUME table \in Seq(TableLine), NEW item \in Seq(Token), NEW call \in Seq(Token), CallsMacro(item)
  PROVE  CallsMacro(Substituted(item, call)) /\ Substituted(item, call)[1] = item[1]
<1>1. item[1] \notin Placeholder /\ Len(item) > 0 /\ Len(item) \in Nat
  <2>1. item # << >> /\ item[1] \in MacroName
    BY NamesAreMacros DEF CallsMacro
  <2>2. Len(item) \in Nat /\ (Len(item) = 0 => item = << >>)
    BY EmptySeq
  <2>3. QED
    <3>1. item[1] \notin Placeholder
      BY <2>1, MacrosAssumption
    <3>2. Len(item) # 0
      BY <2>1, <2>2
    <3>3. Len(item) > 0
      BY <2>2, <3>2
    <3>4. item[1] \in Token
      BY <2>1, PlaceholderIsToken
    <3>5. QED
      BY <2>2, <3>1, <3>3, <3>4
<1>2. PICK s : s = Substituted(item, call)
  OBVIOUS
<1>3. s \in Seq(Token) /\ Len(s) = Len(item) /\ s[1] = item[1]
  <2>1. 1 \in 1..Len(item)
    BY ONLY <1>1
  <2>2. s \in Seq(Token) /\ Len(s) = Len(item) /\ \A i \in 1..Len(item) : item[i] \notin Placeholder => s[i] = item[i]
    BY <1>2, WordSubstituted
  <2>3. QED
    BY <1>1, <2>1, <2>2
<1>4. s # << >>
  BY <1>1, <1>3
<1>5. QED
  BY <1>2, <1>3, <1>4 DEF CallsMacro

LEMMA CallsNone ==
  ASSUME table \in Seq(TableLine), NEW item \in Seq(Token), NEW call \in Seq(Token),
         ~CallsMacro(item), HandsNoMacro(call)
  PROVE  ~CallsMacro(Substituted(item, call))
<1>1. PICK s : s = Substituted(item, call)
  OBVIOUS
<1>2. s \in Seq(Token) /\ Len(s) = Len(item) /\ Len(item) \in Nat /\ Len(call) \in Nat
  BY <1>1, WordSubstituted
<1>3. CASE Len(item) = 0
  BY <1>1, <1>2, <1>3 DEF CallsMacro
<1>4. CASE Len(item) > 0
  <2>1. item[1] \notin TableNames
    BY <1>4 DEF CallsMacro
  <2>2. CASE item[1] \in Placeholder /\ NumberOf[item[1]] \in 1..(Len(call) - 1)
    <3>1. s[1] = call[NumberOf[item[1]] + 1]
      BY <1>1, <1>2, <1>4, <2>2, WordSubstituted
    <3>2. PICK k : k = NumberOf[item[1]] + 1
      OBVIOUS
    <3>3. k \in 2..Len(call)
      BY <1>2, <2>2, <3>2
    <3>4. s[1] \notin TableNames
      BY <3>1, <3>2, <3>3, NamesAreMacros DEF HandsNoMacro
    <3>5. QED
      BY <1>1, <3>4 DEF CallsMacro
  <2>3. CASE ~(item[1] \in Placeholder /\ NumberOf[item[1]] \in 1..(Len(call) - 1))
    <3>1. s[1] = item[1]
      BY <1>1, <1>2, <1>4, <2>3, WordSubstituted
    <3>2. QED
      BY <1>1, <2>1, <3>1 DEF CallsMacro
  <2>4. QED
    BY <2>2, <2>3
<1>5. QED
  BY <1>2, <1>3, <1>4

LEMMA HandsNone ==
  ASSUME NEW item \in Seq(Token), NEW call \in Seq(Token), HandsNoMacro(item), HandsNoMacro(call)
  PROVE  HandsNoMacro(Substituted(item, call))
<1>1. PICK s : s = Substituted(item, call)
  OBVIOUS
<1>2. s \in Seq(Token) /\ Len(s) = Len(item) /\ Len(item) \in Nat /\ Len(call) \in Nat
  BY <1>1, WordSubstituted
<1>3. ASSUME NEW i \in 2..Len(s)
      PROVE  s[i] \notin MacroName
  <2>1. i \in 1..Len(item) /\ item[i] \notin MacroName
    BY <1>2, <1>3 DEF HandsNoMacro
  <2>2. CASE item[i] \in Placeholder /\ NumberOf[item[i]] \in 1..(Len(call) - 1)
    <3>1. s[i] = call[NumberOf[item[i]] + 1]
      BY <1>1, <2>1, <2>2, WordSubstituted
    <3>2. PICK k : k = NumberOf[item[i]] + 1
      OBVIOUS
    <3>3. k \in 2..Len(call)
      BY <1>2, <2>2, <3>2
    <3>4. QED
      BY <3>1, <3>2, <3>3 DEF HandsNoMacro
  <2>3. CASE ~(item[i] \in Placeholder /\ NumberOf[item[i]] \in 1..(Len(call) - 1))
    BY <1>1, <2>1, <2>3, WordSubstituted
  <2>4. QED
    BY <2>2, <2>3
<1>4. QED
  BY <1>1, <1>3 DEF HandsNoMacro

(* Whether or not all words are there.                                     *)
LEMMA ReplacedFirst ==
  ASSUME table \in Seq(TableLine), NEW item \in Seq(Token), NEW call \in Seq(Token), CallsMacro(item)
  PROVE  CallsMacro(Replaced(item, call)) /\ Replaced(item, call)[1] = item[1]
<1> DEFINE parts == [i \in DOMAIN item |-> Argument(item[i], call)]
<1>1. item[1] \notin Placeholder /\ Len(item) > 0 /\ Len(item) \in Nat /\ DOMAIN item = 1..Len(item)
      /\ item[1] \in Token
  <2>1. item # << >> /\ item[1] \in MacroName
    BY NamesAreMacros DEF CallsMacro
  <2>2. Len(item) \in Nat /\ (Len(item) = 0 => item = << >>) /\ DOMAIN item = 1..Len(item)
    BY EmptySeq
  <2>3. QED
    <3>1. item[1] \notin Placeholder
      BY <2>1, MacrosAssumption
    <3>2. Len(item) # 0
      BY <2>1, <2>2
    <3>3. Len(item) > 0
      BY <2>2, <3>2
    <3>4. item[1] \in Token
      BY <2>1, PlaceholderIsToken
    <3>5. QED
      BY <2>2, <3>1, <3>3, <3>4
<1>2. PICK first : first = << item[1] >>
  OBVIOUS
<1>3. first \in Seq(Token) /\ Len(first) = 1 /\ first[1] = item[1]
  BY <1>1, <1>2
<1>4. \A i \in 1..Len(item) : Argument(item[i], call) \in Seq(Token)
  <2> TAKE i \in 1..Len(item)
  <2>1. CASE item[i] \notin Placeholder
    <3>1. item[i] \in Token /\ << item[i] >> \in Seq(Token)
      OBVIOUS
    <3>2. QED
      BY <2>1, <3>1 DEF Argument
  <2>2. CASE item[i] \in Placeholder /\ NumberOf[item[i]] \in 1..(Len(call) - 1)
    <3>1. Len(call) \in Nat /\ NumberOf[item[i]] + 1 \in 1..Len(call)
      BY <2>2
    <3>2. << call[NumberOf[item[i]] + 1] >> \in Seq(Token)
      BY <3>1
    <3>3. QED
      BY <2>2, <3>2 DEF Argument
  <2>3. CASE item[i] \in Placeholder /\ NumberOf[item[i]] \notin 1..(Len(call) - 1)
    BY <2>3 DEF Argument
  <2>4. QED
    BY <2>1, <2>2, <2>3
<1>5. parts \in Seq(Seq(Token)) /\ Len(parts) = Len(item) /\ parts[1] = first
  <2>1. parts = [i \in 1..Len(item) |-> Argument(item[i], call)]
    BY <1>1
  <2>2. Argument(item[1], call) = first
    BY <1>1, <1>2 DEF Argument
  <2>3. QED
    BY <1>1, <1>4, <2>1, <2>2
<1>6. Replaced(item, call) = FlattenSeq(parts)
  BY DEF Replaced
<1> HIDE DEF parts
<1>7. PICK rest : rest = Tail(parts)
  OBVIOUS
<1>8. PICK one : one = << first >>
  OBVIOUS
<1>9. rest \in Seq(Seq(Token)) /\ one \in Seq(Seq(Token)) /\ parts = one \o rest
  <2>1. parts # << >>
    BY <1>1, <1>5
  <2>2. rest \in Seq(Seq(Token)) /\ one \in Seq(Seq(Token))
    BY <1>3, <1>5, <1>7, <1>8, <2>1
  <2>3. parts = << parts[1] >> \o Tail(parts)
    BY <1>5, <2>1
  <2>4. QED
    BY <1>5, <1>7, <1>8, <2>2, <2>3
<1>10. FlattenSeq(one) = first
  <2>1. << >> \in Seq(Seq(Token)) /\ Append(<< >>, first) = one
    BY <1>8
  <2>2. FlattenSeq(Append(<< >>, first)) = FlattenSeq(<< >>) \o first
    BY <1>3, <2>1, FlattenNext
  <2>3. << >> \o first = first
    BY <1>3
  <2>4. QED
    BY <2>1, <2>2, <2>3, FlattenEmpty
<1>11. FlattenSeq(parts) = first \o FlattenSeq(rest) /\ FlattenSeq(rest) \in Seq(Token)
  BY <1>9, <1>10, FlattenJoined, FlattenType
<1>12. PICK whole : whole = first \o FlattenSeq(rest)
  OBVIOUS
<1>13. whole \in Seq(Token) /\ Len(whole) > 0 /\ whole[1] = item[1]
  <2>1. /\ whole \in Seq(Token) /\ Len(whole) = Len(first) + Len(FlattenSeq(rest)) /\ Len(FlattenSeq(rest)) \in Nat
        /\ \A i \in 1..Len(first) : whole[i] = first[i]
    <3>1. PICK b : b = FlattenSeq(rest)
      OBVIOUS
    <3>2. b \in Seq(Token) /\ whole = first \o b
      BY <1>11, <1>12, <3>1
    <3>0. first \in Seq(Token)
      BY <1>3
    <3>3. /\ whole \in Seq(Token) /\ Len(whole) = Len(first) + Len(b) /\ Len(b) \in Nat
          /\ \A i \in 1..Len(first) : whole[i] = first[i]
      BY ONLY <3>0, <3>2, JoinedIs
    <3>4. QED
      BY <3>1, <3>3
  <2>2. 1 \in 1..Len(first)
    BY <1>3
  <2>3. QED
    BY <1>3, <2>1, <2>2
<1>14. QED
  BY <1>6, <1>11, <1>12, <1>13 DEF CallsMacro

-----------------------------------------------------------------------------
(* The table gives each macro items.                                       *)
LEMMA NamesFinite ==
  ASSUME table \in Seq(TableLine)
  PROVE  IsFiniteSet(TableNames) /\ Cardinality(TableNames) \in Nat
<1>1. Len(table) \in Nat /\ DOMAIN table = 1..Len(table)
  OBVIOUS
<1>2. IsFiniteSet(1..Len(table))
  BY <1>1, FS_Interval
<1>3. IsFiniteSet(MacroLines)
  BY <1>1, <1>2, FS_Subset DEF MacroLines
<1>4. PICK f : f = [i \in MacroLines |-> table[i].words[1]]
  OBVIOUS
<1>5. TableNames = {f[i] : i \in MacroLines} /\ DOMAIN f = MacroLines
  BY <1>4 DEF TableNames
<1>6. f \in Surjection(MacroLines, TableNames)
  BY <1>4, <1>5 DEF Surjection
<1>7. QED
  BY <1>3, <1>6, FS_Surjection, FS_CardinalityType

LEMMA TableItemsType ==
  ASSUME table \in Seq(TableLine), NEW name \in TableNames
  PROVE  TableItems(name) \in Seq(Item) /\ TableItems(name) \in Seq(Seq(Token))
<1>1. PICK i : i = CHOOSE j \in MacroLines : table[j].words[1] = name
  OBVIOUS
<1>2. i \in MacroLines /\ table[i].words[1] = name
  BY <1>1 DEF TableNames
<1>3. table[i] \in TableLine /\ table[i].opcode = ""
  <2>1. DOMAIN table = 1..Len(table) /\ \A j \in 1..Len(table) : table[j] \in TableLine
    OBVIOUS
  <2>2. QED
    BY <1>2, <2>1 DEF MacroLines
<1>4. table[i].words \in Seq(Token) /\ table[i].words # << >>
  BY <1>3 DEF TableLine
<1>5. Tail(table[i].words) \in Seq(Token)
  BY <1>4
<1>6. ItemsOf(Tail(table[i].words)) \in Seq(Item)
  BY <1>5, ItemsOfType
<1>7. TableItems(name) = ItemsOf(Tail(table[i].words))
  BY <1>1 DEF TableItems
<1>8. Item \subseteq Seq(Token)
  BY ItemIsWords
<1>9. \A s \in Seq(Item) : s \in Seq(Seq(Token))
  BY <1>8
<1>10. QED
  BY <1>6, <1>7, <1>9

-----------------------------------------------------------------------------
(* The expansion from the top down, one level at a time.                   *)
Result == [fits : BOOLEAN, texts : Seq(Seq(Token))]
Leaf(call) == [fits |-> TRUE, texts |-> << call >>]
Inside(below, call) ==
  LET items == TableItems(call[1])
      inner == [k \in DOMAIN items |-> below[Substituted(items[k], call)]]
  IN  [fits |-> ErrorsIn(items, call) = {} /\ \A k \in DOMAIN inner : inner[k].fits,
       texts |-> FlattenSeq([k \in DOMAIN inner |-> inner[k].texts])]
Level(below) == [call \in Seq(Token) |-> IF ~CallsMacro(call) THEN Leaf(call) ELSE Inside(below, call)]

Depths(deep) ==
  deep = [depth \in 0..Cardinality(TableNames) |->
           [call \in Seq(Token) |->
             IF depth = 0 \/ ~CallsMacro(call) THEN Leaf(call) ELSE Inside(deep[depth - 1], call)]]

LEMMA InsideType ==
  ASSUME table \in Seq(TableLine), NEW below \in [Seq(Token) -> Result],
         NEW call \in Seq(Token), CallsMacro(call)
  PROVE  Inside(below, call) \in Result
<1>1. PICK items : items = TableItems(call[1])
  OBVIOUS
<1>2. items \in Seq(Seq(Token))
  BY <1>1, TableItemsType DEF CallsMacro
<1>3. PICK inner : inner = [k \in DOMAIN items |-> below[Substituted(items[k], call)]]
  OBVIOUS
<1>4. DOMAIN items = 1..Len(items) /\ Len(items) \in Nat
  BY <1>2
<1>5. \A k \in 1..Len(items) : inner[k] \in Result
  <2> TAKE k \in 1..Len(items)
  <2>1. items[k] \in Seq(Token)
    BY <1>2
  <2>2. Substituted(items[k], call) \in Seq(Token)
    BY <2>1, WordSubstituted
  <2>3. QED
    BY <1>3, <1>4, <2>2
<1>6. \A k \in 1..Len(items) : inner[k].texts \in Seq(Seq(Token))
  BY <1>5 DEF Result
<1>7. [k \in DOMAIN inner |-> inner[k].texts] \in Seq(Seq(Seq(Token)))
  BY <1>3, <1>4, <1>6
<1>8. FlattenSeq([k \in DOMAIN inner |-> inner[k].texts]) \in Seq(Seq(Token))
  BY <1>7, FlattenType
<1>9. Inside(below, call)
        = [fits |-> ErrorsIn(items, call) = {} /\ \A k \in DOMAIN inner : inner[k].fits,
           texts |-> FlattenSeq([k \in DOMAIN inner |-> inner[k].texts])]
  BY <1>1, <1>3, Zenon DEF Inside
<1>10. (ErrorsIn(items, call) = {} /\ \A k \in DOMAIN inner : inner[k].fits) \in BOOLEAN
  BY Zenon
<1>11. QED
  BY <1>8, <1>9, <1>10 DEF Result

LEMMA LevelType ==
  ASSUME table \in Seq(TableLine), NEW below \in [Seq(Token) -> Result]
  PROVE  Level(below) \in [Seq(Token) -> Result]
<1>1. \A call \in Seq(Token) : Leaf(call) \in Result
  <2> TAKE call \in Seq(Token)
  <2>1. << call >> \in Seq(Seq(Token))
    OBVIOUS
  <2>2. QED
    BY <2>1 DEF Leaf, Result
<1>2. \A call \in Seq(Token) : CallsMacro(call) => Inside(below, call) \in Result
  BY InsideType
<1>3. QED
  BY <1>1, <1>2 DEF Level

(* The levels down to any depth.                                           *)
LEMMA DepthsExist ==
  ASSUME table \in Seq(TableLine)
  PROVE  \E deep : /\ Depths(deep)
                   /\ \A i \in 0..Cardinality(TableNames) : deep[i] \in [Seq(Token) -> Result]
<1> DEFINE V == [Seq(Token) -> Result]
           n == Cardinality(TableNames)
           base == [call \in Seq(Token) |-> Leaf(call)]
           step == [i \in 1..n |-> [below \in V |-> Level(below)]]
<1>1. n \in Nat
  BY NamesFinite
<1>2. base \in V
  <2>1. \A call \in Seq(Token) : Leaf(call) \in Result
    <3> TAKE call \in Seq(Token)
    <3>1. << call >> \in Seq(Seq(Token))
      OBVIOUS
    <3>2. QED
      BY <3>1 DEF Leaf, Result
  <2>2. QED
    BY <2>1
<1>3. \A i \in 1..n : \A v \in V : step[i][v] = Level(v)
  OBVIOUS
<1>4. \A v \in V : Level(v) \in V
  BY LevelType
<1>5. \A call \in Seq(Token) : base[call] = Leaf(call)
  OBVIOUS
<1>6. base = [call \in Seq(Token) |-> base[call]]
  OBVIOUS
<1> HIDE DEF base, step, n, V
<1>7. PICK g : GoesThrough(V, base, n, step, g)
  <2>1. \A i \in 1..n : \A v \in V : step[i][v] \in V
    BY <1>3, <1>4
  <2>2. QED
    BY <1>1, <1>2, <2>1, StepsExist
<1>8. g = [i \in 0..n |-> IF i = 0 THEN base ELSE step[i][g[i - 1]]] /\ \A i \in 0..n : g[i] \in V
  BY <1>7, Zenon DEF GoesThrough
<1>9. \A i \in 0..n : (IF i = 0 THEN base ELSE step[i][g[i - 1]])
                        = [call \in Seq(Token) |->
                            IF i = 0 \/ ~CallsMacro(call) THEN Leaf(call) ELSE Inside(g[i - 1], call)]
  <2> TAKE i \in 0..n
  <2>1. CASE i = 0
    BY <1>5, <1>6, <2>1, Zenon
  <2>2. CASE i # 0
    <3>1. i \in 1..n /\ i - 1 \in 0..n
      BY <1>1, <2>2
    <3>2. step[i][g[i - 1]] = Level(g[i - 1])
      BY <1>3, <1>8, <3>1
    <3>3. QED
      BY <2>2, <3>2, Zenon DEF Level
  <2>3. QED
    BY <2>1, <2>2
<1>10. g = [i \in 0..n |-> [call \in Seq(Token) |->
               IF i = 0 \/ ~CallsMacro(call) THEN Leaf(call) ELSE Inside(g[i - 1], call)]]
  <2>1. g = [i \in 0..n |-> g[i]]
    BY <1>8
  <2>2. \A i \in 0..n : g[i] = [call \in Seq(Token) |->
               IF i = 0 \/ ~CallsMacro(call) THEN Leaf(call) ELSE Inside(g[i - 1], call)]
    <3> TAKE i \in 0..n
    <3>1. g[i] = IF i = 0 THEN base ELSE step[i][g[i - 1]]
      BY <1>8
    <3>2. QED
      BY <1>9, <3>1, Zenon
  <2>3. QED
    BY <2>1, <2>2, Zenon
<1>11. Depths(g) /\ \A i \in 0..Cardinality(TableNames) : g[i] \in [Seq(Token) -> Result]
  BY <1>8, <1>10, Zenon DEF n, V, Depths
<1>12. QED
  BY <1>11

(* Its last level is TopDown.                                              *)
LEMMA TopDownIs ==
  ASSUME table \in Seq(TableLine)
  PROVE  \E deep :
           /\ TopDown = deep[Cardinality(TableNames)]
           /\ \A i \in 0..Cardinality(TableNames) : deep[i] \in [Seq(Token) -> Result]
           /\ \A i \in 0..Cardinality(TableNames) : \A call \in Seq(Token) :
                deep[i][call] = IF i = 0 \/ ~CallsMacro(call) THEN Leaf(call)
                                ELSE Inside(deep[i - 1], call)
<1> DEFINE deep == CHOOSE deep : Depths(deep)
           n == Cardinality(TableNames)
<1>1. PICK g : Depths(g) /\ \A i \in 0..n : g[i] \in [Seq(Token) -> Result]
  BY DepthsExist
<1>2. Depths(deep)
  BY <1>1
<1>3. TopDown = deep[n]
  BY Zenon DEF TopDown, Depths, Leaf, Inside
<1> HIDE DEF deep
<1>4. n \in Nat
  BY NamesFinite
<1> HIDE DEF n
<1>5. deep = [i \in 0..n |-> [call \in Seq(Token) |->
               IF i = 0 \/ ~CallsMacro(call) THEN Leaf(call) ELSE Inside(deep[i - 1], call)]]
  BY <1>2, Zenon DEF Depths, n
<1>6. \A i \in 0..n : \A call \in Seq(Token) :
        deep[i][call] = IF i = 0 \/ ~CallsMacro(call) THEN Leaf(call) ELSE Inside(deep[i - 1], call)
  <2> TAKE i \in 0..n
  <2>1. deep[i] = [call \in Seq(Token) |->
               IF i = 0 \/ ~CallsMacro(call) THEN Leaf(call) ELSE Inside(deep[i - 1], call)]
    BY <1>5, Zenon
  <2>2. QED
    BY <2>1, Zenon
<1> DEFINE N == {i \in Nat : i <= n => deep[i] \in [Seq(Token) -> Result]}
<1>7. \A call \in Seq(Token) : Leaf(call) \in Result
  <2> TAKE call \in Seq(Token)
  <2>1. << call >> \in Seq(Seq(Token))
    OBVIOUS
  <2>2. QED
    BY <2>1 DEF Leaf, Result
<1>8. 0 \in N
  <2>1. 0 \in 0..n
    BY <1>4
  <2>2. deep[0] = [call \in Seq(Token) |-> Leaf(call)]
    <3>1. deep[0] = [call \in Seq(Token) |->
               IF 0 = 0 \/ ~CallsMacro(call) THEN Leaf(call) ELSE Inside(deep[0 - 1], call)]
      BY <1>5, <2>1, Zenon
    <3>2. QED
      BY <3>1, Zenon
  <2>3. QED
    BY <1>7, <2>2
<1>9. ASSUME NEW i \in Nat, i \in N
      PROVE  i + 1 \in N
  <2> SUFFICES ASSUME i + 1 <= n
               PROVE  deep[i + 1] \in [Seq(Token) -> Result]
    OBVIOUS
  <2>1. PICK j : j = i + 1
    OBVIOUS
  <2>2. j \in 0..n /\ j # 0 /\ j - 1 = i
    BY <1>4, <2>1
  <2>3. deep[j] = [call \in Seq(Token) |->
               IF j = 0 \/ ~CallsMacro(call) THEN Leaf(call) ELSE Inside(deep[j - 1], call)]
    BY <1>5, <2>2, Zenon
  <2>4. deep[j] = Level(deep[i])
    BY <2>2, <2>3, Zenon DEF Level
  <2>5. deep[i] \in [Seq(Token) -> Result]
    BY <1>4, <1>9
  <2>6. QED
    BY <2>1, <2>4, <2>5, LevelType
<1>10. \A i \in Nat : i \in N
  <2> HIDE DEF N
  <2>1. QED
    BY <1>8, <1>9, NumberInduction
<1>11. \A i \in 0..n : deep[i] \in [Seq(Token) -> Result]
  BY <1>4, <1>10
<1>12. QED
  BY <1>3, <1>6, <1>11 DEF n

-----------------------------------------------------------------------------
(* The calls of the table hand no macro to one another.                    *)
TableApart == \A call \in TableCalls : HandsNoMacro(call)

LEMMA CallsOfTable ==
  ASSUME NEW name \in TableNames, NEW item \in ToSet(TableItems(name)), CallsMacro(item)
  PROVE  item \in CallsOf(name) /\ item \in TableCalls
BY DEF CallsOf, TableCalls

LEMMA InsideSame ==
  ASSUME NEW a, NEW b, NEW call,
         \A k \in DOMAIN TableItems(call[1]) :
           a[Substituted(TableItems(call[1])[k], call)] = b[Substituted(TableItems(call[1])[k], call)]
  PROVE  Inside(a, call) = Inside(b, call)
<1>1. PICK items : items = TableItems(call[1])
  OBVIOUS
<1>2. [k \in DOMAIN items |-> a[Substituted(items[k], call)]]
        = [k \in DOMAIN items |-> b[Substituted(items[k], call)]]
  BY <1>1
<1>3. QED
  BY <1>1, <1>2, Zenon DEF Inside

LEMMA NamesCounted ==
  ASSUME table \in Seq(TableLine), NEW call, CallsMacro(call)
  PROVE  Cardinality(TableNames) \in Nat /\ Cardinality(TableNames) > 0
<1>1. Cardinality(TableNames) \in Nat /\ IsFiniteSet(TableNames) /\ TableNames # {}
  BY NamesFinite DEF CallsMacro
<1>2. Cardinality(TableNames) # 0
  BY <1>1, FS_EmptySet
<1>3. QED
  BY <1>1, <1>2

LEMMA TopDownType ==
  ASSUME table \in Seq(TableLine)
  PROVE  TopDown \in [Seq(Token) -> Result]
<1>1. Cardinality(TableNames) \in 0..Cardinality(TableNames)
  BY NamesFinite
<1>2. QED
  BY <1>1, TopDownIs

LEMMA TopDownLeaf ==
  ASSUME table \in Seq(TableLine), NEW call \in Seq(Token), ~CallsMacro(call)
  PROVE  TopDown[call] = Leaf(call)
<1>1. Cardinality(TableNames) \in 0..Cardinality(TableNames)
  BY NamesFinite
<1>2. QED
  BY <1>1, TopDownIs

(* A call fits only if its own words do.                                   *)
LEMMA TopDownFits ==
  ASSUME table \in Seq(TableLine), NEW call \in Seq(Token), CallsMacro(call), TopDown[call].fits
  PROVE  ErrorsIn(TableItems(call[1]), call) = {}
<1>1. PICK n : n = Cardinality(TableNames)
  OBVIOUS
<1>2. n \in 0..n /\ n # 0
  BY <1>1, NamesCounted
<1>3. PICK deep : /\ TopDown = deep[n]
                  /\ \A i \in 0..n : \A c \in Seq(Token) :
                       deep[i][c] = IF i = 0 \/ ~CallsMacro(c) THEN Leaf(c) ELSE Inside(deep[i - 1], c)
  BY <1>1, TopDownIs
<1>4. TopDown[call] = Inside(deep[n - 1], call)
  BY <1>2, <1>3
<1>5. \A a, b : [fits |-> a, texts |-> b].fits = a
  OBVIOUS
<1>6. Inside(deep[n - 1], call).fits => ErrorsIn(TableItems(call[1]), call) = {}
  BY <1>5, Zenon DEF Inside
<1>7. QED
  BY <1>4, <1>6

(* Which macro an item calls, with words put in.                           *)
LEMMA InnerCall ==
  ASSUME table \in Seq(TableLine), TableApart, NEW name \in TableNames, NEW call \in Seq(Token),
         HandsNoMacro(call), NEW k \in DOMAIN TableItems(name)
  PROVE  LET item == TableItems(name)[k]
             inner == Substituted(item, call)
         IN  /\ inner \in Seq(Token)
             /\ CallsMacro(inner) => /\ HandsNoMacro(inner) /\ item \in CallsOf(name)
                                     /\ inner[1] = item[1] /\ inner[1] \in TableNames
<1>1. PICK item : item = TableItems(name)[k]
  OBVIOUS
<1>2. PICK inner : inner = Substituted(item, call)
  OBVIOUS
<1>3. item \in Seq(Token) /\ item \in ToSet(TableItems(name))
  BY <1>1, TableItemsType DEF ToSet
<1>4. inner \in Seq(Token)
  BY <1>2, <1>3, WordSubstituted
<1>5. ASSUME CallsMacro(inner)
      PROVE  /\ HandsNoMacro(inner) /\ item \in CallsOf(name)
             /\ inner[1] = item[1] /\ inner[1] \in TableNames
  <2>1. CallsMacro(item)
    BY <1>2, <1>3, <1>5, CallsNone
  <2>2. item \in CallsOf(name) /\ item \in TableCalls
    BY <1>3, <2>1, CallsOfTable
  <2>3. HandsNoMacro(item)
    BY <2>2 DEF TableApart
  <2>4. HandsNoMacro(inner)
    BY <1>2, <1>3, <2>3, HandsNone
  <2>5. inner[1] = item[1]
    BY <1>2, <1>3, <2>1, NameKept
  <2>6. QED
    BY <1>5, <2>2, <2>4, <2>5 DEF CallsMacro
<1>6. QED
  BY <1>1, <1>2, <1>4, <1>5

(* Without circles the depth is enough: TopDown goes on with itself.       *)
LEMMA TopDownUnfolds ==
  ASSUME table \in Seq(TableLine), TableApart, Acyclic,
         NEW call \in Seq(Token), CallsMacro(call), HandsNoMacro(call)
  PROVE  TopDown[call] = Inside(TopDown, call)
<1>1. PICK n : n = Cardinality(TableNames)
  OBVIOUS
<1>2. n \in Nat /\ n > 0
  BY <1>1, NamesCounted
<1>3. PICK deep : /\ TopDown = deep[n]
                  /\ \A i \in 0..n : \A c \in Seq(Token) :
                       deep[i][c] = IF i = 0 \/ ~CallsMacro(c) THEN Leaf(c) ELSE Inside(deep[i - 1], c)
  BY <1>1, TopDownIs
<1>4. PICK height : /\ height \in [TableNames -> 0..(n - 1)]
                    /\ \A name \in TableNames : \A c \in CallsOf(name) : height[c[1]] < height[name]
  BY <1>1 DEF Acyclic, Heights
<1> DEFINE Low(i) == \A c \in Seq(Token) :
                       CallsMacro(c) /\ HandsNoMacro(c) /\ height[c[1]] < i => deep[i + 1][c] = deep[i][c]
           N == {i \in Nat : i < n => Low(i)}
<1>5. \A c \in Seq(Token) : CallsMacro(c) => height[c[1]] \in 0..(n - 1)
  BY <1>4 DEF CallsMacro
<1>6. 0 \in N
  <2>1. \A c \in Seq(Token) : CallsMacro(c) => ~(height[c[1]] < 0)
    BY <1>2, <1>5
  <2>2. QED
    BY <2>1
<1>7. ASSUME NEW i \in Nat, i < n, Low(i), NEW c \in Seq(Token), CallsMacro(c), HandsNoMacro(c),
             height[c[1]] < i + 1, NEW k \in DOMAIN TableItems(c[1])
      PROVE  deep[i + 1][Substituted(TableItems(c[1])[k], c)] = deep[i][Substituted(TableItems(c[1])[k], c)]
  <2>1. PICK item : item = TableItems(c[1])[k]
    OBVIOUS
  <2>2. PICK inner : inner = Substituted(item, c)
    OBVIOUS
  <2>3. c[1] \in TableNames
    BY <1>7 DEF CallsMacro
  <2>4. /\ inner \in Seq(Token)
        /\ CallsMacro(inner) => /\ HandsNoMacro(inner) /\ item \in CallsOf(c[1])
                                /\ inner[1] = item[1] /\ inner[1] \in TableNames
    BY <1>7, <2>1, <2>2, <2>3, InnerCall
  <2>5. CASE CallsMacro(inner)
    <3>1. height[inner[1]] < height[c[1]]
      BY <1>4, <2>3, <2>4, <2>5
    <3>2. height[inner[1]] \in Int /\ height[c[1]] \in Int
      BY <1>2, <1>5, <1>7, <2>4, <2>5
    <3>3. height[inner[1]] < i
      BY <1>7, <3>1, <3>2
    <3>4. QED
      BY <1>7, <2>1, <2>2, <2>4, <2>5, <3>3
  <2>6. CASE ~CallsMacro(inner)
    <3>1. i \in 0..n /\ i + 1 \in 0..n
      BY <1>2, <1>7
    <3>2. deep[i + 1][inner] = Leaf(inner) /\ deep[i][inner] = Leaf(inner)
      BY <1>3, <2>4, <2>6, <3>1
    <3>3. QED
      BY <2>1, <2>2, <3>2
  <2>7. QED
    BY <2>5, <2>6
<1>8. ASSUME NEW i \in Nat, i \in N
      PROVE  i + 1 \in N
  <2> SUFFICES ASSUME i + 1 < n, NEW c \in Seq(Token), CallsMacro(c), HandsNoMacro(c), height[c[1]] < i + 1
               PROVE  deep[(i + 1) + 1][c] = deep[i + 1][c]
    OBVIOUS
  <2>1. i < n /\ Low(i)
    BY <1>2, <1>8
  <2> HIDE DEF Low
  <2>2. \A k \in DOMAIN TableItems(c[1]) :
          deep[i + 1][Substituted(TableItems(c[1])[k], c)] = deep[i][Substituted(TableItems(c[1])[k], c)]
    BY <1>7, <2>1
  <2>3. PICK j : j = i + 1
    OBVIOUS
  <2>4. PICK m : m = j + 1
    OBVIOUS
  <2>5. j \in 0..n /\ j # 0 /\ m \in 0..n /\ m # 0 /\ m - 1 = j /\ j - 1 = i
    BY <1>2, <2>3, <2>4
  <2>6. deep[m][c] = Inside(deep[j], c) /\ deep[j][c] = Inside(deep[i], c)
    BY <1>3, <2>5
  <2>7. Inside(deep[j], c) = Inside(deep[i], c)
    BY <2>2, <2>3, InsideSame
  <2>8. QED
    BY <2>3, <2>4, <2>6, <2>7
<1>9. \A i \in Nat : i \in N
  <2> HIDE DEF N
  <2>1. QED
    BY <1>6, <1>8, NumberInduction
<1>10. PICK j : j = n - 1
  OBVIOUS
<1>11. j \in Nat /\ j < n /\ j + 1 = n /\ n \in 0..n /\ n # 0 /\ n - 1 = j
  BY <1>2, <1>10
<1>12. Low(j) /\ height[call[1]] < j + 1
  <2>1. j \in N
    BY <1>9, <1>11
  <2>2. height[call[1]] \in 0..(n - 1)
    BY <1>5
  <2>3. height[call[1]] < j + 1
    BY ONLY <1>2, <1>11, <2>2
  <2> HIDE DEF Low
  <2>4. QED
    BY <1>11, <2>1, <2>3
<1> HIDE DEF N, Low
<1>13. \A k \in DOMAIN TableItems(call[1]) :
         deep[j + 1][Substituted(TableItems(call[1])[k], call)] = deep[j][Substituted(TableItems(call[1])[k], call)]
  BY <1>7, <1>11, <1>12
<1>14. Inside(deep[n], call) = Inside(deep[j], call)
  BY <1>11, <1>13, InsideSame
<1>15. deep[n][call] = Inside(deep[j], call)
  BY <1>3, <1>11
<1>16. QED
  BY <1>3, <1>14, <1>15

-----------------------------------------------------------------------------
(* The items of every macro at one moment, and one pass over them: every   *)
(* item that calls a macro becomes the items of that macro.                *)
Books == [TableNames -> Seq(Seq(Token))]
Unfolded(book, item) ==
  IF CallsMacro(item) THEN [k \in DOMAIN book[item[1]] |-> Replaced(book[item[1]][k], item)]
  ELSE << item >>
NextBook(book) ==
  [name \in TableNames |-> FlattenSeq([k \in DOMAIN book[name] |-> Unfolded(book, book[name][k])])]

LEMMA UnfoldedType ==
  ASSUME NEW book \in Books, NEW item \in Seq(Token)
  PROVE  Unfolded(book, item) \in Seq(Seq(Token))
<1>1. CASE CallsMacro(item)
  <2>1. PICK items : items = book[item[1]]
    OBVIOUS
  <2>2. items \in Seq(Seq(Token))
    BY <1>1, <2>1 DEF Books, CallsMacro
  <2>3. [k \in DOMAIN items |-> Replaced(items[k], item)] \in Seq(Seq(Token))
    BY <2>2, ReplacedItems
  <2>4. QED
    BY <1>1, <2>1, <2>3 DEF Unfolded
<1>2. CASE ~CallsMacro(item)
  <2>1. << item >> \in Seq(Seq(Token))
    OBVIOUS
  <2>2. QED
    BY <1>2, <2>1 DEF Unfolded
<1>3. QED
  BY <1>1, <1>2

LEMMA UnfoldedParts ==
  ASSUME NEW book \in Books, NEW name \in TableNames
  PROVE  [k \in DOMAIN book[name] |-> Unfolded(book, book[name][k])] \in Seq(Seq(Seq(Token)))
<1>1. PICK items : items = book[name]
  OBVIOUS
<1>2. items \in Seq(Seq(Token)) /\ DOMAIN items = 1..Len(items) /\ Len(items) \in Nat
  BY <1>1 DEF Books
<1>3. \A k \in 1..Len(items) : Unfolded(book, items[k]) \in Seq(Seq(Token))
  <2> TAKE k \in 1..Len(items)
  <2>1. items[k] \in Seq(Token)
    BY <1>2
  <2>2. QED
    BY <2>1, UnfoldedType
<1>4. PICK f : f = [k \in 1..Len(items) |-> Unfolded(book, items[k])]
  OBVIOUS
<1>5. f \in Seq(Seq(Seq(Token)))
  BY <1>2, <1>3, <1>4
<1>6. QED
  BY <1>1, <1>2, <1>4, <1>5

LEMMA NextBookType ==
  ASSUME NEW book \in Books
  PROVE  NextBook(book) \in Books
<1>1. \A name \in TableNames :
        FlattenSeq([k \in DOMAIN book[name] |-> Unfolded(book, book[name][k])]) \in Seq(Seq(Token))
  <2> TAKE name \in TableNames
  <2>1. PICK parts : parts = [k \in DOMAIN book[name] |-> Unfolded(book, book[name][k])]
    OBVIOUS
  <2>2. parts \in Seq(Seq(Seq(Token)))
    BY <2>1, UnfoldedParts
  <2>3. QED
    BY <2>1, <2>2, FlattenType
<1>2. QED
  BY <1>1 DEF NextBook, Books

LEMMA NextItems ==
  ASSUME NEW book \in Books, NEW name \in TableNames, NEW z
  PROVE  z \in ToSet(NextBook(book)[name]) <=>
           \E x \in ToSet(book[name]) :
             IF CallsMacro(x) THEN \E y \in ToSet(book[x[1]]) : z = Replaced(y, x) ELSE z = x
<1>1. PICK items : items = book[name]
  OBVIOUS
<1>2. PICK parts : parts = [k \in DOMAIN items |-> Unfolded(book, items[k])]
  OBVIOUS
<1>3. parts \in Seq(Seq(Seq(Token))) /\ NextBook(book)[name] = FlattenSeq(parts)
  BY <1>1, <1>2, UnfoldedParts DEF NextBook
<1>4. z \in ToSet(FlattenSeq(parts)) <=> \E k \in DOMAIN parts : z \in ToSet(parts[k])
  BY <1>3, FlattenMembers
<1>5. DOMAIN parts = DOMAIN items /\ \A k \in DOMAIN items : parts[k] = Unfolded(book, items[k])
  BY <1>2
<1>6. \A x : z \in ToSet(Unfolded(book, x)) <=>
        IF CallsMacro(x) THEN \E y \in ToSet(book[x[1]]) : z = Replaced(y, x) ELSE z = x
  <2> TAKE x
  <2>1. CASE CallsMacro(x)
    <3>1. PICK called : called = book[x[1]]
      OBVIOUS
    <3>2. Unfolded(book, x) = [k \in DOMAIN called |-> Replaced(called[k], x)]
      BY <2>1, <3>1 DEF Unfolded
    <3>3. ToSet(Unfolded(book, x)) = { Replaced(called[k], x) : k \in DOMAIN called }
      BY <3>2 DEF ToSet
    <3>4. ToSet(called) = { called[k] : k \in DOMAIN called }
      BY DEF ToSet
    <3>5. QED
      BY <2>1, <3>1, <3>3, <3>4
  <2>2. CASE ~CallsMacro(x)
    <3>1. Unfolded(book, x) = << x >>
      BY <2>2 DEF Unfolded
    <3>2. ToSet(<< x >>) = {x}
      BY DEF ToSet
    <3>3. QED
      BY <2>2, <3>1, <3>2
  <2>3. QED
    BY <2>1, <2>2
<1>7. z \in ToSet(FlattenSeq(parts)) <=> \E k \in DOMAIN items : z \in ToSet(Unfolded(book, items[k]))
  BY <1>4, <1>5
<1>8. ToSet(items) = { items[k] : k \in DOMAIN items }
  BY DEF ToSet
<1>9. QED
  BY <1>1, <1>3, <1>6, <1>7, <1>8

LEMMA BookItem ==
  ASSUME NEW book \in Books, NEW name \in TableNames, NEW x \in ToSet(book[name])
  PROVE  x \in Seq(Token)
<1>1. book[name] \in Seq(Seq(Token))
  BY DEF Books
<1>2. QED
  BY <1>1 DEF ToSet

-----------------------------------------------------------------------------
(* A circle of macros is still one after a pass.                           *)
CirclesStay(book) ==
  \A S \in SUBSET TableNames :
    (\A name \in S : \E x \in ToSet(TableItems(name)) : CallsMacro(x) /\ x[1] \in S) =>
      \A name \in S : \E x \in ToSet(book[name]) : CallsMacro(x) /\ x[1] \in S

LEMMA CirclesAreKept ==
  ASSUME table \in Seq(TableLine), NEW book \in Books, CirclesStay(book)
  PROVE  CirclesStay(NextBook(book))
<1> SUFFICES ASSUME NEW S \in SUBSET TableNames,
                    \A name \in S : \E x \in ToSet(TableItems(name)) : CallsMacro(x) /\ x[1] \in S,
                    NEW name \in S
             PROVE  \E z \in ToSet(NextBook(book)[name]) : CallsMacro(z) /\ z[1] \in S
  BY DEF CirclesStay
<1>1. \A n \in S : \E x \in ToSet(book[n]) : CallsMacro(x) /\ x[1] \in S
  BY DEF CirclesStay
<1>2. PICK x \in ToSet(book[name]) : CallsMacro(x) /\ x[1] \in S
  BY <1>1
<1>3. PICK y \in ToSet(book[x[1]]) : CallsMacro(y) /\ y[1] \in S
  BY <1>1, <1>2
<1>4. name \in TableNames /\ x[1] \in TableNames
  BY <1>2
<1>5. x \in Seq(Token) /\ y \in Seq(Token)
  BY <1>2, <1>3, <1>4, BookItem
<1>6. CallsMacro(Replaced(y, x)) /\ Replaced(y, x)[1] = y[1]
  BY <1>3, <1>5, ReplacedFirst
<1>7. Replaced(y, x) \in ToSet(NextBook(book)[name])
  BY <1>2, <1>3, <1>4, NextItems
<1>8. QED
  BY <1>3, <1>6, <1>7

(* Once no item calls a macro there is no circle, and every macro has a    *)
(* height: those whose calls all have one are given the next.              *)
LEMMA NoCircles ==
  ASSUME table \in Seq(TableLine), NEW book, CirclesStay(book),
         \A name \in TableNames : \A x \in ToSet(book[name]) : ~CallsMacro(x)
  PROVE  Acyclic
<1>1. PICK n : n = Cardinality(TableNames)
  OBVIOUS
<1>2. n \in Nat /\ IsFiniteSet(TableNames)
  BY <1>1, NamesFinite
<1> DEFINE Good(k, P, h) ==
             /\ P \subseteq TableNames /\ Cardinality(P) = k /\ IsFiniteSet(P)
             /\ h \in [P -> 0..(k - 1)]
             /\ \A name \in P : \A call \in CallsOf(name) : call[1] \in P /\ h[call[1]] < h[name]
           N == {k \in Nat : k <= n => \E P, h : Good(k, P, h)}
<1>3. 0 \in N
  <2>1. PICK h : h = [x \in {} |-> 0]
    OBVIOUS
  <2>2. Good(0, {}, h)
    <3>1. Cardinality({}) = 0 /\ IsFiniteSet({})
      BY FS_EmptySet
    <3>2. h \in [{} -> 0..(0 - 1)]
      BY <2>1
    <3>3. QED
      BY <3>1, <3>2
  <2> HIDE DEF Good
  <2>3. QED
    BY <2>2
<1>4. ASSUME NEW k \in Nat, k \in N
      PROVE  k + 1 \in N
  <2> SUFFICES ASSUME k + 1 <= n
               PROVE  \E P, h : Good(k + 1, P, h)
    OBVIOUS
  <2>1. k <= n
    BY <1>2
  <2>2. PICK P, h : Good(k, P, h)
    <3> HIDE DEF Good
    <3>1. QED
      BY <1>4, <2>1
  <2>3. PICK S : S = TableNames \ P
    OBVIOUS
  <2>4. S # {} /\ S \subseteq TableNames
    <3>1. P # TableNames
      BY <1>1, <1>2, <2>2
    <3>2. QED
      BY <2>2, <2>3, <3>1
  <2>5. PICK name \in S : \A x \in ToSet(TableItems(name)) : ~(CallsMacro(x) /\ x[1] \in S)
    <3>1. ~\A name \in S : \E x \in ToSet(book[name]) : CallsMacro(x) /\ x[1] \in S
      BY <2>4
    <3>2. ~\A name \in S : \E x \in ToSet(TableItems(name)) : CallsMacro(x) /\ x[1] \in S
      BY <2>4, <3>1 DEF CirclesStay
    <3>3. QED
      BY <3>2
  <2>6. \A call \in CallsOf(name) : call[1] \in P
    BY <2>3, <2>5 DEF CallsOf, CallsMacro
  <2>7. PICK Q : Q = P \cup {name}
    OBVIOUS
  <2>8. name \notin P /\ name \in TableNames
    BY <2>3, <2>4
  <2>9. Q \subseteq TableNames /\ IsFiniteSet(Q) /\ Cardinality(Q) = k + 1
    BY <2>2, <2>7, <2>8, FS_AddElement
  <2>10. PICK g : g = [x \in Q |-> IF x = name THEN k ELSE h[x]]
    OBVIOUS
  <2>11. \A x \in P : x \in Q /\ x # name /\ g[x] = h[x] /\ g[x] \in 0..(k - 1)
    BY <2>2, <2>7, <2>8, <2>10
  <2>12. name \in Q /\ g[name] = k
    BY <2>7, <2>10
  <2>13. g \in [Q -> 0..((k + 1) - 1)]
    <3>1. \A x \in Q : g[x] \in 0..((k + 1) - 1)
      BY <2>7, <2>11, <2>12
    <3>2. QED
      BY <2>10, <3>1
  <2>14. ASSUME NEW x \in Q, NEW call \in CallsOf(x)
         PROVE  call[1] \in Q /\ g[call[1]] < g[x]
    <3>1. CASE x = name
      <4>1. call[1] \in P
        BY <2>6, <3>1, <2>14
      <4>2. QED
        BY <2>11, <2>12, <3>1, <4>1
    <3>2. CASE x \in P
      <4>1. call[1] \in P /\ h[call[1]] < h[x]
        BY <2>2, <3>2, <2>14
      <4>2. QED
        BY <2>11, <3>2, <4>1
    <3>3. QED
      BY <2>7, <3>1, <3>2
  <2>15. Good(k + 1, Q, g)
    BY <2>9, <2>13, <2>14
  <2> HIDE DEF Good
  <2>16. QED
    BY <2>15
<1>5. n \in N
  <2> HIDE DEF N
  <2>1. QED
    BY <1>2, <1>3, <1>4, NumberInduction
<1>6. PICK P, h : Good(n, P, h)
  <2> HIDE DEF Good
  <2>1. QED
    BY <1>2, <1>5
<1>7. P = TableNames
  BY <1>1, <1>2, <1>6, FS_Subset
<1>8. h \in Heights
  BY <1>1, <1>6, <1>7 DEF Heights
<1>9. QED
  BY <1>8 DEF Acyclic

-----------------------------------------------------------------------------
(* Every call has the words for the items of its macro as they are now.    *)
NoErrors(book) ==
  \A name \in TableNames : \A x \in ToSet(book[name]) :
    CallsMacro(x) => \A y \in ToSet(book[x[1]]) : Fits(y, x)

(* No call hands a macro to another.                                       *)
Apart(book) ==
  \A name \in TableNames : \A x \in ToSet(book[name]) : CallsMacro(x) => HandsNoMacro(x)

(* Where an item of the next book comes from.                              *)
LEMMA NextItemFrom ==
  ASSUME table \in Seq(TableLine), NEW book \in Books, NoErrors(book),
         NEW name \in TableNames, NEW z \in ToSet(NextBook(book)[name])
  PROVE  \/ z \in ToSet(book[name]) /\ ~CallsMacro(z)
         \/ \E x \in ToSet(book[name]) : \E y \in ToSet(book[x[1]]) :
              /\ CallsMacro(x) /\ x[1] \in TableNames
              /\ x \in Seq(Token) /\ y \in Seq(Token)
              /\ Fits(y, x) /\ z = Substituted(y, x)
<1>1. PICK x \in ToSet(book[name]) :
        IF CallsMacro(x) THEN \E y \in ToSet(book[x[1]]) : z = Replaced(y, x) ELSE z = x
  BY NextItems
<1>2. CASE ~CallsMacro(x)
  BY <1>1, <1>2
<1>3. CASE CallsMacro(x)
  <2>1. PICK y \in ToSet(book[x[1]]) : z = Replaced(y, x)
    BY <1>1, <1>3
  <2>2. x[1] \in TableNames
    BY <1>3 DEF CallsMacro
  <2>3. x \in Seq(Token) /\ y \in Seq(Token)
    BY <2>2, BookItem
  <2>4. Fits(y, x)
    BY <1>3 DEF NoErrors
  <2>5. z = Substituted(y, x)
    BY <2>1, <2>3, <2>4, ReplacedIs
  <2>6. QED
    BY <1>3, <2>2, <2>3, <2>4, <2>5
<1>4. QED
  BY <1>2, <1>3

LEMMA NextCallFrom ==
  ASSUME table \in Seq(TableLine), NEW book \in Books, NoErrors(book), Apart(book),
         NEW name \in TableNames, NEW z \in ToSet(NextBook(book)[name]), CallsMacro(z)
  PROVE  \E x \in ToSet(book[name]) : \E y \in ToSet(book[x[1]]) :
           /\ CallsMacro(x) /\ x[1] \in TableNames /\ x \in Seq(Token) /\ HandsNoMacro(x)
           /\ CallsMacro(y) /\ y[1] \in TableNames /\ y \in Seq(Token) /\ HandsNoMacro(y)
           /\ z \in Seq(Token) /\ z[1] = y[1] /\ Len(z) = Len(y) /\ HandsNoMacro(z)
<1>0. PICK x \in ToSet(book[name]) : \E y \in ToSet(book[x[1]]) :
        /\ CallsMacro(x) /\ x[1] \in TableNames
        /\ x \in Seq(Token) /\ y \in Seq(Token)
        /\ Fits(y, x) /\ z = Substituted(y, x)
  BY NextItemFrom
<1>1. PICK y \in ToSet(book[x[1]]) :
        /\ CallsMacro(x) /\ x[1] \in TableNames
        /\ x \in Seq(Token) /\ y \in Seq(Token)
        /\ Fits(y, x) /\ z = Substituted(y, x)
  BY <1>0
<1>2. HandsNoMacro(x)
  BY <1>1 DEF Apart
<1>3. CallsMacro(y)
  BY <1>1, <1>2, CallsNone
<1>4. HandsNoMacro(y) /\ y[1] \in TableNames
  BY <1>1, <1>3 DEF Apart, CallsMacro
<1>5. z \in Seq(Token) /\ Len(z) = Len(y) /\ z[1] = y[1] /\ HandsNoMacro(z)
  BY <1>1, <1>2, <1>3, <1>4, WordSubstituted, NameKept, HandsNone
<1>6. QED
  BY <1>1, <1>2, <1>3, <1>4, <1>5

LEMMA ApartKept ==
  ASSUME table \in Seq(TableLine), NEW book \in Books, NoErrors(book), Apart(book)
  PROVE  Apart(NextBook(book))
<1> SUFFICES ASSUME NEW name \in TableNames, NEW z \in ToSet(NextBook(book)[name]), CallsMacro(z)
             PROVE  HandsNoMacro(z)
  BY DEF Apart
<1>1. QED
  BY NextCallFrom

-----------------------------------------------------------------------------
(* Whoever has the words for a macro's items in the table has them for     *)
(* those it has now; and every call has the words for those in the table.  *)
AsTable(book) ==
  \A name \in TableNames : \A y \in ToSet(book[name]) : \A c \in Seq(Token) :
    (\A t \in ToSet(TableItems(name)) : Fits(t, c)) => Fits(y, c)
CallsFit(book) ==
  \A name \in TableNames : \A x \in ToSet(book[name]) :
    CallsMacro(x) => \A t \in ToSet(TableItems(x[1])) : Fits(t, x)

LEMMA FitsWithoutErrors ==
  ASSUME NEW book \in Books, AsTable(book), CallsFit(book)
  PROVE  NoErrors(book)
<1> SUFFICES ASSUME NEW name \in TableNames, NEW x \in ToSet(book[name]), CallsMacro(x),
                    NEW y \in ToSet(book[x[1]])
             PROVE  Fits(y, x)
  BY DEF NoErrors
<1>1. x \in Seq(Token) /\ x[1] \in TableNames
  BY BookItem DEF CallsMacro
<1>2. \A t \in ToSet(TableItems(x[1])) : Fits(t, x)
  BY DEF CallsFit
<1>3. QED
  BY <1>1, <1>2 DEF AsTable

LEMMA FitsAreKept ==
  ASSUME table \in Seq(TableLine), NEW book \in Books, AsTable(book), CallsFit(book), Apart(book)
  PROVE  AsTable(NextBook(book)) /\ CallsFit(NextBook(book))
<1>1. NoErrors(book)
  BY FitsWithoutErrors
<1>2. ASSUME NEW name \in TableNames, NEW z \in ToSet(NextBook(book)[name]), NEW c \in Seq(Token),
             \A t \in ToSet(TableItems(name)) : Fits(t, c)
      PROVE  Fits(z, c)
  <2>1. CASE z \in ToSet(book[name])
    BY <1>2, <2>1 DEF AsTable
  <2>2. ASSUME NEW x \in ToSet(book[name]), NEW y \in ToSet(book[x[1]]),
               x \in Seq(Token), y \in Seq(Token), Fits(y, x), z = Substituted(y, x)
        PROVE  Fits(z, c)
    <3>1. Fits(x, c)
      BY <1>2 DEF AsTable
    <3>2. QED
      BY <2>2, <3>1, FitsTwice
  <2>3. QED
    BY <1>1, <2>1, <2>2, NextItemFrom
<1>3. ASSUME NEW name \in TableNames, NEW z \in ToSet(NextBook(book)[name]), CallsMacro(z),
             NEW t \in ToSet(TableItems(z[1]))
      PROVE  Fits(t, z)
  <2>0. PICK x \in ToSet(book[name]) : \E y \in ToSet(book[x[1]]) :
           /\ CallsMacro(x) /\ x[1] \in TableNames
           /\ CallsMacro(y) /\ y[1] \in TableNames /\ y \in Seq(Token)
           /\ z \in Seq(Token) /\ z[1] = y[1] /\ Len(z) = Len(y)
    BY <1>1, <1>3, NextCallFrom
  <2>1. PICK y \in ToSet(book[x[1]]) :
           /\ CallsMacro(x) /\ x[1] \in TableNames
           /\ CallsMacro(y) /\ y[1] \in TableNames /\ y \in Seq(Token)
           /\ z \in Seq(Token) /\ z[1] = y[1] /\ Len(z) = Len(y)
    BY <2>0
  <2>2. Fits(t, y)
    BY <2>1 DEF CallsFit
  <2>3. TableItems(z[1]) \in Seq(Seq(Token))
    BY <2>1, TableItemsType
  <2>4. t \in Seq(Token)
    BY <2>3 DEF ToSet
  <2>5. QED
    BY <2>1, <2>2, <2>4, FitsSameLength
<1>4. QED
  BY <1>2, <1>3 DEF AsTable, CallsFit

(* A pass doubles the distance in height between a macro and its calls.    *)
Below(book, height, d) ==
  \A name \in TableNames : \A x \in ToSet(book[name]) :
    CallsMacro(x) => height[x[1]] + d <= height[name]

LEMMA DistanceDoubles ==
  ASSUME table \in Seq(TableLine), NEW book \in Books, NoErrors(book), Apart(book),
         NEW height, \A name \in TableNames : height[name] \in Nat, NEW d \in Nat,
         Below(book, height, d)
  PROVE  Below(NextBook(book), height, 2 * d)
<1> SUFFICES ASSUME NEW name \in TableNames, NEW z \in ToSet(NextBook(book)[name]), CallsMacro(z)
             PROVE  height[z[1]] + 2 * d <= height[name]
  BY DEF Below
<1>0. PICK x \in ToSet(book[name]) : \E y \in ToSet(book[x[1]]) :
           /\ CallsMacro(x) /\ x[1] \in TableNames
           /\ CallsMacro(y) /\ y[1] \in TableNames
           /\ z[1] = y[1]
  BY NextCallFrom
<1>1. PICK y \in ToSet(book[x[1]]) :
           /\ CallsMacro(x) /\ x[1] \in TableNames
           /\ CallsMacro(y) /\ y[1] \in TableNames
           /\ z[1] = y[1]
  BY <1>0
<1>2. height[x[1]] + d <= height[name] /\ height[y[1]] + d <= height[x[1]]
  BY <1>1 DEF Below
<1>3. height[x[1]] \in Nat /\ height[name] \in Nat /\ height[y[1]] \in Nat
  BY <1>1
<1>4. QED
  BY <1>1, <1>2, <1>3

-----------------------------------------------------------------------------
(* What the items of a macro, called so, are in the end.                   *)
Spelled(call) == [item \in Seq(Token) |-> TopDown[Substituted(item, call)].texts]

(* The items every macro has now mean what its items in the table mean.    *)
Meaning(book) ==
  \A call \in Seq(Token) : CallsMacro(call) /\ HandsNoMacro(call) =>
    FlattenSeq(Mapped(Spelled(call), book[call[1]])) = TopDown[call].texts

LEMMA SpelledType ==
  ASSUME table \in Seq(TableLine), NEW call \in Seq(Token), NEW item \in Seq(Token)
  PROVE  /\ Spelled(call)[item] = TopDown[Substituted(item, call)].texts
         /\ Spelled(call)[item] \in Seq(Seq(Token))
<1>1. Substituted(item, call) \in Seq(Token)
  BY WordSubstituted
<1>2. TopDown[Substituted(item, call)] \in Result
  BY <1>1, TopDownType
<1>3. TopDown[Substituted(item, call)].texts \in Seq(Seq(Token))
  BY <1>2 DEF Result
<1>4. Spelled(call)[item] = TopDown[Substituted(item, call)].texts
  BY DEF Spelled
<1>5. QED
  BY <1>3, <1>4

LEMMA MeaningBegins ==
  ASSUME table \in Seq(TableLine), TableApart, Acyclic,
         NEW book \in Books, \A name \in TableNames : book[name] = TableItems(name)
  PROVE  Meaning(book)
<1> SUFFICES ASSUME NEW call \in Seq(Token), CallsMacro(call), HandsNoMacro(call)
             PROVE  FlattenSeq(Mapped(Spelled(call), book[call[1]])) = TopDown[call].texts
  BY DEF Meaning
<1>1. PICK items : items = TableItems(call[1])
  OBVIOUS
<1>2. book[call[1]] = items
  BY <1>1 DEF CallsMacro
<1>3. items \in Seq(Seq(Token))
  BY <1>1, TableItemsType DEF CallsMacro
<1>4. PICK inner : inner = [k \in DOMAIN items |-> TopDown[Substituted(items[k], call)]]
  OBVIOUS
<1>5. TopDown[call] = Inside(TopDown, call)
  BY TopDownUnfolds
<1>6. Inside(TopDown, call)
        = [fits |-> ErrorsIn(items, call) = {} /\ \A k \in DOMAIN inner : inner[k].fits,
           texts |-> FlattenSeq([k \in DOMAIN inner |-> inner[k].texts])]
  BY <1>1, <1>4, Zenon DEF Inside
<1>7. TopDown[call].texts = FlattenSeq([k \in DOMAIN inner |-> inner[k].texts])
  BY <1>5, <1>6
<1>8. [k \in DOMAIN inner |-> inner[k].texts] = Mapped(Spelled(call), items)
  <2>1. DOMAIN inner = DOMAIN items
    BY <1>4
  <2>2. \A k \in DOMAIN items : inner[k].texts = Spelled(call)[items[k]]
    <3> TAKE k \in DOMAIN items
    <3>1. items[k] \in Seq(Token)
      BY <1>3
    <3>2. QED
      BY <1>4, <3>1, SpelledType
  <2>3. QED
    BY <2>1, <2>2 DEF Mapped
<1>9. QED
  BY <1>2, <1>7, <1>8

LEMMA FlattenOne ==
  ASSUME NEW S, NEW e \in Seq(S)
  PROVE  FlattenSeq(<< e >>) = e
<1>1. << >> \in Seq(Seq(S)) /\ Append(<< >>, e) = << e >> /\ << >> \o e = e
  OBVIOUS
<1>2. FlattenSeq(Append(<< >>, e)) = FlattenSeq(<< >>) \o e
  BY <1>1, FlattenNext
<1>3. QED
  BY <1>1, <1>2, FlattenEmpty

(* One item, gone through in a pass, means what it meant.                  *)
LEMMA MeaningOfItem ==
  ASSUME table \in Seq(TableLine), NEW book \in Books, NoErrors(book), Apart(book), Meaning(book),
         NEW call \in Seq(Token), HandsNoMacro(call),
         NEW name \in TableNames, NEW x \in ToSet(book[name])
  PROVE  FlattenSeq(Mapped(Spelled(call), Unfolded(book, x))) = Spelled(call)[x]
<1>1. x \in Seq(Token)
  BY BookItem
<1>2. PICK e : e = Spelled(call)[x]
  OBVIOUS
<1>3. e \in Seq(Seq(Token))
  BY <1>1, <1>2, SpelledType
<1>4. CASE ~CallsMacro(x)
  <2>1. Unfolded(book, x) = << x >>
    BY <1>4 DEF Unfolded
  <2>2. Mapped(Spelled(call), << x >>) = << e >>
    BY <1>2 DEF Mapped
  <2>3. FlattenSeq(<< e >>) = e
    BY <1>3, FlattenOne
  <2>4. QED
    BY <1>2, <2>1, <2>2, <2>3
<1>5. CASE CallsMacro(x)
  <2>1. PICK called : called = book[x[1]]
    OBVIOUS
  <2>2. x[1] \in TableNames
    BY <1>5 DEF CallsMacro
  <2>3. called \in Seq(Seq(Token))
    BY <2>1, <2>2 DEF Books
  <2>4. PICK d : d = Substituted(x, call)
    OBVIOUS
  <2>5. d \in Seq(Token) /\ CallsMacro(d) /\ d[1] = x[1] /\ HandsNoMacro(d)
    <3>1. HandsNoMacro(x)
      BY <1>5 DEF Apart
    <3>2. QED
      BY <1>1, <1>5, <2>4, <3>1, WordSubstituted, NameKept, HandsNone
  <2>6. FlattenSeq(Mapped(Spelled(d), called)) = TopDown[d].texts
    BY <2>1, <2>5 DEF Meaning
  <2>7. e = TopDown[d].texts
    BY <1>1, <1>2, <2>4, SpelledType
  <2>8. Unfolded(book, x) = [k \in DOMAIN called |-> Replaced(called[k], x)]
    BY <1>5, <2>1 DEF Unfolded
  <2>9. PICK more : more = [k \in DOMAIN called |-> Replaced(called[k], x)]
    OBVIOUS
  <2>10. DOMAIN more = DOMAIN called
    BY <2>9
  <2>11. \A k \in DOMAIN called : Spelled(call)[more[k]] = Spelled(d)[called[k]]
    <3> TAKE k \in DOMAIN called
    <3>1. PICK y : y = called[k]
      OBVIOUS
    <3>2. y \in Seq(Token) /\ y \in ToSet(called)
      BY <2>3, <3>1 DEF ToSet
    <3>3. Fits(y, x)
      BY <1>5, <2>1, <3>2 DEF NoErrors
    <3>4. more[k] = Substituted(y, x)
      BY <1>1, <2>9, <3>1, <3>2, <3>3, ReplacedIs
    <3>5. Substituted(y, x) \in Seq(Token)
      BY <1>1, <3>2, WordSubstituted
    <3>6. Spelled(call)[more[k]] = TopDown[Substituted(Substituted(y, x), call)].texts
      BY <3>4, <3>5, SpelledType
    <3>7. Spelled(d)[y] = TopDown[Substituted(y, d)].texts
      BY <2>5, <3>2, SpelledType
    <3>8. Substituted(Substituted(y, x), call) = Substituted(y, d)
      BY <1>1, <2>4, <3>2, <3>3, SubstitutedTwice
    <3>9. QED
      BY <3>1, <3>6, <3>7, <3>8
  <2>12. Mapped(Spelled(call), more) = Mapped(Spelled(d), called)
    BY <2>10, <2>11 DEF Mapped
  <2>13. QED
    BY <1>2, <2>6, <2>7, <2>8, <2>9, <2>12
<1>6. QED
  BY <1>4, <1>5

LEMMA MeaningKept ==
  ASSUME table \in Seq(TableLine), NEW book \in Books, NoErrors(book), Apart(book), Meaning(book)
  PROVE  Meaning(NextBook(book))
<1> SUFFICES ASSUME NEW call \in Seq(Token), CallsMacro(call), HandsNoMacro(call)
             PROVE  FlattenSeq(Mapped(Spelled(call), NextBook(book)[call[1]])) = TopDown[call].texts
  BY DEF Meaning
<1>1. PICK name : name = call[1]
  OBVIOUS
<1>2. name \in TableNames
  BY <1>1 DEF CallsMacro
<1>3. PICK items : items = book[name]
  OBVIOUS
<1>4. items \in Seq(Seq(Token))
  BY <1>2, <1>3 DEF Books
<1>5. PICK parts : parts = [k \in DOMAIN items |-> Unfolded(book, items[k])]
  OBVIOUS
<1>6. parts \in Seq(Seq(Seq(Token))) /\ NextBook(book)[name] = FlattenSeq(parts)
  BY <1>2, <1>3, <1>5, UnfoldedParts DEF NextBook
<1>7. PICK F : F = Spelled(call)
  OBVIOUS
<1>8. PICK G : G = [t \in Seq(Seq(Token)) |-> FlattenSeq(Mapped(F, t))]
  OBVIOUS
<1>9. \A x \in Seq(Token) : F[x] \in Seq(Seq(Token))
  BY <1>7, SpelledType
<1>10. \A t \in Seq(Seq(Token)) : G[t] = FlattenSeq(Mapped(F, t))
  BY <1>8
<1>11. FlattenSeq(Mapped(F, FlattenSeq(parts))) = FlattenSeq(Mapped(G, parts))
  BY <1>6, <1>9, <1>10, FlattenNested
<1>12. Mapped(G, parts) = Mapped(F, items)
  <2>1. DOMAIN parts = DOMAIN items
    BY <1>5
  <2>2. \A k \in DOMAIN items : G[parts[k]] = F[items[k]]
    <3> TAKE k \in DOMAIN items
    <3>1. PICK x : x = items[k]
      OBVIOUS
    <3>2. x \in ToSet(book[name]) /\ x \in Seq(Token)
      BY <1>3, <1>4, <3>1 DEF ToSet
    <3>3. parts[k] = Unfolded(book, x) /\ parts[k] \in Seq(Seq(Token))
      BY <1>5, <3>1, <3>2, UnfoldedType
    <3>4. FlattenSeq(Mapped(F, Unfolded(book, x))) = F[x]
      BY <1>2, <1>7, <3>2, MeaningOfItem
    <3>5. QED
      BY <1>10, <3>1, <3>3, <3>4
  <2>3. QED
    BY <2>1, <2>2 DEF Mapped
<1>13. FlattenSeq(Mapped(F, items)) = TopDown[call].texts
  BY <1>1, <1>3, <1>7 DEF Meaning
<1>14. QED
  BY <1>1, <1>6, <1>7, <1>11, <1>12, <1>13

(* When no item calls a macro any more they are the expansion.             *)
LEMMA MeaningEnds ==
  ASSUME table \in Seq(TableLine), NEW book \in Books, Meaning(book),
         \A name \in TableNames : \A x \in ToSet(book[name]) : ~CallsMacro(x),
         NEW call \in Seq(Token), CallsMacro(call), HandsNoMacro(call),
         \A y \in ToSet(book[call[1]]) : Fits(y, call)
  PROVE  TopDown[call].texts = [k \in DOMAIN book[call[1]] |-> Replaced(book[call[1]][k], call)]
<1>1. PICK items : items = book[call[1]]
  OBVIOUS
<1>2. call[1] \in TableNames
  BY DEF CallsMacro
<1>3. items \in Seq(Seq(Token)) /\ DOMAIN items = 1..Len(items) /\ Len(items) \in Nat
  BY <1>1, <1>2 DEF Books
<1>4. PICK out : out = [k \in DOMAIN items |-> Replaced(items[k], call)]
  OBVIOUS
<1>5. out \in Seq(Seq(Token)) /\ DOMAIN out = DOMAIN items
  BY <1>3, <1>4, ReplacedItems
<1>6. PICK F : F = [t \in Seq(Token) |-> << t >>]
  OBVIOUS
<1>7. \A t \in Seq(Token) : F[t] = << t >>
  BY <1>6
<1>8. FlattenSeq(Mapped(F, out)) = out
  BY <1>5, <1>7, FlattenSingles
<1>9. Mapped(Spelled(call), items) = Mapped(F, out)
  <2>1. \A k \in DOMAIN items : Spelled(call)[items[k]] = F[out[k]]
    <3> TAKE k \in DOMAIN items
    <3>1. PICK y : y = items[k]
      OBVIOUS
    <3>2. y \in Seq(Token) /\ y \in ToSet(items)
      BY <1>3, <3>1 DEF ToSet
    <3>3. Fits(y, call) /\ ~CallsMacro(y)
      BY <1>1, <1>2, <3>2
    <3>4. PICK z : z = Substituted(y, call)
      OBVIOUS
    <3>5. out[k] = z /\ z \in Seq(Token) /\ ~CallsMacro(z)
      BY <1>4, <3>1, <3>2, <3>3, <3>4, ReplacedIs, WordSubstituted, CallsNone
    <3>6. TopDown[z] = Leaf(z)
      BY <3>5, TopDownLeaf
    <3>7. Spelled(call)[y] = TopDown[z].texts
      BY <3>2, <3>4, SpelledType
    <3>8. QED
      BY <1>7, <3>1, <3>5, <3>6, <3>7 DEF Leaf
  <2>2. QED
    BY <1>5, <2>1 DEF Mapped
<1>10. FlattenSeq(Mapped(Spelled(call), items)) = TopDown[call].texts
  BY <1>1 DEF Meaning
<1>11. QED
  BY <1>1, <1>4, <1>8, <1>9, <1>10

-----------------------------------------------------------------------------
(* The macros read, as a book.                                             *)
NamesLinked ==
  /\ \A i, j \in DOMAIN macros : macros[i].name = macros[j].name => i = j
  /\ TableNames = { macros[i].name : i \in DOMAIN macros }
Book == [name \in TableNames |-> macros[CHOOSE i \in DOMAIN macros : macros[i].name = name].items]

LEMMA BookIs ==
  ASSUME macros \in Seq(Macro), NamesLinked
  PROVE  /\ Book \in Books /\ DOMAIN Book = TableNames
         /\ \A i \in DOMAIN macros : macros[i].name \in TableNames /\ Book[macros[i].name] = macros[i].items
<1>1. \A i \in DOMAIN macros : macros[i] \in Macro
  OBVIOUS
<1>2. \A i \in DOMAIN macros : macros[i].items \in Seq(Seq(Token))
  <2> TAKE i \in DOMAIN macros
  <2>1. PICK items : items = macros[i].items
    OBVIOUS
  <2>2. items \in Seq(Item)
    BY <1>1, <2>1 DEF Macro
  <2>3. items \in Seq(Seq(Token))
    <3>1. Item \subseteq Seq(Token)
      BY ItemIsWords
    <3>2. QED
      BY <2>2, <3>1
  <2>4. QED
    BY <2>1, <2>3
<1>3. \A i \in DOMAIN macros : macros[i].name \in TableNames
  BY DEF NamesLinked
<1>4. \A i \in DOMAIN macros : (CHOOSE j \in DOMAIN macros : macros[j].name = macros[i].name) = i
  BY DEF NamesLinked
<1>5. \A i \in DOMAIN macros : Book[macros[i].name] = macros[i].items
  BY <1>3, <1>4 DEF Book
<1>6. \A name \in TableNames : \E i \in DOMAIN macros : macros[i].name = name
  BY DEF NamesLinked
<1>7. \A name \in TableNames : Book[name] \in Seq(Seq(Token))
  <2> TAKE name \in TableNames
  <2>1. PICK i \in DOMAIN macros : macros[i].name = name
    BY <1>6
  <2>2. QED
    BY <1>2, <1>5, <2>1
<1>8. Book = [name \in TableNames |-> Book[name]] /\ DOMAIN Book = TableNames
  BY DEF Book
<1>9. Book \in Books
  BY <1>7, <1>8 DEF Books
<1>10. QED
  BY <1>3, <1>5, <1>8, <1>9

LEMMA DefinedIs ==
  ASSUME NamesLinked, NEW words
  PROVE  Defined(macros, words) <=> CallsMacro(words)
<1>1. Named(macros, words[1]) # {} <=> words[1] \in TableNames
  BY DEF Named, NamesLinked
<1>2. QED
  BY <1>1 DEF Defined, CallsMacro

LEMMA CalledIs ==
  ASSUME macros \in Seq(Macro), NamesLinked, NEW call, CallsMacro(call)
  PROVE  Called(call) = Book[call[1]]
<1>1. PICK i \in DOMAIN macros : macros[i].name = call[1]
  BY DEF CallsMacro, NamesLinked
<1>2. Named(macros, call[1]) = {i}
  BY <1>1 DEF Named, NamesLinked
<1>3. i \in Int
  <2>1. DOMAIN macros = 1..Len(macros)
    OBVIOUS
  <2>2. QED
    BY <1>1, <2>1
<1>4. (CHOOSE j \in Named(macros, call[1]) : \A k \in Named(macros, call[1]) : j <= k) = i
  BY <1>2, <1>3
<1>5. return_macro(macros, call) = macros[i]
  BY <1>4 DEF return_macro
<1>6. Called(call) = macros[i].items
  BY <1>5 DEF Called
<1>7. QED
  BY <1>1, <1>6, BookIs

LEMMA EmbeddedIs ==
  ASSUME macros \in Seq(Macro), NamesLinked, NEW item
  PROVE  Embedded(item) = Unfolded(Book, item)
<1>1. CASE CallsMacro(item)
  <2>1. PICK items : items = Called(item)
    OBVIOUS
  <2>2. items = Book[item[1]] /\ Defined(macros, item)
    BY <1>1, <2>1, CalledIs, DefinedIs
  <2>3. Embedded(item) = [k \in DOMAIN items |-> Replaced(items[k], item)]
    BY <2>1, <2>2 DEF Embedded
  <2>4. Unfolded(Book, item) = [k \in DOMAIN items |-> Replaced(items[k], item)]
    BY <1>1, <2>2 DEF Unfolded
  <2>5. QED
    BY <2>3, <2>4
<1>2. CASE ~CallsMacro(item)
  BY <1>2, DefinedIs DEF Embedded, Unfolded
<1>3. QED
  BY <1>1, <1>2

LEMMA CallsAre ==
  ASSUME macros \in Seq(Macro), NamesLinked, NEW call
  PROVE  call \in Calls <=> \E name \in TableNames : call \in ToSet(Book[name]) /\ CallsMacro(call)
<1>1. call \in Calls <=> \E i \in DOMAIN macros : call \in ToSet(macros[i].items) /\ CallsMacro(call)
  BY DefinedIs DEF Calls
<1>2. \A i \in DOMAIN macros : macros[i].name \in TableNames /\ Book[macros[i].name] = macros[i].items
  BY BookIs
<1>3. \A name \in TableNames : \E i \in DOMAIN macros : macros[i].name = name
  BY DEF NamesLinked
<1>4. QED
  BY <1>1, <1>2, <1>3

NoCalls(book) == \A name \in TableNames : \A x \in ToSet(book[name]) : ~CallsMacro(x)

LEMMA NoCallsIs ==
  ASSUME macros \in Seq(Macro), NamesLinked
  PROVE  Calls = {} <=> NoCalls(Book)
<1>1. Calls = {} <=> \A call : call \notin Calls
  OBVIOUS
<1>2. QED
  BY <1>1, CallsAre DEF NoCalls

(* A pass leaves no Error exactly if every call has its words.             *)
LEMMA PassErrors ==
  ASSUME macros \in Seq(Macro), NamesLinked
  PROVE  UNION { ErrorsIn(Called(call), call) : call \in Calls } = {} <=> NoErrors(Book)
<1>1. UNION { ErrorsIn(Called(call), call) : call \in Calls } = {}
        <=> \A call \in Calls : ErrorsIn(Called(call), call) = {}
  OBVIOUS
<1>2. \A call \in Calls : ErrorsIn(Called(call), call) = {} <=> \A y \in ToSet(Book[call[1]]) : Fits(y, call)
  <2> TAKE call \in Calls
  <2>1. CallsMacro(call)
    BY CallsAre
  <2>2. Called(call) = Book[call[1]]
    BY <2>1, CalledIs
  <2>3. ErrorsIn(Book[call[1]], call) = {} <=> \A k \in DOMAIN Book[call[1]] : Fits(Book[call[1]][k], call)
    BY ErrorsInItems
  <2>4. QED
    BY <2>2, <2>3 DEF ToSet
<1>3. NoErrors(Book) <=> \A call \in Calls : \A y \in ToSet(Book[call[1]]) : Fits(y, call)
  BY CallsAre DEF NoErrors
<1>4. QED
  BY <1>1, <1>2, <1>3

(* All definitions of a name are the one it has.                           *)
LEMMA FlattenOnly ==
  ASSUME NEW S, NEW s \in Seq(Seq(S)), NEW i \in 1..Len(s),
         \A j \in 1..Len(s) : j # i => s[j] = << >>
  PROVE  FlattenSeq(s) = s[i]
<1>1. Len(s) \in Nat /\ s = [k \in 1..Len(s) |-> s[k]]
  OBVIOUS
<1> DEFINE part(n) == [k \in 1..n |-> s[k]]
           N == {n \in Nat : n <= Len(s) => FlattenSeq(part(n)) = IF i <= n THEN s[i] ELSE << >>}
<1>2. 0 \in N
  <2>1. part(0) = << >>
    OBVIOUS
  <2>2. ~(i <= 0)
    OBVIOUS
  <2>3. QED
    BY <2>1, <2>2, FlattenEmpty
<1>3. ASSUME NEW n \in Nat, n \in N
      PROVE  n + 1 \in N
  <2> SUFFICES ASSUME n + 1 <= Len(s)
               PROVE  FlattenSeq(part(n + 1)) = IF i <= n + 1 THEN s[i] ELSE << >>
    OBVIOUS
  <2>1. FlattenSeq(part(n)) = IF i <= n THEN s[i] ELSE << >>
    BY <1>1, <1>3
  <2>2. PICK m : m = n + 1
    OBVIOUS
  <2>3. m \in 1..Len(s) /\ \A k \in 1..m : s[k] \in Seq(S)
    BY <1>1, <2>2
  <2>4. FlattenSeq(part(m)) = FlattenSeq(part(n)) \o s[m]
    <3>1. n \in Nat /\ \A k \in 1..(n + 1) : s[k] \in Seq(S)
      BY <2>2, <2>3
    <3>2. FlattenSeq([k \in 1..(n + 1) |-> s[k]]) = FlattenSeq([k \in 1..n |-> s[k]]) \o s[n + 1]
      BY ONLY <3>1, FlattenMore
    <3>3. QED
      BY <2>2, <3>2
  <2>5. \A e \in Seq(S) : e \o << >> = e /\ << >> \o e = e
    OBVIOUS
  <2>6. << >> \in Seq(S) /\ s[i] \in Seq(S) /\ s[m] \in Seq(S)
    BY <2>3
  <2> HIDE DEF part
  <2>7. CASE i = m
    <3>1. ~(i <= n) /\ i <= m
      BY <1>1, <2>2, <2>7
    <3>2. QED
      BY <2>1, <2>2, <2>4, <2>5, <2>6, <2>7, <3>1
  <2>8. CASE i # m
    <3>1. s[m] = << >> /\ (i <= n <=> i <= m)
      BY <1>1, <2>2, <2>3, <2>8
    <3>2. FlattenSeq(part(n)) \in Seq(S)
      BY <2>1, <2>6
    <3>3. FlattenSeq(part(m)) = FlattenSeq(part(n))
      BY <2>4, <2>5, <3>1, <3>2
    <3>4. QED
      BY <2>1, <2>2, <3>1, <3>3
  <2>9. QED
    BY <2>7, <2>8
<1>4. \A n \in Nat : n \in N
  <2> HIDE DEF N
  <2>1. QED
    BY <1>2, <1>3, NumberInduction
<1>5. FlattenSeq(part(Len(s))) = s[i]
  <2>1. PICK n : n = Len(s)
    OBVIOUS
  <2>2. n \in Nat /\ n <= n /\ n <= Len(s) /\ i <= n
    BY <1>1, <2>1
  <2>3. n \in N
    BY <1>4, <2>2
  <2> HIDE DEF part
  <2>4. FlattenSeq(part(n)) = s[i]
    BY <2>2, <2>3
  <2>5. QED
    BY <2>1, <2>4
<1>6. part(Len(s)) = s
  BY <1>1
<1>7. QED
  BY <1>5, <1>6

LEMMA DefinitionsAre ==
  ASSUME macros \in Seq(Macro), NamesLinked, NEW name \in TableNames
  PROVE  Definitions(name) = Book[name]
<1> DEFINE parts == [i \in DOMAIN macros |-> IF macros[i].name = name THEN macros[i].items ELSE << >>]
<1>1. PICK i \in DOMAIN macros : macros[i].name = name
  BY DEF NamesLinked
<1>2. DOMAIN macros = 1..Len(macros) /\ Len(macros) \in Nat
  OBVIOUS
<1>3. \A j \in DOMAIN macros : macros[j].items \in Seq(Item)
  <2>1. \A j \in DOMAIN macros : macros[j] \in Macro
    OBVIOUS
  <2>2. QED
    BY <2>1 DEF Macro
<1>4. \A j \in DOMAIN macros : parts[j] \in Seq(Item)
  <2> TAKE j \in DOMAIN macros
  <2>1. << >> \in Seq(Item)
    OBVIOUS
  <2>2. QED
    BY <1>3, <2>1
<1>5. parts \in Seq(Seq(Item)) /\ Len(parts) = Len(macros)
  <2>1. parts = [j \in 1..Len(macros) |-> parts[j]]
    BY <1>2
  <2> HIDE DEF parts
  <2>2. QED
    BY <1>2, <1>4, <2>1
<1>6. parts[i] = macros[i].items
  BY <1>1
<1>7. \A j \in 1..Len(parts) : j # i => parts[j] = << >>
  <2> TAKE j \in 1..Len(parts)
  <2>1. j \in DOMAIN macros
    BY <1>2, <1>5
  <2>2. j # i => macros[j].name # name
    BY <1>1, <2>1 DEF NamesLinked
  <2>3. QED
    BY <2>1, <2>2
<1>8. i \in 1..Len(parts)
  BY <1>2, <1>5
<1>9. Definitions(name) = FlattenSeq(parts)
  BY DEF Definitions
<1> HIDE DEF parts
<1>10. FlattenSeq(parts) = parts[i]
  BY <1>5, <1>7, <1>8, FlattenOnly
<1>11. QED
  BY <1>1, <1>6, <1>9, <1>10, BookIs

-----------------------------------------------------------------------------
(* What the passes have kept of the table so far.  quiet says that none    *)
(* left an Error; if every call of the table has its words none ever does. *)
TableFits == \A call \in TableCalls : TopDown[call].fits

Promised(book, passes, quiet) ==
  /\ CirclesStay(book)
  /\ TableApart =>
       /\ quiet => Apart(book) /\ (Acyclic => Meaning(book))
       /\ TableFits => /\ Apart(book) /\ AsTable(book) /\ CallsFit(book)
                       /\ \A height \in Heights : Below(book, height, 2^passes)

LEMMA TableSame ==
  ASSUME table' = table
  PROVE  /\ TableNames' = TableNames
         /\ \A name : TableItems(name)' = TableItems(name)
         /\ \A call : CallsMacro(call)' <=> CallsMacro(call)
         /\ \A name : CallsOf(name)' = CallsOf(name)
         /\ TableCalls' = TableCalls
         /\ TopDown' = TopDown
         /\ Heights' = Heights
<1>1. TableNames' = TableNames
  BY DEF TableNames, MacroLines
<1>2. \A name : TableItems(name)' = TableItems(name)
  BY DEF TableItems, MacroLines
<1>3. \A call : CallsMacro(call)' <=> CallsMacro(call)
  BY <1>1 DEF CallsMacro
<1>4. \A name : CallsOf(name)' = CallsOf(name)
  BY <1>2, <1>3 DEF CallsOf
<1>5. TableCalls' = TableCalls
  BY <1>1, <1>4 DEF TableCalls
<1>6. TopDown' = TopDown
  BY DEF TopDown, TableNames, MacroLines, TableItems, CallsMacro
<1>7. Heights' = Heights
  BY <1>1, <1>4 DEF Heights
<1>8. QED
  BY <1>1, <1>2, <1>3, <1>4, <1>5, <1>6, <1>7

LEMMA PromiseSame ==
  ASSUME table' = table, NEW book, book = Book', NEW passes, passes = pass',
         NEW quiet, quiet = (errors' \cap MacroErrors = {}), Promised(book, passes, quiet)
  PROVE  Promised(Book, pass, errors \cap MacroErrors = {})'
<1>1. CirclesStay(Book)'
  BY TableSame DEF Promised, CirclesStay
<1>2. TableApart' <=> TableApart
  BY TableSame DEF TableApart
<1>3. TableFits' <=> TableFits
  BY TableSame DEF TableFits
<1>4. Acyclic' <=> Acyclic
  BY TableSame DEF Acyclic
<1>5. Apart(Book)' <=> Apart(book)
  BY TableSame DEF Apart
<1>6. AsTable(Book)' <=> AsTable(book)
  BY TableSame DEF AsTable
<1>7. CallsFit(Book)' <=> CallsFit(book)
  BY TableSame DEF CallsFit
<1>8. Meaning(Book)' <=> Meaning(book)
  BY TableSame DEF Meaning, Spelled
<1>9. \A height : Below(Book, height, 2^pass)' <=> Below(book, height, 2^passes)
  BY TableSame DEF Below
<1>10. QED
  BY <1>1, <1>2, <1>3, <1>4, <1>5, <1>6, <1>7, <1>8, <1>9, TableSame DEF Promised

LEMMA HeightsAre ==
  ASSUME NEW height \in Heights, table \in Seq(TableLine)
  PROVE  \A name \in TableNames : height[name] \in Nat
<1>1. Cardinality(TableNames) \in Nat
  BY NamesFinite
<1>2. height \in [TableNames -> 0..(Cardinality(TableNames) - 1)]
  BY DEF Heights
<1>3. QED
  BY <1>1, <1>2

(* Before the first pass.                                                  *)
LEMMA PromiseBegins ==
  ASSUME table \in Seq(TableLine), NEW book \in Books,
         \A name \in TableNames : book[name] = TableItems(name), NEW quiet
  PROVE  Promised(book, 0, quiet)
<1>1. CirclesStay(book)
  <2>1. \A S \in SUBSET TableNames : \A name \in S : book[name] = TableItems(name)
    OBVIOUS
  <2>2. QED
    BY <2>1 DEF CirclesStay
<1>2. ASSUME TableApart
      PROVE  Apart(book)
  BY <1>2, CallsOfTable DEF Apart, TableApart
<1>3. ASSUME TableApart, Acyclic
      PROVE  Meaning(book)
  BY <1>3, MeaningBegins
<1>4. AsTable(book)
  BY DEF AsTable
<1>5. ASSUME TableFits
      PROVE  CallsFit(book)
  <2> SUFFICES ASSUME NEW name \in TableNames, NEW x \in ToSet(book[name]), CallsMacro(x),
                      NEW t \in ToSet(TableItems(x[1]))
               PROVE  Fits(t, x)
    BY DEF CallsFit
  <2>1. x \in ToSet(TableItems(name)) /\ x \in Seq(Token)
    BY BookItem
  <2>2. TopDown[x].fits
    BY <1>5, <2>1, CallsOfTable DEF TableFits
  <2>3. PICK items : items = TableItems(x[1])
    OBVIOUS
  <2>4. ErrorsIn(items, x) = {}
    BY <2>1, <2>2, <2>3, TopDownFits
  <2>5. \A k \in DOMAIN items : Fits(items[k], x)
    BY <2>4, ErrorsInItems
  <2>6. QED
    BY <2>3, <2>5 DEF ToSet
<1>6. ASSUME NEW height \in Heights
      PROVE  Below(book, height, 2^0)
  <2> SUFFICES ASSUME NEW name \in TableNames, NEW x \in ToSet(book[name]), CallsMacro(x)
               PROVE  height[x[1]] + 2^0 <= height[name]
    BY DEF Below
  <2>1. x \in CallsOf(name) /\ x[1] \in TableNames
    BY CallsOfTable DEF CallsMacro
  <2>2. height[x[1]] < height[name]
    BY <2>1 DEF Heights
  <2>3. height[x[1]] \in Nat /\ height[name] \in Nat
    BY <2>1, HeightsAre
  <2>4. 2^0 = 1
    BY PowerNat
  <2>5. QED
    BY <2>2, <2>3, <2>4
<1>7. QED
  BY <1>1, <1>2, <1>3, <1>4, <1>5, <1>6 DEF Promised

(* A pass that leaves no Error, or is known to leave none.                 *)
LEMMA PromiseKept ==
  ASSUME table \in Seq(TableLine), NEW book \in Books, NEW passes \in Nat, NEW quiet, NEW still,
         Promised(book, passes, quiet), still => quiet /\ NoErrors(book)
  PROVE  Promised(NextBook(book), passes + 1, still)
<1>1. CirclesStay(NextBook(book))
  BY CirclesAreKept DEF Promised
<1>2. ASSUME TableApart, still
      PROVE  Apart(NextBook(book)) /\ (Acyclic => Meaning(NextBook(book)))
  <2>1. NoErrors(book) /\ Apart(book) /\ (Acyclic => Meaning(book))
    BY <1>2 DEF Promised
  <2>2. QED
    BY <2>1, ApartKept, MeaningKept
<1>3. ASSUME TableApart, TableFits
      PROVE  /\ Apart(NextBook(book)) /\ AsTable(NextBook(book)) /\ CallsFit(NextBook(book))
             /\ \A height \in Heights : Below(NextBook(book), height, 2^(passes + 1))
  <2>1. /\ Apart(book) /\ AsTable(book) /\ CallsFit(book)
        /\ \A height \in Heights : Below(book, height, 2^passes)
    BY <1>3 DEF Promised
  <2>2. NoErrors(book)
    BY <2>1, FitsWithoutErrors
  <2>3. Apart(NextBook(book)) /\ AsTable(NextBook(book)) /\ CallsFit(NextBook(book))
    BY <2>1, <2>2, ApartKept, FitsAreKept
  <2>4. ASSUME NEW height \in Heights
        PROVE  Below(NextBook(book), height, 2^(passes + 1))
    <3>1. PICK d : d = 2^passes
      OBVIOUS
    <3>2. d \in Nat /\ 2^(passes + 1) = 2 * d
      BY <3>1, PowerNat, PowerNext
    <3>3. Below(book, height, d)
      BY <2>1, <3>1
    <3>4. Below(NextBook(book), height, 2 * d)
      BY <2>1, <2>2, <3>2, <3>3, HeightsAre, DistanceDoubles
    <3>5. QED
      BY <3>2, <3>4
  <2>5. QED
    BY <2>3, <2>4
<1>4. QED
  BY <1>1, <1>2, <1>3 DEF Promised

(* Shallow: before the last pass no call is left.                          *)
LEMMA NoneLeft ==
  ASSUME table \in Seq(TableLine), NEW book, NEW passes, NEW quiet, Promised(book, passes, quiet),
         TableApart, TableFits, Shallow, passes = MaxPasses - 1
  PROVE  NoCalls(book)
<1>1. PICK height \in Heights : \A name \in TableNames : height[name] < 2^(MaxPasses - 1)
  BY DEF Shallow
<1>2. Below(book, height, 2^(MaxPasses - 1))
  BY DEF Promised
<1>3. PICK d : d = 2^(MaxPasses - 1)
  OBVIOUS
<1>4. d \in Nat
  <2>1. MaxPasses \in Nat /\ MaxPasses > 0
    BY MacrosAssumption DEF Shallow
  <2>2. PICK n : n = MaxPasses - 1
    OBVIOUS
  <2>3. n \in Nat
    BY <2>1, <2>2
  <2>4. QED
    BY <1>3, <2>2, <2>3, PowerNat
<1>5. ASSUME NEW name \in TableNames, NEW x \in ToSet(book[name]), CallsMacro(x)
      PROVE  FALSE
  <2>1. height[x[1]] + d <= height[name] /\ height[name] < d
    BY <1>1, <1>2, <1>3, <1>5 DEF Below
  <2>2. height[x[1]] \in Nat /\ height[name] \in Nat
    BY <1>5, HeightsAre DEF CallsMacro
  <2>3. QED
    BY <1>4, <2>1, <2>2
<1>6. QED
  BY <1>5 DEF NoCalls

-----------------------------------------------------------------------------
(* While the table is read without finding a name twice the macros are the *)
(* macro lines that have been read, each of them once.                     *)
MacroOf(j) == macro_from_string(table[j].words)

MacrosAsRead ==
  phase = "table" =>
    /\ pass = 0 /\ changed = TRUE /\ pass0 = << >> /\ errors \cap MacroErrors = {}
    /\ "duplicate macro" \notin errors =>
         /\ \A i, j \in DOMAIN macros : macros[i].name = macros[j].name => i = j
         /\ \A i \in DOMAIN macros : \E j \in MacroLines : j <= LinesRead /\ macros[i] = MacroOf(j)
         /\ \A j \in MacroLines : j <= LinesRead => \E i \in DOMAIN macros : macros[i] = MacroOf(j)
         /\ \A j, k \in MacroLines :
              j <= LinesRead /\ k <= LinesRead /\ table[j].words[1] = table[k].words[1] => j = k

LEMMA MacroOfIs ==
  ASSUME table \in Seq(TableLine), NEW j \in MacroLines
  PROVE  /\ MacroOf(j).name = table[j].words[1] /\ MacroOf(j).items = ItemsOf(Tail(table[j].words))
         /\ table[j].words # << >> /\ table[j].words \in Seq(Token)
         /\ j \in 1..Len(table) /\ j \in Nat
<1>1. Len(table) \in Nat /\ DOMAIN table = 1..Len(table) /\ \A i \in 1..Len(table) : table[i] \in TableLine
  OBVIOUS
<1>2. j \in 1..Len(table) /\ table[j] \in TableLine /\ table[j].opcode = ""
  BY <1>1 DEF MacroLines
<1>3. PICK words : words = table[j].words
  OBVIOUS
<1>4. words \in Seq(Token) /\ words # << >>
  BY <1>2, <1>3 DEF TableLine
<1>5. MacroOf(j) = [name |-> Head(words), items |-> ItemsOf(Tail(words))]
  BY <1>3, Zenon DEF MacroOf, macro_from_string
<1>6. Head(words) = words[1]
  BY <1>4
<1>7. \A a, b : [name |-> a, items |-> b].name = a /\ [name |-> a, items |-> b].items = b
  OBVIOUS
<1>8. MacroOf(j).name = words[1] /\ MacroOf(j).items = ItemsOf(Tail(words))
  <2>1. MacroOf(j).name = Head(words) /\ MacroOf(j).items = ItemsOf(Tail(words))
    BY <1>5, <1>7, Zenon
  <2>2. QED
    BY <1>6, <2>1, Zenon
<1>9. j \in Nat
  <2>1. j \in 1..Len(table) /\ Len(table) \in Nat
    BY <1>1, <1>2
  <2>2. QED
    BY ONLY <2>1
<1>10. QED
  BY <1>2, <1>3, <1>4, <1>8, <1>9, Zenon

LEMMA OpcodeAsRead ==
  ASSUME TypeOK, MacrosAsRead, ReadOpcode
  PROVE  MacrosAsRead'
<1>1. /\ phase = "table" /\ table' = table /\ macros' = macros /\ pass' = pass /\ changed' = changed
      /\ pass0' = pass0
  BY DEF ReadOpcode
<1>2. /\ errors' = errors \/ errors' = errors \cup {"duplicate opcode"}
      /\ Len(opcodes') = Len(opcodes) + 1
      /\ table[LinesRead + 1].opcode # ""
  <2>1. opcodes \in Seq(OpcodeName)
    BY DEF TypeOK, MacroTypeOK
  <2>2. PICK name : name = table[LinesRead + 1].opcode
    OBVIOUS
  <2>3. opcodes' = Append(opcodes, name) /\ name # ""
    BY <2>2 DEF ReadOpcode
  <2>4. Len(opcodes') = Len(opcodes) + 1
    <3>1. LinesRead \in Nat /\ LinesRead < Len(table) /\ table \in Seq(TableLine) /\ Len(table) \in Nat
      <4>1. table \in Seq(TableLine) /\ Len(table) \in Nat /\ Len(opcodes) \in Nat /\ Len(macros) \in Nat
        BY DEF TypeOK, MacroTypeOK
      <4>2. LinesRead < Len(table)
        BY DEF ReadOpcode
      <4>3. LinesRead \in Nat
        BY <4>1 DEF LinesRead
      <4>4. QED
        BY <4>1, <4>2, <4>3
    <3>2. PICK n : n = LinesRead + 1
      OBVIOUS
    <3>3. n \in 1..Len(table)
      BY <3>1, <3>2
    <3>4. table[n] \in TableLine
      BY <3>1, <3>3
    <3>5. name \in OpcodeName
      BY <2>2, <2>3, <3>2, <3>4 DEF TableLine
    <3>6. opcodes' = Append(opcodes, name)
      BY <2>3
    <3>7. QED
      BY ONLY <2>1, <3>5, <3>6
  <2>5. QED
    BY <2>2, <2>3, <2>4 DEF ReadOpcode
<1>3. PICK n : n = LinesRead
  OBVIOUS
<1>4. n \in Nat /\ LinesRead' = n + 1
  <2>1. Len(opcodes) \in Nat /\ Len(macros) \in Nat
    BY DEF TypeOK, MacroTypeOK
  <2>2. n = Len(opcodes) + Len(macros)
    BY <1>3 DEF LinesRead
  <2>3. LinesRead' = Len(opcodes') + Len(macros')
    BY DEF LinesRead
  <2>4. LinesRead' = (Len(opcodes) + 1) + Len(macros)
    BY <1>1, <1>2, <2>3
  <2>5. QED
    BY <2>1, <2>2, <2>4
<1>5. MacroLines' = MacroLines
  BY <1>1 DEF MacroLines
<1>6. \A j \in MacroLines : j <= n + 1 <=> j <= n
  <2> TAKE j \in MacroLines
  <2>1. j # n + 1
    BY <1>2, <1>3 DEF MacroLines
  <2>2. j \in Nat
    BY MacroOfIs DEF TypeOK, MacroTypeOK
  <2>3. QED
    BY <1>4, <2>1, <2>2
<1>7. \A j : MacroOf(j)' = MacroOf(j)
  BY <1>1 DEF MacroOf
<1>8. errors \cap MacroErrors = {}
  BY <1>1 DEF MacrosAsRead
<1>9. errors' \cap MacroErrors = {} /\ ("duplicate macro" \notin errors' => "duplicate macro" \notin errors)
  BY <1>2, <1>8 DEF MacroErrors
<1>10. QED
  BY <1>1, <1>3, <1>4, <1>5, <1>6, <1>7, <1>9 DEF MacrosAsRead

LEMMA MacroAsRead ==
  ASSUME TypeOK, MacrosAsRead, ReadMacro
  PROVE  MacrosAsRead'
<1>1. /\ phase = "table" /\ table' = table /\ opcodes' = opcodes /\ pass' = pass /\ changed' = changed
      /\ pass0' = pass0
  BY DEF ReadMacro
<1>2. PICK n : n = LinesRead + 1
  OBVIOUS
<1>3. table \in Seq(TableLine) /\ macros \in Seq(Macro) /\ Len(opcodes) \in Nat /\ Len(macros) \in Nat
      /\ Len(table) \in Nat
  BY DEF TypeOK, MacroTypeOK
<1>4. LinesRead \in Nat /\ n \in Nat /\ LinesRead < Len(table)
  <2>1. LinesRead < Len(table)
    BY DEF ReadMacro
  <2>2. LinesRead \in Nat
    BY <1>3 DEF LinesRead
  <2>3. QED
    BY <1>2, <2>1, <2>2
<1>5. n \in 1..Len(table) /\ table[n].opcode = ""
  <2>1. table[n].opcode = ""
    BY <1>2 DEF ReadMacro
  <2>2. n <= Len(table) /\ n >= 1
    BY ONLY <1>2, <1>3, <1>4
  <2>3. n \in 1..Len(table)
    BY ONLY <1>3, <1>4, <2>2
  <2>4. QED
    BY <2>1, <2>3
<1>6. n \in MacroLines
  <2>1. DOMAIN table = 1..Len(table)
    BY <1>3
  <2>2. QED
    BY <1>5, <2>1 DEF MacroLines
<1>7. PICK words : words = table[n].words
  OBVIOUS
<1>8. macros' = Append(macros, MacroOf(n))
      /\ errors' = errors \cup IF Defined(macros, words) THEN {"duplicate macro"} ELSE {}
  BY <1>2, <1>7 DEF ReadMacro, MacroOf
<1>9. errors \cap MacroErrors = {}
  BY <1>1 DEF MacrosAsRead
<1>10. errors' \cap MacroErrors = {}
  BY <1>8, <1>9 DEF MacroErrors
<1>11. PICK macro : macro = MacroOf(n)
  OBVIOUS
<1>12. macro \in Macro /\ macro.name = words[1] /\ words # << >>
  <2>1. macro.name = words[1] /\ words # << >>
    BY <1>3, <1>6, <1>7, <1>11, MacroOfIs
  <2>2. table[n] \in TableLine
    <3>1. \A i \in 1..Len(table) : table[i] \in TableLine
      BY <1>3
    <3>2. QED
      BY <1>5, <3>1
  <2>3. macro \in Macro
    BY <1>5, <1>7, <1>11, <2>2, MacroType DEF MacroOf
  <2>4. QED
    BY <2>1, <2>3
<1>13. PICK m : m = Len(macros) + 1
  OBVIOUS
<1>14. /\ DOMAIN macros = 1..Len(macros) /\ DOMAIN macros' = 1..m /\ m \in Nat
       /\ macros'[m] = macro /\ \A i \in DOMAIN macros : i \in DOMAIN macros' /\ macros'[i] = macros[i]
       /\ \A i \in DOMAIN macros' : i = m \/ i \in DOMAIN macros
       /\ m \in DOMAIN macros'
  <2>1. macros' = Append(macros, macro) /\ Len(macros) \in Nat
    BY <1>3, <1>8, <1>11
  <2>2. macros \in Seq(Macro) /\ macro \in Macro
    BY <1>3, <1>12
  <2>3. QED
    BY ONLY <1>13, <2>1, <2>2
<1>15. LinesRead' = n
  <2>1. Len(macros') = m
    <3>1. macros' = Append(macros, macro)
      BY <1>8, <1>11
    <3>2. macros \in Seq(Macro) /\ macro \in Macro
      BY <1>3, <1>12
    <3>3. QED
      BY ONLY <1>13, <3>1, <3>2
  <2>2. LinesRead' = Len(opcodes) + m /\ LinesRead = Len(opcodes) + Len(macros)
    BY <1>1, <2>1 DEF LinesRead
  <2>3. QED
    BY <1>2, <1>3, <1>13, <2>2
<1>16. MacroLines' = MacroLines /\ \A j : MacroOf(j)' = MacroOf(j)
  BY <1>1 DEF MacroLines, MacroOf
<1>17. \A j \in MacroLines : j \in Nat /\ (j <= n <=> j = n \/ j <= LinesRead)
  <2> TAKE j \in MacroLines
  <2>1. j \in Nat
    BY <1>3, MacroOfIs
  <2>2. QED
    BY <1>2, <1>4, <2>1
<1>18. ASSUME "duplicate macro" \notin errors'
       PROVE  /\ \A i, j \in DOMAIN macros' : macros'[i].name = macros'[j].name => i = j
              /\ \A i \in DOMAIN macros' : \E j \in MacroLines : j <= n /\ macros'[i] = MacroOf(j)
              /\ \A j \in MacroLines : j <= n => \E i \in DOMAIN macros' : macros'[i] = MacroOf(j)
              /\ \A j, k \in MacroLines :
                   j <= n /\ k <= n /\ table[j].words[1] = table[k].words[1] => j = k
  <2>1. "duplicate macro" \notin errors /\ ~Defined(macros, words)
    BY <1>8, <1>18
  <2>2. /\ \A i, j \in DOMAIN macros : macros[i].name = macros[j].name => i = j
        /\ \A i \in DOMAIN macros : \E j \in MacroLines : j <= LinesRead /\ macros[i] = MacroOf(j)
        /\ \A j \in MacroLines : j <= LinesRead => \E i \in DOMAIN macros : macros[i] = MacroOf(j)
        /\ \A j, k \in MacroLines :
             j <= LinesRead /\ k <= LinesRead /\ table[j].words[1] = table[k].words[1] => j = k
    BY <1>1, <2>1 DEF MacrosAsRead
  <2>3. \A i \in DOMAIN macros : macros[i].name # words[1]
    BY <1>12, <2>1 DEF Defined, Named
  <2>4. \A i, j \in DOMAIN macros' : macros'[i].name = macros'[j].name => i = j
    BY <1>12, <1>14, <2>2, <2>3
  <2>5. \A i \in DOMAIN macros' : \E j \in MacroLines : j <= n /\ macros'[i] = MacroOf(j)
    BY <1>6, <1>11, <1>14, <1>17, <2>2
  <2>6. \A j \in MacroLines : j <= n => \E i \in DOMAIN macros' : macros'[i] = MacroOf(j)
    BY <1>11, <1>14, <1>17, <2>2
  <2>7. \A j \in MacroLines : j <= LinesRead => table[j].words[1] # words[1]
    <3> TAKE j \in MacroLines
    <3> HAVE j <= LinesRead
    <3>1. PICK i \in DOMAIN macros : macros[i] = MacroOf(j)
      BY <2>2
    <3>2. macros[i].name = table[j].words[1]
      BY <1>3, <3>1, MacroOfIs
    <3>3. QED
      BY <2>3, <3>2
  <2>8. \A j, k \in MacroLines :
          j <= n /\ k <= n /\ table[j].words[1] = table[k].words[1] => j = k
    BY <1>7, <1>17, <2>2, <2>7
  <2>9. QED
    BY <2>4, <2>5, <2>6, <2>8
<1>19. QED
  BY <1>1, <1>9, <1>10, <1>15, <1>16, <1>18 DEF MacrosAsRead

(* When it has been read the macros are the table's.                       *)
LEMMA TableIsRead ==
  ASSUME TypeOK, MacrosAsRead, TableRead, errors \cap TableErrors = {}
  PROVE  NamesLinked /\ \A name \in TableNames : Book[name] = TableItems(name)
<1>1. table \in Seq(TableLine) /\ macros \in Seq(Macro)
  BY DEF TypeOK, MacroTypeOK
<1>2. phase = "table" /\ LinesRead = Len(table) /\ "duplicate macro" \notin errors
  BY DEF TableRead, TableErrors
<1>3. \A j \in MacroLines : j <= LinesRead
  <2> TAKE j \in MacroLines
  <2>1. j \in 1..Len(table) /\ Len(table) \in Nat
    BY <1>1, MacroOfIs
  <2>2. j <= Len(table)
    BY <2>1
  <2>3. QED
    BY <1>2, <2>2, Zenon
<1>4. /\ \A i, j \in DOMAIN macros : macros[i].name = macros[j].name => i = j
      /\ \A i \in DOMAIN macros : \E j \in MacroLines : macros[i] = MacroOf(j)
      /\ \A j \in MacroLines : \E i \in DOMAIN macros : macros[i] = MacroOf(j)
  BY <1>2, <1>3 DEF MacrosAsRead
<1>5. \A j \in MacroLines : MacroOf(j).name = table[j].words[1]
                            /\ MacroOf(j).items = ItemsOf(Tail(table[j].words))
  BY <1>1, MacroOfIs
<1>6. TableNames = { macros[i].name : i \in DOMAIN macros }
  <2>1. \A name : name \in TableNames <=> \E j \in MacroLines : name = MacroOf(j).name
    BY <1>5 DEF TableNames
  <2>2. \A name : name \in { macros[i].name : i \in DOMAIN macros }
                    <=> \E j \in MacroLines : name = MacroOf(j).name
    BY <1>4
  <2>3. QED
    BY <2>1, <2>2
<1>7. NamesLinked
  BY <1>4, <1>6 DEF NamesLinked
<1>8. ASSUME NEW name \in TableNames
      PROVE  Book[name] = TableItems(name)
  <2>1. PICK j : j = CHOOSE i \in MacroLines : table[i].words[1] = name
    OBVIOUS
  <2>2. j \in MacroLines /\ table[j].words[1] = name
    BY <2>1 DEF TableNames
  <2>3. TableItems(name) = MacroOf(j).items /\ MacroOf(j).name = name
    BY <1>5, <2>1, <2>2 DEF TableItems
  <2>4. PICK i \in DOMAIN macros : macros[i] = MacroOf(j)
    BY <1>4, <2>2
  <2>5. Book[macros[i].name] = macros[i].items
    BY <1>1, <1>7, BookIs
  <2>6. QED
    BY <2>3, <2>4, <2>5
<1>9. QED
  BY <1>7, <1>8

-----------------------------------------------------------------------------
(* After the table has been read without a name twice.                     *)
Later == {"embedded", "reading", "comments", "macros", "done"}
BeforeProgram == {"embedded", "reading", "comments"}

BookInv ==
  phase \in Later /\ errors \cap TableErrors = {} =>
    /\ NamesLinked
    /\ changed \/ NoCalls(Book)
    /\ Promised(Book, pass, errors \cap MacroErrors = {})
    /\ phase # "embedded" /\ errors \cap MacroErrors = {} => ~changed
    /\ TableApart /\ TableFits /\ Shallow =>
         /\ pass = MaxPasses => ~changed
         /\ phase \in BeforeProgram => errors \cap MacroErrors = {}

LEMMA SameConditions ==
  ASSUME table' = table
  PROVE  /\ TableApart' <=> TableApart
         /\ TableFits' <=> TableFits
         /\ Shallow' <=> Shallow
         /\ \A book : NoCalls(book)' <=> NoCalls(book)
<1>1. TableApart' <=> TableApart
  BY TableSame DEF TableApart
<1>2. TableFits' <=> TableFits
  BY TableSame DEF TableFits
<1>3. Shallow' <=> Shallow
  BY TableSame DEF Shallow
<1>4. \A book : NoCalls(book)' <=> NoCalls(book)
  BY TableSame DEF NoCalls
<1>5. QED
  BY <1>1, <1>2, <1>3, <1>4

LEMMA BookSame ==
  ASSUME table' = table, macros' = macros
  PROVE  Book' = Book /\ (NamesLinked' <=> NamesLinked) /\ (NoCalls(Book)' <=> NoCalls(Book))
<1>1. TableNames' = TableNames
  BY TableSame
<1>2. Book' = Book
  BY <1>1 DEF Book
<1>3. NamesLinked' <=> NamesLinked
  BY <1>1 DEF NamesLinked
<1>4. NoCalls(Book)' <=> NoCalls(Book)
  BY <1>2, TableSame DEF NoCalls
<1>5. QED
  BY <1>2, <1>3, <1>4

LEMMA BookBegins ==
  ASSUME TypeOK, MacrosAsRead, TableRead
  PROVE  BookInv'
<1> SUFFICES ASSUME errors' \cap TableErrors = {}
             PROVE  BookInv'
  BY DEF BookInv
<1>1. phase' = "embedded" /\ phase = "table" /\ errors' = errors /\ UNCHANGED macroVars
  BY DEF TableRead
<1>2. table' = table /\ macros' = macros /\ pass' = pass /\ changed' = changed
  BY <1>1 DEF macroVars
<1>3. table \in Seq(TableLine) /\ macros \in Seq(Macro)
  BY DEF TypeOK, MacroTypeOK
<1>4. NamesLinked /\ \A name \in TableNames : Book[name] = TableItems(name)
  BY <1>1, TableIsRead
<1>5. PICK book : book = Book
  OBVIOUS
<1>6. book \in Books /\ \A name \in TableNames : book[name] = TableItems(name)
  BY <1>3, <1>4, <1>5, BookIs
<1>7. pass = 0 /\ changed = TRUE /\ errors \cap MacroErrors = {}
  BY <1>1 DEF MacrosAsRead
<1>8. PICK quiet : quiet = (errors' \cap MacroErrors = {})
  OBVIOUS
<1>9. Promised(book, 0, quiet)
  BY <1>3, <1>6, PromiseBegins
<1>10. PICK passes : passes = pass'
  OBVIOUS
<1>11. passes = 0
  BY <1>2, <1>7, <1>10
<1>12. Promised(Book, pass, errors \cap MacroErrors = {})'
  <2>1. book = Book'
    BY <1>2, <1>5, BookSame
  <2>2. Promised(book, passes, quiet)
    BY <1>9, <1>11
  <2>3. QED
    BY <1>2, <1>8, <1>10, <2>1, <2>2, PromiseSame
<1>13. Shallow' => MaxPasses # 0
  <2>1. MaxPasses \in Nat
    BY MacrosAssumption
  <2>2. QED
    BY <2>1 DEF Shallow
<1>14. NamesLinked'
  BY <1>2, <1>4, BookSame
<1>15. QED
  BY <1>1, <1>2, <1>7, <1>12, <1>13, <1>14 DEF BookInv

LEMMA PassRewrites ==
  ASSUME TypeOK, NamesLinked, table' = table,
         macros' = [i \in DOMAIN macros |-> [macros[i] EXCEPT
               !.items = FlattenSeq([k \in DOMAIN @ |-> Embedded(@[k])])]]
  PROVE  NamesLinked' /\ Book' = NextBook(Book)
<1>1. table \in Seq(TableLine) /\ macros \in Seq(Macro)
  BY DEF TypeOK, MacroTypeOK
<1>2. \A i \in DOMAIN macros : macros[i] \in Macro
  BY <1>1
<1>3. DOMAIN macros' = DOMAIN macros
  OBVIOUS
<1>4. ASSUME NEW i \in DOMAIN macros
      PROVE  /\ macros'[i].name = macros[i].name
             /\ macros'[i].items = NextBook(Book)[macros[i].name]
  <2>1. PICK items : items = macros[i].items
    OBVIOUS
  <2>2. PICK parts : parts = [k \in DOMAIN items |-> Embedded(items[k])]
    OBVIOUS
  <2>3. PICK flat : flat = FlattenSeq(parts)
    OBVIOUS
  <2>4. macros'[i] = [macros[i] EXCEPT !.items = FlattenSeq([k \in DOMAIN @ |-> Embedded(@[k])])]
    BY <1>4
  <2>5. macros'[i] = [macros[i] EXCEPT !.items = flat]
    BY <2>1, <2>2, <2>3, <2>4, Zenon
  <2>6. macros'[i].name = macros[i].name /\ macros'[i].items = flat
    BY <1>2, <2>5 DEF Macro
  <2>7. macros[i].name \in TableNames /\ Book[macros[i].name] = items
    BY <1>1, <2>1, BookIs
  <2>8. parts = [k \in DOMAIN items |-> Unfolded(Book, items[k])]
    <3>1. \A item : Embedded(item) = Unfolded(Book, item)
      BY <1>1, EmbeddedIs
    <3>2. QED
      BY <2>2, <3>1, Zenon
  <2>9. NextBook(Book)[macros[i].name]
          = FlattenSeq([k \in DOMAIN Book[macros[i].name] |-> Unfolded(Book, Book[macros[i].name][k])])
    BY <2>7 DEF NextBook
  <2>10. NextBook(Book)[macros[i].name] = FlattenSeq([k \in DOMAIN items |-> Unfolded(Book, items[k])])
    BY <2>7, <2>9, Zenon
  <2>11. QED
    BY <2>3, <2>6, <2>8, <2>10, Zenon
<1>5. TableNames' = TableNames
  BY TableSame
<1>6. NamesLinked'
  <2>1. TableNames = { macros[i].name : i \in DOMAIN macros }
    BY DEF NamesLinked
  <2>2. PICK new : new = macros'
    OBVIOUS
  <2>3. DOMAIN new = DOMAIN macros /\ \A i \in DOMAIN macros : new[i].name = macros[i].name
    BY <1>3, <1>4, <2>2
  <2>4. { new[i].name : i \in DOMAIN new } = { macros[i].name : i \in DOMAIN macros }
    BY ONLY <2>3
  <2>5. \A i, j \in DOMAIN macros : macros[i].name = macros[j].name => i = j
    BY DEF NamesLinked
  <2>6. \A i, j \in DOMAIN new : new[i].name = new[j].name => i = j
    BY ONLY <2>3, <2>5
  <2>7. QED
    BY <1>5, <2>1, <2>2, <2>4, <2>6 DEF NamesLinked
<1>7. Book' = [name \in TableNames |->
                 macros'[CHOOSE i \in DOMAIN macros' : macros'[i].name = name].items]
  BY <1>5 DEF Book
<1>8. \A name \in TableNames : Book'[name] = NextBook(Book)[name]
  <2> TAKE name \in TableNames
  <2>1. PICK i : i = CHOOSE j \in DOMAIN macros' : macros'[j].name = name
    OBVIOUS
  <2>2. \E j \in DOMAIN macros : macros[j].name = name
    BY DEF NamesLinked
  <2>3. \E j \in DOMAIN macros' : macros'[j].name = name
    BY <1>3, <1>4, <2>2
  <2>4. i \in DOMAIN macros' /\ macros'[i].name = name
    BY <2>1, <2>3
  <2>5. Book'[name] = macros'[i].items
    BY <1>7, <2>1
  <2>6. QED
    BY <1>3, <1>4, <2>4, <2>5
<1>9. Book' = NextBook(Book)
  <2>1. PICK b : b = Book'
    OBVIOUS
  <2>2. PICK c : c = NextBook(Book)
    OBVIOUS
  <2>3. b = [name \in TableNames |-> b[name]]
    <3> DEFINE f(name) == macros'[CHOOSE i \in DOMAIN macros' : macros'[i].name = name].items
    <3>1. b = [name \in TableNames |-> f(name)]
      BY <1>7, <2>1
    <3> HIDE DEF f
    <3>2. QED
      BY ONLY <3>1
  <2>4. c = [name \in TableNames |-> c[name]]
    BY <2>2 DEF NextBook
  <2>5. \A name \in TableNames : b[name] = c[name]
    BY <1>8, <2>1, <2>2
  <2>6. b = c
    BY ONLY <2>3, <2>4, <2>5
  <2>7. QED
    BY <2>1, <2>2, <2>6
<1>10. QED
  BY <1>6, <1>9

-----------------------------------------------------------------------------
LEMMA PromiseWeaker ==
  ASSUME NEW book, NEW passes, NEW quiet, NEW still, Promised(book, passes, quiet), still => quiet
  PROVE  Promised(book, passes, still)
BY DEF Promised

LEMMA NoCallsKept ==
  ASSUME NEW book \in Books, NoCalls(book)
  PROVE  NoCalls(NextBook(book))
<1> SUFFICES ASSUME NEW name \in TableNames, NEW z \in ToSet(NextBook(book)[name])
             PROVE  ~CallsMacro(z)
  BY DEF NoCalls
<1>1. PICK x \in ToSet(book[name]) :
        IF CallsMacro(x) THEN \E y \in ToSet(book[x[1]]) : z = Replaced(y, x) ELSE z = x
  BY NextItems
<1>2. ~CallsMacro(x)
  BY DEF NoCalls
<1>3. QED
  BY <1>1, <1>2

(* One pass over the macros.                                               *)
LEMMA BookGoesOn ==
  ASSUME TypeOK, BookInv, EmbedMacros
  PROVE  BookInv'
<1> SUFFICES ASSUME phase' \in Later, errors' \cap TableErrors = {}
             PROVE  BookInv'
  BY DEF BookInv
<1>1. phase = "embedded" /\ pass < MaxPasses /\ table' = table /\ phase' # "panicked"
  BY DEF EmbedMacros, Later
<1>2. /\ macros' = [i \in DOMAIN macros |-> [macros[i] EXCEPT
               !.items = FlattenSeq([k \in DOMAIN @ |-> Embedded(@[k])])]]
      /\ pass' = pass + 1 /\ phase' = phase
  BY <1>1, Zenon DEF EmbedMacros, NextPass
<1>3. PICK left : left = UNION { ErrorsIn(Called(call), call) : call \in Calls }
  OBVIOUS
<1>4. errors' = errors \cup left /\ (changed' <=> Calls # {}) /\ changed' \in BOOLEAN
  BY <1>3 DEF EmbedMacros
<1>5. left \subseteq MacroErrors
  BY <1>3, ErrorsInAre
<1>6. table \in Seq(TableLine) /\ macros \in Seq(Macro) /\ pass \in Nat /\ MaxPasses \in Nat
  <2>1. MaxPasses \in Nat
    BY MacrosAssumption
  <2>2. QED
    BY <2>1 DEF TypeOK, MacroTypeOK
<1>7. errors \cap TableErrors = {}
  BY <1>4
<1>8. /\ NamesLinked
      /\ Promised(Book, pass, errors \cap MacroErrors = {})
      /\ TableApart /\ TableFits /\ Shallow => errors \cap MacroErrors = {}
  BY <1>1, <1>7 DEF BookInv, Later, BeforeProgram
<1>9. PICK book : book = Book
  OBVIOUS
<1>10. book \in Books
  BY <1>6, <1>8, <1>9, BookIs
<1>11. left = {} <=> NoErrors(book)
  BY <1>3, <1>6, <1>8, <1>9, PassErrors
<1>12. Calls = {} <=> NoCalls(book)
  BY <1>6, <1>8, <1>9, NoCallsIs
<1>13. NamesLinked' /\ Book' = NextBook(book)
  BY <1>1, <1>2, <1>8, <1>9, PassRewrites
<1>14. PICK next : next = NextBook(book)
  OBVIOUS
<1>15. PICK quiet : quiet = (errors \cap MacroErrors = {})
  OBVIOUS
<1>16. PICK still : still = (errors' \cap MacroErrors = {})
  OBVIOUS
<1>17. Promised(book, pass, quiet)
  BY <1>8, <1>9, <1>15
<1>18. still => quiet /\ NoErrors(book)
  BY <1>4, <1>5, <1>11, <1>15, <1>16
<1>19. Promised(next, pass + 1, still)
  <2>1. PICK passes : passes = pass
    OBVIOUS
  <2>2. passes \in Nat /\ Promised(book, passes, quiet)
    BY <1>6, <1>17, <2>1
  <2>3. Promised(NextBook(book), passes + 1, still)
    BY <1>6, <1>10, <1>18, <2>2, PromiseKept
  <2>4. QED
    BY <1>14, <2>1, <2>3
<1>20. Promised(Book, pass, errors \cap MacroErrors = {})'
  <2>1. PICK passes : passes = pass'
    OBVIOUS
  <2>2. next = Book' /\ Promised(next, passes, still)
    BY <1>2, <1>13, <1>14, <1>19, <2>1
  <2>3. QED
    BY <1>1, <1>16, <2>1, <2>2, PromiseSame
<1>21. changed' \/ NoCalls(Book)'
  <2>1. ASSUME NoCalls(book)
        PROVE  NoCalls(Book)'
    <3>1. NoCalls(next)
      BY <1>10, <1>14, <2>1, NoCallsKept
    <3>2. Book' = next
      BY <1>13, <1>14
    <3>3. QED
      BY <1>1, <3>1, <3>2, TableSame DEF NoCalls
  <2>2. QED
    BY <1>4, <1>12, <2>1
<1>22. ASSUME TableApart, TableFits, Shallow
       PROVE  (pass' = MaxPasses => ~changed') /\ errors' \cap MacroErrors = {}
  <2>1. AsTable(book) /\ CallsFit(book)
    BY <1>17, <1>22 DEF Promised
  <2>2. NoErrors(book)
    BY <1>10, <2>1, FitsWithoutErrors
  <2>3. errors' \cap MacroErrors = {}
    BY <1>4, <1>8, <1>11, <1>22, <2>2
  <2>4. ASSUME pass' = MaxPasses
        PROVE  ~changed'
    <3>1. PICK passes : passes = pass
      OBVIOUS
    <3>2. passes = MaxPasses - 1
      BY <1>2, <1>6, <2>4, <3>1
    <3>3. Promised(book, passes, quiet)
      BY <1>17, <3>1
    <3>4. NoCalls(book)
      BY <1>6, <1>22, <3>2, <3>3, NoneLeft
    <3>5. QED
      BY <1>4, <1>12, <3>4
  <2>5. QED
    BY <2>3, <2>4
<1>23. phase' = "embedded"
  BY <1>1, <1>2
<1>24. (TableApart' <=> TableApart) /\ (TableFits' <=> TableFits) /\ (Shallow' <=> Shallow)
  BY <1>1, SameConditions
<1>25. QED
  BY <1>13, <1>20, <1>21, <1>22, <1>23, <1>24 DEF BookInv

(* What the macros are is kept from then on.                               *)
LEMMA BookStays ==
  ASSUME BookInv, table' = table, macros' = macros, pass' = pass, changed' = changed,
         errors \subseteq errors',
         phase' \in Later => phase \in Later,
         phase' # "embedded" /\ errors' \cap MacroErrors = {} => phase # "embedded" \/ ~changed,
         phase' \in BeforeProgram => phase \in BeforeProgram,
         phase' \in BeforeProgram /\ errors' \cap MacroErrors # {} =>
           errors \cap MacroErrors # {} \/ (pass = MaxPasses /\ changed)
  PROVE  BookInv'
<1> SUFFICES ASSUME phase' \in Later, errors' \cap TableErrors = {}
             PROVE  BookInv'
  BY DEF BookInv
<1>1. phase \in Later /\ errors \cap TableErrors = {}
  OBVIOUS
<1>2. /\ NamesLinked
      /\ changed \/ NoCalls(Book)
      /\ Promised(Book, pass, errors \cap MacroErrors = {})
      /\ phase # "embedded" /\ errors \cap MacroErrors = {} => ~changed
      /\ TableApart /\ TableFits /\ Shallow =>
           /\ pass = MaxPasses => ~changed
           /\ phase \in BeforeProgram => errors \cap MacroErrors = {}
  BY <1>1 DEF BookInv
<1>3. Book' = Book /\ NamesLinked' /\ (NoCalls(Book)' <=> NoCalls(Book))
  BY <1>2, BookSame
<1>4. PICK book : book = Book
  OBVIOUS
<1>5. PICK passes : passes = pass
  OBVIOUS
<1>6. PICK quiet : quiet = (errors \cap MacroErrors = {})
  OBVIOUS
<1>7. PICK still : still = (errors' \cap MacroErrors = {})
  OBVIOUS
<1>8. still => quiet
  BY <1>6, <1>7
<1>9. Promised(book, passes, still)
  <2>1. Promised(book, passes, quiet)
    BY <1>2, <1>4, <1>5, <1>6
  <2>2. QED
    BY <1>8, <2>1, PromiseWeaker
<1>10. Promised(Book, pass, errors \cap MacroErrors = {})'
  <2>1. book = Book' /\ passes = pass'
    BY <1>3, <1>4, <1>5
  <2>2. QED
    BY <1>7, <1>9, <2>1, PromiseSame
<1>11. phase' # "embedded" /\ errors' \cap MacroErrors = {} => ~changed'
  BY <1>2
<1>12. (TableApart' <=> TableApart) /\ (TableFits' <=> TableFits) /\ (Shallow' <=> Shallow)
  BY SameConditions
<1>13. (TableApart /\ TableFits /\ Shallow)' =>
          /\ pass' = MaxPasses => ~changed'
          /\ phase' \in BeforeProgram => errors' \cap MacroErrors = {}
  BY <1>2, <1>12
<1>14. QED
  BY <1>2, <1>3, <1>10, <1>11, <1>13 DEF BookInv

LEMMA BookEnds ==
  ASSUME BookInv, EmbeddingEnds
  PROVE  BookInv'
<1>1. /\ phase = "embedded" /\ phase' = "reading" /\ (pass = MaxPasses \/ ~changed)
      /\ errors' = errors \cup IF changed THEN {"too many passes"} ELSE {}
      /\ table' = table /\ macros' = macros /\ pass' = pass /\ changed' = changed
  BY DEF EmbeddingEnds, macroVars
<1>2. errors' \cap MacroErrors = {} => ~changed
  BY <1>1 DEF MacroErrors
<1>3. errors' \cap MacroErrors # {} => errors \cap MacroErrors # {} \/ (pass = MaxPasses /\ changed)
  BY <1>1
<1>4. errors \subseteq errors'
  BY <1>1
<1>5. phase \in Later /\ phase \in BeforeProgram
  BY <1>1 DEF Later, BeforeProgram
<1>6. QED
  BY <1>1, <1>2, <1>3, <1>4, <1>5, BookStays

(* While the source is read and its comments are removed there are only    *)
(* Errors of other kinds.                                                  *)
LEMMA BookWaits ==
  ASSUME TypeOK, Progress, CallsRemembered, BookInv, Source \/ Comments
  PROVE  BookInv'
<1>1. UNCHANGED macroVars
  BY DEF Source, Comments
<1>2. table' = table /\ macros' = macros /\ pass' = pass /\ changed' = changed
  BY <1>1 DEF macroVars
<1>3. /\ phase \in {"reading", "comments"} /\ errors \subseteq errors'
      /\ errors' \subseteq errors \cup ReadErrors \cup {"comment"}
      /\ phase' \in Later \cup {"failed"} /\ phase' # "embedded"
  <2>1. CASE Source
    <3>1. phase = "reading"
      BY <2>1 DEF Source, Reading, OpenMain, ReadText, LineFails, ReadInclude, IncludeFails,
         IncludeWithoutName, EndOfFile
    <3>2. ReadingStep
      BY <2>1, Opens, ReadsText, ReadsInclude, Returns DEF Source, Reading
    <3>3. QED
      BY <3>1, <3>2 DEF ReadingStep, Later
  <2>2. CASE Comments
    BY <2>2 DEF Comments, RemoveComments, EndComments, Later
  <2>3. QED
    BY <2>1, <2>2
<1>4. errors' \cap MacroErrors = errors \cap MacroErrors
  BY <1>3 DEF MacroErrors, ReadErrors
<1>5. phase \in Later /\ phase \in BeforeProgram /\ phase # "embedded"
  BY <1>3 DEF Later, BeforeProgram
<1>6. QED
  BY <1>2, <1>3, <1>4, <1>5, BookStays

-----------------------------------------------------------------------------
(* The lines that a line of the program is to become.                      *)
ExpandedText(text) == IF IsCall(text) THEN TopDown[text].texts ELSE << text >>
WithText(line, texts) == [k \in DOMAIN texts |-> [line EXCEPT !.text = texts[k]]]
LinesFor(i) == WithText(new_lines[i], ExpandedText(new_lines[i].text))
ExpectedTo(n) == FlattenSeq([i \in 1..n |-> LinesFor(i)])

ProgramApart == \A call \in ProgramCalls : HandsNoMacro(call)
ProgramFits == \A call \in ProgramCalls : CallsMacro(call) /\ TopDown[call].fits

ExpansionInv ==
  /\ phase \in {"table"} \cup BeforeProgram => pass0 = << >>
  /\ phase \in {"macros", "done"} /\ errors \cap TableErrors = {} /\ TableApart /\ ProgramApart =>
       /\ errors \cap MacroErrors = {} => pass0 = ExpectedTo(next_line - 1)
       /\ TableFits /\ Shallow /\ ProgramFits => errors \cap MacroErrors = {}
       /\ phase = "done" => next_line = Len(new_lines) + 1

LEMMA LinesForType ==
  ASSUME table \in Seq(TableLine), new_lines \in Seq(InputData), NEW i \in 1..Len(new_lines)
  PROVE  /\ LinesFor(i) \in Seq(InputData)
         /\ new_lines[i].text \in Seq(Token)
<1>1. PICK line : line = new_lines[i]
  OBVIOUS
<1>2. line \in InputData
  <2>1. \A j \in 1..Len(new_lines) : new_lines[j] \in InputData
    OBVIOUS
  <2>2. QED
    BY <1>1, <2>1
<1>3. PICK text : text = line.text
  OBVIOUS
<1>4. text \in Seq(Token)
  BY <1>2, <1>3 DEF InputData
<1>5. PICK texts : texts = ExpandedText(text)
  OBVIOUS
<1>6. texts \in Seq(Seq(Token))
  <2>1. TopDown[text] \in Result
    BY <1>4, TopDownType
  <2>2. TopDown[text].texts \in Seq(Seq(Token))
    BY <2>1 DEF Result
  <2>3. << text >> \in Seq(Seq(Token))
    BY <1>4
  <2>4. QED
    BY <1>5, <2>2, <2>3 DEF ExpandedText
<1>7. [k \in DOMAIN texts |-> [line EXCEPT !.text = texts[k]]] \in Seq(InputData)
  BY <1>2, <1>6, LinesOfTexts
<1>8. LinesFor(i) = [k \in DOMAIN texts |-> [line EXCEPT !.text = texts[k]]]
  BY <1>1, <1>3, <1>5 DEF LinesFor, WithText
<1>9. QED
  BY <1>1, <1>3, <1>4, <1>7, <1>8

LEMMA ExpectedNone == ExpectedTo(0) = << >>
<1>1. [i \in 1..0 |-> LinesFor(i)] = << >>
  <2> DEFINE f(i) == LinesFor(i)
  <2> HIDE DEF f
  <2>1. [i \in 1..0 |-> f(i)] = << >>
    OBVIOUS
  <2>2. QED
    BY <2>1 DEF f
<1>2. QED
  BY <1>1, FlattenEmpty DEF ExpectedTo

LEMMA ExpectedNext ==
  ASSUME table \in Seq(TableLine), new_lines \in Seq(InputData), NEW n \in 1..Len(new_lines)
  PROVE  ExpectedTo(n) = ExpectedTo(n - 1) \o LinesFor(n)
<1> DEFINE f(i) == LinesFor(i)
<1>1. PICK m : m = n - 1
  OBVIOUS
<1>2. Len(new_lines) \in Nat
  OBVIOUS
<1>3. m \in Nat /\ n = m + 1 /\ \A i \in 1..(m + 1) : i \in 1..Len(new_lines)
  BY <1>1, <1>2
<1>4. \A i \in 1..(m + 1) : f(i) \in Seq(InputData)
  BY <1>3, LinesForType
<1> HIDE DEF f
<1>5. FlattenSeq([i \in 1..(m + 1) |-> f(i)]) = FlattenSeq([i \in 1..m |-> f(i)]) \o f(m + 1)
  <2>1. PICK s : s = [i \in 1..(m + 1) |-> f(i)]
    OBVIOUS
  <2>2. \A i \in 1..(m + 1) : s[i] \in Seq(InputData)
    BY <1>4, <2>1
  <2>3. FlattenSeq([i \in 1..(m + 1) |-> s[i]]) = FlattenSeq([i \in 1..m |-> s[i]]) \o s[m + 1]
    BY ONLY <1>3, <2>2, FlattenMore
  <2>4. [i \in 1..(m + 1) |-> s[i]] = [i \in 1..(m + 1) |-> f(i)]
    BY <2>1
  <2>5. [i \in 1..m |-> s[i]] = [i \in 1..m |-> f(i)]
    BY <1>3, <2>1
  <2>6. s[m + 1] = f(m + 1)
    BY <1>3, <2>1
  <2>7. QED
    BY <2>3, <2>4, <2>5, <2>6
<1>6. QED
  BY <1>1, <1>3, <1>5 DEF ExpectedTo, f

LEMMA ExpectedSame ==
  ASSUME table' = table, new_lines' = new_lines
  PROVE  /\ \A n : ExpectedTo(n)' = ExpectedTo(n)
         /\ ProgramApart' <=> ProgramApart
         /\ ProgramFits' <=> ProgramFits
<1>1. TopDown' = TopDown /\ \A call : CallsMacro(call)' <=> CallsMacro(call)
  BY TableSame
<1>2. \A n : ExpectedTo(n)' = ExpectedTo(n)
  BY <1>1 DEF ExpectedTo, LinesFor, WithText, ExpandedText
<1>3. ProgramCalls' = ProgramCalls
  BY DEF ProgramCalls
<1>4. ProgramApart' <=> ProgramApart
  BY <1>3 DEF ProgramApart
<1>5. ProgramFits' <=> ProgramFits
  BY <1>1, <1>3 DEF ProgramFits
<1>6. QED
  BY <1>2, <1>4, <1>5

-----------------------------------------------------------------------------
(* When the passes left no Error no call is left in the macros, and there  *)
(* is no circle among them.                                                *)
LEMMA QuietBook ==
  ASSUME TypeOK, BookInv, phase \in {"macros", "done"}, errors \cap TableErrors = {},
         TableApart, errors \cap MacroErrors = {}
  PROVE  NoCalls(Book) /\ Acyclic /\ Meaning(Book) /\ NamesLinked /\ Book \in Books
<1>1. table \in Seq(TableLine) /\ macros \in Seq(Macro)
  BY DEF TypeOK, MacroTypeOK
<1>2. phase \in Later /\ phase # "embedded"
  BY DEF Later
<1>3. NamesLinked /\ NoCalls(Book) /\ Promised(Book, pass, errors \cap MacroErrors = {})
  BY <1>2 DEF BookInv
<1>4. PICK book : book = Book
  OBVIOUS
<1>5. CirclesStay(book) /\ (Acyclic => Meaning(book))
  BY <1>3, <1>4 DEF Promised
<1>6. \A name \in TableNames : \A x \in ToSet(book[name]) : ~CallsMacro(x)
  BY <1>3, <1>4 DEF NoCalls
<1>7. Acyclic
  BY <1>1, <1>5, <1>6, NoCircles
<1>8. Book \in Books
  BY <1>1, <1>3, BookIs
<1>9. QED
  BY <1>3, <1>4, <1>5, <1>7, <1>8

(* A call that leaves no Error is replaced by its expansion.               *)
LEMMA ExpansionIs ==
  ASSUME TypeOK, BookInv, phase \in {"macros", "done"}, errors \cap TableErrors = {},
         TableApart, errors \cap MacroErrors = {},
         NEW call \in Seq(Token), Defined(macros, call), HandsNoMacro(call),
         ErrorsIn(Definitions(call[1]), call) = {}
  PROVE  Expansion(call) = TopDown[call].texts
<1>1. NoCalls(Book) /\ Meaning(Book) /\ NamesLinked /\ Book \in Books
  BY QuietBook
<1>2. table \in Seq(TableLine) /\ macros \in Seq(Macro)
  BY DEF TypeOK, MacroTypeOK
<1>3. CallsMacro(call)
  BY <1>1, DefinedIs
<1>4. PICK book : book = Book
  OBVIOUS
<1>5. PICK items : items = Definitions(call[1])
  OBVIOUS
<1>6. items = book[call[1]]
  BY <1>1, <1>2, <1>3, <1>4, <1>5, DefinitionsAre DEF CallsMacro
<1>7. \A k \in DOMAIN items : Fits(items[k], call)
  BY <1>5, ErrorsInItems
<1>8. \A y \in ToSet(book[call[1]]) : Fits(y, call)
  BY <1>6, <1>7 DEF ToSet
<1>9. TopDown[call].texts = [k \in DOMAIN book[call[1]] |-> Replaced(book[call[1]][k], call)]
  <2>1. book \in Books /\ Meaning(book)
    BY <1>1, <1>4
  <2>2. \A name \in TableNames : \A x \in ToSet(book[name]) : ~CallsMacro(x)
    BY <1>1, <1>4 DEF NoCalls
  <2>3. QED
    BY <1>2, <1>3, <1>8, <2>1, <2>2, MeaningEnds
<1>10. Expansion(call) = [k \in DOMAIN items |-> Replaced(items[k], call)]
  BY <1>5, Zenon DEF Expansion
<1>11. QED
  BY <1>6, <1>9, <1>10

(* A call that has the words its expansion needs leaves no Error.          *)
LEMMA CallsHaveWords ==
  ASSUME TypeOK, BookInv, phase \in {"macros", "done"}, errors \cap TableErrors = {},
         TableApart, TableFits, NEW call \in Seq(Token), CallsMacro(call), TopDown[call].fits
  PROVE  Defined(macros, call) /\ ErrorsIn(Definitions(call[1]), call) = {}
<1>1. table \in Seq(TableLine) /\ macros \in Seq(Macro)
  BY DEF TypeOK, MacroTypeOK
<1>2. NamesLinked /\ Promised(Book, pass, errors \cap MacroErrors = {})
  BY DEF BookInv, Later
<1>3. PICK book : book = Book
  OBVIOUS
<1>4. AsTable(book)
  BY <1>2, <1>3 DEF Promised
<1>5. PICK name : name = call[1]
  OBVIOUS
<1>6. name \in TableNames /\ Definitions(name) = book[name]
  BY <1>1, <1>2, <1>3, <1>5, DefinitionsAre DEF CallsMacro
<1>7. PICK items : items = TableItems(name)
  OBVIOUS
<1>8. ErrorsIn(items, call) = {}
  BY <1>1, <1>5, <1>7, TopDownFits
<1>9. \A t \in ToSet(TableItems(name)) : Fits(t, call)
  <2>1. \A k \in DOMAIN items : Fits(items[k], call)
    BY <1>8, ErrorsInItems
  <2>2. QED
    BY <1>7, <2>1 DEF ToSet
<1>10. \A y \in ToSet(book[name]) : Fits(y, call)
  BY <1>4, <1>6, <1>9 DEF AsTable
<1>11. ErrorsIn(Definitions(name), call) = {}
  <2>1. PICK now : now = book[name]
    OBVIOUS
  <2>2. \A k \in DOMAIN now : Fits(now[k], call)
    BY <1>10, <2>1 DEF ToSet
  <2>3. ErrorsIn(now, call) = {}
    BY <2>2, ErrorsInItems
  <2>4. QED
    BY <1>6, <2>1, <2>3
<1>12. Defined(macros, call)
  BY <1>2, DefinedIs
<1>13. QED
  BY <1>5, <1>11, <1>12

-----------------------------------------------------------------------------
(* The lines of the program, one at a time.                                *)
LEMMA LineExpanded ==
  ASSUME TypeOK, Progress, BookInv, ExpansionInv, ExpandLine
  PROVE  ExpansionInv'
<1>1. /\ phase = "macros" /\ phase' = "macros" /\ next_line <= Len(new_lines)
      /\ next_line' = next_line + 1 /\ table' = table /\ new_lines' = new_lines
  BY DEF ExpandLine, commentVars
<1> SUFFICES ASSUME errors' \cap TableErrors = {}, TableApart, ProgramApart
             PROVE  /\ errors' \cap MacroErrors = {} => pass0' = ExpectedTo(next_line' - 1)
                    /\ TableFits /\ Shallow /\ ProgramFits => errors' \cap MacroErrors = {}
  <2>1. /\ TableApart' <=> TableApart
        /\ TableFits' <=> TableFits
        /\ Shallow' <=> Shallow
    BY <1>1, SameConditions
  <2>2. /\ ProgramApart' <=> ProgramApart
        /\ ProgramFits' <=> ProgramFits
    BY <1>1, ExpectedSame
  <2>3. ExpectedTo(next_line - 1)' = ExpectedTo(next_line' - 1)
    BY <1>1, TableSame DEF ExpectedTo, LinesFor, WithText, ExpandedText
  <2>4. phase' # "done" /\ phase' \notin {"table"} \cup BeforeProgram
    BY <1>1 DEF BeforeProgram
  <2>5. QED
    BY <2>1, <2>2, <2>3, <2>4 DEF ExpansionInv
<1>2. /\ table \in Seq(TableLine) /\ new_lines \in Seq(InputData) /\ macros \in Seq(Macro)
      /\ next_line \in 1..Len(new_lines)
  <2>1. next_line \in 1..(Len(lines) + 1) /\ Len(lines) \in Nat
    BY DEF TypeOK, ReaderTypeOK
  <2>2. Len(new_lines) = Len(lines)
    BY <1>1 DEF Progress
  <2>3. next_line \in 1..Len(new_lines)
    BY ONLY <1>1, <2>1, <2>2
  <2>4. QED
    BY <2>3 DEF TypeOK, ReaderTypeOK, MacroTypeOK
<1>3. PICK n : n = next_line
  OBVIOUS
<1>4. PICK line : line = new_lines[n]
  OBVIOUS
<1>5. PICK call : call = line.text
  OBVIOUS
<1>6. PICK texts : texts = IF IsCall(call) /\ Defined(macros, call) THEN Expansion(call) ELSE << call >>
  OBVIOUS
<1>7. pass0' = pass0 \o WithText(line, texts)
  BY <1>3, <1>4, <1>5, <1>6, Zenon DEF ExpandLine, WithText
<1>8. errors' = errors \cup
              IF ~IsCall(call) THEN {}
              ELSE IF Defined(macros, call) THEN ErrorsIn(Definitions(call[1]), call)
              ELSE {"macro not found"}
  BY <1>3, <1>4, <1>5, Zenon DEF ExpandLine
<1>9. n \in 1..Len(new_lines) /\ call \in Seq(Token)
  BY <1>2, <1>3, <1>4, <1>5, LinesForType
<1>10. ErrorsIn(Definitions(call[1]), call) \subseteq MacroErrors /\ "macro not found" \in MacroErrors
  BY ErrorsInAre DEF MacroErrors
<1>11. errors \cap TableErrors = {} /\ phase \in {"macros", "done"}
  BY <1>1, <1>8
<1>12. /\ errors \cap MacroErrors = {} => pass0 = ExpectedTo(n - 1)
       /\ TableFits /\ Shallow /\ ProgramFits => errors \cap MacroErrors = {}
  BY <1>3, <1>11 DEF ExpansionInv
<1>13. IsCall(call) => call \in ProgramCalls /\ HandsNoMacro(call)
  <2>1. n \in DOMAIN new_lines
    BY <1>2, <1>9
  <2>2. IsCall(call) => call \in ProgramCalls
    BY <1>4, <1>5, <2>1 DEF ProgramCalls
  <2>3. QED
    BY <2>2 DEF ProgramApart
<1>14. ASSUME errors' \cap MacroErrors = {}
       PROVE  pass0' = ExpectedTo(next_line' - 1)
  <2>1. errors \cap MacroErrors = {}
    BY <1>8, <1>14
  <2>2. texts = ExpandedText(call)
    <3>1. CASE ~IsCall(call)
      BY <1>6, <3>1 DEF ExpandedText
    <3>2. CASE IsCall(call)
      <4>1. Defined(macros, call) /\ ErrorsIn(Definitions(call[1]), call) = {}
        BY <1>8, <1>10, <1>14, <3>2
      <4>2. Expansion(call) = TopDown[call].texts
        BY <1>9, <1>11, <1>13, <2>1, <3>2, <4>1, ExpansionIs
      <4>3. QED
        BY <1>6, <3>2, <4>1, <4>2 DEF ExpandedText
    <3>3. QED
      BY <3>1, <3>2
  <2>3. WithText(line, texts) = LinesFor(n)
    BY <1>4, <1>5, <2>2 DEF LinesFor
  <2>4. pass0' = ExpectedTo(n - 1) \o LinesFor(n)
    BY <1>7, <1>12, <2>1, <2>3
  <2>5. pass0' = ExpectedTo(n)
    BY <1>2, <1>9, <2>4, ExpectedNext
  <2>6. next_line' - 1 = n
    <3>1. Len(new_lines) \in Nat
      BY <1>2
    <3>2. QED
      BY ONLY <1>1, <1>3, <1>9, <3>1
  <2>7. QED
    BY <2>5, <2>6
<1>15. ASSUME TableFits, Shallow, ProgramFits
       PROVE  errors' \cap MacroErrors = {}
  <2>1. errors \cap MacroErrors = {}
    BY <1>12, <1>15
  <2>2. CASE ~IsCall(call)
    BY <1>8, <2>1, <2>2
  <2>3. CASE IsCall(call)
    <3>1. CallsMacro(call) /\ TopDown[call].fits
      BY <1>13, <1>15, <2>3 DEF ProgramFits
    <3>2. Defined(macros, call) /\ ErrorsIn(Definitions(call[1]), call) = {}
      BY <1>9, <1>11, <1>15, <3>1, CallsHaveWords
    <3>3. QED
      BY <1>8, <2>1, <2>3, <3>2
  <2>4. QED
    BY <2>2, <2>3
<1>16. QED
  BY <1>14, <1>15

LEMMA ExpansionIsDone ==
  ASSUME TypeOK, Progress, ExpansionInv, ExpansionEnds
  PROVE  ExpansionInv'
<1>1. /\ phase = "macros" /\ phase' = "done" /\ next_line > Len(new_lines)
      /\ next_line' = next_line /\ table' = table /\ new_lines' = new_lines
      /\ errors' = errors /\ pass0' = pass0
  BY DEF ExpansionEnds, programVars, macroVars, commentVars
<1>2. next_line = Len(new_lines) + 1
  <2>1. next_line \in 1..(Len(lines) + 1) /\ Len(lines) \in Nat
    BY DEF TypeOK, ReaderTypeOK
  <2>2. Len(new_lines) = Len(lines)
    BY <1>1 DEF Progress
  <2>3. QED
    BY ONLY <1>1, <2>1, <2>2
<1>3. /\ TableApart' <=> TableApart
      /\ TableFits' <=> TableFits
      /\ Shallow' <=> Shallow
      /\ ProgramApart' <=> ProgramApart
      /\ ProgramFits' <=> ProgramFits
  BY <1>1, SameConditions, ExpectedSame
<1>4. ExpectedTo(next_line - 1)' = ExpectedTo(next_line - 1)
  BY <1>1, TableSame DEF ExpectedTo, LinesFor, WithText, ExpandedText
<1>5. phase' \notin {"table"} \cup BeforeProgram
  BY <1>1 DEF BeforeProgram
<1>6. QED
  BY <1>1, <1>2, <1>3, <1>4, <1>5 DEF ExpansionInv

(* Before the program's lines are gone through there is nothing of them.   *)
LEMMA ExpansionBegins ==
  ASSUME TypeOK, BookInv, ExpansionInv, EndComments, UNCHANGED macroVars
  PROVE  ExpansionInv'
<1>1. /\ phase = "comments" /\ phase' = "macros" /\ next_line' = 1 /\ errors' = errors
      /\ new_lines' = new_lines /\ table' = table /\ pass0' = pass0
  BY DEF EndComments, commentVars, macroVars
<1>2. pass0 = << >>
  BY <1>1 DEF ExpansionInv, BeforeProgram
<1>3. pass0' = ExpectedTo(next_line - 1)'
  <2>1. ExpectedTo(next_line - 1)' = ExpectedTo(next_line' - 1)
    BY <1>1, TableSame DEF ExpectedTo, LinesFor, WithText, ExpandedText
  <2>2. next_line' - 1 = 0
    BY <1>1
  <2>3. QED
    BY <1>1, <1>2, <2>1, <2>2, ExpectedNone
<1>4. /\ TableApart' <=> TableApart
      /\ TableFits' <=> TableFits
      /\ Shallow' <=> Shallow
  BY <1>1, SameConditions
<1>5. errors \cap TableErrors = {} /\ TableApart /\ TableFits /\ Shallow => errors \cap MacroErrors = {}
  BY <1>1 DEF BookInv, Later, BeforeProgram
<1>6. phase' # "done" /\ phase' \notin {"table"} \cup BeforeProgram
  BY <1>1 DEF BeforeProgram
<1>7. QED
  BY <1>1, <1>3, <1>4, <1>5, <1>6 DEF ExpansionInv

(* The three go together.                                                  *)
MacrosInv == MacrosAsRead /\ BookInv /\ ExpansionInv

LEMMA MacrosInvStep == IInv /\ MacrosInv /\ [Next]_vars => MacrosInv'
<1> SUFFICES ASSUME IInv, MacrosInv, [Next]_vars
             PROVE  MacrosInv'
  OBVIOUS
<1>1. TypeOK /\ Progress /\ CallsRemembered /\ MacrosAsRead /\ BookInv /\ ExpansionInv
  BY DEF IInv, MacrosInv
<1>2. CASE UNCHANGED vars
  <2>1. /\ phase' = phase /\ errors' = errors /\ next_line' = next_line /\ new_lines' = new_lines
        /\ table' = table /\ opcodes' = opcodes /\ macros' = macros /\ pass' = pass
        /\ changed' = changed /\ pass0' = pass0
    BY <1>2 DEF vars, programVars, macroVars, commentVars
  <2>2. MacrosAsRead'
    BY <1>1, <2>1 DEF MacrosAsRead, MacroLines, LinesRead, MacroOf
  <2>3. BookInv'
    BY <1>1, <2>1, BookStays DEF BookInv
  <2>4. ExpansionInv'
    <3>1. /\ TableApart' <=> TableApart
          /\ TableFits' <=> TableFits
          /\ Shallow' <=> Shallow
          /\ ProgramApart' <=> ProgramApart
          /\ ProgramFits' <=> ProgramFits
      BY <2>1, SameConditions, ExpectedSame
    <3>2. ExpectedTo(next_line - 1)' = ExpectedTo(next_line - 1)
      BY <2>1, TableSame DEF ExpectedTo, LinesFor, WithText, ExpandedText
    <3>3. QED
      BY <1>1, <2>1, <3>1, <3>2 DEF ExpansionInv
  <2>5. QED
    BY <2>2, <2>3, <2>4 DEF MacrosInv
<1>3. CASE Table
  <2>1. phase = "table" /\ pass0' = pass0 /\ phase' \in {"table", "embedded", "failed"}
    BY <1>3 DEF Table, EmptyTable, ReadOpcode, ReadMacro, TableRead, macroVars
  <2>2. MacrosAsRead'
    <3>1. CASE EmptyTable \/ TableRead
      BY <3>1 DEF EmptyTable, TableRead, MacrosAsRead
    <3>2. QED
      BY <1>1, <1>3, <3>1, OpcodeAsRead, MacroAsRead DEF Table
  <2>3. BookInv'
    <3>1. CASE TableRead
      BY <1>1, <3>1, BookBegins
    <3>2. CASE ~TableRead
      <4>1. phase' \notin Later
        BY <1>3, <3>2 DEF Table, EmptyTable, ReadOpcode, ReadMacro, Later
      <4>2. QED
        BY <4>1 DEF BookInv
    <3>3. QED
      BY <3>1, <3>2
  <2>4. ExpansionInv'
    BY <1>1, <2>1 DEF ExpansionInv
  <2>5. QED
    BY <2>2, <2>3, <2>4 DEF MacrosInv
<1>4. CASE Embedding
  <2>1. phase = "embedded" /\ pass0' = pass0 /\ phase' \in {"embedded", "panicked", "reading"}
    BY <1>4 DEF Embedding, EmbedMacros, EmbeddingEnds, macroVars
  <2>2. MacrosAsRead'
    BY <2>1 DEF MacrosAsRead
  <2>3. BookInv'
    BY <1>1, <1>4, BookGoesOn, BookEnds DEF Embedding
  <2>4. ExpansionInv'
    BY <1>1, <2>1 DEF ExpansionInv, BeforeProgram
  <2>5. QED
    BY <2>2, <2>3, <2>4 DEF MacrosInv
<1>5. CASE Source \/ Comments
  <2>1. phase \in {"reading", "comments"} /\ pass0' = pass0 /\ UNCHANGED macroVars
    BY <1>5 DEF Source, Comments, Reading, OpenMain, ReadText, LineFails, ReadInclude, IncludeFails,
       IncludeWithoutName, EndOfFile, RemoveComments, EndComments, macroVars
  <2>2. BookInv'
    BY <1>1, <1>5, BookWaits
  <2>3. ExpansionInv' /\ phase' # "table"
    <3>1. CASE Comments /\ EndComments
      <4>1. phase' # "table"
        BY <3>1 DEF EndComments
      <4>2. QED
        BY <1>1, <2>1, <3>1, <4>1, ExpansionBegins
    <3>2. CASE Comments /\ RemoveComments
      <4>1. phase' = "comments"
        BY <3>2 DEF RemoveComments
      <4>2. QED
        BY <1>1, <2>1, <4>1 DEF ExpansionInv, BeforeProgram
    <3>3. CASE Source
      <4>1. phase = "reading"
        BY <3>3 DEF Source, Reading, OpenMain, ReadText, LineFails, ReadInclude, IncludeFails,
           IncludeWithoutName, EndOfFile
      <4>2. ReadingStep
        BY <1>1, <3>3, <4>1, Opens, ReadsText, ReadsInclude, Returns DEF Source, Reading
      <4>3. phase' \in {"reading", "comments", "failed"}
        BY <4>2 DEF ReadingStep
      <4>4. QED
        BY <1>1, <2>1, <4>1, <4>3 DEF ExpansionInv, BeforeProgram
    <3>4. QED
      BY <1>5, <3>1, <3>2, <3>3 DEF Comments
  <2>4. MacrosAsRead'
    BY <2>3 DEF MacrosAsRead
  <2>5. QED
    BY <2>2, <2>3, <2>4 DEF MacrosInv
<1>6. CASE Expanding
  <2>1. /\ phase = "macros" /\ phase' \in {"macros", "done"} /\ errors \subseteq errors'
        /\ table' = table /\ macros' = macros /\ pass' = pass /\ changed' = changed
    BY <1>6 DEF Expanding, ExpandLine, ExpansionEnds, macroVars
  <2>2. BookInv'
    <3>1. phase \in Later /\ phase # "embedded" /\ phase' \notin BeforeProgram
      BY <2>1 DEF Later, BeforeProgram
    <3>2. QED
      BY <1>1, <2>1, <3>1, BookStays
  <2>3. ExpansionInv'
    BY <1>1, <1>6, LineExpanded, ExpansionIsDone DEF Expanding
  <2>4. MacrosAsRead'
    BY <2>1 DEF MacrosAsRead
  <2>5. QED
    BY <2>2, <2>3, <2>4 DEF MacrosInv
<1>7. QED
  BY <1>2, <1>3, <1>4, <1>5, <1>6 DEF Next

LEMMA MacrosAreExpanded == IInv /\ MacrosInv => MacrosFullyExpanded
<1> SUFFICES ASSUME IInv, MacrosInv
             PROVE  MacrosFullyExpanded
  OBVIOUS
<1>1. new_lines \in Seq(InputData)
  BY DEF IInv, TypeOK, ReaderTypeOK
<1> SUFFICES ASSUME phase = "done", errors \cap TableErrors = {},
                    \A call \in ProgramCalls \cup TableCalls : HandsNoMacro(call)
             PROVE  /\ errors \cap MacroErrors = {} => Acyclic /\ pass0 = ExpectedTo(Len(new_lines))
                    /\ TableFits /\ Shallow /\ ProgramFits => errors \cap MacroErrors = {}
  <2>1. DOMAIN new_lines = 1..Len(new_lines)
    BY <1>1
  <2>2. ExpectedTo(Len(new_lines)) = FlattenSeq([i \in DOMAIN new_lines |->
           LET texts == IF IsCall(new_lines[i].text) THEN TopDown[new_lines[i].text].texts
                        ELSE << new_lines[i].text >>
           IN  [k \in DOMAIN texts |-> [new_lines[i] EXCEPT !.text = texts[k]]]])
    BY <2>1, Zenon DEF ExpectedTo, LinesFor, WithText, ExpandedText
  <2>3. QED
    BY <2>2, Zenon DEF MacrosFullyExpanded, TableFits, ProgramFits
<1>2. TypeOK /\ BookInv /\ ExpansionInv
  BY DEF IInv, MacrosInv
<1>3. TableApart /\ ProgramApart
  BY DEF TableApart, ProgramApart
<1>4. ASSUME errors \cap MacroErrors = {}
      PROVE  Acyclic /\ pass0 = ExpectedTo(Len(new_lines))
  <2>1. Acyclic
    BY <1>2, <1>3, <1>4, QuietBook
  <2>2. pass0 = ExpectedTo(next_line - 1) /\ next_line = Len(new_lines) + 1
    BY <1>2, <1>3, <1>4 DEF ExpansionInv
  <2>3. Len(new_lines) \in Nat
    BY <1>2 DEF TypeOK, ReaderTypeOK
  <2>4. next_line - 1 = Len(new_lines)
    BY <2>2, <2>3
  <2>5. QED
    BY <2>1, <2>2, <2>4
<1>5. TableFits /\ Shallow /\ ProgramFits => errors \cap MacroErrors = {}
  BY <1>2, <1>3 DEF ExpansionInv
<1>6. QED
  BY <1>4, <1>5

(***************************************************************************)
(* MacrosFullyExpandedAlways: whatever macros an opcode file without       *)
(* duplicate names defines, and whatever program calls them, a run that    *)
(* leaves no Error has put the whole expansion of each call in its place,  *)
(* and macros that go round in circles always leave one; if every call has *)
(* the words its expansion needs, and the macros nest no deeper than the   *)
(* passes follow, there is none (expand_embedded_macros and expand_macros  *)
(* of macros.rs).                                                          *)
(***************************************************************************)
THEOREM MacrosFullyExpandedAlways == Spec => []MacrosFullyExpanded
<1>1. Init => MacrosInv
  <2> SUFFICES ASSUME Init
               PROVE  MacrosInv
    OBVIOUS
  <2>1. /\ phase = "table" /\ errors = {} /\ opcodes = << >> /\ macros = << >> /\ pass = 0
        /\ changed = TRUE /\ pass0 = << >> /\ table \in Seq(TableLine)
    BY InputsAssumption DEF Init, MacrosInit
  <2>2. \A j \in MacroLines : ~(j <= LinesRead)
    <3> TAKE j \in MacroLines
    <3>1. j \in 1..Len(table) /\ Len(table) \in Nat
      BY <2>1, MacroOfIs
    <3>2. LinesRead = 0
      BY <2>1 DEF LinesRead
    <3>3. QED
      BY <3>1, <3>2
  <2>3. MacrosAsRead
    BY <2>1, <2>2 DEF MacrosAsRead
  <2>4. BookInv /\ ExpansionInv
    BY <2>1 DEF BookInv, ExpansionInv, Later
  <2>5. QED
    BY <2>3, <2>4 DEF MacrosInv
<1>2. QED
  BY <1>1, MacrosInvStep, MacrosAreExpanded, Inductive, PTL DEF Spec
================================================================================
