---------------------------- MODULE UploadProofs ----------------------------
(* Theorems about the reader of multipart uploads, for parts of any number    *)
(* and any contents, and for any sizes of chunks, headers and fields.         *)
EXTENDS Upload, NumberedProofs, SequenceTheorems

Byte == Content \cup Kind

-----------------------------------------------------------------------------
(* What is sent is a sequence of bytes.                                     *)

\* f is the function that FlattenSeq defines for the sequences s, up to n.
Flattens(f, s, n) ==
    f = [i \in 1 .. n |-> IF i = 1 THEN s[i] ELSE f[i - 1] \o s[i]]

LEMMA FlatteningExists ==
    ASSUME NEW N \in Nat, NEW s \in [1 .. N -> Seq(Byte)]
    PROVE  \A n \in 1 .. N : \E f \in [1 .. n -> Seq(Byte)] : Flattens(f, s, n)
<1>1. PICK B : B = {n \in 1 .. N : ~ \E f \in [1 .. n -> Seq(Byte)] : Flattens(f, s, n)}
  OBVIOUS
<1>2. ASSUME B # {}
      PROVE  FALSE
  <2>1. B \in SUBSET Nat
    BY <1>1
  <2>2. PICK n \in B : \A m \in B : n <= m
    BY <1>2, <2>1, LeastOfNaturals
  <2>3. n \in 1 .. N
    BY <1>1
  <2>4. CASE n = 1
    <3>1. PICK f : f = [i \in 1 .. 1 |-> s[i]]
      OBVIOUS
    <3>2. f \in [1 .. 1 -> Seq(Byte)]
      BY <2>3, <2>4, <3>1
    <3>3. Flattens(f, s, 1)
      BY <3>1 DEF Flattens
    <3>4. QED
      BY <1>1, <2>4, <3>2, <3>3
  <2>5. CASE n # 1
    <3>1. PICK m \in 1 .. N : m = n - 1
      BY <2>3, <2>5
    <3>2. m \notin B
      BY <2>2, <2>3, <3>1
    <3>3. PICK g \in [1 .. m -> Seq(Byte)] : Flattens(g, s, m)
      BY <1>1, <3>2
    <3>4. PICK f : f = [i \in 1 .. n |-> IF i = n THEN g[m] \o s[n] ELSE g[i]]
      OBVIOUS
    <3>5. \A i \in 1 .. n : i # n => i \in 1 .. m
      BY <2>3, <3>1
    <3>6. g[m] \o s[n] \in Seq(Byte)
      BY <2>3, <3>1, <3>3
    <3>7. f \in [1 .. n -> Seq(Byte)]
      BY <3>3, <3>4, <3>5, <3>6
    <3>8. ASSUME NEW i \in 1 .. n
          PROVE  f[i] = IF i = 1 THEN s[i] ELSE f[i - 1] \o s[i]
      <4>1. CASE i = n
        <5>1. f[n - 1] = g[m]
          BY <2>3, <2>5, <3>1, <3>4
        <5>2. QED
          BY <2>5, <3>4, <4>1, <5>1
      <4>2. CASE i # n
        <5>1. i \in 1 .. m /\ f[i] = g[i]
          BY <3>4, <3>5, <4>2
        <5>2. g[i] = IF i = 1 THEN s[i] ELSE g[i - 1] \o s[i]
          BY <3>3, <5>1 DEF Flattens
        <5>3. i # 1 => f[i - 1] = g[i - 1]
          BY <2>3, <3>1, <3>4, <5>1
        <5>4. QED
          BY <5>1, <5>2, <5>3
      <4>3. QED
        BY <4>1, <4>2
    <3>9. f = [i \in 1 .. n |-> IF i = 1 THEN s[i] ELSE f[i - 1] \o s[i]]
      BY <3>7, <3>8
    <3>10. Flattens(f, s, n)
      BY <3>9 DEF Flattens
    <3>11. QED
      BY <1>1, <3>7, <3>10
  <2>6. QED
    BY <2>4, <2>5
<1>3. QED
  BY <1>1, <1>2

\* What the sequences s are put together to, one after the other.
Joins(f, s, N) == f \in [1 .. N -> Seq(Byte)] /\ Flattens(f, s, N)

LEMMA FlatteningIs ==
    ASSUME NEW N \in Nat, N > 0, NEW s \in [1 .. N -> Seq(Byte)],
           NEW f, Flattens(f, s, N)
    PROVE  Joins(f, s, N)
<1>1. /\ f = [i \in 1 .. N |-> f[i]]
      /\ \A i \in 1 .. N : f[i] = IF i = 1 THEN s[i] ELSE f[i - 1] \o s[i]
  BY DEF Flattens
<1>2. PICK B : B = {i \in 1 .. N : f[i] \notin Seq(Byte)}
  OBVIOUS
<1>3. ASSUME B # {}
      PROVE  FALSE
  <2>1. B \in SUBSET Nat
    BY <1>2
  <2>2. PICK n \in B : \A m \in B : n <= m
    BY <1>3, <2>1, LeastOfNaturals
  <2>3. n \in 1 .. N /\ f[n] \notin Seq(Byte)
    BY <1>2
  <2>4. CASE n = 1
    BY <1>1, <2>3, <2>4
  <2>5. CASE n # 1
    <3>1. n - 1 \in 1 .. N /\ ~(n <= n - 1)
      BY <2>3, <2>5
    <3>2. f[n - 1] \in Seq(Byte)
      BY <1>2, <2>2, <3>1
    <3>3. f[n] = f[n - 1] \o s[n]
      BY <1>1, <2>3, <2>5
    <3>4. QED
      BY <2>3, <3>2, <3>3
  <2>6. QED
    BY <2>4, <2>5
<1>4. \A i \in 1 .. N : f[i] \in Seq(Byte)
  BY <1>2, <1>3
<1>5. QED
  BY <1>1, <1>4 DEF Joins

LEMMA FlattenSeqIs ==
    ASSUME NEW N \in Nat, NEW s \in [1 .. N -> Seq(Byte)]
    PROVE  /\ FlattenSeq(s) \in Seq(Byte)
           /\ N > 0 => \E f : Joins(f, s, N) /\ FlattenSeq(s) = f[N]
<1>1. Len(s) = N /\ s \in Seq(Seq(Byte))
  OBVIOUS
<1>2. CASE N = 0
  <2>1. FlattenSeq(s) = s
    BY <1>1, <1>2 DEF FlattenSeq
  <2>2. s \in Seq(Byte)
    BY <1>2
  <2>3. QED
    BY <1>2, <2>1, <2>2
<1>3. CASE N > 0
  <2>1. PICK f : f = CHOOSE h : h = [i \in 1 .. N |-> IF i = 1 THEN s[i] ELSE h[i - 1] \o s[i]]
    OBVIOUS
  <2>2. PICK g : Flattens(g, s, N)
    <3>1. N \in 1 .. N
      BY <1>3
    <3>2. QED
      BY <3>1, FlatteningExists
  <2>3. Flattens(f, s, N)
    BY <2>1, <2>2 DEF Flattens
  <2>4. FlattenSeq(s) = f[N]
    BY <1>1, <1>3, <2>1 DEF FlattenSeq
  <2>5. Joins(f, s, N)
    BY <1>3, <2>3, FlatteningIs
  <2>6. f[N] \in Seq(Byte)
    <3>1. f \in [1 .. N -> Seq(Byte)]
      BY <2>5 DEF Joins
    <3>2. N \in 1 .. N
      BY <1>3
    <3>3. QED
      BY <3>1, <3>2
  <2>7. QED
    BY <1>3, <2>4, <2>5, <2>6
<1>4. QED
  BY <1>2, <1>3

LEMMA Symbols ==
    /\ Newline \in Seq(Byte) /\ Len(Newline) = 2
    /\ Delimiter \in Seq(Byte) /\ Len(Delimiter) = 3
    /\ Terminator \in Seq(Byte) /\ Len(Terminator) = 5
    /\ BlankLine \in Seq(Byte) /\ Len(BlankLine) = 4
    /\ Close \in Seq(Byte) /\ Len(Close) = 2
    /\ \A k \in Kind : HeaderOf(k) \in Seq(Byte)
    /\ Bodies \subseteq Seq(Byte) /\ Preambles \subseteq Seq(Byte)
  BY UploadAssumption DEF Newline, Delimiter, Terminator, BlankLine, Close, HeaderOf, Byte, Content, Kind

LEMMA PartBytes ==
    ASSUME NEW p \in Part
    PROVE  BytesOf(p) \in Seq(Byte)
  BY Symbols DEF Part, BytesOf

LEMMA FormBytes ==
    ASSUME NEW preamble \in Preambles, NEW form_ \in Form
    PROVE  BytesOfForm(preamble, form_) \in Seq(Byte)
<1>1. PICK N \in Nat : form_ \in [1 .. N -> Part]
  BY DEF Form
<1>2. PICK s : s = [i \in DOMAIN form_ |-> BytesOf(form_[i])]
  OBVIOUS
<1>3. s \in [1 .. N -> Seq(Byte)]
  BY <1>1, <1>2, PartBytes
<1>4. PICK b \in Seq(Byte) : b = FlattenSeq(s)
  BY <1>3, FlattenSeqIs
<1>5. QED
  BY <1>2, <1>4, Symbols DEF BytesOfForm

-----------------------------------------------------------------------------
(* What the operators on the buffer return.                                 *)

LEMMA MinOfTwo ==
    ASSUME NEW a \in Int, NEW b \in Int
    PROVE  Min({a, b}) = IF a <= b THEN a ELSE b
<1>1. \E x \in {a, b} : \A y \in {a, b} : x <= y
  OBVIOUS
<1>2. Min({a, b}) \in {a, b} /\ \A y \in {a, b} : Min({a, b}) <= y
  BY <1>1 DEF Min
<1>3. QED
  BY <1>2

LEMMA MaxOfTwo ==
    ASSUME NEW a \in Int, NEW b \in Int
    PROVE  Max({a, b}) = IF a >= b THEN a ELSE b
<1>1. \E x \in {a, b} : \A y \in {a, b} : x >= y
  OBVIOUS
<1>2. Max({a, b}) \in {a, b} /\ \A y \in {a, b} : Max({a, b}) >= y
  BY <1>1 DEF Max
<1>3. QED
  BY <1>2

\* Where needle occurs in s.
Occurs(needle, s) ==
    {i \in 1 .. Len(s) - Len(needle) + 1 : SubSeq(s, i, i + Len(needle) - 1) = needle}

LEMMA FindIsFirst ==
    ASSUME NEW needle \in Seq(Byte), NEW s \in Seq(Byte)
    PROVE  /\ Find(needle, s) \in Nat
           /\ Occurs(needle, s) = {} => Find(needle, s) = 0
           /\ Occurs(needle, s) # {} =>
                 /\ Find(needle, s) \in Occurs(needle, s)
                 /\ \A i \in Occurs(needle, s) : Find(needle, s) <= i
<1>1. PICK S : S = Occurs(needle, s)
  OBVIOUS
<1>2. Len(needle) \in Nat /\ Len(s) \in Nat
  OBVIOUS
<1>3. S \in SUBSET Nat /\ 0 \notin S
  BY <1>1, <1>2 DEF Occurs
<1>4. Find(needle, s) = IF S = {} THEN 0 ELSE Min(S)
  BY <1>1 DEF Find, Occurs
<1>5. ASSUME S # {}
      PROVE  Min(S) \in S /\ \A i \in S : Min(S) <= i
  BY <1>3, <1>5, LeastOfNaturals DEF Min
<1>6. QED
  BY <1>1, <1>3, <1>4, <1>5

LEMMA PrefixAndRest ==
    ASSUME NEW s \in Seq(Byte), NEW n \in Nat
    PROVE  /\ n <= Len(s) => SubSeq(s, 1, n) \in Seq(Byte) /\ Len(SubSeq(s, 1, n)) = n
           /\ From(s, n + 1) \in Seq(Byte)
           /\ n <= Len(s) => Len(From(s, n + 1)) = Len(s) - n
           /\ n > Len(s) => Len(From(s, n + 1)) = 0
           /\ Len(From(s, n + 1)) <= Len(s)
  BY DEF From

LEMMA ConcatIs ==
    ASSUME NEW a \in Seq(Byte), NEW b \in Seq(Byte)
    PROVE  /\ a \o b \in Seq(Byte)
           /\ Len(a) \in Nat /\ Len(b) \in Nat
           /\ Len(a \o b) = Len(a) + Len(b)
           /\ \A i \in 1 .. Len(a) : (a \o b)[i] = a[i]
           /\ \A i \in 1 .. Len(b) : (a \o b)[Len(a) + i] = b[i]
  BY ConcatProperties

LEMMA Associates ==
    ASSUME NEW a \in Seq(Byte), NEW b \in Seq(Byte), NEW c \in Seq(Byte)
    PROVE  (a \o b) \o c = a \o (b \o c)
  BY ConcatAssociative

LEMMA RestIs ==
    ASSUME NEW a \in Seq(Byte), NEW n \in Nat, n <= Len(a)
    PROVE  /\ From(a, n + 1) \in Seq(Byte)
           /\ Len(From(a, n + 1)) = Len(a) - n
           /\ \A i \in 1 .. Len(a) - n : From(a, n + 1)[i] = a[n + i]
  BY DEF From

LEMMA RestOfConcat ==
    ASSUME NEW a \in Seq(Byte), NEW b \in Seq(Byte), NEW n \in Nat, n <= Len(a)
    PROVE  From(a \o b, n + 1) = From(a, n + 1) \o b
<1>1. PICK la \in Nat, lb \in Nat : la = Len(a) /\ lb = Len(b)
  OBVIOUS
<1>2. PICK c \in Seq(Byte) : /\ c = a \o b /\ Len(c) = la + lb
                             /\ \A i \in 1 .. la : c[i] = a[i]
                             /\ \A i \in 1 .. lb : c[la + i] = b[i]
  BY <1>1, ConcatIs
<1>3. PICK u \in Seq(Byte) : /\ u = From(c, n + 1) /\ Len(u) = la + lb - n
                             /\ \A i \in 1 .. la + lb - n : u[i] = c[n + i]
  <2>1. n <= Len(c)
    BY <1>1, <1>2
  <2>2. Len(c) - n = la + lb - n
    BY <1>2
  <2>3. QED
    <3>1. From(c, n + 1) \in Seq(Byte) /\ Len(From(c, n + 1)) = Len(c) - n
      BY <2>1, RestIs
    <3>2. \A i \in 1 .. Len(c) - n : From(c, n + 1)[i] = c[n + i]
      BY <2>1, RestIs
    <3>3. QED
      BY <2>2, <3>1, <3>2
<1>4. PICK v \in Seq(Byte) : /\ v = From(a, n + 1) /\ Len(v) = la - n
                             /\ \A i \in 1 .. la - n : v[i] = a[n + i]
  BY <1>1, RestIs
<1>5. PICK d \in Seq(Byte) : /\ d = v \o b /\ Len(d) = la - n + lb
                             /\ \A i \in 1 .. la - n : d[i] = v[i]
                             /\ \A i \in 1 .. lb : d[la - n + i] = b[i]
  <2>1. \A i \in 1 .. Len(v) : (v \o b)[i] = v[i]
    BY ConcatIs
  <2>2. \A i \in 1 .. Len(b) : (v \o b)[Len(v) + i] = b[i]
    BY ConcatIs
  <2>3. v \o b \in Seq(Byte) /\ Len(v \o b) = Len(v) + Len(b)
    BY ConcatIs
  <2>4. QED
    <3>1. PICK d \in Seq(Byte) : d = v \o b
      BY <2>3
    <3>2. Len(d) = la - n + lb
      BY <1>1, <1>4, <2>3, <3>1
    <3>3. \A i \in 1 .. la - n : d[i] = v[i]
      BY <1>4, <2>1, <3>1
    <3>4. \A i \in 1 .. lb : d[la - n + i] = b[i]
      BY <1>1, <1>4, <2>2, <3>1
    <3>5. QED
      BY <3>1, <3>2, <3>3, <3>4
<1>6. ASSUME NEW i \in 1 .. la + lb - n
      PROVE  u[i] = d[i]
  <2>1. CASE i \in 1 .. la - n
    <3>1. u[i] = c[n + i] /\ d[i] = v[i] /\ v[i] = a[n + i]
      BY <1>3, <1>4, <1>5, <2>1
    <3>2. n + i \in 1 .. la
      BY <1>1, <2>1
    <3>3. QED
      BY <1>2, <3>1, <3>2
  <2>2. CASE i \notin 1 .. la - n
    <3>1. PICK x \in 1 .. lb : i = la - n + x
      <4>1. i - (la - n) \in 1 .. lb /\ i = la - n + (i - (la - n))
        BY <1>1, <2>2
      <4>2. QED
        BY <4>1
    <3>2. d[i] = b[x] /\ c[la + x] = b[x]
      BY <1>2, <1>5, <3>1
    <3>3. n + i = la + x
      BY <1>1, <3>1
    <3>4. QED
      BY <1>3, <3>2, <3>3
  <2>3. QED
    BY <2>1, <2>2
<1>7. Len(u) = Len(d) /\ Len(u) = la + lb - n
  BY <1>1, <1>3, <1>5
<1>8. u = d
  BY <1>6, <1>7, SeqEqual
<1>9. QED
  BY <1>2, <1>3, <1>4, <1>5, <1>8

LEMMA AllOfConcat ==
    ASSUME NEW a \in Seq(Byte), NEW b \in Seq(Byte)
    PROVE  From(a \o b, Len(a) + 1) = b
<1>1. PICK n \in Nat : n = Len(a) /\ From(a, n + 1) = << >>
  BY DEF From
<1>2. From(a \o b, n + 1) = << >> \o b
  <2>1. n <= Len(a)
    BY <1>1
  <2>2. From(a \o b, n + 1) = From(a, n + 1) \o b
    BY <2>1, RestOfConcat
  <2>3. QED
    BY <1>1, <2>2
<1>3. QED
  BY <1>1, <1>2, ConcatEmptySeq

LEMMA Split ==
    ASSUME NEW a \in Seq(Byte), NEW n \in Nat, n <= Len(a)
    PROVE  a = SubSeq(a, 1, n) \o From(a, n + 1)
<1>1. PICK l \in Nat, m \in Nat : l = Len(a) /\ m = 1
  OBVIOUS
<1>2. m \in 1 .. Len(a) + 1 /\ n \in m - 1 .. Len(a) /\ l \in n .. Len(a)
  BY <1>1
<1>3. SubSeq(a, m, n) \o SubSeq(a, n + 1, l) = SubSeq(a, m, l)
  BY <1>2, ConcatAdjacentSubSeq
<1>4. SubSeq(a, 1, Len(a)) = a
  BY SubSeqFull
<1>5. QED
  BY <1>1, <1>3, <1>4 DEF From

-----------------------------------------------------------------------------
(* A search in the buffer.                                                  *)

\* No occurrence of needle begins within u when needle follows u.
Avoids(needle, u) ==
    \A i \in 1 .. Len(u) : \E j \in 1 .. Len(needle) : (u \o needle)[i + j - 1] # needle[j]

LEMMA OccursIs ==
    ASSUME NEW needle \in Seq(Byte), NEW s \in Seq(Byte), NEW i \in Nat, i > 0,
           i + Len(needle) <= Len(s) + 1
    PROVE  i \in Occurs(needle, s) <=> \A j \in 1 .. Len(needle) : s[i + j - 1] = needle[j]
<1>1. PICK l \in Nat, n \in Nat : l = Len(s) /\ n = Len(needle)
  OBVIOUS
<1>2. PICK e \in Int : e = i + n - 1 /\ e <= l
  <2>1. i + n - 1 \in Int /\ i + n - 1 <= l
    BY <1>1
  <2>2. QED
    BY <2>1
<1>3. \A x \in i .. e : s[x] \in Byte
  BY <1>1, <1>2
<1>4. PICK u \in Seq(Byte) : /\ u = SubSeq(s, i, e)
                             /\ Len(u) = IF i <= e THEN e - i + 1 ELSE 0
                             /\ \A j \in 1 .. e - i + 1 : u[j] = s[i + j - 1]
  <2>1. i \in Int
    OBVIOUS
  <2>2. /\ SubSeq(s, i, e) \in Seq(Byte)
        /\ Len(SubSeq(s, i, e)) = IF i <= e THEN e - i + 1 ELSE 0
        /\ \A j \in 1 .. e - i + 1 : SubSeq(s, i, e)[j] = s[i + j - 1]
    BY <1>3, <2>1, SubSeqProperties
  <2>3. QED
    BY <2>2
<1>5. Len(u) = n /\ e - i + 1 = n
  BY <1>1, <1>2, <1>4
<1>6. u = needle <=> \A j \in 1 .. n : u[j] = needle[j]
  BY <1>1, <1>5, SeqEqual
<1>7. i \in 1 .. l - n + 1
  BY <1>1, <1>2
<1>8. i \in Occurs(needle, s) <=> u = needle
  BY <1>1, <1>2, <1>4, <1>7 DEF Occurs
<1>9. QED
  BY <1>1, <1>4, <1>5, <1>6, <1>8

LEMMA FoundAtEnd ==
    ASSUME NEW needle \in Seq(Byte), NEW u \in Seq(Byte), NEW v \in Seq(Byte),
           NEW b \in Seq(Byte), NEW r \in Seq(Byte),
           b \o r = u \o (needle \o v), Avoids(needle, u), Len(needle) > 0
    PROVE  Find(needle, b) = IF Len(b) >= Len(u) + Len(needle) THEN Len(u) + 1 ELSE 0
<1>1. PICK n \in Nat, l \in Nat, m \in Nat : n = Len(needle) /\ l = Len(u) /\ m = Len(b)
  OBVIOUS
<1>2. PICK un \in Seq(Byte) : /\ un = u \o needle /\ Len(un) = l + n
                              /\ \A j \in 1 .. n : un[l + j] = needle[j]
  <2>1. \A j \in 1 .. Len(needle) : (u \o needle)[Len(u) + j] = needle[j]
    BY ConcatIs
  <2>2. u \o needle \in Seq(Byte) /\ Len(u \o needle) = Len(u) + Len(needle)
    BY ConcatIs
  <2>3. QED
    BY <1>1, <2>1, <2>2
<1>3. PICK w : w = b \o r
  OBVIOUS
<1>4. \A x \in 1 .. m : w[x] = b[x]
  BY <1>1, <1>3, ConcatIs
<1>5. \A x \in 1 .. l + n : w[x] = un[x]
  <2>1. w = un \o v
    <3>1. (u \o needle) \o v = u \o (needle \o v)
      BY Associates
    <3>2. QED
      BY <1>2, <1>3, <3>1
  <2>2. QED
    BY <1>2, <2>1, ConcatIs
<1>6. \A j \in 1 .. n : un[l + j] = needle[j]
  BY <1>2
<1>7. ASSUME NEW i \in Occurs(needle, b)
      PROVE  i \in Nat /\ i > l /\ i + n <= m + 1
  <2>1. i \in Nat /\ i > 0 /\ i + n <= m + 1
    BY <1>1 DEF Occurs
  <2>2. \A j \in 1 .. n : b[i + j - 1] = needle[j]
    <3>1. i + Len(needle) <= Len(b) + 1
      BY <1>1, <2>1
    <3>2. QED
      BY <1>1, <2>1, <3>1, OccursIs
  <2>3. ASSUME i <= l
        PROVE  FALSE
    <3>1. PICK j \in 1 .. n : un[i + j - 1] # needle[j]
      <4>1. i \in 1 .. Len(u)
        BY <1>1, <2>1, <2>3
      <4>2. QED
        BY <1>1, <1>2, <4>1 DEF Avoids
    <3>2. PICK x \in Nat : x = i + j - 1
      BY <1>1, <2>1
    <3>3. x \in 1 .. m /\ x \in 1 .. l + n
      BY <1>1, <2>1, <2>3, <3>2
    <3>4. w[x] = b[x] /\ w[x] = un[x]
      BY <1>4, <1>5, <3>3
    <3>5. QED
      BY <2>2, <3>1, <3>2, <3>4
  <2>4. QED
    BY <2>1, <2>3, <1>1
<1>8. CASE m >= l + n
  <2>1. \A j \in 1 .. n : b[l + 1 + j - 1] = needle[j]
    <3>1. ASSUME NEW j \in 1 .. n
          PROVE  b[l + 1 + j - 1] = needle[j]
      <4>1. PICK x \in Nat : x = l + j
        BY <1>1
      <4>2. x \in 1 .. m /\ x \in 1 .. l + n /\ x = l + 1 + j - 1
        BY <1>1, <1>8, <4>1
      <4>3. w[x] = b[x] /\ w[x] = un[x]
        BY <1>4, <1>5, <4>2
      <4>4. QED
        BY <1>6, <4>1, <4>2, <4>3
    <3>2. QED
      BY <3>1
  <2>2. l + 1 \in Occurs(needle, b)
    <3>1. PICK i \in Nat : i = l + 1
      BY <1>1
    <3>4. i > 0 /\ i + Len(needle) <= Len(b) + 1
      BY <1>1, <1>8, <3>1
    <3>2. \A j \in 1 .. Len(needle) : b[i + j - 1] = needle[j]
      BY <1>1, <2>1, <3>1
    <3>3. QED
      BY <3>1, <3>2, <3>4, OccursIs
  <2>3. PICK f \in Nat : f = Find(needle, b)
    BY FindIsFirst
  <2>4. f \in Occurs(needle, b) /\ f <= l + 1
    BY <2>2, <2>3, FindIsFirst
  <2>5. f > l
    BY <1>7, <2>4
  <2>6. f = l + 1
    BY <1>1, <2>3, <2>4, <2>5
  <2>7. QED
    BY <1>1, <1>8, <2>3, <2>6
<1>9. CASE ~(m >= l + n)
  <2>1. ASSUME NEW i \in Occurs(needle, b)
        PROVE  FALSE
    BY <1>1, <1>7, <1>9
  <2>2. Find(needle, b) = 0
    BY <2>1, FindIsFirst
  <2>3. QED
    BY <1>1, <1>9, <2>2
<1>10. QED
  BY <1>8, <1>9

LEMMA SuffixAvoids ==
    ASSUME NEW needle \in Seq(Byte), NEW u \in Seq(Byte), Avoids(needle, u),
           NEW n \in Nat, n <= Len(u)
    PROVE  Avoids(needle, From(u, n + 1))
<1>1. PICK t \in Seq(Byte) : t = From(u, n + 1) /\ Len(t) = Len(u) - n
  BY RestIs
<1>2. u \o needle \in Seq(Byte) /\ n <= Len(u \o needle)
        /\ Len(u) \in Nat /\ Len(needle) \in Nat
        /\ Len(u \o needle) = Len(u) + Len(needle)
  BY ConcatIs
<1>3. From(u \o needle, n + 1) = t \o needle
  BY <1>1, RestOfConcat
<1>4. \A x \in 1 .. Len(t) + Len(needle) : (t \o needle)[x] = (u \o needle)[n + x]
  <2>1. \A x \in 1 .. Len(u \o needle) - n : From(u \o needle, n + 1)[x] = (u \o needle)[n + x]
    BY <1>2, RestIs
  <2>2. Len(t) + Len(needle) = Len(u \o needle) - n
    BY <1>1, <1>2
  <2>3. QED
    BY <1>3, <2>1, <2>2
<1>5. ASSUME NEW i \in 1 .. Len(t)
      PROVE  \E j \in 1 .. Len(needle) : (t \o needle)[i + j - 1] # needle[j]
  <2>1. n + i \in 1 .. Len(u)
    BY <1>1
  <2>2. PICK j \in 1 .. Len(needle) : (u \o needle)[(n + i) + j - 1] # needle[j]
    BY <2>1 DEF Avoids
  <2>3. PICK x \in Nat : x = i + j - 1
    BY <1>1
  <2>4. x \in 1 .. Len(t) + Len(needle) /\ n + x = (n + i) + j - 1
    BY <1>1, <2>3
  <2>5. (t \o needle)[x] = (u \o needle)[n + x]
    BY <1>4, <2>4
  <2>6. QED
    BY <2>2, <2>3, <2>4, <2>5
<1>6. QED
  BY <1>1, <1>5 DEF Avoids

\* A needle whose last byte is not among its others cannot begin in what holds
\* no occurrence of it.
EndsApart(needle) ==
    /\ Len(needle) > 0
    /\ \A j \in 1 .. Len(needle) : j < Len(needle) => needle[j] # needle[Len(needle)]

LEMMA NotFoundAvoids ==
    ASSUME NEW needle \in Seq(Byte), EndsApart(needle),
           NEW c \in Seq(Byte), Find(needle, c) = 0
    PROVE  Avoids(needle, c)
<1>1. PICK n \in Nat, l \in Nat : n = Len(needle) /\ l = Len(c) /\ n > 0
  BY DEF EndsApart
<1>2. PICK w \in Seq(Byte) : /\ w = c \o needle /\ Len(w) = l + n
                             /\ \A i \in 1 .. l : w[i] = c[i]
                             /\ \A i \in 1 .. n : w[l + i] = needle[i]
  <2>1. \A i \in 1 .. Len(c) : (c \o needle)[i] = c[i]
    BY ConcatIs
  <2>2. \A i \in 1 .. Len(needle) : (c \o needle)[Len(c) + i] = needle[i]
    BY ConcatIs
  <2>3. c \o needle \in Seq(Byte) /\ Len(c \o needle) = Len(c) + Len(needle)
    BY ConcatIs
  <2>4. QED
    BY <1>1, <2>1, <2>2, <2>3
<1>3. ASSUME NEW i \in 1 .. l
      PROVE  \E j \in 1 .. n : w[i + j - 1] # needle[j]
  <2>1. CASE i + n <= l + 1
    <3>1. i \notin Occurs(needle, c)
      <4>1. \A x \in Occurs(needle, c) : x > 0
        BY DEF Occurs
      <4>2. QED
        BY <4>1, FindIsFirst
    <3>2. i \in Nat /\ i > 0 /\ i + Len(needle) <= Len(c) + 1
      BY <1>1, <2>1
    <3>3. PICK j \in 1 .. n : c[i + j - 1] # needle[j]
      BY <1>1, <3>1, <3>2, OccursIs
    <3>4. PICK x \in Nat : x = i + j - 1 /\ x \in 1 .. l
      <4>1. i + j - 1 \in Nat /\ i + j - 1 \in 1 .. l
        BY <1>1, <2>1
      <4>2. QED
        BY <4>1
    <3>5. w[x] = c[x]
      BY <1>2, <3>4
    <3>6. QED
      BY <3>3, <3>4, <3>5
  <2>2. CASE ~(i + n <= l + 1)
    <3>1. PICK m \in 1 .. n : m = i + n - 1 - l /\ m < n
      <4>1. i + n - 1 - l \in 1 .. n /\ i + n - 1 - l < n
        BY <1>1, <2>2
      <4>2. QED
        BY <4>1
    <3>2. needle[m] # needle[n]
      BY <1>1, <3>1 DEF EndsApart
    <3>3. w[l + m] = needle[m]
      BY <1>2
    <3>4. i + n - 1 = l + m /\ n \in 1 .. n
      BY <1>1, <3>1
    <3>5. w[i + n - 1] # needle[n]
      BY <3>2, <3>3, <3>4
    <3>6. QED
      BY <3>4, <3>5
  <2>3. QED
    BY <2>1, <2>2
<1>4. QED
  BY <1>1, <1>2, <1>3 DEF Avoids

LEMMA PreamblesAvoid ==
    ASSUME NEW c \in Preambles
    PROVE  c \in Seq(Byte) /\ Avoids(Delimiter, c)
<1>1. EndsApart(Delimiter)
  BY DEF EndsApart, Delimiter
<1>2. c \in Seq(Byte) /\ Delimiter \in Seq(Byte)
  BY Symbols
<1>3. Find(Delimiter, c) = 0
  BY UploadAssumption
<1>4. QED
  BY <1>1, <1>2, <1>3, NotFoundAvoids

LEMMA BodiesAvoid ==
    ASSUME NEW c \in Bodies
    PROVE  c \in Seq(Byte) /\ Avoids(Terminator, c)
<1>1. PICK t \in Seq(Byte) : t = Terminator /\ Len(t) = 5
  BY Symbols
<1>2. EndsApart(t)
  BY <1>1 DEF EndsApart, Terminator, Newline, Delimiter
<1>3. c \in Seq(Byte) /\ Newline \in Seq(Byte) /\ Len(Newline) = 2
  BY Symbols
<1>4. PICK s \in Seq(Byte) : /\ s = Newline \o c /\ Len(s) = 2 + Len(c)
                             /\ \A i \in 1 .. Len(c) : s[2 + i] = c[i]
  <2>1. \A i \in 1 .. Len(c) : (Newline \o c)[Len(Newline) + i] = c[i]
    BY <1>3, ConcatIs
  <2>2. Newline \o c \in Seq(Byte) /\ Len(Newline \o c) = Len(Newline) + Len(c)
    BY <1>3, ConcatIs
  <2>3. QED
    BY <1>3, <2>1, <2>2
<1>5. Find(t, s) = 0
  BY <1>1, <1>4, UploadAssumption
<1>6. ASSUME NEW i \in Occurs(t, c)
      PROVE  FALSE
  <2>1. i \in Nat /\ i > 0 /\ i + Len(t) <= Len(c) + 1
    BY <1>1, <1>3 DEF Occurs
  <2>2. \A j \in 1 .. Len(t) : c[i + j - 1] = t[j]
    BY <1>3, <2>1, OccursIs
  <2>3. PICK x \in Nat : x = i + 2
    BY <2>1
  <2>4. x > 0 /\ x + Len(t) <= Len(s) + 1
    BY <1>1, <1>3, <1>4, <2>1, <2>3
  <2>5. ASSUME NEW j \in 1 .. Len(t)
        PROVE  s[x + j - 1] = t[j]
    <3>1. PICK y \in 1 .. Len(c) : y = i + j - 1
      <4>1. i + j - 1 \in 1 .. Len(c)
        BY <1>1, <1>3, <2>1
      <4>2. QED
        BY <4>1
    <3>2. s[2 + y] = c[y] /\ 2 + y = x + j - 1
      BY <1>1, <1>4, <2>1, <2>3, <3>1
    <3>3. QED
      BY <2>2, <3>1, <3>2
  <2>6. x \in Occurs(t, s)
    BY <2>3, <2>4, <2>5, OccursIs
  <2>7. \A y \in Occurs(t, s) : y > 0
    BY DEF Occurs
  <2>8. QED
    BY <1>5, <2>6, <2>7, FindIsFirst
<1>7. Find(t, c) = 0
  BY <1>3, <1>6, FindIsFirst
<1>8. QED
  BY <1>1, <1>2, <1>3, <1>7, NotFoundAvoids

LEMMA HeadersAvoid ==
    ASSUME NEW k \in Kind
    PROVE  /\ HeaderOf(k) \in Seq(Byte) /\ Len(HeaderOf(k)) > 0 /\ HeaderOf(k)[1] = k
           /\ Avoids(BlankLine, HeaderOf(k))
<1>1. PICK h \in Seq(Byte) : /\ h = HeaderOf(k) /\ Len(h) > 0
                             /\ \A i \in 1 .. Len(h) : h[i] = k
  <2>1. k \in Byte
    BY DEF Byte
  <2>2. PICK h : h = HeaderOf(k)
    OBVIOUS
  <2>3. CASE k = "unnamed"
    <3>1. h = << k, k, k, k >>
      BY <2>2, <2>3 DEF HeaderOf
    <3>2. h \in Seq(Byte) /\ Len(h) = 4
      BY <2>1, <3>1
    <3>3. h[1] = k /\ h[2] = k /\ h[3] = k /\ h[4] = k
      BY <3>1
    <3>4. \A i \in 1 .. 4 : i = 1 \/ i = 2 \/ i = 3 \/ i = 4
      OBVIOUS
    <3>5. \A i \in 1 .. Len(h) : h[i] = k
      BY <3>2, <3>3, <3>4
    <3>6. QED
      BY <2>2, <3>2, <3>5
  <2>4. CASE k # "unnamed"
    <3>1. h = << k >>
      BY <2>2, <2>4 DEF HeaderOf
    <3>2. h \in Seq(Byte) /\ Len(h) = 1 /\ h[1] = k
      BY <2>1, <3>1
    <3>3. \A i \in 1 .. Len(h) : h[i] = k
      BY <3>2
    <3>4. QED
      BY <2>2, <3>2, <3>3
  <2>5. QED
    BY <2>3, <2>4
<1>2. PICK n \in Seq(Byte) : n = BlankLine /\ Len(n) = 4 /\ n[1] = "r"
  <2>1. BlankLine \in Seq(Byte) /\ Len(BlankLine) = 4
    BY Symbols
  <2>2. BlankLine[1] = "r"
    BY DEF BlankLine, Newline
  <2>3. QED
    BY <2>1, <2>2
<1>3. \A i \in 1 .. Len(h) : (h \o n)[i] = h[i]
  BY ConcatIs
<1>4. ASSUME NEW i \in 1 .. Len(h)
      PROVE  \E j \in 1 .. Len(n) : (h \o n)[i + j - 1] # n[j]
  <2>1. k # "r"
    BY DEF Kind
  <2>2. (h \o n)[i] # n[1]
    BY <1>1, <1>2, <1>3, <2>1
  <2>3. i + 1 - 1 = i /\ 1 \in 1 .. Len(n)
    BY <1>2
  <2>4. QED
    BY <2>2, <2>3
<1>5. Avoids(n, h)
  BY <1>4 DEF Avoids
<1>6. 1 \in 1 .. Len(h)
  BY <1>1
<1>7. QED
  BY <1>1, <1>2, <1>5, <1>6

-----------------------------------------------------------------------------
(* What is still to come after each part.                                   *)

\* t[k] is what follows the delimiter that ends part k.
Layout(t, fm, N) ==
    /\ t \in [0 .. N -> Seq(Byte)]
    /\ t[N] = Close
    /\ \A k \in 0 .. N - 1 : t[k] = BytesOf(fm[k + 1]) \o t[k + 1]

\* e[k] is what the first k of the sequences s are put together to.
Grows(e, s, N) ==
    /\ e \in [0 .. N -> Seq(Byte)]
    /\ e[0] = << >>
    /\ \A k \in 0 .. N - 1 : e[k + 1] = e[k] \o s[k + 1]

LEMMA GrowthExists ==
    ASSUME NEW N \in Nat, NEW s \in [1 .. N -> Seq(Byte)]
    PROVE  \E e : Grows(e, s, N) /\ FlattenSeq(s) = e[N]
<1>1. CASE N = 0
  <2>1. PICK e : e = [k \in 0 .. N |-> << >>]
    OBVIOUS
  <2>2. FlattenSeq(s) = s /\ s = << >>
    BY <1>1 DEF FlattenSeq
  <2>3. e \in [0 .. N -> Seq(Byte)] /\ e[0] = << >> /\ e[N] = << >>
    BY <1>1, <2>1
  <2>4. \A k \in 0 .. N - 1 : FALSE
    BY <1>1
  <2>5. QED
    BY <2>2, <2>3, <2>4 DEF Grows
<1>2. CASE N > 0
  <2>1. PICK f : Joins(f, s, N) /\ FlattenSeq(s) = f[N]
    BY <1>2, FlattenSeqIs
  <2>2. PICK e : e = [k \in 0 .. N |-> IF k = 0 THEN << >> ELSE f[k]]
    OBVIOUS
  <2>3. f \in [1 .. N -> Seq(Byte)]
    BY <2>1 DEF Joins
  <2>4. \A i \in 1 .. N : f[i] = IF i = 1 THEN s[i] ELSE f[i - 1] \o s[i]
    BY <2>1 DEF Joins, Flattens
  <2>5. e \in [0 .. N -> Seq(Byte)] /\ e[0] = << >> /\ e[N] = f[N]
    BY <1>2, <2>2, <2>3
  <2>6. ASSUME NEW k \in 0 .. N - 1
        PROVE  e[k + 1] = e[k] \o s[k + 1]
    <3>1. k + 1 \in 1 .. N /\ k + 1 # 0 /\ k \in 0 .. N /\ k + 1 \in 0 .. N
      OBVIOUS
    <3>2. e[k + 1] = f[k + 1]
      BY <2>2, <3>1
    <3>3. CASE k = 0
      <4>1. f[k + 1] = s[k + 1]
        BY <2>4, <3>1, <3>3
      <4>2. e[k] = << >>
        BY <2>5, <3>3
      <4>3. << >> \o s[k + 1] = s[k + 1]
        BY <3>1, ConcatEmptySeq
      <4>4. QED
        BY <3>2, <4>1, <4>2, <4>3
    <3>4. CASE k # 0
      <4>1. e[k] = f[k] /\ k + 1 # 1 /\ (k + 1) - 1 = k
        BY <2>2, <3>1, <3>4
      <4>2. f[k + 1] = f[(k + 1) - 1] \o s[k + 1]
        BY <2>4, <3>1, <4>1
      <4>3. QED
        BY <3>2, <4>1, <4>2
    <3>5. QED
      BY <3>3, <3>4
  <2>7. QED
    BY <2>1, <2>5, <2>6 DEF Grows
<1>3. QED
  BY <1>1, <1>2

\* What was put together begins with what its first k sequences make.
LEMMA GrowthIsPrefix ==
    ASSUME NEW N \in Nat, NEW s \in [1 .. N -> Seq(Byte)], NEW e, Grows(e, s, N)
    PROVE  \A k \in 0 .. N : \E u \in Seq(Byte) : e[N] = e[k] \o u
<1>1. /\ e \in [0 .. N -> Seq(Byte)]
      /\ \A k \in 0 .. N - 1 : e[k + 1] = e[k] \o s[k + 1]
  BY DEF Grows
<1>2. PICK B : B = {d \in 0 .. N : ~ \E u \in Seq(Byte) : e[N] = e[N - d] \o u}
  OBVIOUS
<1>3. ASSUME B # {}
      PROVE  FALSE
  <2>1. B \in SUBSET Nat
    BY <1>2
  <2>2. PICK d \in B : \A x \in B : d <= x
    BY <1>3, <2>1, LeastOfNaturals
  <2>3. d \in 0 .. N /\ ~ \E u \in Seq(Byte) : e[N] = e[N - d] \o u
    BY <1>2
  <2>4. CASE d = 0
    <3>1. e[N] \in Seq(Byte) /\ N - d = N
      BY <1>1, <2>4
    <3>2. e[N] = e[N] \o << >> /\ << >> \in Seq(Byte)
      BY <3>1, ConcatEmptySeq
    <3>3. QED
      BY <2>3, <3>1, <3>2
  <2>5. CASE d # 0
    <3>1. PICK k \in 0 .. N - 1 : k = N - d
      <4>1. N - d \in 0 .. N - 1
        BY <2>3, <2>5
      <4>2. QED
        BY <4>1
    <3>2. d - 1 \in 0 .. N /\ d - 1 \notin B /\ N - (d - 1) = k + 1
      BY <2>2, <2>3, <2>5, <3>1
    <3>3. PICK u \in Seq(Byte) : e[N] = e[k + 1] \o u
      BY <1>2, <3>2
    <3>4. e[k] \in Seq(Byte) /\ s[k + 1] \in Seq(Byte)
      <4>1. k \in 0 .. N /\ k + 1 \in 1 .. N
        OBVIOUS
      <4>2. QED
        BY <1>1, <4>1
    <3>5. e[N] = e[k] \o (s[k + 1] \o u)
      <4>1. (e[k] \o s[k + 1]) \o u = e[k] \o (s[k + 1] \o u)
        BY <3>4, Associates
      <4>2. e[k + 1] = e[k] \o s[k + 1]
        BY <1>1
      <4>3. QED
        BY <3>3, <4>1, <4>2
    <3>6. s[k + 1] \o u \in Seq(Byte)
      BY <3>4, ConcatIs
    <3>7. QED
      BY <2>3, <3>1, <3>5, <3>6
  <2>6. QED
    BY <2>4, <2>5
<1>4. ASSUME NEW k \in 0 .. N
      PROVE  \E u \in Seq(Byte) : e[N] = e[k] \o u
  <2>1. N - k \in 0 .. N /\ N - (N - k) = k
    OBVIOUS
  <2>2. N - k \notin B
    BY <1>3
  <2>3. \E u \in Seq(Byte) : e[N] = e[N - (N - k)] \o u
    BY <1>2, <2>1, <2>2
  <2>4. QED
    BY <2>1, <2>3
<1>5. QED
  BY <1>4

LEMMA LayoutExists ==
    ASSUME NEW N \in Nat, NEW fm \in [1 .. N -> Part]
    PROVE  \E t : /\ Layout(t, fm, N)
                  /\ \A q \in Preambles :
                        BytesOfForm(q, fm) = q \o (Delimiter \o t[0])
<1>1. PICK s : s = [i \in DOMAIN fm |-> BytesOf(fm[i])]
  OBVIOUS
<1>2. s \in [1 .. N -> Seq(Byte)] /\ \A i \in 1 .. N : s[i] = BytesOf(fm[i])
  BY <1>1, PartBytes
<1>3. PICK e : Grows(e, s, N) /\ FlattenSeq(s) = e[N]
  BY <1>2, GrowthExists
<1>4. /\ e \in [0 .. N -> Seq(Byte)] /\ e[0] = << >>
      /\ \A k \in 0 .. N - 1 : e[k + 1] = e[k] \o s[k + 1]
  BY <1>3 DEF Grows
<1>5. Close \in Seq(Byte) /\ Delimiter \in Seq(Byte)
  BY Symbols
<1>6. e[N] \in Seq(Byte) /\ e[N] \o Close \in Seq(Byte)
  <2>1. e[N] \in Seq(Byte)
    BY <1>4
  <2>2. QED
    BY <1>5, <2>1, ConcatIs
<1>7. PICK w \in Seq(Byte) : w = e[N] \o Close
  BY <1>6
<1>8. PICK t : t = [k \in 0 .. N |-> From(w, Len(e[k]) + 1)]
  OBVIOUS
<1>9. ASSUME NEW k \in 0 .. N, NEW u \in Seq(Byte), e[N] = e[k] \o u
      PROVE  t[k] = u \o Close /\ t[k] \in Seq(Byte)
  <2>1. e[k] \in Seq(Byte)
    BY <1>4
  <2>2. w = e[k] \o (u \o Close)
    <3>1. (e[k] \o u) \o Close = e[k] \o (u \o Close)
      BY <1>5, <2>1, Associates
    <3>2. QED
      BY <1>7, <1>9, <3>1
  <2>3. u \o Close \in Seq(Byte)
    BY <1>5, ConcatIs
  <2>4. From(w, Len(e[k]) + 1) = u \o Close
    BY <2>1, <2>2, <2>3, AllOfConcat
  <2>5. QED
    BY <1>8, <2>3, <2>4
<1>10. \A k \in 0 .. N : t[k] \in Seq(Byte)
  <2>1. \A k \in 0 .. N : \E u \in Seq(Byte) : e[N] = e[k] \o u
    BY <1>2, <1>3, GrowthIsPrefix
  <2>2. QED
    BY <1>9, <2>1
<1>11. t \in [0 .. N -> Seq(Byte)]
  BY <1>8, <1>10
<1>12. t[N] = Close
  <2>1. N \in 0 .. N /\ << >> \in Seq(Byte) /\ e[N] = e[N] \o << >> /\ << >> \o Close = Close
    BY <1>5, <1>6, ConcatEmptySeq
  <2>2. QED
    BY <1>9, <2>1
<1>13. ASSUME NEW k \in 0 .. N - 1
       PROVE  t[k] = BytesOf(fm[k + 1]) \o t[k + 1]
  <2>1. k \in 0 .. N /\ k + 1 \in 0 .. N /\ k + 1 \in 1 .. N
    OBVIOUS
  <2>2. PICK u \in Seq(Byte) : e[N] = e[k + 1] \o u
    BY <1>2, <1>3, <2>1, GrowthIsPrefix
  <2>3. t[k + 1] = u \o Close
    BY <1>9, <2>1, <2>2
  <2>4. e[k] \in Seq(Byte) /\ s[k + 1] \in Seq(Byte)
    BY <1>2, <1>4, <2>1
  <2>5. e[N] = e[k] \o (s[k + 1] \o u)
    <3>1. (e[k] \o s[k + 1]) \o u = e[k] \o (s[k + 1] \o u)
      BY <2>4, Associates
    <3>2. e[k + 1] = e[k] \o s[k + 1]
      BY <1>4
    <3>3. QED
      BY <2>2, <3>1, <3>2
  <2>6. s[k + 1] \o u \in Seq(Byte)
    BY <2>4, ConcatIs
  <2>7. t[k] = (s[k + 1] \o u) \o Close
    BY <1>9, <2>1, <2>5, <2>6
  <2>8. t[k] = s[k + 1] \o (u \o Close)
    BY <1>5, <2>4, <2>7, Associates
  <2>9. QED
    BY <1>2, <2>1, <2>3, <2>8
<1>14. t[0] = w
  <2>1. 0 \in 0 .. N /\ e[N] = e[0] \o e[N]
    BY <1>4, <1>6, ConcatEmptySeq
  <2>2. QED
    BY <1>6, <1>7, <1>9, <2>1
<1>15. ASSUME NEW q \in Preambles
       PROVE  BytesOfForm(q, fm) = q \o (Delimiter \o t[0])
  <2>1. q \in Seq(Byte)
    BY Symbols
  <2>2. BytesOfForm(q, fm) = ((q \o Delimiter) \o e[N]) \o Close
    BY <1>1, <1>3 DEF BytesOfForm
  <2>3. q \o Delimiter \in Seq(Byte)
    BY <1>5, <2>1, ConcatIs
  <2>4. ((q \o Delimiter) \o e[N]) \o Close = (q \o Delimiter) \o w
    BY <1>5, <1>6, <1>7, <2>3, Associates
  <2>5. (q \o Delimiter) \o w = q \o (Delimiter \o w)
    BY <1>5, <2>1, Associates
  <2>6. QED
    BY <1>14, <2>2, <2>4, <2>5
<1>16. Layout(t, fm, N)
  BY <1>11, <1>12, <1>13 DEF Layout
<1>17. QED
  BY <1>15, <1>16

-----------------------------------------------------------------------------
(* The buffer stays small.                                                  *)

UploadTypeOK ==
    /\ rest \in Seq(Byte)
    /\ buffer \in Seq(Byte)
    /\ written \in Seq(Byte)
    /\ goal \in Nat
    /\ missing \in BOOLEAN
    /\ whole \in BOOLEAN
    /\ form \in Form
    /\ whole => ~missing

\* What the reader waits for is bounded, and with it what one more read adds to.
UploadBounded ==
    /\ UploadTypeOK
    /\ goal <= Chunk + Max({Len(Terminator), MaxHeader})
    /\ MemoryIsBounded

LEMMA Bounds ==
    \E m \in Nat : /\ m = Max({Len(Terminator), MaxHeader})
                   /\ m >= 5 /\ m >= MaxHeader
                   /\ Chunk \in Nat /\ Chunk > 0 /\ MaxHeader \in Nat
<1>1. Len(Terminator) = 5
  BY Symbols
<1>2. Chunk \in Nat /\ Chunk > 0 /\ MaxHeader \in Nat
  BY UploadAssumption
<1>3. Max({5, MaxHeader}) = IF 5 >= MaxHeader THEN 5 ELSE MaxHeader
  BY <1>2, MaxOfTwo
<1>4. QED
  BY <1>1, <1>2, <1>3

LEMMA Shortened ==
    ASSUME NEW s \in Seq(Byte), NEW n \in Nat, n > 0
    PROVE  From(s, n) \in Seq(Byte) /\ Len(From(s, n)) <= Len(s)
<1>1. PICK m \in Nat : m = n - 1 /\ n = m + 1
  OBVIOUS
<1>2. QED
  BY <1>1, PrefixAndRest

LEMMA Beginning ==
    ASSUME NEW s \in Seq(Byte), NEW n \in Int, n <= Len(s)
    PROVE  /\ SubSeq(s, 1, n) \in Seq(Byte)
           /\ Len(SubSeq(s, 1, n)) = IF n > 0 THEN n ELSE 0
<1>1. \A i \in 1 .. n : s[i] \in Byte
  OBVIOUS
<1>2. /\ SubSeq(s, 1, n) \in Seq(Byte)
      /\ Len(SubSeq(s, 1, n)) = IF 1 <= n THEN n - 1 + 1 ELSE 0
  BY <1>1, SubSeqProperties
<1>3. QED
  BY <1>2

LEMMA InitType == Init => UploadTypeOK
<1>1. SUFFICES ASSUME Init
               PROVE  UploadTypeOK
  OBVIOUS
<1>2. form \in Form
  BY <1>1 DEF Init
<1>3. PICK preamble \in Preambles :
         \E n \in 0 .. Len(BytesOfForm(preamble, form)) :
            /\ rest = SubSeq(BytesOfForm(preamble, form), 1, n)
            /\ whole = (n = Len(BytesOfForm(preamble, form)))
  BY <1>1 DEF Init
<1>4. PICK w \in Seq(Byte) : w = BytesOfForm(preamble, form)
  BY <1>2, FormBytes
<1>5. PICK n \in 0 .. Len(w) : rest = SubSeq(w, 1, n) /\ whole = (n = Len(w))
  BY <1>3, <1>4
<1>6. rest \in Seq(Byte)
  BY <1>5, Beginning
<1>7. whole \in BOOLEAN
  BY <1>5
<1>8. missing \in BOOLEAN /\ (whole => ~missing)
  BY <1>1 DEF Init
<1>9. buffer \in Seq(Byte) /\ written \in Seq(Byte)
  BY <1>1 DEF Init
<1>10. goal \in Nat
  BY <1>1, Bounds DEF Init
<1>11. QED
  BY <1>2, <1>6, <1>7, <1>8, <1>9, <1>10 DEF UploadTypeOK

LEMMA ReadType ==
    ASSUME UploadTypeOK, Read
    PROVE  UploadTypeOK' /\ Len(buffer') <= Len(buffer) + Chunk
<1>1. rest \in Seq(Byte) /\ buffer \in Seq(Byte)
  BY DEF UploadTypeOK
<1>2. CASE /\ NothingComes
           /\ UNCHANGED << rest, buffer >>
           /\ UNCHANGED << input, goal, pc, part, written, parts >>
  <2>1. missing' = FALSE
    BY <1>2 DEF NothingComes
  <2>2. rest' = rest /\ buffer' = buffer /\ written' = written /\ goal' = goal
          /\ form' = form /\ whole' = whole
    BY <1>2 DEF input
  <2>3. UploadTypeOK'
    BY <2>1, <2>2 DEF UploadTypeOK
  <2>4. Len(buffer) \in Nat /\ Chunk \in Nat
    BY <1>1, Bounds
  <2>5. QED
    BY <2>2, <2>3, <2>4
<1>3. ASSUME NEW n \in 1 .. Min({Chunk, Len(rest)}),
             buffer' = buffer \o SubSeq(rest, 1, n),
             rest' = From(rest, n + 1),
             UNCHANGED missing,
             UNCHANGED << input, goal, pc, part, written, parts >>
      PROVE  UploadTypeOK' /\ Len(buffer') <= Len(buffer) + Chunk
  <2>1. n \in Nat /\ n > 0 /\ n <= Chunk /\ n <= Len(rest)
    <3>1. Chunk \in Int /\ Len(rest) \in Int
      BY <1>1, Bounds
    <3>2. Min({Chunk, Len(rest)}) = IF Chunk <= Len(rest) THEN Chunk ELSE Len(rest)
      BY <3>1, MinOfTwo
    <3>3. QED
      BY <3>1, <3>2
  <2>2. SubSeq(rest, 1, n) \in Seq(Byte) /\ Len(SubSeq(rest, 1, n)) = n
    BY <1>1, <2>1, Beginning
  <2>3. buffer' \in Seq(Byte) /\ Len(buffer') = Len(buffer) + n
    BY <1>1, <1>3, <2>2, ConcatIs
  <2>4. rest' \in Seq(Byte)
    BY <1>1, <1>3, <2>1, RestIs
  <2>5. Len(buffer') <= Len(buffer) + Chunk
    BY <1>1, <2>1, <2>3, Bounds
  <2>6. QED
    BY <1>3, <2>3, <2>4, <2>5 DEF UploadTypeOK, input
<1>4. QED
  BY <1>2, <1>3 DEF Read

LEMMA Finds ==
    ASSUME UploadTypeOK
    PROVE  /\ Find(Delimiter, buffer) \in Nat /\ Find(BlankLine, buffer) \in Nat
           /\ Find(Terminator, buffer) \in Nat
  BY Symbols, FindIsFirst DEF UploadTypeOK

LEMMA LookType ==
    ASSUME UploadTypeOK, DiscardUntil \/ ReadMarker \/ ReadHeaders \/ ReadBody
    PROVE  UploadTypeOK' /\ Len(buffer') <= Len(buffer)
<1>1. buffer \in Seq(Byte) /\ written \in Seq(Byte) /\ Len(buffer) \in Nat
  BY DEF UploadTypeOK
<1>2. Len(Delimiter) = 3 /\ Len(Terminator) = 5 /\ Len(BlankLine) = 4 /\ Chunk \in Nat
  BY Symbols, Bounds
<1>3. CASE Fail
  BY <1>1, <1>3 DEF Fail, UploadTypeOK, input, source
<1>4. ASSUME NEW n \in Nat, n > 0, buffer' = From(buffer, n), goal' \in Nat,
             written' \in Seq(Byte), UNCHANGED << input, rest, missing >>
      PROVE  UploadTypeOK' /\ Len(buffer') <= Len(buffer)
  BY <1>1, <1>4, Shortened DEF UploadTypeOK, input
<1>5. CASE DiscardUntil
  <2>1. PICK i \in Nat : i = Find(Delimiter, buffer)
    BY Finds
  <2>2. CASE i > 0 /\ ~Fail
    <3>1. PICK n \in Nat : n = i + 3
      OBVIOUS
    <3>2. /\ buffer' = From(buffer, n) /\ goal' = 2
          /\ UNCHANGED << input, rest, missing, part, written, parts >>
      BY <1>2, <1>5, <2>1, <2>2, <3>1 DEF DiscardUntil, Expect
    <3>3. QED
      BY <1>1, <1>4, <2>2, <3>1, <3>2
  <2>3. CASE i = 0 /\ ~Fail
    <3>1. PICK n \in Nat : n = Max({1, Len(buffer) - Kept(Delimiter) + 1}) /\ n > 0
      <4>1. Kept(Delimiter) = 2
        BY <1>2 DEF Kept
      <4>2. PICK m \in Int : m = Len(buffer) - 2 + 1
        BY <1>1
      <4>3. Max({1, m}) = IF 1 >= m THEN 1 ELSE m
        BY MaxOfTwo
      <4>4. QED
        BY <1>1, <4>1, <4>2, <4>3
    <3>2. /\ buffer' = From(buffer, n)
          /\ UNCHANGED << input, rest, missing, goal, pc, part, written, parts >>
      BY <1>5, <2>1, <2>3, <3>1 DEF DiscardUntil
    <3>3. goal' \in Nat /\ written' \in Seq(Byte)
      BY <3>2 DEF UploadTypeOK
    <3>4. QED
      BY <1>4, <3>1, <3>2, <3>3
  <2>4. QED
    BY <1>3, <2>1, <2>2, <2>3
<1>6. CASE ReadMarker
  <2>1. CASE /\ pc' = "done"
             /\ UNCHANGED << input, source, goal, part, written, parts >>
    BY <1>1, <2>1 DEF UploadTypeOK, input, source
  <2>2. CASE /\ buffer' = From(buffer, 3)
             /\ Expect("headers", 0)
             /\ UNCHANGED << input, rest, missing, part, written, parts >>
    <3>1. goal' = 0
      BY <2>2 DEF Expect
    <3>2. QED
      BY <1>1, <1>4, <2>2, <3>1
  <2>3. QED
    BY <1>3, <1>6, <2>1, <2>2 DEF ReadMarker
<1>7. CASE ReadHeaders
  <2>1. PICK i \in Nat : i = Find(BlankLine, buffer)
    BY Finds
  <2>2. CASE i > 0 /\ ~Fail
    <3>1. PICK n \in Nat : n = i + 4
      OBVIOUS
    <3>2. /\ buffer' = From(buffer, n) /\ goal' = Chunk + 5 /\ written' = << >>
          /\ UNCHANGED << input, rest, missing, parts >>
      BY <1>2, <1>7, <2>1, <2>2, <3>1 DEF ReadHeaders, Expect
    <3>3. goal' \in Nat /\ written' \in Seq(Byte)
      BY <1>2, <3>2
    <3>4. QED
      BY <1>4, <2>2, <3>1, <3>2, <3>3
  <2>3. CASE i = 0 /\ ~Fail
    <3>1. /\ goal' = Len(buffer) + Chunk
          /\ UNCHANGED << input, source, pc, part, written, parts >>
      BY <1>7, <2>1, <2>3 DEF ReadHeaders
    <3>2. goal' \in Nat
      BY <1>1, <1>2, <3>1
    <3>3. QED
      BY <1>1, <3>1, <3>2 DEF UploadTypeOK, input, source
  <2>4. QED
    BY <1>3, <2>1, <2>2, <2>3
<1>8. CASE ReadBody
  <2>1. PICK i \in Nat : i = Find(Terminator, buffer)
    BY Finds
  <2>2. PICK free \in Int : free = Len(buffer) - Kept(Terminator) /\ free <= Len(buffer)
    <3>1. Kept(Terminator) = 4
      BY <1>2 DEF Kept
    <3>2. Len(buffer) - 4 \in Int /\ Len(buffer) - 4 <= Len(buffer)
      BY <1>1
    <3>3. QED
      BY <3>1, <3>2
  <2>3. CASE i > 0 /\ ~Fail
    <3>1. PICK n \in Nat : n = i + 5
      OBVIOUS
    <3>2. /\ buffer' = From(buffer, n) /\ goal' = 2
          /\ UNCHANGED << input, rest, missing, part, written >>
      BY <1>2, <1>8, <2>1, <2>3, <3>1 DEF ReadBody, Expect
    <3>3. QED
      BY <1>1, <1>4, <2>3, <3>1, <3>2
  <2>4. CASE i = 0 /\ ~Fail
    <3>1. PICK n \in Nat : n = Max({0, free}) + 1 /\ n > 0
      <4>1. Max({0, free}) = IF 0 >= free THEN 0 ELSE free
        BY MaxOfTwo
      <4>2. QED
        BY <4>1
    <3>2. /\ buffer' = From(buffer, n)
          /\ written' = written \o SubSeq(buffer, 1, free)
          /\ UNCHANGED << input, rest, missing, goal, pc, part, parts >>
      BY <1>8, <2>1, <2>2, <2>4, <3>1 DEF ReadBody
    <3>3. written' \in Seq(Byte)
      <4>1. SubSeq(buffer, 1, free) \in Seq(Byte)
        BY <1>1, <2>2, Beginning
      <4>2. QED
        BY <1>1, <3>2, <4>1, ConcatIs
    <3>4. goal' \in Nat
      BY <3>2 DEF UploadTypeOK
    <3>5. QED
      BY <1>4, <3>1, <3>2, <3>3, <3>4
  <2>5. QED
    BY <1>3, <2>1, <2>3, <2>4
<1>9. QED
  BY <1>5, <1>6, <1>7, <1>8

LEMMA NextType ==
    ASSUME UploadTypeOK, [Next]_vars
    PROVE  UploadTypeOK'
<1>1. CASE Next
  BY <1>1, ReadType, LookType DEF Next
<1>2. CASE UNCHANGED vars
  BY <1>2 DEF UploadTypeOK, vars
<1>3. QED
  BY <1>1, <1>2

\* What the reader wants next: the header's bound, or a chunk and a terminator.
LEMMA NextGoal ==
    ASSUME UploadTypeOK, Next, NEW m \in Nat, m >= 5, m >= MaxHeader,
           goal <= Chunk + m
    PROVE  goal' <= Chunk + m
<1>1. Chunk \in Nat /\ Chunk > 0 /\ MaxHeader \in Nat /\ Len(Terminator) = 5
  BY Bounds, Symbols
<1>2. Len(buffer) \in Nat
  BY DEF UploadTypeOK
<1>3. CASE goal' = goal
  BY <1>3
<1>4. CASE goal' = 2 \/ goal' = 0 \/ goal' = Chunk + 5
  BY <1>1, <1>4
<1>5. CASE Len(buffer) <= MaxHeader /\ goal' = Len(buffer) + Chunk
  BY <1>1, <1>2, <1>5
<1>6. CASE Read
  BY <1>3, <1>6 DEF Read
<1>7. CASE DiscardUntil
  BY <1>3, <1>4, <1>7 DEF DiscardUntil, Expect, Fail
<1>8. CASE ReadMarker
  BY <1>3, <1>4, <1>8 DEF ReadMarker, Expect, Fail
<1>9. CASE ReadHeaders
  BY <1>1, <1>3, <1>4, <1>5, <1>9 DEF ReadHeaders, Expect, Fail
<1>10. CASE ReadBody
  BY <1>3, <1>4, <1>10 DEF ReadBody, Expect, Fail
<1>11. QED
  BY <1>6, <1>7, <1>8, <1>9, <1>10 DEF Next

\* However large the parts are, the reader never holds as much as two chunks and
\* the larger of a terminator and the header limit (upload.py _Reader.fill,
\* _read_part_body, _read_headers).
THEOREM MemoryTheorem == Spec => []MemoryIsBounded
<1>1. PICK m \in Nat : /\ m = Max({Len(Terminator), MaxHeader})
                       /\ m >= 5 /\ m >= MaxHeader
                       /\ Chunk \in Nat /\ Chunk > 0
  BY Bounds
<1>2. Init => UploadBounded
  <2>1. SUFFICES ASSUME Init
                 PROVE  UploadBounded
    OBVIOUS
  <2>2. UploadTypeOK
    BY <2>1, InitType
  <2>3. goal = Chunk /\ Len(buffer) = 0
    BY <2>1 DEF Init
  <2>4. QED
    BY <1>1, <2>2, <2>3 DEF UploadBounded, MemoryIsBounded
<1>3. UploadBounded /\ [Next]_vars => UploadBounded'
  <2>1. SUFFICES ASSUME UploadBounded, [Next]_vars
                 PROVE  UploadBounded'
    OBVIOUS
  <2>2. /\ UploadTypeOK /\ goal \in Nat /\ Len(buffer) \in Nat
        /\ goal <= Chunk + m /\ Len(buffer) < 2 * Chunk + m
    BY <1>1, <2>1 DEF UploadBounded, MemoryIsBounded, UploadTypeOK
  <2>3. UploadTypeOK'
    BY <2>1, <2>2, NextType
  <2>4. Len(buffer') \in Nat
    BY <2>3 DEF UploadTypeOK
  <2>5. CASE UNCHANGED vars
    <3>1. goal' = goal /\ buffer' = buffer
      BY <2>5 DEF vars
    <3>2. QED
      BY <1>1, <2>2, <2>3, <3>1 DEF UploadBounded, MemoryIsBounded
  <2>6. CASE Next
    <3>1. goal' <= Chunk + m
      BY <1>1, <2>2, <2>6, NextGoal
    <3>2. CASE Read
      <4>1. Len(buffer) < goal /\ Len(buffer') <= Len(buffer) + Chunk
        BY <2>2, <3>2, ReadType DEF Read
      <4>2. Len(buffer') < 2 * Chunk + m
        BY <1>1, <2>2, <2>4, <4>1
      <4>3. QED
        BY <1>1, <2>3, <3>1, <4>2 DEF UploadBounded, MemoryIsBounded
    <3>3. CASE DiscardUntil \/ ReadMarker \/ ReadHeaders \/ ReadBody
      <4>1. Len(buffer') <= Len(buffer)
        BY <2>2, <3>3, LookType
      <4>2. Len(buffer') < 2 * Chunk + m
        BY <1>1, <2>2, <2>4, <4>1
      <4>3. QED
        BY <1>1, <2>3, <3>1, <4>2 DEF UploadBounded, MemoryIsBounded
    <3>4. QED
      BY <2>6, <3>2, <3>3 DEF Next
  <2>7. QED
    BY <2>1, <2>5, <2>6
<1>4. UploadBounded => MemoryIsBounded
  BY DEF UploadBounded
<1>5. QED
  BY <1>2, <1>3, <1>4, PTL DEF Spec

-----------------------------------------------------------------------------
(* Where the reader stands in what is sent.                                 *)

\* What follows the line end after a delimiter, up to the end of the upload.
AfterNewline(p, v) == HeaderOf(p.kind) \o (BlankLine \o (p.body \o (Terminator \o v)))

\* The parts that the first k of the form make.
Latest(fm, k) == [kd \in Kind \ {"unnamed"} |->
    LET those == {i \in 1 .. k : fm[i].kind = kd}
    IN  IF those = {} THEN NoPart ELSE fm[Max(those)].body]

\* What a form that arrives whole may be refused for.
Refusable(fm) ==
    \E i \in DOMAIN fm : \/ fm[i].kind = "field" /\ Len(fm[i].body) > MaxField
                         \/ Len(HeaderOf(fm[i].kind)) + Kept(BlankLine) > MaxHeader

\* What is left when the reader still looks for the first delimiter, and when
\* it has read a part up to w.
InPreamble(left, t) ==
    \E q \in Seq(Byte) : Avoids(Delimiter, q) /\ left = q \o (Delimiter \o t[0])
InBody(left, t, k, fm, kd, w) ==
    /\ kd = fm[k + 1].kind
    /\ \E d \in Seq(Byte) : /\ Avoids(Terminator, d)
                            /\ fm[k + 1].body = w \o d
                            /\ left = d \o (Terminator \o t[k + 1])

\* The reader that looks for at, wants g bytes and has left before it, has read
\* k of the N parts of fm.
Reached(at, g, left, t, k, fm, N, kd, w, ps, wh) ==
    /\ at \in {"preamble", "marker", "headers", "body", "done", "failed"}
    /\ at = "preamble" => k = 0 /\ InPreamble(left, t)
    /\ at = "marker" => g = 2 /\ left = t[k]
    /\ at = "headers" => k < N /\ left = AfterNewline(fm[k + 1], t[k + 1])
    /\ at = "body" => k < N /\ InBody(left, t, k, fm, kd, w)
    /\ at \notin {"done", "failed"} => ps = Latest(fm, k)
    /\ at = "done" => ps = Sent(fm)
    /\ at = "failed" => (wh => Refusable(fm))

Tracks(cut, N, t, k, fm) ==
    /\ cut \in Seq(Byte)
    /\ N \in Nat /\ fm \in [1 .. N -> Part]
    /\ k \in 0 .. N
    /\ Layout(t, fm, N)

\* The bytes that never arrive are cut; the rest of what is sent is in the buffer
\* or still to be read.
Exact ==
    \E cut, N, t, k :
        /\ Tracks(cut, N, t, k, form)
        /\ whole => cut = << >>
        /\ Reached(pc, goal, (buffer \o rest) \o cut, t, k, form, N, part, written, parts, whole)

UploadInductive == UploadTypeOK /\ Exact

LEMMA PartThen ==
    ASSUME NEW p \in Part, NEW v \in Seq(Byte)
    PROVE  /\ AfterNewline(p, v) \in Seq(Byte)
           /\ BytesOf(p) \o v = Newline \o AfterNewline(p, v)
<1>1. PICK n \in Seq(Byte), h \in Seq(Byte), b \in Seq(Byte), c \in Seq(Byte), x \in Seq(Byte) :
         n = Newline /\ h = HeaderOf(p.kind) /\ b = BlankLine /\ c = p.body /\ x = Terminator
  BY Symbols DEF Part
<1>2. BytesOf(p) = (((n \o h) \o b) \o c) \o x
  BY <1>1 DEF BytesOf
<1>3. x \o v \in Seq(Byte)
  BY ConcatIs
<1>4. c \o (x \o v) \in Seq(Byte)
  BY <1>3, ConcatIs
<1>5. b \o (c \o (x \o v)) \in Seq(Byte)
  BY <1>4, ConcatIs
<1>6. h \o (b \o (c \o (x \o v))) \in Seq(Byte)
  BY <1>5, ConcatIs
<1>7. n \o h \in Seq(Byte)
  BY ConcatIs
<1>8. (n \o h) \o b \in Seq(Byte)
  BY <1>7, ConcatIs
<1>9. ((n \o h) \o b) \o c \in Seq(Byte)
  BY <1>8, ConcatIs
<1>10. ((((n \o h) \o b) \o c) \o x) \o v = (((n \o h) \o b) \o c) \o (x \o v)
  BY <1>9, Associates
<1>11. (((n \o h) \o b) \o c) \o (x \o v) = ((n \o h) \o b) \o (c \o (x \o v))
  BY <1>3, <1>8, Associates
<1>12. ((n \o h) \o b) \o (c \o (x \o v)) = (n \o h) \o (b \o (c \o (x \o v)))
  BY <1>4, <1>7, Associates
<1>13. (n \o h) \o (b \o (c \o (x \o v))) = n \o (h \o (b \o (c \o (x \o v))))
  <2>1. \A y \in Seq(Byte) : (n \o h) \o y = n \o (h \o y)
    <3>1. ASSUME NEW y \in Seq(Byte)
          PROVE  (n \o h) \o y = n \o (h \o y)
      OBVIOUS
    <3>2. QED
      BY <3>1
  <2>2. QED
    BY <1>5, <2>1
<1>14. AfterNewline(p, v) = h \o (b \o (c \o (x \o v)))
  BY <1>1 DEF AfterNewline
<1>15. QED
  BY <1>1, <1>2, <1>6, <1>10, <1>11, <1>12, <1>13, <1>14

\* What follows part k begins with "--" after the last part, and with a line end
\* before every other.
LEMMA MarkerTells ==
    ASSUME NEW N \in Nat, NEW fm \in [1 .. N -> Part], NEW t, Layout(t, fm, N),
           NEW k \in 0 .. N
    PROVE  /\ t[k] \in Seq(Byte) /\ Len(t[k]) >= 2
           /\ k = N => t[k][1] = "-" /\ t[k][2] = "-"
           /\ k < N => /\ t[k + 1] \in Seq(Byte)
                       /\ t[k] = Newline \o AfterNewline(fm[k + 1], t[k + 1])
                       /\ AfterNewline(fm[k + 1], t[k + 1]) \in Seq(Byte)
                       /\ t[k][1] = "r" /\ t[k][2] = "n"
<1>1. /\ t \in [0 .. N -> Seq(Byte)] /\ t[N] = Close
      /\ \A i \in 0 .. N - 1 : t[i] = BytesOf(fm[i + 1]) \o t[i + 1]
  BY DEF Layout
<1>2. CASE k = N
  <2>1. Len(Close) = 2 /\ Close[1] = "-" /\ Close[2] = "-"
    BY DEF Close
  <2>2. Close \in Seq(Byte) /\ t[k] = Close /\ ~(k < N)
    BY <1>1, <1>2, Symbols
  <2>3. t[k] \in Seq(Byte) /\ Len(t[k]) >= 2 /\ t[k][1] = "-" /\ t[k][2] = "-"
    BY <2>1, <2>2
  <2>4. QED
    BY <1>2, <2>2, <2>3
<1>3. CASE k < N
  <2>1. k \in 0 .. N - 1 /\ k + 1 \in 0 .. N /\ k + 1 \in 1 .. N
    BY <1>3
  <2>2. PICK v \in Seq(Byte) : v = t[k + 1]
    BY <1>1, <2>1
  <2>3. PICK p \in Part : p = fm[k + 1]
    BY <2>1
  <2>4. t[k] = Newline \o AfterNewline(p, v) /\ AfterNewline(p, v) \in Seq(Byte)
    BY <1>1, <2>1, <2>2, <2>3, PartThen
  <2>5. PICK y \in Seq(Byte) : y = AfterNewline(p, v)
    BY <2>4
  <2>6. Newline \in Seq(Byte) /\ Len(Newline) = 2 /\ Newline[1] = "r" /\ Newline[2] = "n"
    <3>1. Newline \in Seq(Byte)
      BY Symbols
    <3>2. QED
      BY <3>1 DEF Newline
  <2>7. /\ Len(Newline \o y) = Len(Newline) + Len(y) /\ Len(y) \in Nat
        /\ \A i \in 1 .. Len(Newline) : (Newline \o y)[i] = Newline[i]
        /\ Newline \o y \in Seq(Byte)
    BY <2>6, ConcatIs
  <2>8. t[k] \in Seq(Byte) /\ Len(t[k]) >= 2 /\ t[k][1] = "r" /\ t[k][2] = "n"
    BY <2>4, <2>5, <2>6, <2>7
  <2>9. QED
    BY <1>3, <2>2, <2>3, <2>4, <2>8
<1>4. QED
  BY <1>2, <1>3

-----------------------------------------------------------------------------
(* What a search that hits, and one that misses, says of what is left.      *)

\* The needle is looked for in b; d comes before it, v after it, r is not read yet.
Seeks(needle, d, v, b, r) ==
    /\ needle \in Seq(Byte) /\ d \in Seq(Byte) /\ v \in Seq(Byte)
    /\ b \in Seq(Byte) /\ r \in Seq(Byte)
    /\ b \o r = d \o (needle \o v)
    /\ Avoids(needle, d)
    /\ Len(needle) > 0

Leaves(b, r, v) == b \o r = v

LEMMA SearchHits ==
    ASSUME NEW needle, NEW d, NEW v, NEW b, NEW r, Seeks(needle, d, v, b, r),
           NEW i \in Nat, i = Find(needle, b), i > 0
    PROVE  /\ i = Len(d) + 1
           /\ Upto(b, i) = d
           /\ Leaves(From(b, i + Len(needle)), r, v)
<1>0. /\ needle \in Seq(Byte) /\ d \in Seq(Byte) /\ v \in Seq(Byte)
      /\ b \in Seq(Byte) /\ r \in Seq(Byte)
      /\ b \o r = d \o (needle \o v)
      /\ Avoids(needle, d)
      /\ Len(needle) > 0
  BY DEF Seeks
<1>1. PICK n \in Nat, l \in Nat : n = Len(needle) /\ l = Len(d)
  BY <1>0
<1>2. Len(b) \in Nat
  BY <1>0
<1>3. Len(b) >= l + n /\ i = l + 1
  <2>1. Find(needle, b) = IF Len(b) >= Len(d) + Len(needle) THEN Len(d) + 1 ELSE 0
    BY <1>0, FoundAtEnd
  <2>2. QED
    BY <1>0, <1>1, <2>1
<1>4. needle \o v \in Seq(Byte) /\ d \o needle \in Seq(Byte) /\ Len(d \o needle) = l + n
  BY <1>0, <1>1, ConcatIs
<1>5. PICK w \in Seq(Byte) : w = b \o r
  BY <1>0, ConcatIs
<1>6. w = (d \o needle) \o v
  <2>1. (d \o needle) \o v = d \o (needle \o v)
    BY <1>0, Associates
  <2>2. QED
    BY <1>0, <1>5, <2>1
<1>7. From(w, (l + n) + 1) = v
  <2>1. PICK u \in Seq(Byte) : u = d \o needle /\ Len(u) = l + n
    BY <1>4
  <2>2. From(u \o v, Len(u) + 1) = v
    BY <1>0, AllOfConcat
  <2>3. QED
    BY <1>6, <2>1, <2>2
<1>8. PICK m \in Nat : m = l + n /\ m <= Len(b) /\ m + 1 = i + Len(needle)
  <2>1. l + n \in Nat /\ l + n <= Len(b) /\ (l + n) + 1 = i + Len(needle)
    BY <1>1, <1>3
  <2>2. QED
    BY <2>1
<1>9. From(w, m + 1) = From(b, m + 1) \o r
  BY <1>0, <1>5, <1>8, RestOfConcat
<1>10. \A x \in 1 .. l : b[x] = d[x]
  <2>1. ASSUME NEW x \in 1 .. l
        PROVE  b[x] = d[x]
    <3>1. x \in 1 .. Len(b)
      BY <1>1, <1>2, <1>3
    <3>2. w[x] = b[x]
      <4>1. \A z \in 1 .. Len(b) : (b \o r)[z] = b[z]
        BY <1>0, ConcatIs
      <4>2. QED
        BY <1>5, <3>1, <4>1
    <3>3. w[x] = d[x]
      <4>1. \A z \in 1 .. Len(d) : (d \o (needle \o v))[z] = d[z]
        BY <1>0, <1>4, ConcatIs
      <4>2. QED
        BY <1>0, <1>1, <1>5, <4>1
    <3>4. QED
      BY <3>2, <3>3
  <2>2. QED
    BY <2>1
<1>11. SubSeq(b, 1, l) = d
  <2>1. l <= Len(b)
    BY <1>1, <1>2, <1>3
  <2>2. PICK u \in Seq(Byte) : u = SubSeq(b, 1, l) /\ Len(u) = l
    BY <1>0, <2>1, PrefixAndRest
  <2>3. \A x \in 1 .. l : u[x] = b[x]
    BY <2>1, <2>2
  <2>4. QED
    BY <1>0, <1>1, <1>10, <2>2, <2>3, SeqEqual
<1>12. Upto(b, i) = d
  BY <1>3, <1>11 DEF Upto
<1>13. QED
  BY <1>1, <1>3, <1>7, <1>8, <1>9, <1>12 DEF Leaves

LEMMA SearchMisses ==
    ASSUME NEW needle, NEW d, NEW v, NEW b, NEW r, Seeks(needle, d, v, b, r),
           Find(needle, b) = 0
    PROVE  Len(b) < Len(d) + Len(needle) /\ r # << >>
<1>0. /\ needle \in Seq(Byte) /\ d \in Seq(Byte) /\ v \in Seq(Byte)
      /\ b \in Seq(Byte) /\ r \in Seq(Byte)
      /\ b \o r = d \o (needle \o v)
      /\ Avoids(needle, d)
      /\ Len(needle) > 0
  BY DEF Seeks
<1>1. PICK n \in Nat, l \in Nat, m \in Nat : n = Len(needle) /\ l = Len(d) /\ m = Len(b)
  BY <1>0
<1>2. m < l + n
  <2>1. Find(needle, b) = IF Len(b) >= Len(d) + Len(needle) THEN Len(d) + 1 ELSE 0
    BY <1>0, FoundAtEnd
  <2>2. QED
    BY <1>0, <1>1, <2>1
<1>3. Len(needle \o v) = n + Len(v) /\ needle \o v \in Seq(Byte) /\ Len(v) \in Nat
  BY <1>0, <1>1, ConcatIs
<1>4. Len(d \o (needle \o v)) = l + (n + Len(v))
  BY <1>0, <1>1, <1>3, ConcatIs
<1>5. Len(b \o r) = m + Len(r) /\ Len(r) \in Nat
  BY <1>0, <1>1, ConcatIs
<1>6. Len(r) > 0
  BY <1>0, <1>2, <1>3, <1>4, <1>5
<1>7. QED
  BY <1>1, <1>2, <1>6

Same(b, r, d, y) == b \o r = d \o y

\* What is dropped from the buffer is dropped from what comes before the needle.
LEMMA Drops ==
    ASSUME NEW d \in Seq(Byte), NEW y \in Seq(Byte),
           NEW b \in Seq(Byte), NEW r \in Seq(Byte), Same(b, r, d, y),
           NEW n \in Nat, n <= Len(b), n <= Len(d)
    PROVE  /\ Same(From(b, n + 1), r, From(d, n + 1), y)
           /\ SubSeq(b, 1, n) = SubSeq(d, 1, n)
<1>0. b \o r = d \o y
  BY DEF Same
<1>1. From(b \o r, n + 1) = From(b, n + 1) \o r
  BY RestOfConcat
<1>2. From(d \o y, n + 1) = From(d, n + 1) \o y
  BY RestOfConcat
<1>3. PICK u \in Seq(Byte) : u = SubSeq(b, 1, n) /\ Len(u) = n
  BY PrefixAndRest
<1>4. PICK z \in Seq(Byte) : z = SubSeq(d, 1, n) /\ Len(z) = n
  BY PrefixAndRest
<1>5. ASSUME NEW x \in 1 .. n
      PROVE  u[x] = z[x]
  <2>1. u[x] = b[x] /\ z[x] = d[x]
    BY <1>3, <1>4
  <2>2. x \in 1 .. Len(b) /\ x \in 1 .. Len(d)
    OBVIOUS
  <2>3. (b \o r)[x] = b[x] /\ (d \o y)[x] = d[x]
    BY <2>2, ConcatIs
  <2>4. QED
    BY <1>0, <2>1, <2>3
<1>6. u = z
  BY <1>3, <1>4, <1>5, SeqEqual
<1>7. QED
  BY <1>0, <1>1, <1>2, <1>3, <1>4, <1>6 DEF Same

-----------------------------------------------------------------------------
(* Each look keeps the reader in step with what is sent.                    *)

LEMMA WhatIsLeft ==
    ASSUME UploadTypeOK, NEW cut \in Seq(Byte)
    PROVE  \E b \in Seq(Byte), r \in Seq(Byte) :
              /\ b = buffer /\ r = rest \o cut
              /\ (buffer \o rest) \o cut = b \o r
              /\ rest = << >> /\ cut = << >> => r = << >>
<1>1. buffer \in Seq(Byte) /\ rest \in Seq(Byte)
  BY DEF UploadTypeOK
<1>2. rest \o cut \in Seq(Byte)
  BY <1>1, ConcatIs
<1>3. (buffer \o rest) \o cut = buffer \o (rest \o cut)
  BY <1>1, Associates
<1>4. rest = << >> /\ cut = << >> => rest \o cut = << >>
  BY <1>1, ConcatEmptySeq
<1>5. QED
  BY <1>1, <1>2, <1>3, <1>4

LEMMA WhatIsLeftThen ==
    ASSUME UploadTypeOK', NEW cut \in Seq(Byte), rest' = rest
    PROVE  (buffer' \o rest') \o cut = buffer' \o (rest \o cut)
<1>1. buffer' \in Seq(Byte) /\ rest' \in Seq(Byte)
  BY DEF UploadTypeOK
<1>2. QED
  BY <1>1, Associates

LEMMA FailExact ==
    ASSUME UploadTypeOK, Exact, Fail, whole => Refusable(form)
    PROVE  Exact'
<1>1. PICK cut, N, t, k : Tracks(cut, N, t, k, form) /\ (whole => cut = << >>)
  BY DEF Exact
<1>2. pc' = "failed" /\ form' = form /\ whole' = whole
  BY DEF Fail, input
<1>3. PICK ps : ps = parts'
  OBVIOUS
<1>4. Reached(pc', goal', (buffer' \o rest') \o cut, t, k, form', N, part', written', parts', whole')
  BY <1>2 DEF Reached
<1>5. QED
  BY <1>1, <1>2, <1>4 DEF Exact

LEMMA ReadExact ==
    ASSUME UploadTypeOK, Exact, Read
    PROVE  Exact'
<1>1. PICK cut, N, t, k :
         /\ Tracks(cut, N, t, k, form)
         /\ whole => cut = << >>
         /\ Reached(pc, goal, (buffer \o rest) \o cut, t, k, form, N, part, written, parts, whole)
  BY DEF Exact
<1>2. /\ form' = form /\ whole' = whole /\ goal' = goal /\ pc' = pc /\ part' = part
      /\ written' = written /\ parts' = parts
  BY DEF Read, input
<1>3. rest \in Seq(Byte) /\ buffer \in Seq(Byte)
  BY DEF UploadTypeOK
<1>4. CASE UNCHANGED << rest, buffer >>
  BY <1>1, <1>2, <1>4 DEF Exact
<1>5. ASSUME NEW n \in 1 .. Min({Chunk, Len(rest)}),
             buffer' = buffer \o SubSeq(rest, 1, n),
             rest' = From(rest, n + 1)
      PROVE  buffer' \o rest' = buffer \o rest
  <2>1. n \in Nat /\ n <= Len(rest)
    <3>1. Chunk \in Int /\ Len(rest) \in Int
      BY <1>3, Bounds
    <3>2. Min({Chunk, Len(rest)}) = IF Chunk <= Len(rest) THEN Chunk ELSE Len(rest)
      BY <3>1, MinOfTwo
    <3>3. QED
      BY <3>1, <3>2
  <2>5. SubSeq(rest, 1, n) \in Seq(Byte) /\ From(rest, n + 1) \in Seq(Byte)
    BY <1>3, <2>1, PrefixAndRest
  <2>6. rest = SubSeq(rest, 1, n) \o From(rest, n + 1)
    BY <1>3, <2>1, Split
  <2>2. PICK u \in Seq(Byte), v \in Seq(Byte) :
           u = SubSeq(rest, 1, n) /\ v = From(rest, n + 1) /\ rest = u \o v
    BY <1>3, <2>1, <2>5, <2>6
  <2>3. (buffer \o u) \o v = buffer \o (u \o v)
    BY <1>3, Associates
  <2>4. QED
    BY <1>5, <2>2, <2>3
<1>6. buffer' \o rest' = buffer \o rest
  BY <1>4, <1>5 DEF Read
<1>7. QED
  BY <1>1, <1>2, <1>6 DEF Exact

LEMMA DiscardExact ==
    ASSUME UploadTypeOK, UploadTypeOK', Exact, DiscardUntil
    PROVE  Exact'
<1>1. PICK cut, N, t, k :
         /\ Tracks(cut, N, t, k, form)
         /\ whole => cut = << >>
         /\ Reached(pc, goal, (buffer \o rest) \o cut, t, k, form, N, part, written, parts, whole)
  BY DEF Exact
<1>2. /\ cut \in Seq(Byte) /\ N \in Nat /\ form \in [1 .. N -> Part] /\ k \in 0 .. N
      /\ Layout(t, form, N)
  BY <1>1 DEF Tracks
<1>3. PICK b \in Seq(Byte), r \in Seq(Byte) :
         /\ b = buffer /\ r = rest \o cut
         /\ (buffer \o rest) \o cut = b \o r
         /\ rest = << >> /\ cut = << >> => r = << >>
  BY <1>2, WhatIsLeft
<1>4. pc = "preamble"
  BY DEF DiscardUntil, Looks
<1>5. k = 0 /\ InPreamble(b \o r, t) /\ parts = Latest(form, k)
  BY <1>1, <1>3, <1>4 DEF Reached
<1>6. t[0] \in Seq(Byte)
  BY <1>2, <1>5, MarkerTells
<1>7. PICK v \in Seq(Byte), nd \in Seq(Byte) : v = t[0] /\ nd = Delimiter /\ Len(nd) = 3
  BY <1>6, Symbols
<1>8. PICK q \in Seq(Byte) : Avoids(nd, q) /\ b \o r = q \o (nd \o v)
  BY <1>5, <1>7 DEF InPreamble
<1>9. PICK i \in Nat : i = Find(nd, b)
  BY <1>3, <1>7, Finds
<1>13. Seeks(nd, q, v, b, r)
  BY <1>7, <1>8 DEF Seeks
<1>10. CASE Fail
  <2>1. CASE i > 0
    <3>1. pc' = "failed" /\ pc' = "marker"
      BY <1>3, <1>7, <1>9, <1>10, <2>1 DEF DiscardUntil, Fail, Expect
    <3>2. QED
      BY <3>1
  <2>2. CASE i = 0 /\ ~Exhausted
    <3>1. pc' = "failed" /\ pc' = pc
      BY <1>3, <1>7, <1>9, <1>10, <2>2 DEF DiscardUntil, Fail
    <3>2. QED
      BY <1>4, <3>1
  <2>3. CASE i = 0 /\ Exhausted
    <3>1. r # << >>
      BY <1>9, <1>13, <2>3, SearchMisses
    <3>2. ~whole
      BY <1>1, <1>3, <2>3, <3>1 DEF Exhausted
    <3>3. QED
      BY <1>10, <3>2, FailExact
  <2>4. QED
    BY <2>1, <2>2, <2>3
<1>11. CASE ~Fail
  <2>1. rest' = rest /\ form' = form /\ whole' = whole /\ part' = part
          /\ written' = written /\ parts' = parts
    BY <1>11 DEF DiscardUntil, input
  <2>2. (buffer' \o rest') \o cut = buffer' \o r
    BY <1>2, <1>3, <2>1, WhatIsLeftThen
  <2>3. CASE i > 0
    <3>1. buffer' = From(b, i + 3) /\ pc' = "marker" /\ goal' = 2
      BY <1>3, <1>7, <1>9, <1>11, <2>3 DEF DiscardUntil, Expect
    <3>2. From(b, i + 3) \o r = t[0]
      <4>1. Leaves(From(b, i + Len(nd)), r, v)
        BY <1>9, <1>13, <2>3, SearchHits
      <4>2. QED
        BY <1>7, <4>1 DEF Leaves
    <3>3. Reached("marker", 2, t[0], t, 0, form, N, part, written, parts, whole)
      BY <1>5 DEF Reached
    <3>4. QED
      BY <1>1, <1>5, <2>1, <2>2, <3>1, <3>2, <3>3 DEF Exact
  <2>4. CASE i = 0
    <3>1. PICK n \in Nat : /\ n + 1 = Max({1, Len(b) - Kept(Delimiter) + 1})
                           /\ n <= Len(b) /\ (n > 0 => n = Len(b) - 2)
      <4>1. PICK m \in Int, l \in Nat : l = Len(b) /\ m = l - 2 + 1
        OBVIOUS
      <4>2. Kept(Delimiter) = 2
        BY <1>7 DEF Kept
      <4>3. Max({1, m}) = IF 1 >= m THEN 1 ELSE m
        BY MaxOfTwo
      <4>4. PICK n \in Nat : n = IF m > 1 THEN m - 1 ELSE 0
        OBVIOUS
      <4>5. n + 1 = IF 1 >= m THEN 1 ELSE m
        BY <4>4
      <4>6. Len(b) - Kept(Delimiter) + 1 = m
        BY <4>1, <4>2
      <4>7. n <= Len(b) /\ (n > 0 => n = Len(b) - 2)
        BY <4>1, <4>4
      <4>8. QED
        BY <4>3, <4>5, <4>6, <4>7
    <3>2. buffer' = From(b, n + 1) /\ pc' = "preamble" /\ goal' = goal
      BY <1>3, <1>4, <1>7, <1>9, <1>11, <2>4, <3>1 DEF DiscardUntil
    <3>3. Len(b) < Len(q) + 3
      BY <1>7, <1>9, <1>13, <2>4, SearchMisses
    <3>4. n <= Len(q)
      BY <3>1, <3>3
    <3>5. PICK y \in Seq(Byte) : y = nd \o v
      BY ConcatIs
    <3>6. buffer' \o r = From(q, n + 1) \o y
      <4>1. Same(b, r, q, y)
        BY <1>8, <3>5 DEF Same
      <4>2. From(b, n + 1) \o r = From(q, n + 1) \o y
        <5>1. Same(From(b, n + 1), r, From(q, n + 1), y)
          BY <3>1, <3>4, <4>1, Drops
        <5>2. QED
          BY <5>1 DEF Same
      <4>3. QED
        BY <3>2, <4>2
    <3>7. Avoids(nd, From(q, n + 1)) /\ From(q, n + 1) \in Seq(Byte)
      BY <1>8, <3>4, SuffixAvoids, RestIs
    <3>8. InPreamble(buffer' \o r, t)
      BY <1>7, <3>5, <3>6, <3>7 DEF InPreamble
    <3>9. Reached("preamble", goal, buffer' \o r, t, 0, form, N, part, written, parts, whole)
      BY <1>5, <3>8 DEF Reached
    <3>10. QED
      BY <1>1, <1>5, <2>1, <2>2, <3>2, <3>9 DEF Exact
  <2>5. QED
    BY <2>3, <2>4
<1>12. QED
  BY <1>10, <1>11

\* One more part replaces what an earlier part of its name made.
LEMMA LatestThen ==
    ASSUME NEW N \in Nat, NEW fm \in [1 .. N -> Part], NEW k \in Nat, k < N
    PROVE  Latest(fm, k + 1) =
              IF fm[k + 1].kind = "unnamed" THEN Latest(fm, k)
              ELSE [Latest(fm, k) EXCEPT ![fm[k + 1].kind] = fm[k + 1].body]
<1>1. PICK K : K = Kind \ {"unnamed"}
  OBVIOUS
<1>2. PICK those : those = [kd \in K |-> {i \in 1 .. k : fm[i].kind = kd}]
  OBVIOUS
<1>3. PICK kind, body : kind = fm[k + 1].kind /\ body = fm[k + 1].body
  OBVIOUS
<1>4. ASSUME NEW kd \in K, kd # kind
      PROVE  Latest(fm, k + 1)[kd] = Latest(fm, k)[kd]
  <2>1. {i \in 1 .. k + 1 : fm[i].kind = kd} = {i \in 1 .. k : fm[i].kind = kd}
    <3>1. \A i \in 1 .. k + 1 : i \in 1 .. k \/ i = k + 1
      OBVIOUS
    <3>2. \A i \in 1 .. k : i \in 1 .. k + 1
      OBVIOUS
    <3>3. QED
      BY <1>3, <1>4, <3>1, <3>2
  <2>2. QED
    BY <1>1, <2>1 DEF Latest
<1>5. ASSUME kind \in K
      PROVE  Latest(fm, k + 1)[kind] = body
  <2>1. PICK S : S = {i \in 1 .. k + 1 : fm[i].kind = kind}
    OBVIOUS
  <2>2. k + 1 \in S /\ \A i \in S : i \in Nat /\ i <= k + 1
    BY <1>3, <2>1
  <2>3. Max(S) \in S /\ \A i \in S : Max(S) >= i
    BY <2>2 DEF Max
  <2>4. Max(S) = k + 1
    BY <2>2, <2>3
  <2>5. Latest(fm, k + 1)[kind] = IF S = {} THEN NoPart ELSE fm[Max(S)].body
    BY <1>1, <1>5, <2>1 DEF Latest
  <2>6. QED
    BY <1>3, <2>2, <2>4, <2>5
<1>6. PICK a, b : a = Latest(fm, k) /\ b = Latest(fm, k + 1)
  OBVIOUS
<1>7. /\ a = [kd \in K |-> a[kd]]
      /\ b = [kd \in K |-> b[kd]]
  BY <1>1, <1>6 DEF Latest
<1>8. kind \in Kind
  <2>1. k + 1 \in 1 .. N
    OBVIOUS
  <2>2. fm[k + 1] \in Part
    BY <2>1
  <2>3. QED
    BY <1>3, <2>2 DEF Part
<1>9. CASE kind = "unnamed"
  <2>1. kind \notin K
    BY <1>1, <1>9
  <2>2. \A kd \in K : b[kd] = a[kd]
    BY <1>4, <1>6, <2>1
  <2>3. a = b
    BY <1>7, <2>2
  <2>4. QED
    BY <1>3, <1>6, <1>9, <2>3
<1>10. CASE kind # "unnamed"
  <2>1. kind \in K
    BY <1>1, <1>8, <1>10
  <2>2. b[kind] = body /\ \A kd \in K : kd # kind => b[kd] = a[kd]
    BY <1>4, <1>5, <1>6, <2>1
  <2>3. b = [a EXCEPT ![kind] = body]
    BY <1>7, <2>1, <2>2
  <2>4. QED
    BY <1>3, <1>6, <1>10, <2>3
<1>11. QED
  BY <1>9, <1>10

LEMMA LatestAtLast ==
    ASSUME NEW N \in Nat, NEW fm \in [1 .. N -> Part]
    PROVE  Sent(fm) = Latest(fm, N)
<1>1. DOMAIN fm = 1 .. N
  OBVIOUS
<1>2. QED
  BY <1>1 DEF Sent, Latest

LEMMA LatestAtFirst ==
    ASSUME NEW fm
    PROVE  Latest(fm, 0) = [kd \in Kind \ {"unnamed"} |-> NoPart]
<1>1. \A kd : {i \in 1 .. 0 : fm[i].kind = kd} = {}
  OBVIOUS
<1>2. QED
  BY <1>1 DEF Latest

LEMMA MarkerIs ==
    ASSUME NEW b \in Seq(Byte), NEW m, m = SubSeq(b, 1, Min({2, Len(b)}))
    PROVE  /\ Len(b) >= 2 => m = << b[1], b[2] >>
           /\ Len(b) < 2 => m = b
<1>1. Len(b) \in Nat
  OBVIOUS
<1>2. PICK n \in Nat : n = Min({2, Len(b)}) /\ n = IF 2 <= Len(b) THEN 2 ELSE Len(b)
  <2>1. Min({2, Len(b)}) = IF 2 <= Len(b) THEN 2 ELSE Len(b)
    BY <1>1, MinOfTwo
  <2>2. QED
    BY <1>1, <2>1
<1>3. ASSUME Len(b) >= 2
      PROVE  m = << b[1], b[2] >>
  <2>1. m = SubSeq(b, 1, 2)
    BY <1>2, <1>3
  <2>2. m \in Seq(Byte) /\ Len(m) = 2
    BY <1>3, <2>1, PrefixAndRest
  <2>3. m[1] = b[1] /\ m[2] = b[2]
    <3>1. \A x \in 1 .. 2 : b[x] \in Byte
      BY <1>3
    <3>2. \A x \in 1 .. 2 - 1 + 1 : SubSeq(b, 1, 2)[x] = b[1 + x - 1]
      BY <3>1, SubSeqProperties
    <3>3. 1 \in 1 .. 2 - 1 + 1 /\ 2 \in 1 .. 2 - 1 + 1 /\ 1 + 1 - 1 = 1 /\ 1 + 2 - 1 = 2
      OBVIOUS
    <3>4. \A x \in 1 .. 2 - 1 + 1 : m[x] = b[1 + x - 1]
      BY <2>1, <3>2
    <3>5. m[1] = b[1 + 1 - 1]
      BY <3>3, <3>4, Zenon
    <3>6. m[2] = b[1 + 2 - 1]
      BY <3>3, <3>4, Zenon
    <3>7. QED
      BY <3>3, <3>5, <3>6, Zenon
  <2>4. b[1] \in Byte /\ b[2] \in Byte
    BY <1>3
  <2>5. << b[1], b[2] >> \in Seq(Byte) /\ Len(<< b[1], b[2] >>) = 2
    BY <2>4
  <2>6. \A x \in 1 .. 2 : x = 1 \/ x = 2
    OBVIOUS
  <2>7. << b[1], b[2] >>[1] = b[1] /\ << b[1], b[2] >>[2] = b[2]
    OBVIOUS
  <2>8. \A x \in 1 .. 2 : m[x] = << b[1], b[2] >>[x]
    BY <2>3, <2>6, <2>7
  <2>9. QED
    BY <2>2, <2>5, <2>8, SeqEqual
<1>4. ASSUME Len(b) < 2
      PROVE  m = b
  <2>1. n = Len(b)
    BY <1>1, <1>2, <1>4
  <2>2. m = SubSeq(b, 1, Len(b))
    BY <1>2, <2>1
  <2>3. QED
    BY <2>2, SubSeqFull
<1>5. QED
  BY <1>3, <1>4

LEMMA TooShort ==
    ASSUME NEW b \in Seq(Byte), Len(b) < 2
    PROVE  b # Close /\ b # Newline
<1>1. PICK l \in Nat : l = Len(b) /\ l # 2
  OBVIOUS
<1>2. Len(Close) = 2 /\ Len(Newline) = 2
  BY Symbols
<1>3. QED
  BY <1>1, <1>2, Zenon

LEMMA MarkerExact ==
    ASSUME UploadTypeOK, UploadTypeOK', Exact, ReadMarker
    PROVE  Exact'
<1>1. PICK cut, N, t, k :
         /\ Tracks(cut, N, t, k, form)
         /\ whole => cut = << >>
         /\ Reached(pc, goal, (buffer \o rest) \o cut, t, k, form, N, part, written, parts, whole)
  BY DEF Exact
<1>2. /\ cut \in Seq(Byte) /\ N \in Nat /\ form \in [1 .. N -> Part] /\ k \in 0 .. N
      /\ Layout(t, form, N)
  BY <1>1 DEF Tracks
<1>3. PICK b \in Seq(Byte), r \in Seq(Byte) :
         /\ b = buffer /\ r = rest \o cut
         /\ (buffer \o rest) \o cut = b \o r
         /\ rest = << >> /\ cut = << >> => r = << >>
  BY <1>2, WhatIsLeft
<1>4. pc = "marker" /\ (Len(b) >= goal \/ Exhausted)
  BY <1>3 DEF ReadMarker, Looks
<1>5. goal = 2 /\ b \o r = t[k] /\ parts = Latest(form, k)
  BY <1>1, <1>3, <1>4 DEF Reached
<1>6. PICK w \in Seq(Byte) : w = t[k] /\ Len(w) >= 2
  BY <1>2, MarkerTells
<1>7. /\ k = N => w[1] = "-" /\ w[2] = "-"
      /\ k < N => w[1] = "r" /\ w[2] = "n"
  BY <1>2, <1>6, MarkerTells
<1>8. PICK m : m = SubSeq(b, 1, Min({2, Len(b)}))
  OBVIOUS
<1>9. \A x \in 1 .. Len(b) : w[x] = b[x]
  <2>1. \A x \in 1 .. Len(b) : (b \o r)[x] = b[x]
    BY ConcatIs
  <2>2. QED
    BY <1>5, <1>6, <2>1
<1>10. Len(b) >= 2 => m = << w[1], w[2] >>
  <2>1. SUFFICES ASSUME Len(b) >= 2
                 PROVE  m = << w[1], w[2] >>
    OBVIOUS
  <2>2. 1 \in 1 .. Len(b) /\ 2 \in 1 .. Len(b)
    BY <2>1
  <2>3. w[1] = b[1] /\ w[2] = b[2]
    BY <1>9, <2>2
  <2>4. m = << b[1], b[2] >>
    BY <1>8, <2>1, MarkerIs
  <2>5. QED
    BY <2>3, <2>4
<1>11. Len(b) < 2 => m # Close /\ m # Newline
  BY <1>8, MarkerIs, TooShort
<1>12. Len(b) \in Nat /\ (k = N \/ k < N)
  BY <1>2
<1>13. CASE m = Close
  <2>1. pc' = "done" /\ UNCHANGED << input, source, goal, part, written, parts >>
    <3>1. Close # Newline
      BY DEF Close, Newline
    <3>2. QED
      BY <1>3, <1>8, <1>13, <3>1 DEF ReadMarker
  <2>2. w[1] = "-"
    BY <1>10, <1>11, <1>12, <1>13 DEF Close
  <2>3. k = N
    BY <1>7, <1>12, <2>2
  <2>4. parts' = Sent(form)
    BY <1>2, <1>5, <2>1, <2>3, LatestAtLast
  <2>5. Reached(pc', goal', (buffer' \o rest') \o cut, t, k, form', N, part', written', parts', whole')
    BY <2>1, <2>4 DEF Reached, input
  <2>6. QED
    BY <1>1, <2>1, <2>5 DEF Exact, input
<1>14. CASE m = Newline
  <2>1. /\ buffer' = From(buffer, 3) /\ pc' = "headers"
        /\ rest' = rest /\ form' = form /\ whole' = whole /\ part' = part
        /\ written' = written /\ parts' = parts
    <3>1. Close # Newline /\ Newline = Newline
      BY DEF Close, Newline
    <3>2. ~Fail
      BY <1>3, <1>8, <1>14 DEF ReadMarker, Fail, Expect
    <3>3. QED
      BY <1>3, <1>8, <1>14, <3>1, <3>2 DEF ReadMarker, Expect, input
  <2>2. w[1] = "r"
    BY <1>10, <1>11, <1>12, <1>14 DEF Newline
  <2>3. k < N
    BY <1>7, <1>12, <2>2
  <2>4. PICK y \in Seq(Byte) : y = AfterNewline(form[k + 1], t[k + 1]) /\ w = Newline \o y
    <3>1. /\ t[k] = Newline \o AfterNewline(form[k + 1], t[k + 1])
          /\ AfterNewline(form[k + 1], t[k + 1]) \in Seq(Byte)
      BY <1>2, <2>3, MarkerTells
    <3>2. QED
      BY <1>6, <3>1
  <2>5. PICK nl \in Seq(Byte) : nl = Newline /\ Len(nl) = 2
    BY Symbols
  <2>6. From(nl \o y, Len(nl) + 1) = y
    BY AllOfConcat
  <2>7. From(b \o r, 2 + 1) = From(b, 2 + 1) \o r
    <3>1. 2 <= Len(b)
      BY <1>11, <1>12, <1>14
    <3>2. QED
      BY <3>1, RestOfConcat
  <2>8. From(b, 3) \o r = y
    BY <1>5, <1>6, <2>4, <2>5, <2>6, <2>7
  <2>9. (buffer' \o rest') \o cut = y
    <3>1. (buffer' \o rest') \o cut = buffer' \o r
      BY <1>2, <1>3, <2>1, WhatIsLeftThen
    <3>2. QED
      BY <1>3, <2>1, <2>8, <3>1
  <2>10. Reached("headers", goal', y, t, k, form, N, part, written, parts, whole)
    BY <1>5, <2>3, <2>4 DEF Reached
  <2>11. QED
    BY <1>1, <2>1, <2>9, <2>10 DEF Exact
<1>15. CASE m \notin {Close, Newline}
  <2>1. Fail
    BY <1>3, <1>8, <1>15 DEF ReadMarker
  <2>2. ASSUME Len(b) >= 2
        PROVE  FALSE
    <3>1. m = << "-", "-" >> \/ m = << "r", "n" >>
      BY <1>7, <1>10, <1>12, <2>2
    <3>2. QED
      BY <1>15, <3>1 DEF Close, Newline
  <2>3. Exhausted /\ Len(b) < 2
    BY <1>4, <1>5, <1>12, <2>2
  <2>4. ASSUME whole
        PROVE  FALSE
    <3>1. r = << >>
      BY <1>1, <1>3, <2>3, <2>4 DEF Exhausted
    <3>2. w = b
      BY <1>5, <1>6, <3>1, ConcatEmptySeq
    <3>3. QED
      BY <1>6, <1>12, <2>3, <3>2
  <2>5. QED
    BY <2>1, <2>4, FailExact
<1>16. QED
  BY <1>13, <1>14, <1>15

LEMMA HeadersExact ==
    ASSUME UploadTypeOK, UploadTypeOK', Exact, ReadHeaders
    PROVE  Exact'
<1>1. PICK cut, N, t, k :
         /\ Tracks(cut, N, t, k, form)
         /\ whole => cut = << >>
         /\ Reached(pc, goal, (buffer \o rest) \o cut, t, k, form, N, part, written, parts, whole)
  BY DEF Exact
<1>2. /\ cut \in Seq(Byte) /\ N \in Nat /\ form \in [1 .. N -> Part] /\ k \in 0 .. N
      /\ Layout(t, form, N)
  BY <1>1 DEF Tracks
<1>3. PICK b \in Seq(Byte), r \in Seq(Byte) :
         /\ b = buffer /\ r = rest \o cut
         /\ (buffer \o rest) \o cut = b \o r
         /\ rest = << >> /\ cut = << >> => r = << >>
  BY <1>2, WhatIsLeft
<1>4. pc = "headers"
  BY DEF ReadHeaders, Looks
<1>5. k < N /\ b \o r = AfterNewline(form[k + 1], t[k + 1]) /\ parts = Latest(form, k)
  BY <1>1, <1>3, <1>4 DEF Reached
<1>6. PICK p \in Part : p = form[k + 1] /\ k + 1 \in DOMAIN form
  BY <1>2, <1>5
<1>7. PICK v \in Seq(Byte) : v = t[k + 1]
  BY <1>2, <1>5, MarkerTells
<1>8. PICK h \in Seq(Byte), nd \in Seq(Byte), e \in Seq(Byte), c \in Seq(Byte) :
         /\ h = HeaderOf(p.kind) /\ nd = BlankLine /\ Len(nd) = 4
         /\ e = Terminator /\ Len(e) = 5 /\ c = p.body
         /\ Len(h) > 0 /\ h[1] = p.kind /\ Avoids(nd, h) /\ Avoids(e, c)
  <2>1. p.kind \in Kind /\ p.body \in Bodies
    BY DEF Part
  <2>2. /\ HeaderOf(p.kind) \in Seq(Byte) /\ Len(HeaderOf(p.kind)) > 0
        /\ HeaderOf(p.kind)[1] = p.kind /\ Avoids(BlankLine, HeaderOf(p.kind))
    BY <2>1, HeadersAvoid
  <2>3. p.body \in Seq(Byte) /\ Avoids(Terminator, p.body)
    BY <2>1, BodiesAvoid
  <2>4. BlankLine \in Seq(Byte) /\ Len(BlankLine) = 4 /\ Terminator \in Seq(Byte) /\ Len(Terminator) = 5
    BY Symbols
  <2>5. QED
    BY <2>2, <2>3, <2>4
<1>9. PICK y \in Seq(Byte) : y = c \o (e \o v)
  BY ConcatIs
<1>10. Seeks(nd, h, y, b, r)
  <2>1. b \o r = h \o (nd \o y)
    BY <1>5, <1>6, <1>7, <1>8, <1>9 DEF AfterNewline
  <2>2. Len(nd) > 0
    BY <1>8
  <2>3. QED
    BY <1>8, <2>1, <2>2 DEF Seeks
<1>11. PICK i \in Nat : i = Find(nd, b)
  BY <1>3, <1>8, Finds
<1>12. CASE Fail
  <2>1. CASE i > 0
    <3>1. pc' = "failed" /\ pc' = "body"
      BY <1>3, <1>8, <1>11, <1>12, <2>1 DEF ReadHeaders, Fail, Expect
    <3>2. QED
      BY <3>1
  <2>2. CASE i = 0
    <3>1. Len(b) > MaxHeader \/ Exhausted
      <4>1. CASE pc' = pc
        <5>1. pc' = "failed"
          BY <1>12 DEF Fail
        <5>2. QED
          BY <1>4, <4>1, <5>1
      <4>2. CASE pc' # pc
        BY <1>3, <1>8, <1>11, <2>2, <4>2 DEF ReadHeaders
      <4>3. QED
        BY <4>1, <4>2
    <3>2. Len(b) < Len(h) + Len(nd) /\ r # << >>
      BY <1>10, <1>11, <2>2, SearchMisses
    <3>3. CASE Exhausted
      <4>1. ~whole
        BY <1>1, <1>3, <3>2, <3>3 DEF Exhausted
      <4>2. QED
        BY <1>12, <4>1, FailExact
    <3>4. CASE Len(b) > MaxHeader
      <4>1. Len(b) \in Nat /\ Len(h) \in Nat /\ MaxHeader \in Nat
        BY Bounds
      <4>2. Len(h) + 3 > MaxHeader
        BY <1>8, <3>2, <3>4, <4>1
      <4>3. Kept(BlankLine) = 3
        BY <1>8 DEF Kept
      <4>4. Refusable(form)
        BY <1>6, <1>8, <4>2, <4>3 DEF Refusable
      <4>5. QED
        BY <1>12, <4>4, FailExact
    <3>5. QED
      BY <3>1, <3>3, <3>4
  <2>3. QED
    BY <2>1, <2>2
<1>13. CASE ~Fail
  <2>1. rest' = rest /\ form' = form /\ whole' = whole /\ parts' = parts
    BY <1>13 DEF ReadHeaders, input, source
  <2>2. (buffer' \o rest') \o cut = buffer' \o r
    BY <1>2, <1>3, <2>1, WhatIsLeftThen
  <2>3. CASE i > 0
    <3>1. /\ buffer' = From(b, i + 4) /\ pc' = "body"
          /\ part' = b[1] /\ written' = << >>
      BY <1>3, <1>8, <1>11, <1>13, <2>3 DEF ReadHeaders, Expect
    <3>2. Leaves(From(b, i + Len(nd)), r, y) /\ Upto(b, i) = h /\ i = Len(h) + 1
      BY <1>10, <1>11, <2>3, SearchHits
    <3>3. buffer' \o r = y
      BY <1>8, <3>1, <3>2 DEF Leaves
    <3>4. b[1] = p.kind
      <4>1. Len(b) > 0
        <5>1. b # << >>
          <6>1. \A x \in Occurs(nd, << >>) : FALSE
            BY <1>8 DEF Occurs
          <6>2. << >> \in Seq(Byte)
            OBVIOUS
          <6>3. Find(nd, << >>) = 0
            BY <6>1, <6>2, FindIsFirst
          <6>4. QED
            BY <1>11, <2>3, <6>3
        <5>2. QED
          BY <5>1
      <4>2. \A x \in 1 .. Len(b) : (b \o r)[x] = b[x]
        BY ConcatIs
      <4>3. nd \o y \in Seq(Byte)
        BY ConcatIs
      <4>4. \A x \in 1 .. Len(h) : (h \o (nd \o y))[x] = h[x]
        BY <4>3, ConcatIs
      <4>5. b \o r = h \o (nd \o y)
        BY <1>10 DEF Seeks
      <4>6. 1 \in 1 .. Len(b) /\ 1 \in 1 .. Len(h)
        BY <1>8, <4>1
      <4>7. b[1] = h[1]
        BY <4>2, <4>4, <4>5, <4>6
      <4>8. QED
        BY <1>8, <4>7
    <3>5. << >> \o c = c
      BY ConcatEmptySeq
    <3>6. InBody(y, t, k, form, p.kind, << >>)
      BY <1>6, <1>7, <1>8, <1>9, <3>5 DEF InBody
    <3>7. Reached("body", goal', y, t, k, form, N, p.kind, << >>, parts, whole)
      BY <1>5, <3>6 DEF Reached
    <3>8. QED
      BY <1>1, <2>1, <2>2, <3>1, <3>3, <3>4, <3>7 DEF Exact
  <2>4. CASE i = 0
    <3>1. UNCHANGED << input, source, pc, part, written, parts >>
      BY <1>3, <1>8, <1>11, <1>13, <2>4 DEF ReadHeaders
    <3>2. Reached("headers", goal', (buffer \o rest) \o cut, t, k, form, N, part, written, parts, whole)
      BY <1>1, <1>4 DEF Reached
    <3>3. QED
      BY <1>1, <1>4, <3>1, <3>2 DEF Exact, input, source
  <2>5. QED
    BY <2>3, <2>4
<1>14. QED
  BY <1>12, <1>13

LEMMA BodyExact ==
    ASSUME UploadTypeOK, UploadTypeOK', Exact, ReadBody
    PROVE  Exact'
<1>1. PICK cut, N, t, k :
         /\ Tracks(cut, N, t, k, form)
         /\ whole => cut = << >>
         /\ Reached(pc, goal, (buffer \o rest) \o cut, t, k, form, N, part, written, parts, whole)
  BY DEF Exact
<1>2. /\ cut \in Seq(Byte) /\ N \in Nat /\ form \in [1 .. N -> Part] /\ k \in 0 .. N
      /\ Layout(t, form, N)
  BY <1>1 DEF Tracks
<1>3. PICK b \in Seq(Byte), r \in Seq(Byte) :
         /\ b = buffer /\ r = rest \o cut
         /\ (buffer \o rest) \o cut = b \o r
         /\ rest = << >> /\ cut = << >> => r = << >>
  BY <1>2, WhatIsLeft
<1>4. pc = "body"
  BY DEF ReadBody, Looks
<1>5. k < N /\ InBody(b \o r, t, k, form, part, written) /\ parts = Latest(form, k)
  BY <1>1, <1>3, <1>4 DEF Reached
<1>6. PICK p \in Part : p = form[k + 1] /\ k + 1 \in DOMAIN form
  BY <1>2, <1>5
<1>7. PICK v \in Seq(Byte) : v = t[k + 1]
  BY <1>2, <1>5, MarkerTells
<1>8. PICK nd \in Seq(Byte) : nd = Terminator /\ Len(nd) = 5
  BY Symbols
<1>9. PICK d \in Seq(Byte), w \in Seq(Byte) :
         /\ w = written /\ part = p.kind /\ p.body = w \o d
         /\ Avoids(nd, d) /\ b \o r = d \o (nd \o v)
  <2>1. written \in Seq(Byte)
    BY DEF UploadTypeOK
  <2>2. QED
    BY <1>5, <1>6, <1>7, <1>8, <2>1 DEF InBody
<1>10. Seeks(nd, d, v, b, r)
  BY <1>8, <1>9 DEF Seeks
<1>11. PICK i \in Nat : i = Find(nd, b)
  BY <1>3, <1>8, Finds
<1>12. PICK n \in Nat, data \in Seq(Byte) :
          /\ n <= Len(b) /\ (n = 0 \/ n < Len(b) - 3)
          /\ data = SubSeq(b, 1, Len(b) - Kept(nd)) /\ data = SubSeq(b, 1, n)
          /\ n + 1 = Max({0, Len(b) - Kept(nd)}) + 1
  <2>1. PICK free \in Int : free = Len(b) - 4
    <3>1. Len(b) - 4 \in Int
      OBVIOUS
    <3>2. QED
      BY <3>1
  <2>2. Kept(nd) = 4
    BY <1>8 DEF Kept
  <2>3. Max({0, free}) = IF 0 >= free THEN 0 ELSE free
    BY MaxOfTwo
  <2>4. CASE free > 0
    <3>1. free \in Nat /\ free <= Len(b) /\ free < Len(b) - 3 /\ Max({0, free}) = free
      BY <2>1, <2>3, <2>4
    <3>2. SubSeq(b, 1, free) \in Seq(Byte)
      BY <3>1, Beginning
    <3>3. QED
      BY <2>1, <2>2, <3>1, <3>2
  <2>5. CASE ~(free > 0)
    <3>1. Max({0, free}) = 0
      BY <2>3, <2>5
    <3>2. SubSeq(b, 1, free) = << >> /\ SubSeq(b, 1, 0) = << >>
      BY <2>5, SubSeqEmpty
    <3>3. << >> \in Seq(Byte) /\ 0 <= Len(b) /\ 0 \in Nat
      OBVIOUS
    <3>4. QED
      BY <2>1, <2>2, <3>1, <3>2, <3>3
  <2>6. QED
    BY <2>4, <2>5
<1>13. ASSUME NEW x \in Seq(Byte), NEW y \in Seq(Byte), p.body = (w \o x) \o y, TooLong(x)
       PROVE  Refusable(form)
  <2>1. p.kind = "field" /\ Len(w \o x) > MaxField
    BY <1>9, <1>13 DEF TooLong
  <2>2. PICK z \in Seq(Byte) : z = w \o x
    BY ConcatIs
  <2>3. Len(p.body) = Len(z) + Len(y) /\ Len(z) \in Nat /\ Len(y) \in Nat
    BY <1>13, <2>2, ConcatIs
  <2>4. MaxField \in Nat
    BY UploadAssumption
  <2>5. Len(p.body) > MaxField
    BY <2>1, <2>2, <2>3, <2>4
  <2>6. QED
    BY <1>6, <2>1, <2>5 DEF Refusable
<1>14. ASSUME i > 0
       PROVE  Upto(b, i) = d /\ Leaves(From(b, i + Len(nd)), r, v)
  BY <1>10, <1>11, <1>14, SearchHits
<1>15. ASSUME i = 0
       PROVE  r # << >> /\ n <= Len(b) /\ n <= Len(d)
  <2>1. Len(b) < Len(d) + Len(nd) /\ r # << >>
    BY <1>10, <1>11, <1>15, SearchMisses
  <2>2. Len(b) \in Nat /\ Len(d) \in Nat
    OBVIOUS
  <2>3. QED
    BY <1>8, <1>12, <2>1, <2>2
<1>16. ASSUME i = 0
       PROVE  /\ p.body = (w \o data) \o From(d, n + 1)
              /\ From(d, n + 1) \in Seq(Byte)
              /\ From(b, n + 1) \o r = From(d, n + 1) \o (nd \o v)
              /\ Avoids(nd, From(d, n + 1))
  <2>1. n <= Len(b) /\ n <= Len(d)
    BY <1>15, <1>16
  <2>2. PICK y \in Seq(Byte) : y = nd \o v
    BY ConcatIs
  <2>3. Same(b, r, d, y)
    BY <1>9, <2>2 DEF Same
  <2>4. Same(From(b, n + 1), r, From(d, n + 1), y) /\ SubSeq(b, 1, n) = SubSeq(d, 1, n)
    BY <2>1, <2>3, Drops
  <2>5. d = SubSeq(d, 1, n) \o From(d, n + 1)
    BY <2>1, Split
  <2>6. From(d, n + 1) \in Seq(Byte)
    BY <2>1, RestIs
  <2>7. PICK f \in Seq(Byte) : f = From(d, n + 1)
    BY <2>6
  <2>8. d = data \o f
    BY <1>12, <2>4, <2>5, <2>7
  <2>9. (w \o data) \o f = w \o (data \o f)
    OBVIOUS
  <2>10. Avoids(nd, f)
    BY <1>9, <2>1, <2>7, SuffixAvoids
  <2>11. QED
    BY <1>9, <2>2, <2>4, <2>7, <2>8, <2>9, <2>10 DEF Same
<1>17. CASE Fail
  <2>1. \/ i > 0 /\ TooLong(Upto(b, i))
        \/ i = 0 /\ Exhausted
        \/ i = 0 /\ ~Exhausted /\ TooLong(data)
    <3>1. pc' = "failed"
      BY <1>17 DEF Fail
    <3>2. pc' # "marker" /\ pc' # pc
      BY <1>4, <3>1
    <3>3. QED
      BY <1>3, <1>8, <1>11, <1>12, <3>2 DEF ReadBody, Expect
  <2>2. CASE i > 0 /\ TooLong(Upto(b, i))
    <3>1. w \o d = (w \o d) \o << >> /\ << >> \in Seq(Byte)
      <4>1. w \o d \in Seq(Byte)
        BY ConcatIs
      <4>2. QED
        BY <4>1, ConcatEmptySeq
    <3>2. Refusable(form)
      BY <1>9, <1>13, <1>14, <2>2, <3>1
    <3>3. QED
      BY <1>17, <3>2, FailExact
  <2>3. CASE i = 0 /\ Exhausted
    <3>1. ~whole
      BY <1>1, <1>3, <1>15, <2>3 DEF Exhausted
    <3>2. QED
      BY <1>17, <3>1, FailExact
  <2>4. CASE i = 0 /\ TooLong(data)
    <3>1. Refusable(form)
      BY <1>13, <1>16, <2>4
    <3>2. QED
      BY <1>17, <3>1, FailExact
  <2>5. QED
    BY <2>1, <2>2, <2>3, <2>4
<1>18. CASE ~Fail
  <2>1. rest' = rest /\ form' = form /\ whole' = whole /\ part' = part
    BY <1>18 DEF ReadBody, input
  <2>2. (buffer' \o rest') \o cut = buffer' \o r
    BY <1>2, <1>3, <2>1, WhatIsLeftThen
  <2>3. CASE i > 0
    <3>1. /\ buffer' = From(b, i + 5) /\ pc' = "marker" /\ goal' = 2
          /\ parts' = Stored(Upto(b, i))
      BY <1>3, <1>8, <1>11, <1>18, <2>3 DEF ReadBody, Expect
    <3>2. buffer' \o r = v
      BY <1>8, <1>14, <2>3, <3>1 DEF Leaves
    <3>3. parts' = IF p.kind = "unnamed" THEN parts ELSE [parts EXCEPT ![p.kind] = p.body]
      BY <1>9, <1>14, <2>3, <3>1 DEF Stored
    <3>4. k \in Nat /\ k + 1 \in 0 .. N
      BY <1>2, <1>5
    <3>5. parts' = Latest(form, k + 1)
      <4>1. Latest(form, k + 1) =
              IF form[k + 1].kind = "unnamed" THEN Latest(form, k)
              ELSE [Latest(form, k) EXCEPT ![form[k + 1].kind] = form[k + 1].body]
        BY <1>2, <1>5, <3>4, LatestThen
      <4>2. QED
        BY <1>5, <1>6, <3>3, <4>1
    <3>6. Reached("marker", 2, v, t, k + 1, form, N, part, written', Latest(form, k + 1), whole)
      BY <1>7 DEF Reached
    <3>7. Tracks(cut, N, t, k + 1, form)
      BY <1>2, <3>4 DEF Tracks
    <3>8. QED
      BY <1>1, <2>1, <2>2, <3>1, <3>2, <3>5, <3>6, <3>7 DEF Exact
  <2>4. CASE i = 0
    <3>1. /\ buffer' = From(b, n + 1) /\ pc' = pc /\ goal' = goal
          /\ written' = w \o data /\ parts' = parts
      <4>1. /\ buffer' = From(buffer, Max({0, Len(buffer) - Kept(Terminator)}) + 1)
            /\ written' = written \o SubSeq(buffer, 1, Len(buffer) - Kept(Terminator))
            /\ pc' = pc /\ goal' = goal /\ parts' = parts
        <5>1. Find(Terminator, buffer) = 0
          BY <1>3, <1>8, <1>11, <2>4
        <5>2. PICK f : f = Find(Terminator, buffer) /\ f = 0 /\ ~(f > 0)
          BY <5>1
        <5>3. PICK free : free = Len(buffer) - Kept(Terminator)
          OBVIOUS
        <5>4. /\ buffer' = From(buffer, Max({0, free}) + 1)
              /\ written' = written \o SubSeq(buffer, 1, free)
              /\ UNCHANGED << input, rest, missing, goal, pc, part, parts >>
          BY <1>18, <5>2, <5>3 DEF ReadBody
        <5>5. QED
          BY <5>3, <5>4
      <4>2. buffer' = From(b, n + 1)
        BY <1>3, <1>8, <1>12, <4>1
      <4>3. written' = w \o data
        BY <1>3, <1>8, <1>9, <1>12, <4>1
      <4>4. QED
        BY <4>1, <4>2, <4>3
    <3>2. PICK f \in Seq(Byte) :
             /\ p.body = (w \o data) \o f /\ Avoids(nd, f)
             /\ buffer' \o r = f \o (nd \o v)
      BY <1>16, <2>4, <3>1
    <3>3. InBody(buffer' \o r, t, k, form, part, written')
      BY <1>6, <1>7, <1>8, <1>9, <3>1, <3>2 DEF InBody
    <3>4. Reached("body", goal, buffer' \o r, t, k, form, N, part, written', parts, whole)
      BY <1>5, <3>3 DEF Reached
    <3>5. QED
      BY <1>1, <1>4, <2>1, <2>2, <3>1, <3>4 DEF Exact
  <2>5. QED
    BY <1>11, <2>3, <2>4
<1>19. QED
  BY <1>17, <1>18

LEMMA InitExact == Init => Exact
<1>1. SUFFICES ASSUME Init
               PROVE  Exact
  OBVIOUS
<1>2. form \in Form
  BY <1>1 DEF Init
<1>3. PICK N \in Nat : form \in [1 .. N -> Part]
  BY <1>2 DEF Form
<1>4. PICK preamble \in Preambles :
         \E n \in 0 .. Len(BytesOfForm(preamble, form)) :
            /\ rest = SubSeq(BytesOfForm(preamble, form), 1, n)
            /\ whole = (n = Len(BytesOfForm(preamble, form)))
  BY <1>1 DEF Init
<1>5. PICK w \in Seq(Byte) : w = BytesOfForm(preamble, form)
  BY <1>2, FormBytes
<1>6. PICK n \in 0 .. Len(w) : rest = SubSeq(w, 1, n) /\ whole = (n = Len(w))
  BY <1>4, <1>5
<1>7. PICK t : Layout(t, form, N) /\ w = preamble \o (Delimiter \o t[0])
  BY <1>3, <1>5, LayoutExists
<1>8. n \in Nat /\ n <= Len(w)
  OBVIOUS
<1>9. PICK cut \in Seq(Byte) : cut = From(w, n + 1) /\ Len(cut) = Len(w) - n
  BY <1>8, RestIs
<1>10. w = rest \o cut /\ rest \in Seq(Byte)
  <2>1. SubSeq(w, 1, n) \in Seq(Byte)
    BY <1>8, PrefixAndRest
  <2>2. w = SubSeq(w, 1, n) \o From(w, n + 1)
    BY <1>8, Split
  <2>3. QED
    BY <1>6, <1>9, <2>1, <2>2
<1>11. whole => cut = << >>
  <2>1. whole => Len(cut) = 0
    <3>1. whole => n = Len(w)
      BY <1>6, Zenon
    <3>2. Len(w) \in Nat /\ Len(w) - Len(w) = 0
      OBVIOUS
    <3>3. QED
      BY <1>9, <3>1, <3>2
  <2>2. QED
    BY <2>1, EmptySeq
<1>12. /\ pc = "preamble" /\ buffer = << >>
       /\ parts = [kd \in Kind \ {"unnamed"} |-> NoPart]
  BY <1>1 DEF Init
<1>13. (buffer \o rest) \o cut = w
  BY <1>10, <1>12, ConcatEmptySeq
<1>14. InPreamble(w, t)
  BY <1>7, PreamblesAvoid DEF InPreamble
<1>15. parts = Latest(form, 0)
  BY <1>12, LatestAtFirst
<1>16. Reached(pc, goal, w, t, 0, form, N, part, written, parts, whole)
  BY <1>12, <1>14, <1>15 DEF Reached
<1>17. Tracks(cut, N, t, 0, form)
  BY <1>3, <1>7 DEF Tracks
<1>18. QED
  BY <1>11, <1>13, <1>16, <1>17 DEF Exact

LEMMA NextExact ==
    ASSUME UploadInductive, [Next]_vars
    PROVE  UploadInductive'
<1>1. UploadTypeOK /\ Exact
  BY DEF UploadInductive
<1>2. UploadTypeOK'
  BY <1>1, NextType
<1>3. CASE UNCHANGED vars
  BY <1>1, <1>2, <1>3 DEF UploadInductive, Exact, vars
<1>4. CASE Read
  BY <1>1, <1>2, <1>4, ReadExact DEF UploadInductive
<1>5. CASE DiscardUntil
  BY <1>1, <1>2, <1>5, DiscardExact DEF UploadInductive
<1>6. CASE ReadMarker
  BY <1>1, <1>2, <1>6, MarkerExact DEF UploadInductive
<1>7. CASE ReadHeaders
  BY <1>1, <1>2, <1>7, HeadersExact DEF UploadInductive
<1>8. CASE ReadBody
  BY <1>1, <1>2, <1>8, BodyExact DEF UploadInductive
<1>9. QED
  BY <1>3, <1>4, <1>5, <1>6, <1>7, <1>8 DEF Next

\* Wherever the reads cut it, an upload that is accepted yields exactly what was
\* sent, and one that arrives whole is refused only for a field or headers over
\* their limit (upload.py parse_multipart_stream).
THEOREM ExactTheorem == Spec => []UploadIsExact
<1>1. Init => UploadInductive
  BY InitType, InitExact DEF UploadInductive
<1>2. UploadInductive /\ [Next]_vars => UploadInductive'
  BY NextExact
<1>3. UploadInductive => UploadIsExact
  <2>1. SUFFICES ASSUME UploadInductive
                 PROVE  UploadIsExact
    OBVIOUS
  <2>2. PICK cut, N, t, k :
           Reached(pc, goal, (buffer \o rest) \o cut, t, k, form, N, part, written, parts, whole)
    BY <2>1 DEF UploadInductive, Exact
  <2>3. pc = "done" => parts = Sent(form)
    BY <2>2 DEF Reached
  <2>4. pc = "failed" /\ whole => Refusable(form)
    BY <2>2 DEF Reached
  <2>5. QED
    BY <2>3, <2>4 DEF UploadIsExact, Refusable
<1>4. QED
  BY <1>1, <1>2, <1>3, PTL DEF Spec

=============================================================================
