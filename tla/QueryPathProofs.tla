-------------------------- MODULE QueryPathProofs --------------------------
(***************************************************************************)
(* What the validators accept, for all names, and what pgx reads in a      *)
(* formatted connection string, for all fields.  The texts are sequences   *)
(* of any length; an induction over them goes by the least counterexample  *)
(* (LeastOf).                                                              *)
(***************************************************************************)
EXTENDS QueryPath, SequenceTheorems, WellFoundedInduction, TLAPS

(* What texts are made of: strings.  The provers do not know that a        *)
(* literal is one.                                                         *)
Fragment ==
  STRING \cup
  {"SELECT", "INSERT", "UPDATE", "DELETE", "CREATE", "ALTER", "INTO", "FROM", "SET",
   "VALUES", "ON", "CONFLICT", "DO", "TABLE", "T", "1", "WITH", "X", "AS", "RETURNING",
   Comma, "(", ")", Semicolon, Sp, "host", "port", "user", "password", "dbname",
   "search_path", "localhost", "postgres", "public", Equals, Blank, "DROP", "TRUNCATE",
   "COPY", "GRANT", "REVOKE", "CALL", "EXECUTE", "$$"} \cup WhiteSpace

(* A text is in another where all its fragments follow each other there.   *)
LEMMA HasAt ==
  ASSUME NEW text \in Seq(Fragment), NEW s \in Seq(Fragment)
  PROVE  Has(text, s) <=>
           \E i \in 1 .. Len(text) - Len(s) + 1 :
              \A j \in 1 .. Len(s) : text[i + j - 1] = s[j]
<1>1. ASSUME NEW i \in 1 .. Len(text) - Len(s) + 1
      PROVE  SubSeq(text, i, i + Len(s) - 1) = s <=>
               \A j \in 1 .. Len(s) : text[i + j - 1] = s[j]
  <2> DEFINE t == SubSeq(text, i, i + Len(s) - 1)
  <2>1. Len(s) \in Nat /\ Len(text) \in Nat /\ i \in Int /\ i + Len(s) - 1 \in Int
        BY LenProperties
  <2>2. \A k \in i .. i + Len(s) - 1 : text[k] \in Fragment
        BY <2>1, ElementOfSeq
  <2>3. /\ t \in Seq(Fragment)
        /\ Len(t) = Len(s)
        /\ \A j \in 1 .. Len(s) : t[j] = text[i + j - 1]
        BY <2>1, <2>2, SubSeqProperties
  <2> HIDE DEF t
  <2>4. ASSUME \A j \in 1 .. Len(s) : text[i + j - 1] = s[j]
        PROVE  t = s
        BY <2>3, <2>4, SeqEqual
  <2>5. t = s => \A j \in 1 .. Len(s) : text[i + j - 1] = s[j]
        BY <2>3
  <2> QED BY <2>4, <2>5 DEF t
<1> QED BY <1>1 DEF Has

(* What is in a part of a text is in the text.                             *)
LEMMA HasInside ==
  ASSUME NEW p \in Seq(Fragment), NEW s \in Seq(Fragment), NEW r \in Seq(Fragment),
         NEW x \in Seq(Fragment), Has(s, x)
  PROVE  Has(p \o s \o r, x)
<1>a. Has(s, x) <=>
        \E i \in 1 .. Len(s) - Len(x) + 1 :
          \A j \in 1 .. Len(x) : s[i + j - 1] = x[j]
      BY HasAt
<1> DEFINE t == p \o s \o r
<1>1. /\ t \in Seq(Fragment)
      /\ Len(t) = Len(p) + Len(s) + Len(r)
      /\ \A k \in 1 .. Len(s) : t[Len(p) + k] = s[k]
  <2>1. /\ p \o s \in Seq(Fragment)
        /\ Len(p \o s) = Len(p) + Len(s)
        /\ \A k \in 1 .. Len(p) + Len(s) :
             (p \o s)[k] = IF k <= Len(p) THEN p[k] ELSE s[k - Len(p)]
        BY ConcatProperties
  <2>2. /\ t \in Seq(Fragment)
        /\ Len(t) = Len(p \o s) + Len(r)
        /\ \A k \in 1 .. Len(p \o s) + Len(r) :
             t[k] = IF k <= Len(p \o s) THEN (p \o s)[k] ELSE r[k - Len(p \o s)]
        BY <2>1, ConcatProperties
  <2>3. Len(p) \in Nat /\ Len(s) \in Nat /\ Len(r) \in Nat
        BY LenProperties
  <2> HIDE DEF t
  <2> QED BY <2>1, <2>2, <2>3
<1>2. Len(p) \in Nat /\ Len(s) \in Nat /\ Len(r) \in Nat /\ Len(x) \in Nat
      BY LenProperties
<1> HIDE DEF t
<1>3. PICK i \in 1 .. Len(s) - Len(x) + 1 :
        \A j \in 1 .. Len(x) : s[i + j - 1] = x[j]
      BY <1>a
<1>4. \A j \in 1 .. Len(x) : t[(Len(p) + i) + j - 1] = x[j]
  <2> TAKE j \in 1 .. Len(x)
  <2>1. i + j - 1 \in 1 .. Len(s)
        BY <1>2
  <2>2. t[Len(p) + (i + j - 1)] = s[i + j - 1]
        BY <1>1, <2>1
  <2>3. Len(p) + (i + j - 1) = (Len(p) + i) + j - 1
        BY <1>2
  <2> QED BY <1>3, <2>2, <2>3
<1>5. Len(p) + i \in 1 .. Len(t) - Len(x) + 1
      BY <1>1, <1>2
<1>6. Has(t, x)
      BY <1>1, <1>4, <1>5, HasAt
<1> QED BY <1>6 DEF t

(* What is in the first part of a text is in the text.                     *)
LEMMA HasBefore ==
  ASSUME NEW s \in Seq(Fragment), NEW r \in Seq(Fragment), NEW x \in Seq(Fragment), Has(s, x)
  PROVE  Has(s \o r, x)
<1>1. << >> \in Seq(Fragment)
      OBVIOUS
<1>2. << >> \o s = s
      BY ConcatEmptySeq
<1>3. Has(<< >> \o s \o r, x)
      BY <1>1, HasInside
<1> QED BY <1>2, <1>3

(* Every nonempty set of natural numbers has a least one, which is what    *)
(* induction comes to here.                                                *)
LEMMA LeastOf ==
  ASSUME NEW T \in SUBSET Nat, T # {}
  PROVE  \E n \in T : \A m \in T : n <= m
<1> DEFINE R == OpToRel(<, Nat)
<1>1. IsWellFoundedOn(R, Nat)
      BY NatLessThanWellFounded
<1>2. \E x \in T : \A y \in T : ~ (<<y, x>> \in R)
  <2> HIDE DEF R
  <2> QED BY <1>1, WFMin
<1>3. \A x, y \in Nat : <<y, x>> \in R <=> y < x
      BY DEF OpToRel
<1> HIDE DEF R
<1>4. PICK x \in T : \A y \in T : ~ (<<y, x>> \in R)
      BY <1>2
<1>5. \A y \in T : y \in Nat /\ x \in Nat /\ ~ (y < x)
      BY <1>3, <1>4
<1>6. \A y \in T : x <= y
      BY <1>5
<1> QED BY <1>6

(* A set of numbers that has 0, and with each the next one, has all.       *)
LEMMA SetInduction ==
  ASSUME NEW S, 0 \in S, \A n \in Nat : n \in S => n + 1 \in S
  PROVE  Nat \subseteq S
<1> SUFFICES ASSUME Nat \ S # {} PROVE FALSE
    OBVIOUS
<1>1. PICK n \in Nat \ S : \A m \in Nat \ S : n <= m
      BY LeastOf
<1>2. n # 0 /\ n - 1 \in Nat
      BY <1>1
<1>3. n - 1 \in S
      BY <1>1, <1>2
<1> QED BY <1>1, <1>2, <1>3

(* The texts joined are a text, and each of them is in it.                 *)
LEMMA FlattenHas ==
  ASSUME NEW n \in Nat \ {0}, NEW seqs \in [1 .. n -> Seq(Fragment)]
  PROVE  /\ FlattenSeq(seqs) \in Seq(Fragment)
         /\ \A i \in 1 .. n, x \in Seq(Fragment) :
              Has(seqs[i], x) => Has(FlattenSeq(seqs), x)
<1> DEFINE Def(f) == [i \in 1 .. n |-> IF i = 1 THEN seqs[i] ELSE f[i - 1] \o seqs[i]]
           Good(k, f) ==
             /\ f \in [1 .. n -> Seq(Fragment)]
             /\ \A i \in 1 .. n :
                  i <= k => f[i] = IF i = 1 THEN seqs[i] ELSE f[i - 1] \o seqs[i]
           S == {k \in Nat : \E f : Good(k, f)}
<1>1. 0 \in S
  <2>1. Good(0, seqs)
        OBVIOUS
  <2> QED BY <2>1
<1>2. ASSUME NEW k \in Nat, k \in S
      PROVE  k + 1 \in S
  <2>1. PICK f : Good(k, f)
        BY <1>2
  <2>2. CASE k >= n
    <3>1. \A i \in 1 .. n : i <= k
          BY <2>2
    <3>2. f \in [1 .. n -> Seq(Fragment)]
          BY <2>1
    <3>3. ASSUME NEW i \in 1 .. n
          PROVE  f[i] = IF i = 1 THEN seqs[i] ELSE f[i - 1] \o seqs[i]
          BY <2>1, <3>1
    <3>4. Good(k + 1, f)
          BY <3>2, <3>3
    <3> HIDE DEF Good
    <3> QED BY <3>4
  <2>3. CASE k < n
    <3> DEFINE next == IF k = 0 THEN seqs[1] ELSE f[k] \o seqs[k + 1]
               g == [f EXCEPT ![k + 1] = next]
    <3>1. next \in Seq(Fragment)
      <4>1. CASE k = 0
            BY <4>1
      <4>2. CASE k # 0
        <5>1. f[k] \in Seq(Fragment) /\ seqs[k + 1] \in Seq(Fragment)
              BY <2>1, <2>3, <4>2
        <5> QED BY <4>2, <5>1, ConcatProperties
      <4> QED BY <4>1, <4>2
    <3> HIDE DEF next
    <3>2. g \in [1 .. n -> Seq(Fragment)]
          BY <2>1, <3>1
    <3>3. \A i \in 1 .. n : g[i] = IF i = k + 1 THEN next ELSE f[i]
          BY <2>1
    <3> HIDE DEF g
    <3>4. ASSUME NEW i \in 1 .. n, i <= k + 1
          PROVE  g[i] = IF i = 1 THEN seqs[i] ELSE g[i - 1] \o seqs[i]
      <4>1. CASE i = k + 1
        <5>1. i # 1 => i - 1 \in 1 .. n /\ i - 1 # k + 1 /\ i - 1 = k
              BY <4>1
        <5>2. i # 1 => g[i - 1] = f[k]
              BY <3>3, <5>1
        <5> QED BY <3>3, <4>1, <5>2 DEF next
      <4>2. CASE i # k + 1
        <5>1. i <= k
              BY <3>4, <4>2
        <5>2. i # 1 => g[i - 1] = f[i - 1]
              BY <3>3, <5>1
        <5> QED BY <2>1, <3>3, <4>2, <5>1, <5>2
      <4> QED BY <4>1, <4>2
    <3>5. Good(k + 1, g)
          BY <3>2, <3>4
    <3> HIDE DEF Good
    <3> QED BY <3>5
  <2> HIDE DEF S
  <2> QED BY <2>2, <2>3
<1>3. PICK f : Good(n, f)
  <2> HIDE DEF S
  <2>1. Nat \subseteq S
        BY <1>1, <1>2, SetInduction
  <2> QED BY <2>1 DEF S
<1>4. f = Def(f)
  <2>1. f \in [1 .. n -> Seq(Fragment)]
        BY <1>3
  <2>2. \A i \in 1 .. n : i <= n
        OBVIOUS
  <2>3. \A i \in 1 .. n : f[i] = IF i = 1 THEN seqs[i] ELSE f[i - 1] \o seqs[i]
        BY <1>3, <2>2, Zenon
  <2> QED BY <2>1, <2>3, Zenon
<1> DEFINE g == CHOOSE h : h = Def(h)
<1>5. g = Def(g)
  <2> HIDE DEF Def
  <2> QED BY <1>4, Zenon
<1>6. Len(seqs) = n
      OBVIOUS
<1>7. FlattenSeq(seqs) = g[n]
      BY <1>6 DEF FlattenSeq
<1> HIDE DEF g
<1>8. \A i \in 1 .. n : g[i] = IF i = 1 THEN seqs[i] ELSE g[i - 1] \o seqs[i]
      BY <1>5
<1> DEFINE Sound(i) ==
             /\ g[i] \in Seq(Fragment)
             /\ \A j \in 1 .. i, x \in Seq(Fragment) : Has(seqs[j], x) => Has(g[i], x)
<1>9. \A i \in 1 .. n : Sound(i)
  <2> DEFINE bad == {i \in 1 .. n : ~ Sound(i)}
  <2> SUFFICES ASSUME bad # {} PROVE FALSE
      OBVIOUS
  <2> HIDE DEF Sound
  <2>0. bad \in SUBSET Nat /\ \A i \in bad : i \in 1 .. n /\ ~ Sound(i)
        OBVIOUS
  <2>a. \A i \in 1 .. n : i \notin bad => Sound(i)
        OBVIOUS
  <2> HIDE DEF bad
  <2>1. PICK i \in bad : \A m \in bad : i <= m
        BY <2>0, LeastOf
  <2>2. i \in 1 .. n /\ ~ Sound(i)
        BY <2>0
  <2>3. CASE i = 1
    <3>1. g[1] = seqs[1]
          BY <1>8
    <3>2. Sound(1)
          BY <3>1 DEF Sound
    <3> QED BY <2>2, <2>3, <3>2
  <2>4. CASE i # 1
    <3>1. i - 1 \in 1 .. n /\ i - 1 \notin bad
          BY <2>1, <2>2, <2>4
    <3>2. Sound(i - 1)
          BY <2>a, <3>1
    <3>3. g[i] = g[i - 1] \o seqs[i]
          BY <1>8, <2>2, <2>4
    <3>4. seqs[i] \in Seq(Fragment) /\ g[i - 1] \in Seq(Fragment) /\ << >> \in Seq(Fragment)
          BY <2>2, <3>2 DEF Sound
    <3>5. g[i] \in Seq(Fragment)
          BY <3>3, <3>4, ConcatProperties
    <3>6. g[i] = << >> \o g[i - 1] \o seqs[i] /\ g[i] = g[i - 1] \o seqs[i] \o << >>
          BY <3>3, <3>4, <3>5, ConcatEmptySeq
    <3>7. ASSUME NEW j \in 1 .. i, NEW x \in Seq(Fragment), Has(seqs[j], x)
          PROVE  Has(g[i], x)
      <4>1. CASE j = i
        <5>1. Has(g[i - 1] \o seqs[i] \o << >>, x)
              BY <3>4, <3>7, <4>1, HasInside
        <5> QED BY <3>6, <5>1
      <4>2. CASE j # i
        <5>1. Has(g[i - 1], x)
              BY <2>2, <3>2, <3>7, <4>2 DEF Sound
        <5>2. Has(<< >> \o g[i - 1] \o seqs[i], x)
              BY <3>4, <5>1, HasInside
        <5> QED BY <3>6, <5>2
      <4> QED BY <4>1, <4>2
    <3>8. Sound(i)
          BY <3>5, <3>7 DEF Sound
    <3> QED BY <2>2, <3>8
  <2> QED BY <2>3, <2>4
<1> QED BY <1>7, <1>9

(* The writing statements contain what validateReadOnlyQuery looks for.    *)
Betrayed(text) ==
  \/ Has(text, <<"INSERT", Sp, "INTO">>)
  \/ Has(text, <<"DELETE", Sp, "FROM">>)
  \/ Has(text, <<"UPDATE", Sp>>) /\ Has(text, <<Sp, "SET", Sp>>)
  \/ HasWord(text, {"CREATE", "ALTER"})

(* Fragments that follow each other in a part do so in the text.           *)
LEMMA PairInside ==
  ASSUME NEW p \in Seq(Fragment), NEW s \in Seq(Fragment), NEW r \in Seq(Fragment),
         NEW i \in 1 .. Len(s) - 1
  PROVE  Has(p \o s \o r, <<s[i], s[i + 1]>>)
<1> DEFINE x == <<s[i], s[i + 1]>>
<1>1. Len(s) \in Nat /\ s[i] \in Fragment /\ s[i + 1] \in Fragment
      BY LenProperties, ElementOfSeq
<1>2. x \in Seq(Fragment) /\ Len(x) = 2 /\ x[1] = s[i] /\ x[2] = s[i + 1]
      BY <1>1
<1> HIDE DEF x
<1>3. \A j \in 1 .. Len(x) : s[i + j - 1] = x[j]
  <2> TAKE j \in 1 .. Len(x)
  <2>1. CASE j = 1
        BY <1>1, <1>2, <2>1
  <2>2. CASE j = 2
        BY <1>1, <1>2, <2>2
  <2> QED BY <1>2, <2>1, <2>2
<1>4. i \in 1 .. Len(s) - Len(x) + 1
      BY <1>1, <1>2
<1>5. Has(s, x)
      BY <1>2, <1>3, <1>4, HasAt
<1>6. Has(p \o s \o r, x)
      BY <1>2, <1>5, HasInside
<1> QED BY <1>6 DEF x

(* So do three.                                                            *)
LEMMA TripleInside ==
  ASSUME NEW p \in Seq(Fragment), NEW s \in Seq(Fragment), NEW r \in Seq(Fragment),
         NEW i \in 1 .. Len(s) - 2
  PROVE  Has(p \o s \o r, <<s[i], s[i + 1], s[i + 2]>>)
<1> DEFINE x == <<s[i], s[i + 1], s[i + 2]>>
<1>1. /\ Len(s) \in Nat
      /\ s[i] \in Fragment /\ s[i + 1] \in Fragment /\ s[i + 2] \in Fragment
      BY LenProperties, ElementOfSeq
<1>2. /\ x \in Seq(Fragment) /\ Len(x) = 3
      /\ x[1] = s[i] /\ x[2] = s[i + 1] /\ x[3] = s[i + 2]
      BY <1>1
<1> HIDE DEF x
<1>3. \A j \in 1 .. Len(x) : s[i + j - 1] = x[j]
  <2> TAKE j \in 1 .. Len(x)
  <2>1. CASE j = 1
        BY <1>1, <1>2, <2>1
  <2>2. CASE j = 2
        BY <1>1, <1>2, <2>2
  <2>3. CASE j = 3
        BY <1>1, <1>2, <2>3
  <2> QED BY <1>2, <2>1, <2>2, <2>3
<1>4. i \in 1 .. Len(s) - Len(x) + 1
      BY <1>1, <1>2
<1>5. Has(s, x)
      BY <1>2, <1>3, <1>4, HasAt
<1>6. Has(p \o s \o r, x)
      BY <1>2, <1>5, HasInside
<1> QED BY <1>6 DEF x

(* What a statement begins with, whatever follows.                         *)
LEMMA AfterTwo ==
  ASSUME NEW a \in Fragment, NEW b \in Fragment, NEW rest \in Seq(Fragment),
         NEW s, s = <<a, b>> \o rest
  PROVE  /\ s \in Seq(Fragment) /\ Len(s) = Len(rest) + 2 /\ Len(rest) \in Nat
         /\ s[1] = a /\ s[2] = b
         /\ \A k \in 1 .. Len(rest) : s[k + 2] = rest[k]
<1> DEFINE ab == <<a, b>>
<1>1. ab \in Seq(Fragment) /\ Len(ab) = 2 /\ ab[1] = a /\ ab[2] = b
      OBVIOUS
<1>2. Len(rest) \in Nat /\ s = ab \o rest
      BY LenProperties
<1> HIDE DEF ab
<1>3. /\ s \in Seq(Fragment) /\ Len(s) = 2 + Len(rest)
      /\ \A k \in 1 .. 2 + Len(rest) : s[k] = IF k <= 2 THEN ab[k] ELSE rest[k - 2]
      BY <1>1, <1>2, ConcatProperties
<1> QED BY <1>1, <1>2, <1>3

(* A text with another after it begins as before.                          *)
LEMMA ConcatStarts ==
  ASSUME NEW s \in Seq(Fragment), NEW t \in Seq(Fragment)
  PROVE  /\ s \o t \in Seq(Fragment)
         /\ Len(s) \in Nat /\ Len(t) \in Nat /\ Len(s \o t) = Len(s) + Len(t)
         /\ \A k \in 1 .. Len(s) : (s \o t)[k] = s[k]
<1>1. Len(s) \in Nat /\ Len(t) \in Nat
      BY LenProperties
<1> QED BY <1>1, ConcatProperties

(* The words a statement begins with.                                      *)
LEMMA RestStarts ==
  ASSUME NEW kind \in DOMAIN Keyword, NEW b \in Fragment, NEW column \in Seq(Fragment)
  PROVE  LET rest == Rest(kind, b, column)
         IN /\ rest \in Seq(Fragment)
            /\ kind \in {"insert", "upsert"} => Len(rest) >= 1 /\ rest[1] = "INTO"
            /\ kind = "update" => /\ Len(rest) >= 4 /\ rest[2] = b
                                  /\ rest[3] = "SET" /\ rest[4] = b
            /\ kind = "delete" => Len(rest) >= 1 /\ rest[1] = "FROM"
<1> DEFINE rest == Rest(kind, b, column)
           insert == <<"INTO", b, "T", b, "VALUES", b, "1">>
           upsert == <<"INTO", b, "T", b, "VALUES", b, "1", b, "ON", b,
                       "CONFLICT", b, "DO", b, "UPDATE", b, "SET", b>>
           update == <<"T", b, "SET", b>>
           select == <<b, "FROM", b, "T">>
           delete == <<"FROM", b, "T">>
           table  == <<"TABLE", b, "T">>
<1>1. kind \in {"select", "insert", "upsert", "update", "delete", "create", "alter"}
      BY DEF Keyword
<1>2. /\ insert \in Seq(Fragment) /\ upsert \in Seq(Fragment)
      /\ update \in Seq(Fragment) /\ select \in Seq(Fragment)
      /\ delete \in Seq(Fragment) /\ table \in Seq(Fragment)
      BY DEF Fragment
<1>3. /\ Len(insert) = 7 /\ insert[1] = "INTO"
      /\ Len(upsert) = 18 /\ upsert[1] = "INTO"
      /\ Len(update) = 4 /\ update[2] = b /\ update[3] = "SET" /\ update[4] = b
      /\ Len(delete) = 3 /\ delete[1] = "FROM"
      OBVIOUS
<1>4. /\ kind = "select" => rest = column \o select
      /\ kind = "insert" => rest = insert
      /\ kind = "upsert" => rest = upsert \o column
      /\ kind = "update" => rest = update \o column
      /\ kind = "delete" => rest = delete
      /\ kind \in {"create", "alter"} => rest = table
      BY DEF Rest
<1> HIDE DEF rest, insert, upsert, update, select, delete, table
<1>5. column \o select \in Seq(Fragment)
      BY <1>2, ConcatStarts
<1>6. /\ upsert \o column \in Seq(Fragment)
      /\ Len(upsert \o column) >= 1 /\ (upsert \o column)[1] = "INTO"
  <2>1. /\ Len(upsert \o column) = Len(upsert) + Len(column) /\ Len(column) \in Nat
        /\ \A k \in 1 .. Len(upsert) : (upsert \o column)[k] = upsert[k]
        /\ upsert \o column \in Seq(Fragment)
        BY <1>2, ConcatStarts
  <2> QED BY <1>3, <2>1
<1>7. /\ update \o column \in Seq(Fragment) /\ Len(update \o column) >= 4
      /\ (update \o column)[2] = b /\ (update \o column)[3] = "SET"
      /\ (update \o column)[4] = b
  <2>1. /\ Len(update \o column) = Len(update) + Len(column) /\ Len(column) \in Nat
        /\ \A k \in 1 .. Len(update) : (update \o column)[k] = update[k]
        /\ update \o column \in Seq(Fragment)
        BY <1>2, ConcatStarts
  <2> QED BY <1>3, <2>1
<1>8. rest \in Seq(Fragment)
      BY <1>1, <1>2, <1>4, <1>5, <1>6, <1>7
<1>9. kind \in {"insert", "upsert"} => Len(rest) >= 1 /\ rest[1] = "INTO"
      BY <1>3, <1>4, <1>6
<1>10. kind = "update" => /\ Len(rest) >= 4 /\ rest[2] = b
                         /\ rest[3] = "SET" /\ rest[4] = b
      BY <1>4, <1>7
<1>11. kind = "delete" => Len(rest) >= 1 /\ rest[1] = "FROM"
  <2> SUFFICES ASSUME kind = "delete" PROVE Len(rest) >= 1 /\ rest[1] = "FROM"
      OBVIOUS
  <2>1. rest = delete
        BY <1>4
  <2>2. Len(delete) = 3 /\ delete[1] = "FROM"
        BY <1>3
  <2> QED BY <2>1, <2>2
<1> QED BY <1>8, <1>9, <1>10, <1>11 DEF rest

(* A statement is its first word, what follows that, and the rest.         *)
LEMMA StatementStarts ==
  ASSUME NEW kind \in DOMAIN Keyword, NEW after \in Fragment, NEW b \in Fragment,
         NEW column \in Seq(Fragment)
  PROVE  LET s == Statement(kind, after, b, column)
             rest == Rest(kind, b, column)
         IN /\ rest \in Seq(Fragment) /\ s \in Seq(Fragment)
            /\ Len(rest) \in Nat /\ Len(s) = Len(rest) + 2
            /\ s[1] = Keyword[kind] /\ s[2] = after
            /\ \A k \in 1 .. Len(rest) : s[k + 2] = rest[k]
<1> DEFINE rest == Rest(kind, b, column)
           s == Statement(kind, after, b, column)
<1>1. Keyword[kind] \in Fragment
      BY DEF Keyword, Fragment
<1>2. rest \in Seq(Fragment)
      BY RestStarts
<1>3. s = <<Keyword[kind], after>> \o rest
      BY DEF Statement
<1> HIDE DEF rest, s
<1>4. /\ s \in Seq(Fragment) /\ Len(s) = Len(rest) + 2 /\ Len(rest) \in Nat
      /\ s[1] = Keyword[kind] /\ s[2] = after
      /\ \A k \in 1 .. Len(rest) : s[k + 2] = rest[k]
      BY <1>1, <1>2, <1>3, AfterTwo
<1> QED BY <1>2, <1>4 DEF rest, s

(* A statement that writes, with single spaces between its words, betrays  *)
(* itself wherever it is in a text.                                        *)
LEMMA WritingStatementBetrayed ==
  ASSUME NEW kind \in Writing, NEW column \in Seq(Fragment),
         NEW p \in Seq(Fragment), NEW r \in Seq(Fragment)
  PROVE  Betrayed(p \o Statement(kind, Sp, Sp, column) \o r)
<1> DEFINE s == Statement(kind, Sp, Sp, column)
           rest == Rest(kind, Sp, column)
<1>1. kind \in {"insert", "upsert", "update", "delete", "create", "alter"}
      BY DEF Writing, Keyword
<1>2. kind \in DOMAIN Keyword /\ Sp \in Fragment
      BY DEF Writing, Fragment
<1>3. /\ kind \in {"insert", "upsert"} => Len(rest) >= 1 /\ rest[1] = "INTO"
      /\ kind = "update" => /\ Len(rest) >= 4 /\ rest[2] = Sp
                            /\ rest[3] = "SET" /\ rest[4] = Sp
      /\ kind = "delete" => Len(rest) >= 1 /\ rest[1] = "FROM"
      BY <1>2, RestStarts
<1>4. /\ s \in Seq(Fragment) /\ Len(s) = Len(rest) + 2 /\ Len(rest) \in Nat
      /\ s[1] = Keyword[kind] /\ s[2] = Sp
      /\ \A k \in 1 .. Len(rest) : s[k + 2] = rest[k]
      BY <1>2, StatementStarts
<1> HIDE DEF s, rest
<1>5. Has(p \o s \o r, <<Keyword[kind], Sp>>)
  <2>1. 1 \in 1 .. Len(s) - 1
        BY <1>4
  <2>2. Has(p \o s \o r, <<s[1], s[1 + 1]>>)
        BY <1>4, <2>1, PairInside
  <2>3. <<s[1], s[1 + 1]>> = <<Keyword[kind], Sp>>
        BY <1>4
  <2> QED BY <2>2, <2>3
<1>6. Len(s) >= 3 => Has(p \o s \o r, <<Keyword[kind], Sp, s[3]>>)
  <2> SUFFICES ASSUME Len(s) >= 3
               PROVE  Has(p \o s \o r, <<Keyword[kind], Sp, s[3]>>)
      OBVIOUS
  <2>1. 1 \in 1 .. Len(s) - 2
        BY <1>4
  <2>2. Has(p \o s \o r, <<s[1], s[1 + 1], s[1 + 2]>>)
        BY <1>4, <2>1, TripleInside
  <2>3. <<s[1], s[1 + 1], s[1 + 2]>> = <<Keyword[kind], Sp, s[3]>>
        BY <1>4
  <2> QED BY <2>2, <2>3
<1>7. CASE kind \in {"insert", "upsert"}
  <2>1. Len(s) >= 3 /\ s[3] = "INTO" /\ Keyword[kind] = "INSERT"
    <3>1. Len(rest) >= 1 /\ rest[1] = "INTO"
          BY <1>3, <1>7
    <3>2. s[1 + 2] = rest[1]
          BY <1>4, <3>1
    <3> QED BY <1>4, <1>7, <3>1, <3>2 DEF Keyword
  <2>2. Has(p \o s \o r, <<"INSERT", Sp, "INTO">>)
        BY <1>6, <2>1
  <2> QED BY <2>2 DEF Betrayed, s
<1>8. CASE kind = "update"
  <2>1. Keyword[kind] = "UPDATE"
        BY <1>8 DEF Keyword
  <2>a. Len(rest) >= 4 /\ rest[2] = Sp /\ rest[3] = "SET" /\ rest[4] = Sp
        BY <1>3, <1>8
  <2>b. s[2 + 2] = rest[2] /\ s[3 + 2] = rest[3] /\ s[4 + 2] = rest[4]
    <3>1. 2 \in 1 .. Len(rest) /\ 3 \in 1 .. Len(rest) /\ 4 \in 1 .. Len(rest)
          BY <1>4, <2>a
    <3> QED BY <1>4, <3>1
  <2>2. Len(s) >= 6 /\ s[4] = Sp /\ s[5] = "SET" /\ s[6] = Sp
        BY <1>4, <2>a, <2>b
  <2>3. 4 \in 1 .. Len(s) - 2
        BY <1>4, <2>2
  <2>4. Has(p \o s \o r, <<s[4], s[4 + 1], s[4 + 2]>>)
        BY <1>4, <2>3, TripleInside
  <2>c. <<s[4], s[4 + 1], s[4 + 2]>> = <<Sp, "SET", Sp>>
        BY <2>2
  <2>5. Has(p \o s \o r, <<Sp, "SET", Sp>>)
        BY <2>4, <2>c
  <2>6. Has(p \o s \o r, <<"UPDATE", Sp>>)
        BY <1>5, <2>1
  <2> QED BY <2>5, <2>6 DEF Betrayed, s
<1>9. CASE kind = "delete"
  <2>1. Len(s) >= 3 /\ s[3] = "FROM" /\ Keyword[kind] = "DELETE"
    <3>1. Len(rest) >= 1 /\ rest[1] = "FROM"
          BY <1>3, <1>9
    <3>2. s[1 + 2] = rest[1]
          BY <1>4, <3>1
    <3> QED BY <1>4, <1>9, <3>1, <3>2 DEF Keyword
  <2>2. Has(p \o s \o r, <<"DELETE", Sp, "FROM">>)
        BY <1>6, <2>1
  <2> QED BY <2>2 DEF Betrayed, s
<1>10. CASE kind \in {"create", "alter"}
  <2>1. Keyword[kind] \in {"CREATE", "ALTER"}
        BY <1>10 DEF Keyword
  <2>2. HasWord(p \o s \o r, {"CREATE", "ALTER"})
        BY <1>5, <2>1 DEF HasWord
  <2> QED BY <2>2 DEF Betrayed, s
<1> QED BY <1>1, <1>7, <1>8, <1>9, <1>10

(* What betrays a part of a text betrays the text.                         *)
LEMMA BetrayedInside ==
  ASSUME NEW s, NEW t, \A x \in Seq(Fragment) : Has(s, x) => Has(t, x), Betrayed(s)
  PROVE  Betrayed(t)
<1>1. /\ <<"INSERT", Sp, "INTO">> \in Seq(Fragment)
      /\ <<"DELETE", Sp, "FROM">> \in Seq(Fragment)
      /\ <<"UPDATE", Sp>> \in Seq(Fragment) /\ <<Sp, "SET", Sp>> \in Seq(Fragment)
      /\ \A w \in {"CREATE", "ALTER"} : <<w, Sp>> \in Seq(Fragment)
      BY DEF Fragment
<1> QED BY <1>1 DEF Betrayed, HasWord

(* What is betrayed is refused by validateReadOnlyQuery.                   *)
LEMMA BetrayedNotRead ==
  ASSUME NEW text, Betrayed(text)
  PROVE  ~ validateReadOnlyQuery(text)
BY DEF Betrayed, HasWord, validateReadOnlyQuery, Dangerous

(* A text that begins with a word has it as its first fragment.            *)
LEMMA FirstOfPrefix ==
  ASSUME NEW text \in Seq(Fragment), NEW a, NEW b, IsPrefix(<<a, b>>, text)
  PROVE  text[1] = a
<1>1. Len(<<a, b>>) = 2 /\ Len(text) \in Nat /\ Len(text) >= 2
      BY LenProperties DEF IsPrefix
<1>2. SubSeq(<<a, b>>, 1, 2) = SubSeq(text, 1, 2)
      BY <1>1 DEF IsPrefix
<1>3. SubSeq(<<a, b>>, 1, 2)[1] = a
      BY <1>1
<1>4. SubSeq(text, 1, 2)[1] = text[1]
      BY <1>1
<1> QED BY <1>2, <1>3, <1>4

(* All that a query of the model is made of is fragments.                  *)
LEMMA QueriesAreTexts ==
  ASSUME NEW q \in Queries
  PROVE  /\ q.column \in Seq(Fragment) /\ q.main \in DOMAIN Keyword
         /\ q.first \in Fragment /\ q.break \in Fragment
         /\ q.inner \in Fragment /\ q.outer \in Fragment
         /\ q.first \in WhiteSpace /\ q.outer \in WhiteSpace
         /\ Pad(q) \in Seq(Fragment) /\ Ending(q) \in Seq(Fragment)
<1>1. /\ q.column \in Seq(STRING) /\ q.first \in WhiteSpace /\ q.break \in WhiteSpace
      /\ q.inner \in WhiteSpace /\ q.outer \in WhiteSpace
      BY TextsAssumption DEF Queries
<1>2. q.column \in Seq(Fragment)
      BY <1>1, SeqMonotonic DEF Fragment
<1>3. /\ q.first \in Fragment /\ q.break \in Fragment
      /\ q.inner \in Fragment /\ q.outer \in Fragment
      BY <1>1 DEF Fragment
<1>a. Pad(q) \in Seq(Fragment)
      BY <1>3 DEF Pad
<1> DEFINE returning == <<q.outer, "RETURNING", q.outer>>
           semicolon == <<Semicolon>>
           second == <<Semicolon, q.outer, "DELETE", q.outer, "FROM", q.outer, "T">>
           a == IF q.returning THEN returning \o q.column ELSE << >>
           b == CASE q.end = "bare" -> << >>
                  [] q.end = "semicolon" -> semicolon
                  [] OTHER -> second
<1>4. /\ returning \in Seq(Fragment) /\ semicolon \in Seq(Fragment)
      /\ second \in Seq(Fragment) /\ << >> \in Seq(Fragment)
  <2>1. /\ Semicolon \in Fragment /\ "RETURNING" \in Fragment /\ "DELETE" \in Fragment
        /\ "FROM" \in Fragment /\ "T" \in Fragment
        BY DEF Fragment
  <2> QED BY <1>3, <2>1
<1>5. Ending(q) = a \o b
      BY DEF Ending
<1> HIDE DEF returning, semicolon, second
<1>6. returning \o q.column \in Seq(Fragment)
      BY <1>2, <1>4, ConcatStarts
<1>7. a \in Seq(Fragment)
      BY <1>4, <1>6
<1>8. b \in Seq(Fragment)
      BY <1>4
<1> HIDE DEF a, b
<1>9. a \o b \in Seq(Fragment)
      BY <1>7, <1>8, ConcatStarts
<1> QED BY <1>1, <1>2, <1>3, <1>a, <1>5, <1>9 DEF Queries

(* validateReadOnlyQuery refuses a query one of whose parts writes with    *)
(* single spaces between the words.                                        *)
LEMMA ReadsHaveNoSpacedWrites ==
  ASSUME NEW q \in Queries, validateReadOnlyQuery(Text(q))
  PROVE  /\ q.main \in Writing => q.outer # Sp
         /\ \A i \in DOMAIN q.ctes : q.ctes[i] \in Writing => q.inner # Sp
<1> DEFINE main == Statement(q.main, q.outer, q.outer, q.column)
           alone == Statement(q.main, q.first, q.outer, q.column)
           end == Ending(q)
           with == WithClause(q)
           kinds == {"select", "update", "delete"}
<1>1. /\ q.column \in Seq(Fragment) /\ q.main \in DOMAIN Keyword
      /\ q.first \in Fragment /\ q.break \in Fragment
      /\ q.inner \in Fragment /\ q.outer \in Fragment /\ Pad(q) \in Seq(Fragment)
      /\ end \in Seq(Fragment) /\ Sp \in Fragment
      BY QueriesAreTexts DEF Fragment
<1>2. PICK n \in 0 .. MaxCTEs : q.ctes \in [1 .. n -> kinds]
      BY DEF Queries, BoundedSeq, SeqOf
<1>3. n \in Nat /\ DOMAIN q.ctes = 1 .. n
      BY <1>2, TextsAssumption
<1>4. /\ main \in Seq(Fragment)
      /\ alone \in Seq(Fragment) /\ Len(alone) >= 2 /\ alone[1] = Keyword[q.main]
      BY <1>1, StatementStarts
<1>5. CASE q.ctes = << >>
  <2>1. Text(q) = alone \o end
        BY <1>5 DEF Text
  <2> HIDE DEF alone, end
  <2>2. Text(q) \in Seq(Fragment) /\ Text(q)[1] = Keyword[q.main]
    <3>1. alone \o end \in Seq(Fragment) /\ (alone \o end)[1] = alone[1]
          BY <1>1, <1>4, ConcatStarts
    <3> QED BY <1>4, <2>1, <3>1
  <2>3. Text(q)[1] \in {"SELECT", "WITH"}
        BY <2>2, FirstOfPrefix DEF validateReadOnlyQuery, BeginsWith
  <2>4. q.main \in Writing => q.outer # Sp
        BY <1>1, <2>2, <2>3 DEF Writing, Keyword
  <2>5. DOMAIN q.ctes = {}
        BY <1>5
  <2> QED BY <2>4, <2>5
<1>6. CASE q.ctes # << >>
  <2>1. n \in Nat \ {0}
        BY <1>2, <1>3, <1>6
  <2> DEFINE name(i) == <<IF i = 1 THEN "WITH" ELSE Comma, IF i = 1 THEN q.first ELSE q.inner,
                          "X", q.inner, "AS", q.inner, "(">>
             open(i) == name(i) \o Pad(q)
             cte(i) == Statement(q.ctes[i], q.inner, q.inner, q.column)
             close == Pad(q) \o <<")">>
             parts == [i \in 1 .. n |-> open(i) \o cte(i) \o close]
  <2>2. close \in Seq(Fragment) /\ \A i \in 1 .. n : open(i) \in Seq(Fragment)
    <3>1. /\ "WITH" \in Fragment /\ Comma \in Fragment /\ "X" \in Fragment
          /\ "AS" \in Fragment /\ "(" \in Fragment /\ ")" \in Fragment
          BY DEF Fragment
    <3>2. <<")">> \in Seq(Fragment) /\ \A i \in 1 .. n : name(i) \in Seq(Fragment)
          BY <1>1, <3>1
    <3> HIDE DEF name
    <3>3. close \in Seq(Fragment)
          BY <1>1, <3>2, ConcatStarts
    <3>4. \A i \in 1 .. n : open(i) \in Seq(Fragment)
          BY <1>1, <3>2, ConcatStarts
    <3> QED BY <3>3, <3>4
  <2>3. ASSUME NEW i \in 1 .. n
        PROVE  q.ctes[i] \in DOMAIN Keyword /\ cte(i) \in Seq(Fragment)
    <3>1. q.ctes[i] \in kinds
          BY <1>2
    <3>2. q.ctes[i] \in DOMAIN Keyword
          BY <3>1 DEF Keyword
    <3> QED BY <1>1, <3>2, StatementStarts
  <2>4. with = FlattenSeq(parts)
        BY <1>3 DEF WithClause
  <2> HIDE DEF close, with
  <2>5. parts \in [1 .. n -> Seq(Fragment)]
    <3> SUFFICES ASSUME NEW i \in 1 .. n
                 PROVE  open(i) \o cte(i) \o close \in Seq(Fragment)
        OBVIOUS
    <3> HIDE DEF open, cte
    <3>1. open(i) \o cte(i) \in Seq(Fragment)
          BY <2>2, <2>3, ConcatStarts
    <3> QED BY <2>2, <3>1, ConcatStarts
  <2>6. \A i \in 1 .. n : parts[i] = open(i) \o cte(i) \o close
        OBVIOUS
  <2> HIDE DEF parts, open, name
  <2>7. /\ with \in Seq(Fragment)
        /\ \A i \in 1 .. n, x \in Seq(Fragment) : Has(parts[i], x) => Has(with, x)
        BY <2>1, <2>4, <2>5, FlattenHas
  <2> DEFINE before == with \o <<q.break>>
  <2>8. before \in Seq(Fragment)
    <3>1. <<q.break>> \in Seq(Fragment)
          BY <1>1
    <3> QED BY <2>7, <3>1, ConcatStarts
  <2>9. Text(q) = before \o main \o end
        BY <1>6 DEF Text, with
  <2> HIDE DEF before, end
  <2>10. q.main \in Writing => q.outer # Sp
    <3> SUFFICES ASSUME q.main \in Writing, q.outer = Sp PROVE FALSE
        OBVIOUS
    <3>1. Betrayed(before \o Statement(q.main, Sp, Sp, q.column) \o end)
          BY <1>1, <2>8, WritingStatementBetrayed
    <3>2. Betrayed(before \o main \o end)
          BY <3>1
    <3> QED BY <2>9, <3>2, BetrayedNotRead
  <2>11. ASSUME NEW i \in 1 .. n
         PROVE  q.ctes[i] \in Writing => q.inner # Sp
    <3> SUFFICES ASSUME q.ctes[i] \in Writing, q.inner = Sp PROVE FALSE
        OBVIOUS
    <3>0. Betrayed(open(i) \o Statement(q.ctes[i], Sp, Sp, q.column) \o close)
          BY <1>1, <2>2, WritingStatementBetrayed
    <3>1. Betrayed(parts[i])
          BY <2>6, <3>0
    <3>2. Betrayed(with)
          BY <2>7, <3>1, BetrayedInside
    <3>3. <<q.break>> \in Seq(Fragment)
          BY <1>1
    <3>4. before \o main \in Seq(Fragment)
          BY <1>4, <2>8, ConcatStarts
    <3>5. \A x \in Seq(Fragment) : Has(with, x) => Has(before, x)
          BY <2>7, <3>3, HasBefore DEF before
    <3>6. \A x \in Seq(Fragment) : Has(before, x) => Has(before \o main, x)
          BY <1>4, <2>8, HasBefore
    <3>7. \A x \in Seq(Fragment) : Has(before \o main, x) => Has(before \o main \o end, x)
          BY <1>1, <3>4, HasBefore
    <3>8. \A x \in Seq(Fragment) : Has(with, x) => Has(Text(q), x)
          BY <2>9, <3>5, <3>6, <3>7
    <3>9. Betrayed(Text(q))
          BY <3>2, <3>8, BetrayedInside
    <3> QED BY <3>9, BetrayedNotRead
  <2> QED BY <1>3, <2>10, <2>11
<1> QED BY <1>5, <1>6

-----------------------------------------------------------------------------
(* A fragment is in a text; and a text begins or ends with some.           *)
LEMMA HasOne ==
  ASSUME NEW text \in Seq(Fragment), NEW w \in Fragment
  PROVE  Has(text, <<w>>) <=> \E i \in 1 .. Len(text) : text[i] = w
<1> DEFINE x == <<w>>
<1>1. x \in Seq(Fragment) /\ Len(x) = 1 /\ x[1] = w
      OBVIOUS
<1>2. Len(text) \in Nat
      BY LenProperties
<1> HIDE DEF x
<1>a. Has(text, x) <=>
        \E i \in 1 .. Len(text) - Len(x) + 1 :
          \A j \in 1 .. Len(x) : text[i + j - 1] = x[j]
      BY <1>1, HasAt
<1>3. Has(text, x) <=>
        \E i \in 1 .. Len(text) - 1 + 1 : \A j \in 1 .. 1 : text[i + j - 1] = x[j]
      BY <1>1, <1>2, <1>a
<1>4. ASSUME NEW i \in 1 .. Len(text)
      PROVE  (\A j \in 1 .. 1 : text[i + j - 1] = x[j]) <=> text[i] = w
      BY <1>1, <1>2
<1>5. 1 .. Len(text) - 1 + 1 = 1 .. Len(text)
      BY <1>2
<1> QED BY <1>3, <1>4, <1>5 DEF x

(* Fragments that follow each other in a text.                             *)
Two(text, a, b) == \E i \in 1 .. Len(text) - 1 : text[i] = a /\ text[i + 1] = b

Three(text, a, b, c) ==
  \E i \in 1 .. Len(text) - 2 : text[i] = a /\ text[i + 1] = b /\ text[i + 2] = c

(* Two fragments in a text follow each other somewhere in it.              *)
LEMMA HasTwo ==
  ASSUME NEW text \in Seq(Fragment), NEW a \in Fragment, NEW b \in Fragment,
         Has(text, <<a, b>>)
  PROVE  Two(text, a, b)
<1> DEFINE x == <<a, b>>
<1>1. x \in Seq(Fragment) /\ Len(x) = 2 /\ x[1] = a /\ x[2] = b
      OBVIOUS
<1>2. Len(text) \in Nat /\ Has(text, x)
      BY LenProperties
<1> HIDE DEF x
<1>a. Has(text, x) <=>
        \E i \in 1 .. Len(text) - Len(x) + 1 :
          \A j \in 1 .. Len(x) : text[i + j - 1] = x[j]
      BY <1>1, HasAt
<1>3. PICK i \in 1 .. Len(text) - 2 + 1 : \A j \in 1 .. 2 : text[i + j - 1] = x[j]
      BY <1>1, <1>2, <1>a
<1>4. text[i + 1 - 1] = x[1] /\ text[i + 2 - 1] = x[2]
      BY <1>3
<1>5. i \in 1 .. Len(text) - 1 /\ i + 1 - 1 = i /\ i + 2 - 1 = i + 1
      BY <1>2
<1> QED BY <1>1, <1>4, <1>5 DEF Two

(* So do three.                                                            *)
LEMMA HasThree ==
  ASSUME NEW text \in Seq(Fragment), NEW a \in Fragment, NEW b \in Fragment,
         NEW c \in Fragment, Has(text, <<a, b, c>>)
  PROVE  Three(text, a, b, c)
<1> DEFINE x == <<a, b, c>>
<1>1. x \in Seq(Fragment) /\ Len(x) = 3 /\ x[1] = a /\ x[2] = b /\ x[3] = c
      OBVIOUS
<1>2. Len(text) \in Nat /\ Has(text, x)
      BY LenProperties
<1> HIDE DEF x
<1>a. Has(text, x) <=>
        \E i \in 1 .. Len(text) - Len(x) + 1 :
          \A j \in 1 .. Len(x) : text[i + j - 1] = x[j]
      BY <1>1, HasAt
<1>3. PICK i \in 1 .. Len(text) - 3 + 1 : \A j \in 1 .. 3 : text[i + j - 1] = x[j]
      BY <1>1, <1>2, <1>a
<1>4. text[i + 1 - 1] = x[1] /\ text[i + 2 - 1] = x[2] /\ text[i + 3 - 1] = x[3]
      BY <1>3
<1>5. /\ i \in 1 .. Len(text) - 2
      /\ i + 1 - 1 = i /\ i + 2 - 1 = i + 1 /\ i + 3 - 1 = i + 2
      BY <1>2
<1> QED BY <1>1, <1>4, <1>5 DEF Three

(* A text begins with its first two fragments.                             *)
LEMMA PrefixOfTwo ==
  ASSUME NEW text \in Seq(Fragment), Len(text) >= 2
  PROVE  IsPrefix(<<text[1], text[2]>>, text)
<1> DEFINE x == <<text[1], text[2]>>
<1>1. Len(text) \in Nat /\ text[1] \in Fragment /\ text[2] \in Fragment
      BY LenProperties, ElementOfSeq
<1>2. x \in Seq(Fragment) /\ Len(x) = 2 /\ x[1] = text[1] /\ x[2] = text[2]
      BY <1>1
<1> HIDE DEF x
<1>3. SubSeq(x, 1, 2) = x
      BY <1>2, SubSeqFull
<1> DEFINE t == SubSeq(text, 1, 2)
<1>4. t \in Seq(Fragment) /\ Len(t) = 2 /\ t[1] = text[1] /\ t[2] = text[2]
  <2>1. \A i \in 1 .. 2 : text[i] \in Fragment
        BY <1>1
  <2>2. /\ t \in Seq(Fragment) /\ Len(t) = 2 - 1 + 1
        /\ \A i \in 1 .. 2 - 1 + 1 : t[i] = text[1 + i - 1]
        BY <2>1, SubSeqProperties
  <2> QED BY <2>2
<1> HIDE DEF t
<1>5. t = x
  <2>1. \A i \in 1 .. 2 : t[i] = x[i]
        BY <1>2, <1>4
  <2> QED BY <1>2, <1>4, <2>1, SeqEqual
<1> QED BY <1>1, <1>2, <1>3, <1>5 DEF IsPrefix, x, t

(* A text ends in a fragment that is its last one.                         *)
LEMMA LastOfSuffix ==
  ASSUME NEW text \in Seq(Fragment), NEW w \in Fragment
  PROVE  IsSuffix(<<w>>, text) <=> text # << >> /\ text[Len(text)] = w
<1> DEFINE x == <<w>>
           r == Reverse(text)
           y == Reverse(x)
<1>1. x \in Seq(Fragment) /\ Len(x) = 1 /\ x[1] = w /\ Len(text) \in Nat
      BY LenProperties
<1> HIDE DEF x
<1>2. Len(y) = 1 /\ y[1] = w /\ y \in Seq(Fragment)
      BY <1>1 DEF Reverse
<1>3. /\ r \in Seq(Fragment) /\ Len(r) = Len(text)
      /\ Len(text) >= 1 => r[1] = text[Len(text)]
  <2>1. \A i \in 1 .. Len(text) : (Len(text) - i) + 1 \in 1 .. Len(text)
        BY <1>1
  <2>2. r = [i \in 1 .. Len(text) |-> text[(Len(text) - i) + 1]]
        BY DEF Reverse
  <2>3. r \in [1 .. Len(text) -> Fragment]
        BY <2>1, <2>2
  <2>4. r \in Seq(Fragment)
        BY <1>1, <2>3
  <2>5. Len(r) = Len(text)
        BY <1>1, <2>2
  <2>6. Len(text) >= 1 => r[1] = text[Len(text)]
        BY <1>1, <2>2
  <2> QED BY <2>4, <2>5, <2>6
<1> HIDE DEF y, r
<1>4. Len(text) >= 1 => (SubSeq(y, 1, 1) = SubSeq(r, 1, 1) <=> r[1] = w)
  <2> SUFFICES ASSUME Len(text) >= 1
               PROVE  SubSeq(y, 1, 1) = SubSeq(r, 1, 1) <=> r[1] = w
      OBVIOUS
  <2>1. /\ SubSeq(y, 1, 1) \in Seq(Fragment) /\ Len(SubSeq(y, 1, 1)) = 1
        /\ SubSeq(y, 1, 1)[1] = y[1]
    <3>1. \A i \in 1 .. 1 : y[i] \in Fragment
          BY <1>2
    <3>2. /\ SubSeq(y, 1, 1) \in Seq(Fragment) /\ Len(SubSeq(y, 1, 1)) = 1 - 1 + 1
          /\ \A i \in 1 .. 1 - 1 + 1 : SubSeq(y, 1, 1)[i] = y[1 + i - 1]
          BY <3>1, SubSeqProperties
    <3> QED BY <3>2
  <2>2. /\ SubSeq(r, 1, 1) \in Seq(Fragment) /\ Len(SubSeq(r, 1, 1)) = 1
        /\ SubSeq(r, 1, 1)[1] = r[1]
    <3>1. \A i \in 1 .. 1 : r[i] \in Fragment
          BY <1>1, <1>3
    <3>2. /\ SubSeq(r, 1, 1) \in Seq(Fragment) /\ Len(SubSeq(r, 1, 1)) = 1 - 1 + 1
          /\ \A i \in 1 .. 1 - 1 + 1 : SubSeq(r, 1, 1)[i] = r[1 + i - 1]
          BY <3>1, SubSeqProperties
    <3> QED BY <3>2
  <2>3. SubSeq(y, 1, 1) = SubSeq(r, 1, 1) <=> SubSeq(y, 1, 1)[1] = SubSeq(r, 1, 1)[1]
    <3> DEFINE a == SubSeq(y, 1, 1)
               b == SubSeq(r, 1, 1)
    <3>1. /\ a \in Seq(Fragment) /\ b \in Seq(Fragment) /\ Len(a) = 1 /\ Len(b) = 1
          BY <2>1, <2>2
    <3> HIDE DEF a, b
    <3>2. a[1] = b[1] => \A i \in 1 .. 1 : a[i] = b[i]
          OBVIOUS
    <3>3. a[1] = b[1] => a = b
          BY <3>1, <3>2, SeqEqual
    <3> QED BY <3>3 DEF a, b
  <2> QED BY <1>2, <2>1, <2>2, <2>3
<1>5. IsSuffix(x, text) <=> Len(y) <= Len(r) /\ SubSeq(y, 1, Len(y)) = SubSeq(r, 1, Len(y))
      BY DEF IsSuffix, IsPrefix, y, r
<1>6. text # << >> <=> Len(text) >= 1
      BY <1>1, EmptySeq
<1> QED BY <1>1, <1>2, <1>3, <1>4, <1>5, <1>6 DEF x

(* The literals, for the provers: which fragments they are, and which not. *)
Words ==
  {"SELECT", "INSERT", "UPDATE", "DELETE", "CREATE", "ALTER", "INTO", "FROM", "SET",
   "VALUES", "ON", "CONFLICT", "DO", "TABLE", "T", "1", "RETURNING"}

(* The words of a statement are neither white space nor semicolons.        *)
LEMMA WordsAre ==
  /\ \A w \in Words : w \in Fragment /\ w # Sp /\ w # Semicolon
  /\ Sp \in Fragment /\ Semicolon \in Fragment /\ Sp # Semicolon
  /\ Sp \in WhiteSpace /\ "RETURNING" \notin WhiteSpace
  /\ \A b \in WhiteSpace : b \in Fragment /\ b # Semicolon
<1>1. \A w \in Words : w \in Fragment
      BY DEF Words, Fragment
<1>2. \A w \in Words : w # Sp
      BY DEF Words, Sp
<1>3. \A w \in Words : w # Semicolon
      BY DEF Words, Semicolon
<1>4. Sp \in Fragment /\ Semicolon \in Fragment
      BY DEF Fragment
<1>5. Sp # Semicolon
      BY DEF Sp, Semicolon
<1>6. Sp \in WhiteSpace /\ "RETURNING" \notin WhiteSpace
      BY DEF WhiteSpace, Sp
<1>7. \A b \in WhiteSpace : b \in Fragment
      BY DEF Fragment
<1>8. \A b \in WhiteSpace : b # Semicolon
      BY DEF WhiteSpace, Sp, Semicolon
<1> QED BY <1>1, <1>2, <1>3, <1>4, <1>5, <1>6, <1>7, <1>8

(* What is before the spaces of a text, and what a text does not hold.     *)
Precede(s, B) == \A i \in 1 .. Len(s) - 1 : s[i + 1] = Sp => s[i] \in B

Free(s, x) == \A i \in 1 .. Len(s) : s[i] # x

(* If all its fragments are in B, those before spaces are.                 *)
LEMMA AllPrecede ==
  ASSUME NEW s \in Seq(Fragment), NEW B, \A i \in 1 .. Len(s) : s[i] \in B
  PROVE  Precede(s, B)
<1>1. Len(s) \in Nat
      BY LenProperties
<1> QED BY <1>1 DEF Precede

(* Two texts joined have before their spaces what they had, and where the  *)
(* second begins with a space, the last fragment of the first.             *)
LEMMA Joined ==
  ASSUME NEW s \in Seq(Fragment), NEW t \in Seq(Fragment), NEW B,
         Precede(s, B), Precede(t, B),
         Len(s) >= 1 /\ Len(t) >= 1 /\ t[1] = Sp => s[Len(s)] \in B
  PROVE  /\ s \o t \in Seq(Fragment)
         /\ Precede(s \o t, B)
         /\ Len(t) >= 1 => Len(s \o t) >= 1 /\ (s \o t)[Len(s \o t)] = t[Len(t)]
         /\ Len(s) >= 1 => Len(s \o t) >= 1 /\ (s \o t)[1] = s[1]
<1> DEFINE u == s \o t
<1>1. /\ Len(s) \in Nat /\ Len(t) \in Nat
      /\ u \in Seq(Fragment) /\ Len(u) = Len(s) + Len(t)
      /\ \A k \in 1 .. Len(s) + Len(t) : u[k] = IF k <= Len(s) THEN s[k] ELSE t[k - Len(s)]
      BY LenProperties, ConcatProperties
<1> HIDE DEF u
<1>2. ASSUME NEW i \in 1 .. Len(u) - 1, u[i + 1] = Sp
      PROVE  u[i] \in B
  <2>1. i \in 1 .. Len(s) + Len(t) /\ i + 1 \in 1 .. Len(s) + Len(t)
        BY <1>1
  <2>2. CASE i + 1 <= Len(s)
    <3>1. i \in 1 .. Len(s) - 1 /\ u[i] = s[i] /\ u[i + 1] = s[i + 1]
          BY <1>1, <2>1, <2>2
    <3> QED BY <1>2, <3>1 DEF Precede
  <2>3. CASE i = Len(s)
    <3>1. u[i] = s[Len(s)] /\ u[i + 1] = t[1] /\ Len(s) >= 1 /\ Len(t) >= 1
          BY <1>1, <2>1, <2>3
    <3> QED BY <1>2, <3>1
  <2>4. CASE i > Len(s)
    <3>1. /\ i - Len(s) \in 1 .. Len(t) - 1 /\ u[i] = t[i - Len(s)]
          /\ u[i + 1] = t[(i - Len(s)) + 1]
          BY <1>1, <2>1, <2>4
    <3> QED BY <1>2, <3>1 DEF Precede
  <2> QED BY <1>1, <2>2, <2>3, <2>4
<1>3. Precede(u, B)
      BY <1>2 DEF Precede
<1>4. Len(t) >= 1 => Len(u) >= 1 /\ u[Len(u)] = t[Len(t)]
      BY <1>1
<1>5. Len(s) >= 1 => Len(u) >= 1 /\ u[1] = s[1]
      BY <1>1
<1> QED BY <1>1, <1>3, <1>4, <1>5 DEF u

(* What neither text holds, the joined text does not hold.                 *)
LEMMA JoinedFree ==
  ASSUME NEW s \in Seq(Fragment), NEW t \in Seq(Fragment), NEW x,
         Free(s, x), Free(t, x)
  PROVE  Free(s \o t, x)
<1> DEFINE u == s \o t
<1>1. /\ Len(s) \in Nat /\ Len(t) \in Nat
      /\ u \in Seq(Fragment) /\ Len(u) = Len(s) + Len(t)
      /\ \A k \in 1 .. Len(s) + Len(t) : u[k] = IF k <= Len(s) THEN s[k] ELSE t[k - Len(s)]
      BY LenProperties, ConcatProperties
<1> HIDE DEF u
<1>2. ASSUME NEW i \in 1 .. Len(u) PROVE u[i] # x
  <2>1. CASE i <= Len(s)
        BY <1>1, <2>1 DEF Free
  <2>2. CASE i > Len(s)
    <3>1. i - Len(s) \in 1 .. Len(t) /\ u[i] = t[i - Len(s)]
          BY <1>1, <2>2
    <3> QED BY <3>1 DEF Free
  <2> QED BY <1>1, <2>1, <2>2
<1> QED BY <1>2 DEF Free, u

(* The name of a column: see TextsAssumption.                              *)
Name(c) ==
  /\ c \in Seq(Fragment) /\ Len(c) \in Nat /\ Len(c) >= 1
  /\ \A i \in 1 .. Len(c) : c[i] # Sp /\ c[i] # Semicolon

(* In the name of a column nothing is before a space.                      *)
LEMMA NamePrecedes ==
  ASSUME NEW c, Name(c), NEW B
  PROVE  Precede(c, B) /\ Free(c, Semicolon) /\ c[1] # Sp
<1>1. \A i \in 1 .. Len(c) - 1 : i + 1 \in 1 .. Len(c)
      BY DEF Name
<1> QED BY <1>1 DEF Name, Precede, Free

(* RETURNING and its column; and what ends a text.                         *)
Returning(q) ==
  IF q.returning THEN <<q.outer, "RETURNING", q.outer>> \o q.column ELSE << >>

(* RETURNING adds nothing before a space but itself and white space.       *)
LEMMA ReturningClean ==
  ASSUME NEW q, Name(q.column), q.outer \in WhiteSpace,
         NEW B, {"RETURNING"} \cup WhiteSpace \subseteq B
  PROVE  LET r == Returning(q)
         IN /\ r \in Seq(Fragment) /\ Precede(r, B) /\ Free(r, Semicolon)
            /\ ~ q.returning => r = << >>
            /\ q.returning => Len(r) >= 3 /\ Len(r) \in Nat /\ r[2] = "RETURNING"
            /\ Len(r) >= 1 => r[Len(r)] # Semicolon
<1> DEFINE o == q.outer
           w == <<o, "RETURNING", o>>
           r == Returning(q)
<1>1. "RETURNING" \in Words /\ "RETURNING" \in Fragment /\ "RETURNING" # Semicolon
      /\ o \in Fragment /\ o # Semicolon /\ o \in B
      BY WordsAre DEF Words
<1>a. r = IF q.returning THEN w \o q.column ELSE << >>
      BY DEF Returning
<1> HIDE DEF o
<1>2. /\ w \in Seq(Fragment) /\ Len(w) = 3
      /\ w[1] = o /\ w[2] = "RETURNING" /\ w[3] = o
      BY <1>1
<1> HIDE DEF w, r
<1>3. \A i \in 1 .. Len(w) : w[i] \in B /\ w[i] # Semicolon
  <2> TAKE i \in 1 .. Len(w)
  <2>1. i = 1 \/ i = 2 \/ i = 3
        BY <1>2
  <2> QED BY <1>1, <1>2, <2>1
<1>4. Precede(w, B) /\ Free(w, Semicolon)
      BY <1>2, <1>3, AllPrecede DEF Free
<1>5. CASE q.returning
  <2>1. r = w \o q.column
        BY <1>5, <1>a
  <2>2. Precede(q.column, B) /\ Free(q.column, Semicolon) /\ q.column[1] # Sp
        BY NamePrecedes
  <2>3. q.column \in Seq(Fragment) /\ Len(q.column) \in Nat /\ Len(q.column) >= 1
        BY DEF Name
  <2>4. r \in Seq(Fragment) /\ Precede(r, B)
        BY <1>2, <1>4, <2>1, <2>2, <2>3, Joined
  <2>5. Free(r, Semicolon)
        BY <1>2, <1>4, <2>1, <2>2, <2>3, JoinedFree
  <2>6. Len(r) = 3 + Len(q.column) /\ r[2] = w[2]
    <3>1. /\ Len(w \o q.column) = Len(w) + Len(q.column)
          /\ \A k \in 1 .. Len(w) : (w \o q.column)[k] = w[k]
          BY <1>2, <2>3, ConcatStarts
    <3>2. 2 \in 1 .. Len(w)
          BY <1>2
    <3> QED BY <1>2, <2>1, <3>1, <3>2
  <2>7. Len(r) \in 1 .. Len(r)
        BY <2>3, <2>6
  <2> QED BY <1>2, <1>5, <2>3, <2>4, <2>5, <2>6, <2>7 DEF Free, r
<1>6. CASE ~ q.returning
  <2>1. r = << >>
        BY <1>6, <1>a
  <2> QED BY <1>6, <2>1 DEF Precede, Free, r
<1> QED BY <1>5, <1>6

(* What a plain statement that writes has before its spaces.               *)
WriteWords ==
  {"INSERT", "UPDATE", "DELETE", "INTO", "FROM", "SET", "VALUES", "ON", "CONFLICT",
   "DO", "T", "1", "RETURNING"} \cup WhiteSpace

(* What follows the first words of a statement that writes has before its  *)
(* spaces only words of its own and the end of its column.                 *)
LEMMA RestClean ==
  ASSUME NEW kind \in {"insert", "upsert", "update", "delete"}, NEW b \in WhiteSpace,
         NEW c, Name(c)
  PROVE  LET rest == Rest(kind, b, c)
             B == WriteWords \cup {c[Len(c)]}
         IN /\ rest \in Seq(Fragment) /\ Len(rest) \in Nat /\ Len(rest) >= 1
            /\ rest[1] # Sp /\ rest[Len(rest)] \in B
            /\ Precede(rest, B) /\ Free(rest, Semicolon)
            /\ Free(c, "RETURNING") => Free(rest, "RETURNING")
<1> DEFINE rest == Rest(kind, b, c)
           insert == <<"INTO", b, "T", b, "VALUES", b, "1">>
           upsert == <<"INTO", b, "T", b, "VALUES", b, "1", b, "ON", b,
                       "CONFLICT", b, "DO", b, "UPDATE", b, "SET", b>>
           update == <<"T", b, "SET", b>>
           delete == <<"FROM", b, "T">>
           B == WriteWords \cup {c[Len(c)]}
           Good == /\ rest \in Seq(Fragment) /\ Len(rest) \in Nat /\ Len(rest) >= 1
                   /\ rest[1] # Sp /\ rest[Len(rest)] \in B
                   /\ Precede(rest, B) /\ Free(rest, Semicolon)
                   /\ Free(c, "RETURNING") => Free(rest, "RETURNING")
           Used == (WriteWords \ {"RETURNING"}) \cap Fragment
<1>1. /\ \A w \in {"INTO", "T", "VALUES", "1", "ON", "CONFLICT", "DO", "UPDATE", "SET",
                   "FROM", b} : w \in Used
      BY WordsAre DEF WriteWords, Words
<1>2. \A w \in Used : w \in B /\ w \in Fragment /\ w # Semicolon /\ w # "RETURNING"
      BY WordsAre DEF WriteWords, Words
<1> HIDE DEF Used
<1>3. /\ insert \in Seq(Used) /\ upsert \in Seq(Used)
      /\ update \in Seq(Used) /\ delete \in Seq(Used)
      BY <1>1
<1>4. /\ Len(insert) = 7 /\ insert[1] = "INTO" /\ insert[7] = "1"
      /\ Len(upsert) = 18 /\ upsert[1] = "INTO"
      /\ Len(update) = 4 /\ update[1] = "T"
      /\ Len(delete) = 3 /\ delete[1] = "FROM" /\ delete[3] = "T"
      OBVIOUS
<1>5. /\ kind = "insert" => rest = insert
      /\ kind = "upsert" => rest = upsert \o c
      /\ kind = "update" => rest = update \o c
      /\ kind = "delete" => rest = delete
      BY DEF Rest
<1> HIDE DEF rest, insert, upsert, update, delete, B
<1>6. ASSUME NEW s \in Seq(Used)
      PROVE  /\ s \in Seq(Fragment) /\ Precede(s, B)
             /\ Free(s, Semicolon) /\ Free(s, "RETURNING")
  <2>1. s \in Seq(Fragment)
    <3>1. Used \subseteq Fragment
          BY <1>2
    <3> QED BY <3>1, SeqMonotonic
  <2>2. \A i \in 1 .. Len(s) : s[i] \in Used
        BY ElementOfSeq
  <2> QED BY <1>2, <2>1, <2>2, AllPrecede DEF Free
<1>7. /\ Precede(c, B) /\ Free(c, Semicolon) /\ c[1] # Sp
      /\ c \in Seq(Fragment) /\ Len(c) \in Nat /\ Len(c) >= 1 /\ c[Len(c)] \in B
      BY NamePrecedes DEF Name, B
<1>8. ASSUME NEW s \in Seq(Used), Len(s) >= 1, s[1] # Sp
      PROVE  /\ s \o c \in Seq(Fragment) /\ Len(s \o c) \in Nat /\ Len(s \o c) >= 1
             /\ (s \o c)[1] # Sp /\ (s \o c)[Len(s \o c)] \in B
             /\ Precede(s \o c, B) /\ Free(s \o c, Semicolon)
             /\ Free(c, "RETURNING") => Free(s \o c, "RETURNING")
  <2>1. /\ s \in Seq(Fragment) /\ Precede(s, B)
        /\ Free(s, Semicolon) /\ Free(s, "RETURNING")
        BY <1>6
  <2>2. /\ s \o c \in Seq(Fragment) /\ Precede(s \o c, B)
        /\ Len(s \o c) >= 1 /\ (s \o c)[Len(s \o c)] = c[Len(c)] /\ (s \o c)[1] = s[1]
        BY <1>7, <1>8, <2>1, Joined
  <2>3. Free(s \o c, Semicolon) /\ (Free(c, "RETURNING") => Free(s \o c, "RETURNING"))
        BY <1>7, <2>1, JoinedFree
  <2>4. Len(s \o c) \in Nat
        BY <2>2, LenProperties
  <2> QED BY <1>7, <1>8, <2>2, <2>3, <2>4
<1>9. "INTO" # Sp /\ "T" # Sp /\ "FROM" # Sp /\ "1" \in B /\ "T" \in B
      BY WordsAre DEF Words, B, WriteWords
<1>10. ASSUME kind = "insert" PROVE Good
  <2>1. rest = insert
        BY <1>5, <1>10
  <2>2. /\ insert \in Seq(Fragment) /\ Precede(insert, B)
        /\ Free(insert, Semicolon) /\ Free(insert, "RETURNING")
        BY <1>3, <1>6
  <2>3. Len(insert) \in Nat /\ Len(insert) >= 1 /\ insert[1] # Sp /\ insert[Len(insert)] \in B
        BY <1>4, <1>9
  <2> QED BY <2>1, <2>2, <2>3
<1>11. ASSUME kind = "delete" PROVE Good
  <2>1. rest = delete
        BY <1>5, <1>11
  <2>2. /\ delete \in Seq(Fragment) /\ Precede(delete, B)
        /\ Free(delete, Semicolon) /\ Free(delete, "RETURNING")
        BY <1>3, <1>6
  <2>3. Len(delete) \in Nat /\ Len(delete) >= 1 /\ delete[1] # Sp /\ delete[Len(delete)] \in B
        BY <1>4, <1>9
  <2> QED BY <2>1, <2>2, <2>3
<1>12. ASSUME kind = "upsert" PROVE Good
  <2>1. rest = upsert \o c
        BY <1>5, <1>12
  <2>2. upsert \in Seq(Used) /\ Len(upsert) >= 1 /\ upsert[1] # Sp
        BY <1>3, <1>4, <1>9
  <2>3. /\ upsert \o c \in Seq(Fragment) /\ Len(upsert \o c) \in Nat /\ Len(upsert \o c) >= 1
        /\ (upsert \o c)[1] # Sp /\ (upsert \o c)[Len(upsert \o c)] \in B
        /\ Precede(upsert \o c, B) /\ Free(upsert \o c, Semicolon)
        /\ Free(c, "RETURNING") => Free(upsert \o c, "RETURNING")
        BY <1>8, <2>2
  <2> QED BY <2>1, <2>3
<1>13. ASSUME kind = "update" PROVE Good
  <2>1. rest = update \o c
        BY <1>5, <1>13
  <2>2. update \in Seq(Used) /\ Len(update) >= 1 /\ update[1] # Sp
        BY <1>3, <1>4, <1>9
  <2>3. /\ update \o c \in Seq(Fragment) /\ Len(update \o c) \in Nat /\ Len(update \o c) >= 1
        /\ (update \o c)[1] # Sp /\ (update \o c)[Len(update \o c)] \in B
        /\ Precede(update \o c, B) /\ Free(update \o c, Semicolon)
        /\ Free(c, "RETURNING") => Free(update \o c, "RETURNING")
        BY <1>8, <2>2
  <2> QED BY <2>1, <2>3
<1>14. Good
      BY <1>10, <1>11, <1>12, <1>13
<1> QED BY <1>14 DEF rest, B

Stop(q) ==
  CASE q.end = "bare" -> << >>
    [] q.end = "semicolon" -> <<Semicolon>>
    [] OTHER -> <<Semicolon, q.outer, "DELETE", q.outer, "FROM", q.outer, "T">>

(* The end of a query is RETURNING with its column, and what stops it.     *)
LEMMA StopText ==
  ASSUME NEW q \in Queries
  PROVE  /\ Stop(q) \in Seq(Fragment) /\ Returning(q) \in Seq(Fragment)
         /\ Ending(q) = Returning(q) \o Stop(q)
         /\ q.end = "bare" => Stop(q) = << >>
         /\ q.end = "semicolon" => Stop(q) = <<Semicolon>>
         /\ q.end = "second" =>
              Stop(q) = <<Semicolon, q.outer, "DELETE", q.outer, "FROM", q.outer, "T">>
         /\ q.end \in {"bare", "semicolon", "second"}
         /\ Name(q.column)
<1>1. q.end \in {"bare", "semicolon", "second"}
      BY DEF Queries
<1>2. /\ << >> \in Seq(Fragment) /\ <<Semicolon>> \in Seq(Fragment)
      /\ <<Semicolon, q.outer, "DELETE", q.outer, "FROM", q.outer, "T">> \in Seq(Fragment)
  <2>1. q.outer \in Fragment
        BY QueriesAreTexts
  <2> QED BY <2>1, WordsAre DEF Words
<1>3. Name(q.column)
  <2>1. q.column \in Columns /\ q.column \in Seq(Fragment)
        BY QueriesAreTexts DEF Queries
  <2>2. Len(q.column) \in Nat /\ Len(q.column) >= 1
        BY <2>1, TextsAssumption, EmptySeq, LenProperties
  <2> QED BY <2>1, <2>2, TextsAssumption DEF Name
<1>4. Returning(q) \in Seq(Fragment)
  <2>1. q.outer \in WhiteSpace
        BY QueriesAreTexts
  <2> QED BY <1>3, <2>1, ReturningClean
<1>5. Ending(q) = Returning(q) \o Stop(q)
      BY DEF Ending, Returning, Stop
<1> QED BY <1>1, <1>2, <1>3, <1>4, <1>5 DEF Stop

(* A query without a WITH clause is its statement, RETURNING and the end;  *)
(* it begins with its statement's first word.                              *)
LEMMA PlainText ==
  ASSUME NEW q \in Queries, q.ctes = << >>
  PROVE  LET s == Statement(q.main, q.first, q.outer, q.column)
             r == Returning(q)
         IN /\ Text(q) = (s \o r) \o Stop(q)
            /\ s \in Seq(Fragment) /\ s \o r \in Seq(Fragment) /\ Text(q) \in Seq(Fragment)
            /\ Len(Text(q)) \in Nat /\ Len(Text(q)) >= 2
            /\ Text(q)[1] = Keyword[q.main] /\ Text(q)[2] = q.first
<1> DEFINE s == Statement(q.main, q.first, q.outer, q.column)
           r == Returning(q)
           e == Stop(q)
<1>1. /\ q.main \in DOMAIN Keyword /\ q.first \in Fragment /\ q.column \in Seq(Fragment)
      /\ q.outer \in Fragment
      /\ r \in Seq(Fragment) /\ e \in Seq(Fragment) /\ Ending(q) = r \o e
      BY QueriesAreTexts, StopText
<1>2. s \in Seq(Fragment) /\ Len(s) \in Nat /\ Len(s) >= 2
      /\ s[1] = Keyword[q.main] /\ s[2] = q.first
  <2>1. ASSUME NEW kind \in DOMAIN Keyword, NEW after \in Fragment, NEW b \in Fragment,
               NEW column \in Seq(Fragment)
        PROVE  LET t == Statement(kind, after, b, column)
               IN /\ t \in Seq(Fragment) /\ Len(t) \in Nat /\ Len(t) >= 2
                  /\ t[1] = Keyword[kind] /\ t[2] = after
    <3> DEFINE t == Statement(kind, after, b, column)
               rest == Rest(kind, b, column)
    <3>1. /\ t \in Seq(Fragment) /\ Len(rest) \in Nat /\ Len(t) = Len(rest) + 2
          /\ t[1] = Keyword[kind] /\ t[2] = after
          BY StatementStarts
    <3> HIDE DEF t, rest
    <3>2. Len(t) \in Nat /\ Len(t) >= 2
          BY <3>1
    <3> QED BY <3>1, <3>2 DEF t
  <2>2. q.main \in DOMAIN Keyword /\ q.first \in Fragment /\ q.outer \in Fragment
        BY <1>1
  <2>3. q.column \in Seq(Fragment)
        BY <1>1
  <2> QED BY <2>1, <2>2, <2>3, SMT
<1>3. Text(q) = s \o (r \o e)
      BY <1>1 DEF Text
<1> HIDE DEF s, r, e
<1>4. /\ s \o r \in Seq(Fragment) /\ Len(s \o r) = Len(s) + Len(r) /\ Len(r) \in Nat
      /\ \A k \in 1 .. Len(s) : (s \o r)[k] = s[k]
      BY <1>1, <1>2, ConcatStarts
<1> DEFINE t == s \o r
<1>5. Text(q) = t \o e
  <2>1. s \in Seq(Fragment) /\ r \in Seq(Fragment) /\ e \in Seq(Fragment)
        BY <1>1, <1>2
  <2>2. (s \o r) \o e = s \o (r \o e)
        BY <2>1, ConcatAssociative
  <2> QED BY <1>3, <2>2
<1>6. /\ t \in Seq(Fragment) /\ Len(t) \in Nat /\ Len(t) >= 2
      /\ t[1] = Keyword[q.main] /\ t[2] = q.first
      BY <1>2, <1>4
<1> HIDE DEF t
<1>7. /\ t \o e \in Seq(Fragment) /\ Len(t \o e) = Len(t) + Len(e) /\ Len(e) \in Nat
      /\ \A k \in 1 .. Len(t) : (t \o e)[k] = t[k]
      BY <1>1, <1>6, ConcatStarts
<1>8. 1 \in 1 .. Len(t) /\ 2 \in 1 .. Len(t) /\ Len(t) + Len(e) >= 2
      BY <1>6, <1>7
<1> QED BY <1>2, <1>4, <1>5, <1>6, <1>7, <1>8 DEF s, r, e, t

(* It is refused by the tools that are for other kinds.                    *)
LEMMA OtherToolRefuses ==
  ASSUME NEW q \in Queries, q.ctes = << >>, NEW type, type # Keyword[q.main]
  PROVE  /\ ~ validateWriteQuery(Text(q), type)
         /\ type = "SELECT" => ~ validateReadOnlyQuery(Text(q))
<1>1. Text(q) \in Seq(Fragment) /\ Text(q)[1] = Keyword[q.main]
      BY PlainText
<1>2. Keyword[q.main] # "WITH"
      BY QueriesAreTexts DEF Keyword
<1>3. ~ BeginsWith(Text(q), type)
      BY <1>1, FirstOfPrefix DEF BeginsWith
<1>4. ~ IsPrefix(<<"WITH", Sp>>, Text(q))
      BY <1>1, <1>2, FirstOfPrefix
<1> QED BY <1>3, <1>4 DEF validateWriteQuery, validateReadOnlyQuery

(* Two statements are refused by the write tools, and by read_query if     *)
(* there is one space between the words of the second.                     *)
LEMMA SecondRefused ==
  ASSUME NEW q \in Queries, q.ctes = << >>, q.end = "second"
  PROVE  /\ q.outer = Sp => ~ validateReadOnlyQuery(Text(q))
         /\ \A type : ~ validateWriteQuery(Text(q), type)
<1> DEFINE p == Statement(q.main, q.first, q.outer, q.column) \o Returning(q)
           o == q.outer
           e == <<Semicolon, o, "DELETE", o, "FROM", o, "T">>
<1>1. Text(q) = p \o e /\ p \in Seq(Fragment) /\ Text(q) \in Seq(Fragment)
      BY PlainText, StopText
<1>a. o \in Fragment
      BY QueriesAreTexts
<1> HIDE DEF o
<1>2. /\ e \in Seq(Fragment) /\ Len(e) = 7 /\ e[1] = Semicolon
      /\ e[3] = "DELETE" /\ e[4] = o /\ e[5] = "FROM" /\ e[7] = "T"
      BY <1>a, WordsAre DEF Words
<1> HIDE DEF p, e
<1>3. /\ Len(p) \in Nat /\ Len(p \o e) = Len(p) + 7
      /\ \A k \in 1 .. Len(p) + 7 : (p \o e)[k] = IF k <= Len(p) THEN p[k] ELSE e[k - Len(p)]
  <2>1. /\ Len(p) \in Nat /\ Len(p \o e) = Len(p) + Len(e)
        /\ \A k \in 1 .. Len(p) + Len(e) :
             (p \o e)[k] = IF k <= Len(p) THEN p[k] ELSE e[k - Len(p)]
        BY <1>1, <1>2, LenProperties, ConcatProperties
  <2> QED BY <1>2, <2>1
<1>4. ASSUME o = Sp
      PROVE  Has(Text(q), <<"DELETE", Sp, "FROM">>)
  <2>1. << >> \in Seq(Fragment) /\ 3 \in 1 .. Len(e) - 2
        BY <1>2
  <2>2. Has(p \o e \o << >>, <<e[3], e[3 + 1], e[3 + 2]>>)
        BY <1>1, <1>2, <2>1, TripleInside
  <2>3. p \o e \o << >> = p \o e
        BY <1>1, ConcatEmptySeq
  <2>4. <<e[3], e[3 + 1], e[3 + 2]>> = <<"DELETE", Sp, "FROM">>
        BY <1>2, <1>4
  <2> QED BY <1>1, <2>2, <2>3, <2>4
<1>5. ~ IsSuffix(<<Semicolon>>, Text(q))
  <2>1. Text(q)[Len(Text(q))] = "T"
        BY <1>1, <1>2, <1>3
  <2>2. "T" # Semicolon /\ Semicolon \in Fragment
        BY WordsAre DEF Words
  <2> QED BY <1>1, <2>1, <2>2, LastOfSuffix
<1>6. Has(Text(q), <<Semicolon>>)
  <2>1. Len(p) + 1 \in 1 .. Len(Text(q)) /\ Text(q)[Len(p) + 1] = Semicolon
        BY <1>1, <1>2, <1>3
  <2>2. Semicolon \in Fragment
        BY WordsAre
  <2> QED BY <1>1, <2>1, <2>2, HasOne
<1> QED BY <1>4, <1>5, <1>6 DEF validateReadOnlyQuery, validateWriteQuery, o

(* A text that ends in a semicolon, if at all, is a single statement.      *)
LEMMA SingleStatement ==
  ASSUME NEW q \in Queries, NEW p \in Seq(Fragment), Free(p, Semicolon), p # << >>,
         q.end # "second", Text(q) = p \o Stop(q)
  PROVE  LET t == Text(q)
         IN ~ Has(IF IsSuffix(<<Semicolon>>, t) THEN Front(t) ELSE t, <<Semicolon>>)
<1>1. Semicolon \in Fragment /\ Len(p) \in Nat /\ Len(p) >= 1
      BY WordsAre, LenProperties, EmptySeq
<1>2. ~ Has(p, <<Semicolon>>)
      BY <1>1, HasOne DEF Free
<1>3. CASE q.end = "bare"
  <2>1. Text(q) = p
        BY <1>3, StopText, ConcatEmptySeq
  <2>2. ~ IsSuffix(<<Semicolon>>, p)
        BY <1>1, LastOfSuffix DEF Free
  <2> QED BY <1>2, <2>1, <2>2
<1>4. CASE q.end = "semicolon"
  <2> DEFINE e == <<Semicolon>>
             t == p \o e
  <2>1. Text(q) = t
        BY <1>4, StopText
  <2>2. e \in Seq(Fragment) /\ Len(e) = 1 /\ e[1] = Semicolon
        BY <1>1
  <2> HIDE DEF e
  <2>3. /\ t \in Seq(Fragment) /\ Len(t) = Len(p) + 1
        /\ \A k \in 1 .. Len(p) + 1 : t[k] = IF k <= Len(p) THEN p[k] ELSE e[k - Len(p)]
    <3>1. /\ t \in Seq(Fragment) /\ Len(t) = Len(p) + Len(e)
          /\ \A k \in 1 .. Len(p) + Len(e) :
               t[k] = IF k <= Len(p) THEN p[k] ELSE e[k - Len(p)]
          BY <1>1, <2>2, ConcatProperties
    <3> HIDE DEF t
    <3> QED BY <2>2, <3>1
  <2> HIDE DEF t
  <2>4. Front(t) = p
    <3> DEFINE f == SubSeq(t, 1, Len(t) - 1)
    <3>1. /\ \A i \in 1 .. Len(p) : t[i] \in Fragment
          /\ Len(p) \in Int /\ Len(t) - 1 = Len(p) /\ Len(p) - 1 + 1 = Len(p)
          BY <1>1, <2>3, ElementOfSeq
    <3> DEFINE g == SubSeq(t, 1, Len(p))
    <3>2. /\ g \in Seq(Fragment) /\ Len(g) = Len(p)
          /\ \A i \in 1 .. Len(p) : g[i] = t[1 + i - 1]
          BY <1>1, <3>1, SubSeqProperties
    <3>3. f = g
          BY <3>1
    <3> HIDE DEF f, g
    <3>4. \A i \in 1 .. Len(p) : g[i] = p[i]
      <4> TAKE i \in 1 .. Len(p)
      <4>1. 1 + i - 1 = i /\ i <= Len(p) /\ i \in 1 .. Len(p) + 1
            BY <1>1
      <4> QED BY <2>3, <3>2, <4>1
    <3>5. g = p
          BY <3>2, <3>4, SeqEqual
    <3> QED BY <3>3, <3>5 DEF Front, f
  <2>5. IsSuffix(<<Semicolon>>, t)
    <3>1. t[Len(t)] = Semicolon /\ t # << >>
          BY <1>1, <2>2, <2>3, EmptySeq
    <3> QED BY <1>1, <2>3, <3>1, LastOfSuffix
  <2> QED BY <1>2, <2>1, <2>4, <2>5
<1> QED BY <1>3, <1>4, StopText

(* Its tool executes a plain statement that writes, and looks for its rows *)
(* if it has any.                                                          *)
LEMMA OwnToolWrites ==
  ASSUME NEW q \in Queries, q.ctes = << >>, q.first \in White, q.end # "second",
         q.main \in {"insert", "upsert", "update", "delete"},
         q.column[Len(q.column)] \notin Dangerous
  PROVE  /\ validateWriteQuery(Text(q), Keyword[q.main])
         /\ Free(q.column, "RETURNING") =>
              (Has(Text(q), <<"RETURNING">>) <=> q.returning)
<1> DEFINE c == q.column
           k == Keyword[q.main]
           rest == Rest(q.main, q.outer, c)
           s == Statement(q.main, q.first, q.outer, c)
           r == Returning(q)
           e == Stop(q)
           p == s \o r
           B == WriteWords \cup {c[Len(c)]}
<1>1. /\ Text(q) = p \o e
      /\ s \in Seq(Fragment) /\ p \in Seq(Fragment) /\ Text(q) \in Seq(Fragment)
      /\ Len(Text(q)) >= 2 /\ Text(q)[1] = k /\ Text(q)[2] = q.first
      BY PlainText
<1>2. /\ Name(c) /\ e \in Seq(Fragment) /\ (e = << >> \/ e = <<Semicolon>>)
      BY StopText
<1>3. /\ q.first \in Fragment /\ q.first # Semicolon /\ q.first # "RETURNING"
  <2>1. q.first \in Fragment
        BY QueriesAreTexts
  <2>2. \A w \in White : w # "RETURNING"
        BY DEF White, Sp
  <2>3. \A w \in White : w # Semicolon
        BY DEF White, Sp, Semicolon
  <2> QED BY <2>1, <2>2, <2>3
<1>4. /\ k \in WriteWords /\ k \in Fragment /\ k # Semicolon /\ k # "RETURNING"
  <2>1. k \in {"INSERT", "UPDATE", "DELETE"}
        BY DEF Keyword
  <2> QED BY <2>1, WordsAre DEF WriteWords, Words
<1>5. /\ rest \in Seq(Fragment) /\ Len(rest) \in Nat /\ Len(rest) >= 1
      /\ rest[1] # Sp /\ rest[Len(rest)] \in B
      /\ Precede(rest, B) /\ Free(rest, Semicolon)
      /\ Free(c, "RETURNING") => Free(rest, "RETURNING")
  <2>1. q.outer \in WhiteSpace /\ q.main \in {"insert", "upsert", "update", "delete"}
        BY QueriesAreTexts
  <2>2. ASSUME NEW kind \in {"insert", "upsert", "update", "delete"},
               NEW b \in WhiteSpace
        PROVE  LET t == Rest(kind, b, c)
               IN /\ t \in Seq(Fragment) /\ Len(t) \in Nat /\ Len(t) >= 1
                  /\ t[1] # Sp /\ t[Len(t)] \in B
                  /\ Precede(t, B) /\ Free(t, Semicolon)
                  /\ Free(c, "RETURNING") => Free(t, "RETURNING")
    <3>1. Name(c)
          BY <1>2
    <3> HIDE DEF c
    <3> QED BY <3>1, RestClean
  <2> HIDE DEF B, c
  <2> QED BY <2>1, <2>2, Zenon
<1>6. {"RETURNING"} \cup WhiteSpace \subseteq B /\ WriteWords \subseteq B
      BY DEF WriteWords
<1>7. /\ r \in Seq(Fragment) /\ Precede(r, B) /\ Free(r, Semicolon)
      /\ ~ q.returning => r = << >>
      /\ q.returning => Len(r) >= 3 /\ Len(r) \in Nat /\ r[2] = "RETURNING"
  <2> HIDE DEF B
  <2> QED BY <1>2, <1>6, QueriesAreTexts, ReturningClean
<1> DEFINE open == <<k, q.first>>
<1>8. s = open \o rest
      BY DEF Statement
<1>9. open \in Seq(Fragment) /\ Len(open) = 2 /\ open[1] = k /\ open[2] = q.first
      BY <1>3, <1>4
<1>10. /\ \A w \in B : w \notin Dangerous
  <2>1. \A w \in Dangerous : w \notin WriteWords
    <3>1. \A w \in Dangerous : w \notin WhiteSpace
          BY DEF Dangerous, WhiteSpace, Sp
    <3> QED BY <3>1 DEF Dangerous, WriteWords
  <2> QED BY <2>1
<1>11. p # << >>
  <2>1. Len(p) = Len(s) + Len(r) /\ Len(s) \in Nat /\ Len(r) \in Nat
        BY <1>1, <1>7, ConcatStarts
  <2>2. Len(s) = Len(open) + Len(rest)
        BY <1>5, <1>8, <1>9, ConcatStarts
  <2> HIDE DEF p, s, open
  <2> QED BY <1>5, <1>9, <2>1, <2>2
<1> HIDE DEF c, k, rest, s, r, e, p, B, open
<1>12. Precede(open, B) /\ Free(open, Semicolon) /\ Free(open, "RETURNING")
  <2>1. \A i \in 1 .. 2 : i = 1 \/ i = 2
        OBVIOUS
  <2>2. Free(open, Semicolon) /\ Free(open, "RETURNING")
        BY <1>3, <1>4, <1>9, <2>1 DEF Free
  <2>3. \A i \in 1 .. Len(open) - 1 : open[i] \in B
        BY <1>4, <1>6, <1>9
  <2> QED BY <2>2, <2>3 DEF Precede
<1>13. /\ Precede(s, B) /\ Free(s, Semicolon) /\ Len(s) >= 1 /\ s[Len(s)] \in B
       /\ Free(c, "RETURNING") => Free(s, "RETURNING")
  <2>1. Precede(s, B) /\ Len(s) >= 1 /\ s[Len(s)] = rest[Len(rest)]
        BY <1>5, <1>8, <1>9, <1>12, Joined
  <2>2. Free(s, Semicolon) /\ (Free(c, "RETURNING") => Free(s, "RETURNING"))
        BY <1>5, <1>8, <1>9, <1>12, JoinedFree
  <2> QED BY <1>5, <2>1, <2>2
<1>14. Precede(p, B) /\ Free(p, Semicolon)
  <2>1. Precede(p, B)
        BY <1>1, <1>7, <1>13, Joined DEF p
  <2>2. Free(p, Semicolon)
        BY <1>1, <1>7, <1>13, JoinedFree DEF p
  <2> QED BY <2>1, <2>2
<1>15. /\ Precede(e, B) /\ Free(e, "RETURNING") /\ (Len(e) >= 1 => e[1] # Sp)
  <2>1. CASE e = << >>
        BY <2>1 DEF Precede, Free
  <2>2. CASE e = <<Semicolon>>
    <3>1. Len(e) = 1 /\ e[1] = Semicolon
          BY <2>2
    <3>2. Semicolon # Sp
          BY WordsAre
    <3>3. "RETURNING" # Semicolon
          BY WordsAre DEF Words
    <3>4. Precede(e, B)
          BY <3>1 DEF Precede
    <3>5. Free(e, "RETURNING")
          BY <3>1, <3>3 DEF Free
    <3> QED BY <3>1, <3>2, <3>4, <3>5
  <2> QED BY <1>2, <2>1, <2>2
<1>16. Precede(Text(q), B)
      BY <1>1, <1>2, <1>14, <1>15, Joined
<1>17. ~ HasWord(Text(q), Dangerous)
  <2> SUFFICES ASSUME NEW w \in Dangerous, Has(Text(q), <<w, Sp>>) PROVE FALSE
      BY DEF HasWord
  <2>1. w \in Fragment /\ Sp \in Fragment
        BY DEF Dangerous, Fragment
  <2> DEFINE t == Text(q)
  <2>a. t \in Seq(Fragment) /\ Has(t, <<w, Sp>>)
        BY <1>1
  <2> HIDE DEF t
  <2>b. Two(t, w, Sp)
        BY <2>1, <2>a, HasTwo
  <2>2. PICK i \in 1 .. Len(t) - 1 : t[i] = w /\ t[i + 1] = Sp
        BY <2>b DEF Two
  <2>3. w \in B
        BY <1>16, <2>2 DEF Precede, t
  <2> QED BY <1>10, <2>3
<1>18. BeginsWith(Text(q), k)
  <2>1. IsPrefix(<<k, q.first>>, Text(q))
    <3>1. IsPrefix(<<Text(q)[1], Text(q)[2]>>, Text(q))
          BY <1>1, PrefixOfTwo
    <3> QED BY <1>1, <3>1
  <2> QED BY <2>1 DEF BeginsWith
<1>19. ~ Has(IF IsSuffix(<<Semicolon>>, Text(q)) THEN Front(Text(q)) ELSE Text(q),
             <<Semicolon>>)
      BY <1>1, <1>11, <1>14, SingleStatement DEF e
<1>20. validateWriteQuery(Text(q), k)
      BY <1>17, <1>18, <1>19 DEF validateWriteQuery
<1>21. ASSUME Free(c, "RETURNING")
       PROVE  Has(Text(q), <<"RETURNING">>) <=> q.returning
  <2>1. "RETURNING" \in Fragment
        BY WordsAre DEF Words
  <2>2. CASE q.returning
    <3>1. /\ Len(p) = Len(s) + Len(r) /\ Len(s) \in Nat /\ Len(r) \in Nat
          /\ \A i \in 1 .. Len(s) + Len(r) : p[i] = IF i <= Len(s) THEN s[i] ELSE r[i - Len(s)]
          BY <1>1, <1>7, LenProperties, ConcatProperties DEF p
    <3>2. Len(s) + 2 \in 1 .. Len(p) /\ p[Len(s) + 2] = "RETURNING"
          BY <1>7, <2>2, <3>1
    <3>3. Has(p, <<"RETURNING">>)
          BY <1>1, <2>1, <3>2, HasOne
    <3>4. <<"RETURNING">> \in Seq(Fragment)
          BY <2>1
    <3>5. Has(p \o e, <<"RETURNING">>)
          BY <1>1, <1>2, <3>3, <3>4, HasBefore
    <3> QED BY <1>1, <2>2, <3>5
  <2>3. CASE ~ q.returning
    <3>1. Free(r, "RETURNING")
          BY <1>7, <2>3 DEF Free
    <3>2. Free(p, "RETURNING")
          BY <1>1, <1>7, <1>13, <1>21, <3>1, JoinedFree DEF p
    <3>3. Free(p \o e, "RETURNING")
          BY <1>1, <1>2, <1>15, <3>2, JoinedFree
    <3>4. Text(q) \in Seq(Fragment) /\ Free(Text(q), "RETURNING")
          BY <1>1, <3>3
    <3>5. ~ Has(Text(q), <<"RETURNING">>)
          BY <2>1, <3>4, HasOne DEF Free
    <3> QED BY <2>3, <3>5
  <2> QED BY <2>2, <2>3
<1> QED BY <1>20, <1>21 DEF k, c

(* The words of a plain SELECT.                                            *)
ReadWords == {"SELECT", "FROM", "T", "RETURNING"} \cup WhiteSpace

(* Before the spaces of a plain SELECT there are its words, or its column, *)
(* and then FROM follows.                                                  *)
LEMMA ReadText ==
  ASSUME NEW q \in Queries, q.ctes = << >>, q.main = "select",
         q.end = "second" => q.outer # Sp
  PROVE  \A i \in 1 .. Len(Text(q)) - 1 :
           Text(q)[i + 1] = Sp =>
             \/ Text(q)[i] \in ReadWords
             \/ /\ Text(q)[i] = q.column[Len(q.column)]
                /\ Text(q)[i + 2] = "FROM"
<1> DEFINE c == q.column
           open == <<"SELECT", q.first>>
           o == q.outer
           from == <<o, "FROM", o, "T">>
           head == open \o c
           end == Ending(q)
           tail == from \o end
           B == ReadWords
<1>1. /\ "SELECT" \in Fragment /\ "FROM" \in Fragment /\ "T" \in Fragment /\ o \in Fragment
      /\ "SELECT" \in B /\ "FROM" \in B /\ "T" \in B /\ o \in B
      /\ {"RETURNING"} \cup WhiteSpace \subseteq B
      BY QueriesAreTexts, WordsAre DEF Words, ReadWords
<1>2. /\ q.first \in Fragment /\ Name(c)
      /\ Returning(q) \in Seq(Fragment) /\ Stop(q) \in Seq(Fragment)
      /\ end = Returning(q) \o Stop(q)
      /\ \/ Stop(q) = << >> \/ Stop(q) = <<Semicolon>>
         \/ o # Sp /\ Stop(q) = <<Semicolon, o, "DELETE", o, "FROM", o, "T">>
      BY StopText, QueriesAreTexts
<1>3. /\ open \in Seq(Fragment) /\ Len(open) = 2
      /\ open[1] = "SELECT" /\ open[2] = q.first
      BY <1>1, <1>2
<1>4. /\ from \in Seq(Fragment) /\ Len(from) = 4
      /\ from[1] = o /\ from[2] = "FROM" /\ from[3] = o /\ from[4] = "T"
      BY <1>1
<1>5. Text(q) = (open \o (c \o from)) \o end
  <2>1. Rest(q.main, o, c) = c \o from /\ Keyword[q.main] = "SELECT"
        BY DEF Rest, Keyword
  <2>2. Text(q) = Statement(q.main, q.first, o, c) \o end
        BY DEF Text
  <2>3. Statement(q.main, q.first, o, c) = <<Keyword[q.main], q.first>> \o Rest(q.main, o, c)
        BY DEF Statement
  <2> HIDE DEF from, c, end, o
  <2> QED BY <2>1, <2>2, <2>3
<1> HIDE DEF B, open, from, c, end, o
<1>6. Precede(open, B)
      BY <1>1, <1>3 DEF Precede
<1>7. /\ Precede(c, B) /\ c[1] # Sp /\ c \in Seq(Fragment) /\ Len(c) \in Nat /\ Len(c) >= 1
      /\ c[Len(c)] # Sp
      BY <1>2, NamePrecedes DEF Name
<1>8. /\ head \in Seq(Fragment) /\ Precede(head, B)
      /\ Len(head) >= 1 /\ head[Len(head)] = c[Len(c)]
      BY <1>3, <1>6, <1>7, Joined
<1>9. Precede(from, B)
  <2>1. \A i \in 1 .. Len(from) : from[i] \in B
    <3> TAKE i \in 1 .. Len(from)
    <3>1. i = 1 \/ i = 2 \/ i = 3 \/ i = 4
          BY <1>4
    <3> QED BY <1>1, <1>4, <3>1
  <2> QED BY <1>4, <2>1, AllPrecede
<1>10. end \in Seq(Fragment) /\ Precede(end, B)
  <2>1. q.outer \in WhiteSpace
        BY QueriesAreTexts
  <2>2. Precede(Returning(q), B)
        BY <1>1, <1>2, <2>1, ReturningClean DEF c
  <2>3. Precede(Stop(q), B) /\ (Len(Stop(q)) >= 1 => Stop(q)[1] # Sp)
    <3>1. CASE Stop(q) = << >>
          BY <3>1 DEF Precede
    <3>2. CASE Stop(q) = <<Semicolon>>
      <4>1. Len(Stop(q)) = 1 /\ Stop(q)[1] = Semicolon
            BY <3>2
      <4> QED BY <4>1, WordsAre DEF Precede
    <3>3. CASE o # Sp /\ Stop(q) = <<Semicolon, o, "DELETE", o, "FROM", o, "T">>
      <4>1. Semicolon # Sp /\ "DELETE" # Sp /\ "FROM" # Sp /\ "T" # Sp
            BY WordsAre DEF Words
      <4>2. /\ Len(Stop(q)) = 7 /\ Stop(q)[1] = Semicolon /\ Stop(q)[2] = o
            /\ Stop(q)[3] = "DELETE" /\ Stop(q)[4] = o /\ Stop(q)[5] = "FROM"
            /\ Stop(q)[6] = o /\ Stop(q)[7] = "T"
            BY <3>3
      <4>3. \A i \in 1 .. 7 : Stop(q)[i] # Sp
            BY <3>3, <4>1, <4>2
      <4>4. \A i \in 1 .. 7 - 1 : i + 1 \in 1 .. 7
            OBVIOUS
      <4> QED BY <4>2, <4>3, <4>4 DEF Precede
    <3> QED BY <1>2, <3>1, <3>2, <3>3
  <2> QED BY <1>2, <2>2, <2>3, Joined
<1>11. /\ tail \in Seq(Fragment) /\ Precede(tail, B)
       /\ tail[1] = o /\ tail[2] = "FROM" /\ Len(tail) \in Nat /\ Len(tail) >= 2
  <2>1. from[Len(from)] \in B
        BY <1>1, <1>4
  <2>2. tail \in Seq(Fragment) /\ Precede(tail, B)
        BY <1>4, <1>9, <1>10, <2>1, Joined
  <2>3. /\ Len(tail) = Len(from) + Len(end) /\ Len(end) \in Nat
        /\ \A k \in 1 .. Len(from) : tail[k] = from[k]
        BY <1>4, <1>10, ConcatStarts
  <2>4. 1 \in 1 .. Len(from) /\ 2 \in 1 .. Len(from)
        BY <1>4
  <2> HIDE DEF tail
  <2> QED BY <1>4, <2>2, <2>3, <2>4
<1> DEFINE t == head \o tail
<1>12. Text(q) = t
  <2>1. open \in Seq(Fragment) /\ c \in Seq(Fragment) /\ from \in Seq(Fragment)
        BY <1>3, <1>4, <1>7
  <2>2. open \o (c \o from) = head \o from
        BY <2>1, ConcatAssociative
  <2>3. head \in Seq(Fragment) /\ from \in Seq(Fragment) /\ end \in Seq(Fragment)
        BY <1>4, <1>8, <1>10
  <2> HIDE DEF head
  <2>4. (head \o from) \o end = head \o (from \o end)
        BY <2>3, ConcatAssociative
  <2> QED BY <1>5, <2>2, <2>4 DEF head
<1> HIDE DEF head, tail
<1>13. /\ Len(head) \in Nat /\ Len(tail) \in Nat /\ Len(t) = Len(head) + Len(tail)
       /\ \A k \in 1 .. Len(head) + Len(tail) :
            t[k] = IF k <= Len(head) THEN head[k] ELSE tail[k - Len(head)]
      BY <1>8, <1>11, LenProperties, ConcatProperties
<1> HIDE DEF t
<1>14. ASSUME NEW i \in 1 .. Len(t) - 1, t[i + 1] = Sp
       PROVE  t[i] \in B \/ (t[i] = c[Len(c)] /\ t[i + 2] = "FROM")
  <2>1. CASE i + 1 <= Len(head)
    <3>1. i \in 1 .. Len(head) - 1 /\ t[i] = head[i] /\ t[i + 1] = head[i + 1]
          BY <1>13, <2>1
    <3> QED BY <1>8, <1>14, <3>1 DEF Precede
  <2>2. CASE i = Len(head)
    <3>1. /\ i + 2 \in 1 .. Len(head) + Len(tail) /\ ~ (i + 2 <= Len(head))
          /\ (i + 2) - Len(head) = 2
          BY <1>11, <1>13, <2>2
    <3>2. t[i] = head[Len(head)] /\ t[i + 2] = tail[2]
          BY <1>13, <2>2, <3>1
    <3> QED BY <1>8, <1>11, <3>2
  <2>3. CASE i > Len(head)
    <3>1. /\ i - Len(head) \in 1 .. Len(tail) - 1 /\ t[i] = tail[i - Len(head)]
          /\ t[i + 1] = tail[(i - Len(head)) + 1]
          BY <1>13, <2>3
    <3> QED BY <1>11, <1>14, <3>1 DEF Precede
  <2> QED BY <1>13, <2>1, <2>2, <2>3
<1> QED BY <1>12, <1>14 DEF B, c

(* read_query executes a plain SELECT.                                     *)
LEMMA OwnToolReads ==
  ASSUME NEW q \in Queries, q.ctes = << >>, q.first \in White, q.main = "select",
         q.end = "second" => q.outer # Sp,
         q.column[Len(q.column)] \notin
           Dangerous \cup {"CREATE", "CALL", "EXECUTE", "DELETE", "INTO"}
  PROVE  validateReadOnlyQuery(Text(q))
<1> DEFINE t == Text(q)
           last == q.column[Len(q.column)]
           Only(w) == w \in ReadWords \/ w = last
<1>1. /\ t \in Seq(Fragment) /\ Len(t) \in Nat /\ Len(t) >= 2
      /\ t[1] = Keyword[q.main] /\ t[2] = q.first
      BY PlainText
<1>2. \A i \in 1 .. Len(t) - 1 :
        t[i + 1] = Sp => t[i] \in ReadWords \/ (t[i] = last /\ t[i + 2] = "FROM")
      BY ReadText
<1> HIDE DEF t, last
<1>3. BeginsWith(t, "SELECT")
  <2>1. t[1] = "SELECT"
        BY <1>1 DEF Keyword
  <2>2. IsPrefix(<<t[1], t[2]>>, t)
        BY <1>1, PrefixOfTwo
  <2> QED BY <1>1, <2>1, <2>2 DEF BeginsWith
<1>4. /\ \A w \in Words \cup Dangerous \cup {"CALL", "EXECUTE", "$$"} : w \in Fragment
      /\ Sp \in Fragment
      BY WordsAre DEF Dangerous, Fragment
<1>5. \A w \in {"INSERT", "DELETE", "UPDATE", "SET", "INTO", "DO", "CREATE", "CALL", "EXECUTE"}
              \cup Dangerous :
        w \notin ReadWords
  <2>1. \A w \in {"INSERT", "DELETE", "UPDATE", "SET", "INTO", "DO", "CREATE", "CALL",
                  "EXECUTE"} \cup Dangerous : w \notin WhiteSpace
        BY DEF Sp, WhiteSpace, Dangerous
  <2> QED BY <2>1 DEF ReadWords, Dangerous
<1>6. ASSUME NEW w \in Fragment, Has(t, <<w, Sp>>)
      PROVE  Only(w)
  <2>1. PICK i \in 1 .. Len(t) - 1 : t[i] = w /\ t[i + 1] = Sp
    <3>1. t \in Seq(Fragment) /\ Sp \in Fragment
          BY <1>1, <1>4
    <3>2. Two(t, w, Sp)
          BY <1>6, <3>1, HasTwo
    <3> QED BY <3>2 DEF Two
  <2> QED BY <1>2, <2>1
<1>7. ASSUME NEW w \in Fragment, NEW x \in Fragment, Has(t, <<w, Sp, x>>)
      PROVE  w \in ReadWords \/ (w = last /\ x = "FROM")
  <2>1. PICK i \in 1 .. Len(t) - 2 : t[i] = w /\ t[i + 1] = Sp /\ t[i + 2] = x
    <3>1. t \in Seq(Fragment) /\ Sp \in Fragment
          BY <1>1, <1>4
    <3>2. Three(t, w, Sp, x)
          BY <1>7, <3>1, HasThree
    <3> QED BY <3>2 DEF Three
  <2>2. i \in 1 .. Len(t) - 1
        BY <1>1
  <2> QED BY <1>2, <2>1, <2>2
<1>8. ASSUME NEW w \in Fragment, Has(t, <<Sp, w, Sp>>)
      PROVE  Only(w)
  <2>1. PICK i \in 1 .. Len(t) - 2 : t[i] = Sp /\ t[i + 1] = w /\ t[i + 2] = Sp
    <3>1. t \in Seq(Fragment) /\ Sp \in Fragment
          BY <1>1, <1>4
    <3>2. Three(t, Sp, w, Sp)
          BY <1>8, <3>1, HasThree
    <3> QED BY <3>2 DEF Three
  <2>2. i + 1 \in 1 .. Len(t) - 1 /\ (i + 1) + 1 = i + 2
        BY <1>1
  <2> QED BY <1>2, <2>1, <2>2
<1>9. \A w \in Words : w \in Fragment
      BY <1>4
<1>10. /\ "INSERT" \in Words /\ "INTO" \in Words /\ "DELETE" \in Words /\ "FROM" \in Words
       /\ "UPDATE" \in Words /\ "SET" \in Words /\ "DO" \in Words
       BY DEF Words
<1>11. ~ SelectInto(t)
  <2>1. ~ Only("INTO")
        BY <1>5 DEF last
  <2>2. ~ Has(t, <<Sp, "INTO", Sp>>)
        BY <1>8, <1>9, <1>10, <2>1
  <2> QED BY <2>2 DEF SelectInto
<1>12. ~ Has(t, <<"INSERT", Sp, "INTO">>)
       BY <1>5, <1>7, <1>9, <1>10
<1>13. ~ Has(t, <<"DELETE", Sp, "FROM">>)
  <2>1. "DELETE" # last
        BY DEF last
  <2> QED BY <1>5, <1>7, <1>9, <1>10, <2>1
<1>14. ~ (Has(t, <<"UPDATE", Sp>>) /\ Has(t, <<Sp, "SET", Sp>>))
  <2>1. Has(t, <<"UPDATE", Sp>>) => Only("UPDATE")
        BY <1>6, <1>9, <1>10
  <2>2. Has(t, <<Sp, "SET", Sp>>) => Only("SET")
        BY <1>8, <1>9, <1>10
  <2> QED BY <1>5, <2>1, <2>2
<1>15. ~ HasWord(t, Dangerous \cup {"CREATE", "CALL", "EXECUTE"})
  <2> SUFFICES ASSUME NEW w \in Dangerous \cup {"CREATE", "CALL", "EXECUTE"},
                      Has(t, <<w, Sp>>)
               PROVE  FALSE
      BY DEF HasWord
  <2>1. w \in Fragment
        BY <1>4 DEF Words
  <2>2. Only(w)
        BY <1>6, <2>1
  <2>3. w # last
        BY DEF last
  <2> QED BY <1>5, <2>2, <2>3
<1>16. ~ Has(t, <<"DO", Sp, "$$">>)
  <2>1. "$$" \in Fragment /\ "$$" # "FROM"
        BY <1>4
  <2> QED BY <1>5, <1>7, <1>9, <1>10, <2>1
<1>17. validateReadOnlyQuery(t)
       BY <1>3, <1>11, <1>12, <1>13, <1>14, <1>15, <1>16 DEF validateReadOnlyQuery
<1> QED BY <1>17 DEF t

(* The verdict is about the query that was given.                          *)
VerdictInv ==
  /\ query \in Queries
  /\ tool \in {"none", "SELECT", "INSERT", "UPDATE", "DELETE"}
  /\ tool = "none" => verdict = "none"
  /\ tool = "SELECT" =>
       verdict = IF validateReadOnlyQuery(Text(query)) THEN "query" ELSE "refused"
  /\ tool \in {"INSERT", "UPDATE", "DELETE"} =>
       verdict = IF ~ validateWriteQuery(Text(query), tool) THEN "refused"
                 ELSE IF Has(Text(query), <<"RETURNING">>) THEN "query"
                 ELSE "exec"

(* No query has been tried at first.                                       *)
LEMMA VerdictInit == ValidatorInit => VerdictInv
BY DEF ValidatorInit, VerdictInv

(* A try of either kind keeps the verdict about the query.                 *)
LEMMA VerdictNext == VerdictInv /\ [ValidatorNext]_validatorVars => VerdictInv'
<1> SUFFICES ASSUME VerdictInv, [ValidatorNext]_validatorVars
             PROVE  VerdictInv'
    OBVIOUS
<1>1. CASE handleReadQuery
      BY <1>1 DEF handleReadQuery, Verdict, VerdictInv
<1>2. ASSUME NEW type \in {"INSERT", "UPDATE", "DELETE"}, handleWriteQuery(type)
      PROVE  VerdictInv'
      BY <1>2 DEF handleWriteQuery, Verdict, VerdictInv
<1>3. CASE UNCHANGED validatorVars
      BY <1>3 DEF validatorVars, VerdictInv
<1> QED BY <1>1, <1>2, <1>3 DEF ValidatorNext

(* By the lemmas on the texts, the verdicts are those the properties ask   *)
(* for.                                                                    *)
LEMMA ReadsSound == VerdictInv => SpacedWritesAreNotRead
BY ReadsHaveNoSpacedWrites DEF VerdictInv, SpacedWritesAreNotRead, Accepted

(* A plain statement: each tool, and each end, is one of the lemmas above. *)
LEMMA PlainSound == VerdictInv => PlainStatementsByTheirTool
<1> SUFFICES ASSUME VerdictInv, tool # "none", query.ctes = << >>,
                    query.first \in White, ~ Misleading
             PROVE  verdict = IF tool # Keyword[query.main] \/ SecondFound
                              THEN "refused"
                              ELSE IF tool = "SELECT" \/ query.returning THEN "query"
                              ELSE "exec"
    BY DEF PlainStatementsByTheirTool
<1>1. /\ query \in Queries /\ tool \in {"SELECT", "INSERT", "UPDATE", "DELETE"}
      /\ query.main \in DOMAIN Keyword
      BY QueriesAreTexts DEF VerdictInv
<1>2. CASE tool # Keyword[query.main]
      BY <1>1, <1>2, OtherToolRefuses DEF VerdictInv
<1>3. CASE SecondFound
      BY <1>1, <1>3, SecondRefused DEF VerdictInv, SecondFound
<1>4. CASE tool = Keyword[query.main] /\ ~ SecondFound /\ tool = "SELECT"
  <2>1. query.main = "select"
        BY <1>1, <1>4 DEF Keyword
  <2>2. query.column[Len(query.column)] \notin
          Dangerous \cup {"CREATE", "CALL", "EXECUTE", "DELETE", "INTO"}
        BY <1>4 DEF Misleading
  <2>3. validateReadOnlyQuery(Text(query))
        BY <1>1, <1>4, <2>1, <2>2, OwnToolReads DEF SecondFound
  <2> QED BY <1>4, <2>3 DEF VerdictInv
<1>5. CASE tool = Keyword[query.main] /\ ~ SecondFound /\ tool # "SELECT"
  <2>1. query.main \in {"insert", "upsert", "update", "delete"}
        BY <1>1, <1>5 DEF Keyword
  <2>2. /\ query.column[Len(query.column)] \notin Dangerous
        /\ Free(query.column, "RETURNING")
        BY <1>5 DEF Misleading, Free
  <2>3. /\ validateWriteQuery(Text(query), tool)
        /\ Has(Text(query), <<"RETURNING">>) <=> query.returning
        BY <1>1, <1>5, <2>1, <2>2, OwnToolWrites DEF SecondFound
  <2> QED BY <1>1, <1>5, <2>3 DEF VerdictInv
<1> QED BY <1>2, <1>3, <1>4, <1>5


-----------------------------------------------------------------------------
(* A value without blanks: see IsWord.                                     *)
Word(t) == t \in Seq(Fragment) /\ t # << >> /\ \A i \in 1 .. Len(t) : t[i] # Blank

(* The assumption on the fields, in terms of fragments.                    *)
LEMMA IsWordWord == \A t : IsWord(t) => Word(t)
BY SeqMonotonic DEF IsWord, Word, Fragment

(* What pgx makes of a formatted string: the six settings of the fields,   *)
(* or five where the password is empty.                                    *)
Count(c) == IF c.password = << >> THEN 5 ELSE 6

Key(c) ==
  IF c.password = << >> THEN <<"host", "port", "user", "password", "search_path">>
  ELSE <<"host", "port", "user", "password", "dbname", "search_path">>

Value(c) ==
  IF c.password = << >>
  THEN <<c.host, Decimal[c.port], c.user, <<"dbname", Equals>> \o c.database, c.schema>>
  ELSE <<c.host, Decimal[c.port], c.user, c.password, c.database, c.schema>>

(* The keys differ from each other, from the equals sign and from a blank. *)
LEMMA Keys ==
  ASSUME NEW c
  PROVE  /\ \A i, j \in 1 .. Count(c) : Key(c)[i] = Key(c)[j] => i = j
         /\ \A i \in 1 .. Count(c) : Key(c)[i] \in Fragment /\ Key(c)[i] # Equals
                                     /\ Key(c)[i] # Blank
<1> DEFINE names == {"host", "port", "user", "password", "dbname", "search_path"}
<1>1. \A i, j \in 1 .. Count(c) : Key(c)[i] = Key(c)[j] => i = j
  <2>1. CASE c.password = << >>
        BY <2>1 DEF Key, Count
  <2>2. CASE c.password # << >>
        BY <2>2 DEF Key, Count
  <2> QED BY <2>1, <2>2
<1>2. \A i \in 1 .. Count(c) : Key(c)[i] \in names
  <2>1. CASE c.password = << >>
        BY <2>1 DEF Key, Count
  <2>2. CASE c.password # << >>
        BY <2>2 DEF Key, Count
  <2> QED BY <2>1, <2>2
<1>3. \A k \in names : k # Equals
      BY DEF Equals
<1>4. \A k \in names : k # Blank
      BY DEF Blank
<1>5. \A k \in names : k \in Fragment
      BY DEF Fragment
<1> HIDE DEF names
<1> QED BY <1>1, <1>2, <1>3, <1>4, <1>5

(* Where the parts of a setting are.                                       *)
SettingParts(s, key, value, more) ==
  LET n == Len(value)
  IN /\ s \in Seq(Fragment) /\ n \in Nat /\ Len(more) \in Nat
     /\ s[1] = key /\ s[2] = Equals
     /\ \A i \in 1 .. n : s[i + 2] = value[i]
     /\ more = << >> => Len(s) = n + 2
     /\ more # << >> => /\ Len(s) = n + 3 + Len(more)
                        /\ s[n + 3] = Blank
                        /\ \A i \in 1 .. Len(more) : s[n + 3 + i] = more[i]

(* They are there in a formatted setting.                                  *)
LEMMA SettingText ==
  ASSUME NEW key \in Fragment, NEW value \in Seq(Fragment), NEW more \in Seq(Fragment)
  PROVE  SettingParts(Setting(key, value, more), key, value, more)
<1> DEFINE s == Setting(key, value, more)
           n == Len(value)
           blank == <<Blank>>
           end == IF more = << >> THEN << >> ELSE blank \o more
           body == value \o end
<1>1. n \in Nat /\ Len(more) \in Nat
      BY LenProperties
<1>2. blank \in Seq(Fragment) /\ Len(blank) = 1 /\ blank[1] = Blank /\ Equals \in Fragment
      BY DEF Fragment
<1>3. s = <<key, Equals>> \o body
      BY DEF Setting
<1> HIDE DEF blank
<1>4. /\ blank \o more \in Seq(Fragment) /\ Len(blank \o more) = 1 + Len(more)
      /\ (blank \o more)[1] = Blank
      /\ \A i \in 1 .. Len(more) : (blank \o more)[i + 1] = more[i]
  <2>1. /\ blank \o more \in Seq(Fragment) /\ Len(blank \o more) = Len(blank) + Len(more)
        /\ \A i \in 1 .. Len(blank) + Len(more) :
             (blank \o more)[i] = IF i <= Len(blank) THEN blank[i] ELSE more[i - Len(blank)]
        BY <1>2, ConcatProperties
  <2> QED BY <1>1, <1>2, <2>1
<1>5. /\ end \in Seq(Fragment) /\ Len(end) \in Nat
      /\ more = << >> => Len(end) = 0
      /\ more # << >> => /\ Len(end) = 1 + Len(more)
                         /\ end[1] = Blank
                         /\ \A i \in 1 .. Len(more) : end[i + 1] = more[i]
      BY <1>1, <1>4
<1> HIDE DEF end
<1>6. /\ body \in Seq(Fragment) /\ Len(body) = n + Len(end)
      /\ \A i \in 1 .. n + Len(end) : body[i] = IF i <= n THEN value[i] ELSE end[i - n]
      BY <1>5, ConcatProperties
<1> HIDE DEF body, s
<1>7. /\ s \in Seq(Fragment) /\ Len(s) = Len(body) + 2
      /\ s[1] = key /\ s[2] = Equals
      /\ \A i \in 1 .. Len(body) : s[i + 2] = body[i]
      BY <1>2, <1>3, <1>6, AfterTwo
<1>8. ASSUME NEW i \in 1 .. n PROVE s[i + 2] = value[i]
  <2>1. i \in 1 .. Len(body) /\ i \in 1 .. n + Len(end)
        BY <1>1, <1>5, <1>6
  <2> QED BY <1>6, <1>7, <2>1
<1>9. ASSUME NEW i \in 1 .. Len(end) PROVE s[n + 2 + i] = end[i]
  <2>1. n + i \in 1 .. Len(body) /\ n + i \in 1 .. n + Len(end) /\ ~ (n + i <= n)
        BY <1>1, <1>5, <1>6
  <2>2. body[n + i] = end[(n + i) - n] /\ (n + i) - n = i
        BY <1>1, <1>6, <2>1
  <2>3. s[(n + i) + 2] = body[n + i] /\ (n + i) + 2 = n + 2 + i
        BY <1>1, <1>7, <2>1
  <2> QED BY <2>2, <2>3
<1>10. more = << >> => Len(s) = n + 2
      BY <1>1, <1>5, <1>6, <1>7
<1>11. ASSUME more # << >>
       PROVE  /\ Len(s) = n + 3 + Len(more)
              /\ s[n + 3] = Blank
              /\ \A i \in 1 .. Len(more) : s[n + 3 + i] = more[i]
  <2>1. Len(s) = n + 3 + Len(more)
    <3>1. Len(end) = 1 + Len(more)
          BY <1>5, <1>11
    <3> QED BY <1>1, <1>6, <1>7, <3>1
  <2>2. s[n + 3] = Blank
    <3>1. 1 \in 1 .. Len(end) /\ n + 2 + 1 = n + 3
          BY <1>1, <1>5, <1>11
    <3>2. s[n + 2 + 1] = end[1]
          BY <1>9, <3>1
    <3> QED BY <1>5, <1>11, <3>1, <3>2
  <2>3. ASSUME NEW i \in 1 .. Len(more) PROVE s[n + 3 + i] = more[i]
    <3>1. i + 1 \in 1 .. Len(end) /\ n + 2 + (i + 1) = n + 3 + i
          BY <1>1, <1>5, <1>11
    <3>2. s[n + 2 + (i + 1)] = end[i + 1]
          BY <1>9, <3>1
    <3>3. end[i + 1] = more[i]
          BY <1>5, <1>11
    <3> QED BY <3>1, <3>2, <3>3
  <2> QED BY <2>1, <2>2, <2>3
<1>12. SettingParts(s, key, value, more)
      BY <1>1, <1>7, <1>8, <1>10, <1>11 DEF SettingParts
<1> QED BY <1>12 DEF s

(* The first setting of a string is read, and nothing else: its value is   *)
(* what is up to a blank after the blanks, if any, behind the equals sign. *)
LEMMA ReadsFirst ==
  ASSUME NEW key \in Fragment, key # Equals, key # Blank, NEW value, Word(value),
         NEW lead \in {<< >>, <<Blank>>},
         NEW more \in Seq(Fragment), unread = Setting(key, lead \o value, more)
  PROVE  /\ unread # << >> /\ 2 \in 1 .. Len(unread) /\ KeyUpTo(2)
         /\ ReadSetting => settings' = Put(settings, <<key>>, value) /\ unread' = more
<1> DEFINE m == Len(lead)
           n == m + Len(value)
<1>2. /\ value \in Seq(Fragment) /\ Len(value) \in Nat /\ Len(value) >= 1
      /\ \A i \in 1 .. Len(value) : value[i] # Blank
  <2>1. value \in Seq(Fragment) /\ value # << >>
        /\ \A i \in 1 .. Len(value) : value[i] # Blank
        BY DEF Word
  <2> QED BY <2>1, EmptySeq, LenProperties
<1>a. /\ lead \in Seq(Fragment) /\ m \in {0, 1} /\ \A i \in 1 .. m : lead[i] = Blank
  <2>1. << >> \in Seq(Fragment) /\ <<Blank>> \in Seq(Fragment)
        BY DEF Fragment
  <2>2. Len(<< >>) = 0 /\ Len(<<Blank>>) = 1 /\ <<Blank>>[1] = Blank
        OBVIOUS
  <2>3. CASE lead = << >>
        BY <2>1, <2>2, <2>3
  <2>4. CASE lead = <<Blank>>
        BY <2>1, <2>2, <2>4
  <2> QED BY <2>3, <2>4
<1> HIDE DEF m
<1>b. /\ lead \o value \in Seq(Fragment) /\ Len(lead \o value) = n
      /\ \A i \in 1 .. m : (lead \o value)[i] = Blank
      /\ \A i \in m + 1 .. n : (lead \o value)[i] = value[i - m]
  <2>1. /\ lead \o value \in Seq(Fragment) /\ Len(lead \o value) = Len(lead) + Len(value)
        /\ \A i \in 1 .. Len(lead) + Len(value) :
             (lead \o value)[i] = IF i <= Len(lead) THEN lead[i] ELSE value[i - Len(lead)]
        BY <1>2, <1>a, ConcatProperties
  <2> QED BY <1>2, <1>a, <2>1 DEF m
<1> DEFINE whole == lead \o value
<1>1. /\ unread \in Seq(Fragment) /\ n \in Nat /\ Len(more) \in Nat
      /\ unread[1] = key /\ unread[2] = Equals
      /\ \A i \in 1 .. n : unread[i + 2] = whole[i]
      /\ more = << >> => Len(unread) = n + 2
      /\ more # << >> => /\ Len(unread) = n + 3 + Len(more)
                         /\ unread[n + 3] = Blank
                         /\ \A i \in 1 .. Len(more) : unread[n + 3 + i] = more[i]
  <2>1. SettingParts(unread, key, whole, more)
        BY <1>b, SettingText
  <2> HIDE DEF whole
  <2> QED BY <1>b, <2>1 DEF SettingParts, whole
<1>c. /\ \A i \in 1 .. m : unread[i + 2] = Blank
      /\ \A i \in 1 .. Len(value) : unread[m + 2 + i] = value[i] /\ value[i] # Blank
      /\ n = m + Len(value) /\ n >= m + 1 /\ n \in Nat
  <2>1. n = m + Len(value) /\ n >= m + 1 /\ n \in Nat
        BY <1>2, <1>a
  <2>2. ASSUME NEW i \in 1 .. m PROVE unread[i + 2] = Blank
    <3>1. i \in 1 .. n
          BY <1>2, <1>a
    <3> QED BY <1>1, <1>b, <3>1
  <2>3. ASSUME NEW i \in 1 .. Len(value) PROVE unread[m + 2 + i] = value[i]
    <3>1. /\ m + i \in 1 .. n /\ m + i \in m + 1 .. n
          /\ (m + i) + 2 = m + 2 + i /\ (m + i) - m = i
          BY <1>2, <1>a
    <3>2. unread[(m + i) + 2] = whole[m + i] /\ whole[m + i] = value[(m + i) - m]
          BY <1>1, <1>b, <3>1
    <3> QED BY <3>1, <3>2
  <2> QED BY <1>2, <2>1, <2>2, <2>3
<1> HIDE DEF n, whole
<1>3. Len(unread) \in Nat /\ Len(unread) >= n + 2
      BY <1>1, <1>c
<1>4. Trim(SubSeq(unread, 1, 1)) = <<key>>
  <2> DEFINE t == SubSeq(unread, 1, 1)
             words == {i \in 1 .. Len(t) : t[i] # Blank}
  <2>1. t \in Seq(Fragment) /\ Len(t) = 1 /\ t[1] = key
    <3>1. \A i \in 1 .. 1 : unread[i] \in Fragment
          BY <1>1
    <3>2. /\ t \in Seq(Fragment) /\ Len(t) = 1 - 1 + 1
          /\ \A i \in 1 .. 1 - 1 + 1 : t[i] = unread[1 + i - 1]
          BY <3>1, SubSeqProperties
    <3> QED BY <1>1, <3>2
  <2> HIDE DEF t
  <2>2. words = {1}
        BY <2>1
  <2> HIDE DEF words
  <2>3. Min(words) = 1 /\ Max(words) = 1
        BY <2>2 DEF Min, Max
  <2>4. Trim(t) = SubSeq(t, 1, 1)
        BY <2>2, <2>3 DEF Trim, words
  <2>5. SubSeq(t, 1, 1) = <<key>>
    <3>1. SubSeq(t, 1, 1) = t
          BY <2>1, SubSeqFull
    <3>2. <<key>> \in Seq(Fragment) /\ Len(<<key>>) = 1 /\ <<key>>[1] = key
          OBVIOUS
    <3>3. t = <<key>>
          BY <2>1, <3>2, SeqEqual
    <3> QED BY <3>1, <3>3
  <2> QED BY <2>4, <2>5 DEF t
<1>5. WordFrom(unread, 3) = m + 3
  <2> DEFINE P(j) == /\ \A k \in 3 .. j - 1 : unread[k] = Blank
                     /\ j <= Len(unread) => unread[j] # Blank
  <2>1. unread[m + 3] # Blank
    <3>1. 1 \in 1 .. Len(value) /\ m + 2 + 1 = m + 3
          BY <1>2, <1>a
    <3>2. unread[m + 2 + 1] = value[1] /\ value[1] # Blank
          BY <1>c, <3>1
    <3> QED BY <3>1, <3>2
  <2>2. \A k \in 3 .. m + 2 : unread[k] = Blank
    <3> TAKE k \in 3 .. m + 2
    <3>1. k - 2 \in 1 .. m /\ (k - 2) + 2 = k
          BY <1>a
    <3>2. unread[(k - 2) + 2] = Blank
          BY <1>c, <3>1
    <3> QED BY <3>1, <3>2
  <2>3. P(m + 3) /\ m + 3 \in 3 .. Len(unread) + 1
        BY <1>3, <1>a, <1>c, <2>1, <2>2
  <2>4. ASSUME NEW j \in 3 .. Len(unread) + 1, P(j) PROVE j = m + 3
    <3>1. ~ (j < m + 3)
      <4> SUFFICES ASSUME j < m + 3 PROVE FALSE
          OBVIOUS
      <4>1. unread[j] = Blank /\ j <= Len(unread)
            BY <1>3, <1>a, <1>c, <2>2
      <4> QED BY <2>4, <4>1
    <3>2. ~ (j > m + 3)
          BY <1>3, <1>a, <2>1, <2>4
    <3> QED BY <1>a, <3>1, <3>2
  <2> QED BY <2>3, <2>4 DEF WordFrom
<1>6. BlankFrom(unread, m + 3) = n + 3
  <2> DEFINE P(j) == /\ \A k \in m + 3 .. j - 1 : unread[k] # Blank
                     /\ j <= Len(unread) => unread[j] = Blank
  <2>1. \A k \in m + 3 .. n + 2 : unread[k] # Blank
    <3> TAKE k \in m + 3 .. n + 2
    <3>1. k - (m + 2) \in 1 .. Len(value) /\ m + 2 + (k - (m + 2)) = k
          BY <1>2, <1>a, <1>c
    <3>2. unread[m + 2 + (k - (m + 2))] # Blank
          BY <1>c, <3>1
    <3> QED BY <3>1, <3>2
  <2>2. n + 3 <= Len(unread) => unread[n + 3] = Blank
        BY <1>1
  <2>3. P(n + 3) /\ n + 3 \in m + 3 .. Len(unread) + 1
        BY <1>3, <1>a, <1>c, <2>1, <2>2
  <2>4. ASSUME NEW j \in m + 3 .. Len(unread) + 1, P(j) PROVE j = n + 3
    <3>1. ~ (j < n + 3)
      <4> SUFFICES ASSUME j < n + 3 PROVE FALSE
          OBVIOUS
      <4>1. unread[j] # Blank /\ j <= Len(unread)
            BY <1>3, <1>a, <1>c, <2>1
      <4> QED BY <2>4, <4>1
    <3>2. ~ (j > n + 3)
      <4> SUFFICES ASSUME j > n + 3 PROVE FALSE
          OBVIOUS
      <4>1. n + 3 \in m + 3 .. j - 1 /\ n + 3 <= Len(unread)
            BY <1>3, <1>a, <1>c
      <4> QED BY <2>2, <2>4, <4>1
    <3> QED BY <1>a, <1>c, <3>1, <3>2
  <2> QED BY <2>3, <2>4 DEF BlankFrom
<1>7. SubSeq(unread, m + 3, n + 2) = value
  <2> DEFINE t == SubSeq(unread, m + 3, n + 2)
  <2>1. \A i \in m + 3 .. n + 2 : unread[i] \in Fragment
        BY <1>1, <1>3, <1>a, <1>c, ElementOfSeq
  <2>2. /\ t \in Seq(Fragment) /\ Len(t) = Len(value)
        /\ \A i \in 1 .. Len(value) : t[i] = unread[(m + 3) + i - 1]
    <3>1. /\ m + 3 \in Int /\ n + 2 \in Int /\ m + 3 <= n + 2
          /\ (n + 2) - (m + 3) + 1 = Len(value)
          BY <1>2, <1>a, <1>c
    <3> QED BY <2>1, <3>1, SubSeqProperties
  <2> HIDE DEF t
  <2>3. \A i \in 1 .. Len(value) : t[i] = value[i]
    <3> TAKE i \in 1 .. Len(value)
    <3>1. (m + 3) + i - 1 = m + 2 + i
          BY <1>2, <1>a
    <3>2. unread[m + 2 + i] = value[i]
          BY <1>c
    <3> QED BY <2>2, <3>1, <3>2
  <2> QED BY <1>2, <2>2, <2>3, SeqEqual DEF t
<1>8. SubSeq(unread, n + 4, Len(unread)) = more
  <2>1. CASE more = << >>
    <3>1. Len(unread) \in Int /\ n + 4 \in Int /\ Len(unread) < n + 4
          BY <1>1, <2>1
    <3> QED BY <2>1, <3>1, SubSeqEmpty
  <2>2. CASE more # << >>
    <3> DEFINE t == SubSeq(unread, n + 4, Len(unread))
    <3>1. \A i \in n + 4 .. Len(unread) : unread[i] \in Fragment
          BY <1>1, <1>3, ElementOfSeq
    <3>2. /\ Len(unread) \in Int /\ n + 4 \in Int
          /\ Len(unread) = n + 3 + Len(more) /\ Len(more) >= 1
          /\ Len(unread) - (n + 4) + 1 = Len(more)
      <4>1. Len(more) >= 1
            BY <1>1, <2>2, EmptySeq
      <4> QED BY <1>1, <2>2, <4>1
    <3>3. /\ t \in Seq(Fragment) /\ Len(t) = Len(more)
          /\ \A i \in 1 .. Len(more) : t[i] = unread[(n + 4) + i - 1]
          BY <3>1, <3>2, SubSeqProperties
    <3> HIDE DEF t
    <3>4. \A i \in 1 .. Len(more) : t[i] = more[i]
      <4> TAKE i \in 1 .. Len(more)
      <4>1. (n + 4) + i - 1 = n + 3 + i
            BY <1>1
      <4> QED BY <1>1, <2>2, <3>3, <4>1
    <3> QED BY <3>3, <3>4, SeqEqual DEF t
  <2> QED BY <2>1, <2>2
<1>9. <<key>> # << >>
      OBVIOUS
<1>10. 2 \in 1 .. Len(unread) /\ unread # << >> /\ KeyUpTo(2)
  <2>1. 2 \in 1 .. Len(unread)
        BY <1>1, <1>3
  <2>2. \A i \in 1 .. 2 - 1 : unread[i] # Equals
        BY <1>1
  <2>3. Trim(SubSeq(unread, 1, 2 - 1)) # << >>
    <3>1. 2 - 1 = 1
          OBVIOUS
    <3>2. Trim(SubSeq(unread, 1, 1)) # << >>
          BY <1>4, <1>9, Zenon
    <3> QED BY <3>1, <3>2, Zenon
  <2>4. unread # << >>
        BY <1>1, <2>1, EmptySeq
  <2> QED BY <1>1, <2>1, <2>2, <2>3, <2>4 DEF KeyUpTo
<1>11. ASSUME NEW eq \in 1 .. Len(unread), KeyUpTo(eq) PROVE eq = 2
  <2>1. eq # 1
        BY <1>1, <1>11 DEF KeyUpTo
  <2>2. ~ (eq > 2)
        BY <1>1, <1>3, <1>11 DEF KeyUpTo
  <2> QED BY <1>3, <2>1, <2>2
<1>12. ASSUME ReadSetting
       PROVE  settings' = Put(settings, <<key>>, value) /\ unread' = more
  <2>1. PICK eq \in 1 .. Len(unread) :
          /\ KeyUpTo(eq)
          /\ settings' = Put(settings, Trim(SubSeq(unread, 1, eq - 1)),
                SubSeq(unread, WordFrom(unread, eq + 1),
                       BlankFrom(unread, WordFrom(unread, eq + 1)) - 1))
          /\ unread' = SubSeq(unread, BlankFrom(unread, WordFrom(unread, eq + 1)) + 1, Len(unread))
        BY <1>12 DEF ReadSetting
  <2>2. eq = 2 /\ eq - 1 = 1 /\ eq + 1 = 3
        BY <1>11, <2>1
  <2>3. WordFrom(unread, eq + 1) = m + 3
        BY <1>5, <2>2
  <2>4. /\ BlankFrom(unread, WordFrom(unread, eq + 1)) - 1 = n + 2
        /\ BlankFrom(unread, WordFrom(unread, eq + 1)) + 1 = n + 4
        BY <1>1, <1>6, <2>3
  <2>5. settings' = Put(settings, Trim(SubSeq(unread, 1, 1)), SubSeq(unread, m + 3, n + 2))
        BY <2>1, <2>2, <2>3, <2>4
  <2>6. unread' = SubSeq(unread, n + 4, Len(unread))
        BY <2>1, <2>4
  <2> QED BY <1>4, <1>7, <1>8, <2>5, <2>6
<1> QED BY <1>10, <1>12

(* What is left of the string when the first k - 1 of its settings have    *)
(* been read; and the blank before the value of an empty password.         *)
Left(c) ==
  LET path == SearchPath(c.schema)
      dbname == Setting("dbname", c.database, path)
      password == Setting("password", c.password, dbname)
      user == Setting("user", c.user, password)
      port == Setting("port", Decimal[c.port], user)
      host == Setting("host", c.host, port)
  IN IF c.password = << >> THEN <<host, port, user, password, path, << >> >>
     ELSE <<host, port, user, password, dbname, path, << >> >>

Lead(c, k) == IF c.password = << >> /\ k = 4 THEN <<Blank>> ELSE << >>

Texts(a, b, c) == a \in Seq(Fragment) /\ b \in Seq(Fragment) /\ c \in Seq(Fragment)

Associate(a, b, c) == (a \o b) \o c = a \o (b \o c)

LEMMA ThreeJoined == \A a, b, c : Texts(a, b, c) => Associate(a, b, c)
BY ConcatAssociative DEF Texts, Associate

LEMMA FourJoined ==
  ASSUME NEW a, NEW b, NEW c, NEW d, Texts(a, b, c), Texts(b, c, d)
  PROVE  (a \o (b \o c)) \o d = a \o (b \o (c \o d))
<1> DEFINE bc == b \o c
<1>1. Texts(a, bc, d)
      BY ConcatStarts DEF Texts
<1> HIDE DEF bc
<1>2. Associate(b, c, d) /\ Associate(a, bc, d)
      BY <1>1, ThreeJoined, Zenon
<1>3. (a \o bc) \o d = a \o (bc \o d)
      BY <1>2, Zenon DEF Associate
<1>4. bc \o d = b \o (c \o d)
      BY <1>2, Zenon DEF Associate, bc
<1> QED BY <1>3, <1>4, Zenon DEF bc

(* An empty password, with the setting after it, is a setting of its own:  *)
(* that of a password.                                                     *)
LEMMA EmptyPassword ==
  ASSUME NEW database \in Seq(Fragment), NEW path \in Seq(Fragment), path # << >>
  PROVE  LET value == <<"dbname", Equals>> \o database
         IN Setting("password", << >>, Setting("dbname", database, path))
              = Setting("password", <<Blank>> \o value, path)
<1> DEFINE blank == <<Blank>>
           names == <<"dbname", Equals>>
           after == blank \o path
           dbname == names \o (database \o after)
<1>1. blank \in Seq(Fragment) /\ names \in Seq(Fragment) /\ Len(names) = 2
      BY DEF Fragment
<1>2. Setting("dbname", database, path) = dbname
      BY DEF Setting
<1>3. Setting("password", blank \o (names \o database), path)
        = <<"password", Equals>> \o ((blank \o (names \o database)) \o after)
      BY DEF Setting
<1> HIDE DEF blank, names
<1>4. after \in Seq(Fragment)
      BY <1>1, ConcatStarts
<1> HIDE DEF after
<1>5. blank \o dbname = (blank \o (names \o database)) \o after
  <2>1. Texts(blank, names, database) /\ Texts(names, database, after)
        BY <1>1, <1>4 DEF Texts
  <2> QED BY <2>1, FourJoined
<1> DEFINE rest == database \o after
<1>6. rest \in Seq(Fragment) /\ Len(rest) \in Nat
  <2>1. rest \in Seq(Fragment)
        BY <1>4, ConcatStarts
  <2> HIDE DEF rest
  <2> QED BY <2>1, LenProperties
<1> HIDE DEF rest
<1>7. names \o rest \in Seq(Fragment) /\ Len(names \o rest) = 2 + Len(rest)
  <2>1. /\ names \o rest \in Seq(Fragment)
        /\ Len(names \o rest) = Len(names) + Len(rest)
        BY <1>1, <1>6, ConcatStarts, Zenon
  <2> QED BY <1>1, <2>1, Zenon
<1>8. dbname \in Seq(Fragment) /\ dbname # << >>
  <2>1. names \o rest # << >>
        BY <1>6, <1>7
  <2> QED BY <1>7, <2>1 DEF rest
<1> HIDE DEF dbname
<1>9. blank \o dbname \in Seq(Fragment)
      BY <1>1, <1>8, ConcatStarts
<1> DEFINE whole == blank \o dbname
<1>10. << >> \o whole = whole
      BY <1>9, ConcatEmptySeq
<1>11. Setting("password", << >>, dbname) = <<"password", Equals>> \o (<< >> \o whole)
      BY <1>8 DEF Setting, blank
<1> HIDE DEF whole
<1>12. Setting("password", << >>, dbname) = <<"password", Equals>> \o whole
      BY <1>10, <1>11
<1> QED BY <1>2, <1>3, <1>5, <1>12 DEF whole, names, blank

(* The values are words.                                                   *)
Loadable(c) ==
  /\ Word(c.host) /\ Word(c.user) /\ Word(c.database) /\ Word(c.schema)
  /\ Word(Decimal[c.port])
  /\ c.password = << >> \/ Word(c.password)

LEMMA ValueWords ==
  ASSUME NEW c, Loadable(c)
  PROVE  \A k \in 1 .. Count(c) : Word(Value(c)[k])
<1>1. CASE c.password = << >>
  <2> DEFINE names == <<"dbname", Equals>>
             v == names \o c.database
  <2>1. Word(v)
    <3>1. /\ names \in Seq(Fragment) /\ Len(names) = 2
          /\ names[1] # Blank /\ names[2] # Blank
      <4>1. "dbname" # Blank
            BY DEF Blank
      <4>2. Equals # Blank
            BY DEF Equals, Blank
      <4>3. names \in Seq(Fragment)
            BY DEF Fragment
      <4> QED BY <4>1, <4>2, <4>3
    <3>2. /\ c.database \in Seq(Fragment) /\ Len(c.database) \in Nat
          /\ \A i \in 1 .. Len(c.database) : c.database[i] # Blank
          BY LenProperties DEF Loadable, Word
    <3> HIDE DEF names
    <3>3. /\ v \in Seq(Fragment) /\ Len(v) = Len(names) + Len(c.database)
          /\ \A i \in 1 .. Len(names) + Len(c.database) :
               v[i] = IF i <= Len(names) THEN names[i] ELSE c.database[i - Len(names)]
          BY <3>1, <3>2, ConcatProperties
    <3> HIDE DEF v
    <3>4. ASSUME NEW i \in 1 .. Len(v) PROVE v[i] # Blank
      <4>1. CASE i = 1 \/ i = 2
            BY <3>1, <3>2, <3>3, <4>1
      <4>2. CASE i > 2
        <5>1. i - 2 \in 1 .. Len(c.database) /\ i \in 1 .. Len(names) + Len(c.database)
              BY <3>1, <3>2, <3>3, <4>2
        <5>2. v[i] = c.database[i - 2]
              BY <3>1, <3>3, <4>2, <5>1
        <5> QED BY <3>2, <5>1, <5>2
      <4> QED BY <3>2, <3>3, <4>1, <4>2
    <3>5. v # << >>
          BY <3>1, <3>2, <3>3, EmptySeq
    <3> QED BY <3>3, <3>4, <3>5 DEF Word
  <2> HIDE DEF v
  <2>2. Value(c) = <<c.host, Decimal[c.port], c.user, v, c.schema>> /\ Count(c) = 5
        BY <1>1 DEF Value, Count, v
  <2>3. /\ Value(c)[1] = c.host /\ Value(c)[2] = Decimal[c.port] /\ Value(c)[3] = c.user
        /\ Value(c)[4] = v /\ Value(c)[5] = c.schema
        BY <2>2
  <2> HIDE DEF Word
  <2>4. /\ Word(Value(c)[1]) /\ Word(Value(c)[2]) /\ Word(Value(c)[3])
        /\ Word(Value(c)[4]) /\ Word(Value(c)[5])
        BY <2>1, <2>3 DEF Loadable
  <2> QED BY <2>2, <2>4
<1>2. CASE c.password # << >>
  <2>2. /\ Value(c) = <<c.host, Decimal[c.port], c.user, c.password, c.database, c.schema>>
        /\ Count(c) = 6
        BY <1>2 DEF Value, Count
  <2>3. /\ Value(c)[1] = c.host /\ Value(c)[2] = Decimal[c.port] /\ Value(c)[3] = c.user
        /\ Value(c)[4] = c.password /\ Value(c)[5] = c.database /\ Value(c)[6] = c.schema
        BY <2>2
  <2> HIDE DEF Word
  <2>4. /\ Word(Value(c)[1]) /\ Word(Value(c)[2]) /\ Word(Value(c)[3])
        /\ Word(Value(c)[4]) /\ Word(Value(c)[5]) /\ Word(Value(c)[6])
        BY <1>2, <2>3 DEF Loadable
  <2> QED BY <2>2, <2>4
<1> QED BY <1>1, <1>2

(* What is left of the string is formatted setting by setting.             *)
LEMMA LeftOf ==
  ASSUME NEW c, Loadable(c)
  PROVE  /\ Left(c)[1] = Formatted(c, SearchPath(c.schema))
         /\ \A k \in 1 .. Count(c) :
              /\ Left(c)[k] = Setting(Key(c)[k], Lead(c, k) \o Value(c)[k], Left(c)[k + 1])
              /\ Lead(c, k) \in {<< >>, <<Blank>>}
              /\ Left(c)[k + 1] \in Seq(Fragment)
         /\ Left(c)[Count(c) + 1] = << >>
<1> DEFINE n == Count(c)
           path == SearchPath(c.schema)
           dbname == Setting("dbname", c.database, path)
           password == Setting("password", c.password, dbname)
           user == Setting("user", c.user, password)
           port == Setting("port", Decimal[c.port], user)
<1>1. Left(c)[1] = Formatted(c, SearchPath(c.schema))
      BY DEF Left, Formatted
<1>2. /\ "host" \in Fragment /\ "port" \in Fragment /\ "user" \in Fragment
      /\ "password" \in Fragment /\ "dbname" \in Fragment /\ "search_path" \in Fragment
      /\ << >> \in Seq(Fragment)
      BY DEF Fragment
<1>3. /\ c.host \in Seq(Fragment) /\ c.user \in Seq(Fragment) /\ c.database \in Seq(Fragment)
      /\ c.schema \in Seq(Fragment) /\ Decimal[c.port] \in Seq(Fragment)
      /\ c.password \in Seq(Fragment)
  <2>1. \A v : Word(v) => v \in Seq(Fragment)
        BY DEF Word
  <2> HIDE DEF Word
  <2> QED BY <1>2, <2>1 DEF Loadable
<1>4. ASSUME NEW key \in Fragment, NEW value \in Seq(Fragment), NEW more \in Seq(Fragment)
      PROVE  Setting(key, value, more) \in Seq(Fragment)
      BY SettingText DEF SettingParts
<1>5. path \in Seq(Fragment) /\ path # << >>
  <2>1. SettingParts(path, "search_path", c.schema, << >>)
        BY <1>2, <1>3, SettingText DEF SearchPath
  <2>2. path \in Seq(Fragment) /\ Len(path) = Len(c.schema) + 2 /\ Len(c.schema) \in Nat
        BY <2>1 DEF SettingParts
  <2> HIDE DEF path
  <2> QED BY <2>2, EmptySeq
<1>6. /\ port \in Seq(Fragment) /\ user \in Seq(Fragment)
      /\ password \in Seq(Fragment) /\ dbname \in Seq(Fragment)
  <2>1. dbname \in Seq(Fragment)
        BY <1>2, <1>3, <1>4, <1>5
  <2>2. password \in Seq(Fragment)
        BY <1>2, <1>3, <1>4, <2>1
  <2>3. user \in Seq(Fragment)
        BY <1>2, <1>3, <1>4, <2>2
  <2>4. port \in Seq(Fragment)
        BY <1>2, <1>3, <1>4, <2>3
  <2> QED BY <2>1, <2>2, <2>3, <2>4
<1>7. ASSUME NEW v \in Seq(Fragment) PROVE << >> \o v = v
      BY ConcatEmptySeq
<1>8. \A k \in 1 .. n : Lead(c, k) \in {<< >>, <<Blank>>}
      BY DEF Lead
<1>9. path = Setting("search_path", c.schema, << >>)
      BY DEF SearchPath
<1>10. CASE c.password = << >>
  <2> DEFINE v == <<"dbname", Equals>> \o c.database
  <2>1. password = Setting("password", <<Blank>> \o v, path)
        BY <1>3, <1>5, <1>10, EmptyPassword
  <2>2. /\ Left(c) = <<Setting("host", c.host, port), port, user, password, path, << >> >>
        /\ n = 5
        BY <1>10 DEF Left, Count
  <2> HIDE DEF v, path, dbname, password, user, port
  <2>3. /\ Left(c)[1] = Setting("host", c.host, port) /\ Left(c)[2] = port
        /\ Left(c)[3] = user /\ Left(c)[4] = password /\ Left(c)[5] = path
        /\ Left(c)[6] = << >>
        BY <2>2
  <2>4. /\ Key(c)[1] = "host" /\ Key(c)[2] = "port" /\ Key(c)[3] = "user"
        /\ Key(c)[4] = "password" /\ Key(c)[5] = "search_path"
        BY <1>10 DEF Key
  <2>5. /\ Value(c)[1] = c.host /\ Value(c)[2] = Decimal[c.port] /\ Value(c)[3] = c.user
        /\ Value(c)[4] = v /\ Value(c)[5] = c.schema
        BY <1>10 DEF Value, v
  <2>6. /\ Lead(c, 1) = << >> /\ Lead(c, 2) = << >> /\ Lead(c, 3) = << >>
        /\ Lead(c, 4) = <<Blank>> /\ Lead(c, 5) = << >>
        BY <1>10 DEF Lead
  <2> DEFINE led(k) == Lead(c, k) \o Value(c)[k]
  <2>7. /\ led(1) = c.host /\ led(2) = Decimal[c.port] /\ led(3) = c.user
        /\ led(4) = <<Blank>> \o v /\ led(5) = c.schema
        BY <1>3, <1>7, <2>5, <2>6
  <2> HIDE DEF led
  <2>8. /\ port = Setting("port", Decimal[c.port], user)
        /\ user = Setting("user", c.user, password)
        BY DEF port, user
  <2>9. /\ Left(c)[1] = Setting(Key(c)[1], led(1), Left(c)[2])
        /\ Left(c)[2] = Setting(Key(c)[2], led(2), Left(c)[3])
        /\ Left(c)[3] = Setting(Key(c)[3], led(3), Left(c)[4])
        /\ Left(c)[4] = Setting(Key(c)[4], led(4), Left(c)[5])
        /\ Left(c)[5] = Setting(Key(c)[5], led(5), Left(c)[6])
        BY <1>9, <2>1, <2>3, <2>4, <2>7, <2>8
  <2>10. /\ Left(c)[2] \in Seq(Fragment) /\ Left(c)[3] \in Seq(Fragment)
         /\ Left(c)[4] \in Seq(Fragment) /\ Left(c)[5] \in Seq(Fragment)
         /\ Left(c)[6] \in Seq(Fragment)
        BY <1>2, <1>5, <1>6, <2>3
  <2>11. ASSUME NEW k \in 1 .. 5
         PROVE  /\ Left(c)[k] = Setting(Key(c)[k], led(k), Left(c)[k + 1])
                /\ Left(c)[k + 1] \in Seq(Fragment)
    <3>1. /\ 1 + 1 = 2 /\ 2 + 1 = 3 /\ 3 + 1 = 4 /\ 4 + 1 = 5 /\ 5 + 1 = 6
          /\ k = 1 \/ k = 2 \/ k = 3 \/ k = 4 \/ k = 5
          OBVIOUS
    <3> QED BY <2>9, <2>10, <3>1, Zenon
  <2> QED BY <1>1, <1>8, <2>2, <2>3, <2>11 DEF led
<1>11. CASE c.password # << >>
  <2>2. /\ Left(c) = <<Setting("host", c.host, port), port, user, password, dbname, path, << >> >>
        /\ n = 6
        BY <1>11 DEF Left, Count
  <2> HIDE DEF path, dbname, password, user, port
  <2>3. /\ Left(c)[1] = Setting("host", c.host, port) /\ Left(c)[2] = port
        /\ Left(c)[3] = user /\ Left(c)[4] = password /\ Left(c)[5] = dbname
        /\ Left(c)[6] = path /\ Left(c)[7] = << >>
        BY <2>2
  <2>4. /\ Key(c)[1] = "host" /\ Key(c)[2] = "port" /\ Key(c)[3] = "user"
        /\ Key(c)[4] = "password" /\ Key(c)[5] = "dbname" /\ Key(c)[6] = "search_path"
        BY <1>11 DEF Key
  <2>5. /\ Value(c)[1] = c.host /\ Value(c)[2] = Decimal[c.port] /\ Value(c)[3] = c.user
        /\ Value(c)[4] = c.password /\ Value(c)[5] = c.database /\ Value(c)[6] = c.schema
        BY <1>11 DEF Value
  <2>6. /\ Value(c)[1] \in Seq(Fragment) /\ Value(c)[2] \in Seq(Fragment)
        /\ Value(c)[3] \in Seq(Fragment) /\ Value(c)[4] \in Seq(Fragment)
        /\ Value(c)[5] \in Seq(Fragment) /\ Value(c)[6] \in Seq(Fragment)
        BY <1>3, <2>5
  <2>7. ASSUME NEW k \in 1 .. 6 PROVE Lead(c, k) \o Value(c)[k] = Value(c)[k]
    <3>1. Lead(c, k) = << >>
          BY <1>11 DEF Lead
    <3>2. Value(c)[k] \in Seq(Fragment)
          BY <2>6
    <3> QED BY <1>7, <3>1, <3>2
  <2>8. /\ port = Setting("port", Decimal[c.port], user)
        /\ user = Setting("user", c.user, password)
        /\ password = Setting("password", c.password, dbname)
        /\ dbname = Setting("dbname", c.database, path)
        BY DEF port, user, password, dbname
  <2>9. /\ Left(c)[1] = Setting(Key(c)[1], Value(c)[1], Left(c)[2])
        /\ Left(c)[2] = Setting(Key(c)[2], Value(c)[2], Left(c)[3])
        /\ Left(c)[3] = Setting(Key(c)[3], Value(c)[3], Left(c)[4])
        /\ Left(c)[4] = Setting(Key(c)[4], Value(c)[4], Left(c)[5])
        /\ Left(c)[5] = Setting(Key(c)[5], Value(c)[5], Left(c)[6])
        /\ Left(c)[6] = Setting(Key(c)[6], Value(c)[6], Left(c)[7])
        BY <1>9, <2>3, <2>4, <2>5, <2>8
  <2>10. /\ Left(c)[2] \in Seq(Fragment) /\ Left(c)[3] \in Seq(Fragment)
         /\ Left(c)[4] \in Seq(Fragment) /\ Left(c)[5] \in Seq(Fragment)
         /\ Left(c)[6] \in Seq(Fragment) /\ Left(c)[7] \in Seq(Fragment)
        BY <1>2, <1>5, <1>6, <2>3
  <2>11. ASSUME NEW k \in 1 .. 6
         PROVE  /\ Left(c)[k] = Setting(Key(c)[k], Value(c)[k], Left(c)[k + 1])
                /\ Left(c)[k + 1] \in Seq(Fragment)
    <3>1. /\ 1 + 1 = 2 /\ 2 + 1 = 3 /\ 3 + 1 = 4 /\ 4 + 1 = 5 /\ 5 + 1 = 6 /\ 6 + 1 = 7
          /\ k = 1 \/ k = 2 \/ k = 3 \/ k = 4 \/ k = 5 \/ k = 6
          OBVIOUS
    <3> QED BY <2>9, <2>10, <3>1, Zenon
  <2>12. \A k \in 1 .. n :
           /\ Left(c)[k] = Setting(Key(c)[k], Lead(c, k) \o Value(c)[k], Left(c)[k + 1])
           /\ Left(c)[k + 1] \in Seq(Fragment)
    <3> TAKE k \in 1 .. n
    <3>1. k \in 1 .. 6
          BY <2>2
    <3>2. Lead(c, k) \o Value(c)[k] = Value(c)[k]
          BY <2>7, <3>1
    <3>3. /\ Left(c)[k] = Setting(Key(c)[k], Value(c)[k], Left(c)[k + 1])
          /\ Left(c)[k + 1] \in Seq(Fragment)
          BY <2>11, <3>1
    <3> QED BY <3>2, <3>3
  <2>13. Left(c)[n + 1] = << >>
    <3>1. n + 1 = 7
          BY <2>2
    <3> QED BY <2>3, <3>1
  <2> QED BY <1>1, <1>8, <2>12, <2>13
<1> QED BY <1>10, <1>11 DEF Count

(* Once its defaults are applied, no field is blank but the password.      *)
LEMMA LoadedWords ==
  ASSUME NEW f \in Fields
  PROVE  Loadable(Loaded(f))
<1>1. Word(<<"localhost">>) /\ Word(<<"postgres">>) /\ Word(<<"public">>)
  <2>1. \A w \in {"localhost", "postgres", "public"} : w # Blank
        BY DEF Blank
  <2>2. \A w \in {"localhost", "postgres", "public"} : w \in Fragment
        BY DEF Fragment
  <2>3. ASSUME NEW w \in Fragment, w # Blank PROVE Word(<<w>>)
        BY <2>3 DEF Word
  <2> QED BY <2>1, <2>2, <2>3
<1>2. /\ \A t \in Hosts \cup Users \cup Passwords \cup Databases \cup Schemas :
           t = << >> \/ Word(t)
      /\ \A p \in (Ports \ {0}) \cup {5432} : Word(Decimal[p])
      BY FieldsAssumption, IsWordWord
<1>3. /\ f.host \in Hosts /\ f.user \in Users /\ f.password \in Passwords
      /\ f.database \in Databases /\ f.schema \in Schemas /\ f.port \in Ports
      BY DEF Fields
<1>4. /\ Loaded(f).host = Default(f.host, <<"localhost">>)
      /\ Loaded(f).user = Default(f.user, <<"postgres">>)
      /\ Loaded(f).database = Default(f.database, <<"postgres">>)
      /\ Loaded(f).schema = Default(f.schema, <<"public">>)
      /\ Loaded(f).port = IF f.port = 0 THEN 5432 ELSE f.port
      /\ Loaded(f).password = f.password
      BY DEF Loaded, Fields
<1>5. Loaded(f).port \in (Ports \ {0}) \cup {5432}
      BY <1>3, <1>4
<1>6. /\ Word(Loaded(f).host) /\ Word(Loaded(f).user) /\ Word(Loaded(f).database)
      /\ Word(Loaded(f).schema) /\ Word(Decimal[Loaded(f).port])
      /\ Loaded(f).password = << >> \/ Word(Loaded(f).password)
      BY <1>1, <1>2, <1>3, <1>4, <1>5 DEF Default
<1> HIDE DEF Word
<1> QED BY <1>6 DEF Loadable

(* In both places of the configuration, the string is that of the fields   *)
(* with their defaults.                                                    *)
LEMMA FormattedAlike ==
  ASSUME NEW f \in Fields, f.dsn = << >>
  PROVE  LET c == Loaded(f)
             text == Formatted(c, SearchPath(c.schema))
         IN /\ resolveDSN(c) = text
            /\ Resolvable(f) => buildPresetDSN(f) = text
<1> DEFINE c == Loaded(f)
           d == [c EXCEPT !.database = Default(@, <<"postgres">>)]
           p == [f EXCEPT !.database = Default(@, <<"postgres">>),
                          !.port = IF @ = 0 THEN 5432 ELSE @]
<1>1. /\ c.dsn = << >> /\ c.schema # << >> /\ c.database # << >>
      /\ c.schema = Default(f.schema, <<"public">>)
      BY DEF Loaded, Fields, Default
<1>2. /\ d.host = c.host /\ d.port = c.port /\ d.user = c.user
      /\ d.password = c.password /\ d.database = c.database
      BY <1>1 DEF Loaded, Fields, Default
<1>3. ASSUME Resolvable(f)
      PROVE  /\ p.host = c.host /\ p.port = c.port /\ p.user = c.user
             /\ p.password = c.password /\ p.database = c.database
      BY <1>3 DEF Loaded, Fields, Default, Resolvable
<1>4. resolveDSN(c) = Formatted(d, SearchPath(c.schema))
      BY <1>1 DEF resolveDSN
<1>5. buildPresetDSN(f) = Formatted(p, SearchPath(c.schema))
      BY <1>1 DEF buildPresetDSN
<1> HIDE DEF c, d, p
<1>6. Formatted(d, SearchPath(c.schema)) = Formatted(c, SearchPath(c.schema))
      BY <1>2 DEF Formatted
<1>7. Resolvable(f) => Formatted(p, SearchPath(c.schema)) = Formatted(c, SearchPath(c.schema))
      BY <1>3 DEF Formatted
<1> QED BY <1>4, <1>5, <1>6, <1>7 DEF c

(* The first k settings of the string have been read, and only those.      *)
SettingsTo(k) ==
  LET c == Loaded(fields)
  IN /\ DOMAIN settings = {<<Key(c)[i]>> : i \in 1 .. k}
     /\ \A i \in 1 .. k : settings[<<Key(c)[i]>>] = Value(c)[i]

(* A string that was formatted is read setting by setting, to its end.     *)
StringInv ==
  /\ fields \in Fields
  /\ stage \in {"start", "reading", "connected", "failed"}
  /\ stage = "start" => settings = EmptyMap
  /\ fields.dsn = << >> =>
       /\ stage # "failed"
       /\ stage = "reading" =>
            \E k \in 1 .. Count(Loaded(fields)) + 1 :
              unread = Left(Loaded(fields))[k] /\ SettingsTo(k - 1)
       /\ stage = "connected" => SettingsTo(Count(Loaded(fields)))

(* Nothing is read before the string is resolved.                          *)
LEMMA StringInvInit == StringInit => StringInv
BY DEF StringInit, StringInv

(* Nothing is read yet where the reading starts.                           *)
LEMMA NothingRead ==
  ASSUME settings = EmptyMap
  PROVE  SettingsTo(0)
<1>1. DOMAIN settings = {}
      BY DEF EmptyMap
<1> QED BY <1>1 DEF SettingsTo

(* One more setting is read.                                               *)
LEMMA OneMoreRead ==
  ASSUME NEW k \in 1 .. Count(Loaded(fields)), SettingsTo(k - 1), UNCHANGED fields,
         settings' = Put(settings, <<Key(Loaded(fields))[k]>>, Value(Loaded(fields))[k])
  PROVE  SettingsTo(k)'
<1> DEFINE c == Loaded(fields)
           key == Key(c)
           n == Count(c)
           name == <<key[k]>>
<1>1. /\ DOMAIN settings = {<<key[i]>> : i \in 1 .. k - 1}
      /\ \A i \in 1 .. k - 1 : settings[<<key[i]>>] = Value(c)[i]
      BY DEF SettingsTo
<1>2. /\ DOMAIN settings' = DOMAIN settings \cup {name}
      /\ \A x \in DOMAIN settings' : settings'[x] = IF x = name THEN Value(c)[k] ELSE settings[x]
      BY DEF Put
<1>3. /\ Key(Loaded(fields))' = key /\ Value(Loaded(fields))' = Value(c)
      BY DEF Key, Value, Loaded
<1>4. \A i, j \in 1 .. n : key[i] = key[j] => i = j
      BY Keys
<1>5. n \in Nat /\ k \in 1 .. n
      BY DEF Count
<1> HIDE DEF c, key, n
<1>6. 1 .. k = (1 .. k - 1) \cup {k}
      BY <1>5
<1>7. DOMAIN settings' = {<<key[i]>> : i \in 1 .. k}
      BY <1>1, <1>2, <1>6
<1>8. ASSUME NEW i \in 1 .. k PROVE settings'[<<key[i]>>] = Value(c)[i]
  <2>1. <<key[i]>> \in DOMAIN settings'
        BY <1>7
  <2>2. CASE i = k
        BY <1>2, <2>1, <2>2
  <2>3. CASE i # k
    <3>1. i \in 1 .. k - 1 /\ i \in 1 .. n /\ k \in 1 .. n
          BY <1>5, <2>3
    <3>2. key[i] # key[k]
          BY <1>4, <2>3, <3>1
    <3>3. <<key[i]>> # <<key[k]>>
      <4>1. ASSUME <<key[i]>> = <<key[k]>> PROVE FALSE
        <5>1. <<key[i]>>[1] = <<key[k]>>[1]
              BY <4>1
        <5>2. key[i] = key[k]
              BY <5>1
        <5> QED BY <3>2, <5>2
      <4> QED BY <4>1
    <3>4. settings'[<<key[i]>>] = settings[<<key[i]>>]
          BY <1>2, <2>1, <3>3
    <3> QED BY <1>1, <3>1, <3>4
  <2> QED BY <2>2, <2>3
<1> QED BY <1>3, <1>7, <1>8 DEF SettingsTo, c, key

(* Each turn of pgx's loop reads one setting of a formatted string; the    *)
(* parser cannot fail on one, and at its end all of them have been read.   *)
LEMMA StringInvNext == StringInv /\ [StringNext]_stringVars => StringInv'
<1> SUFFICES ASSUME StringInv, [StringNext]_stringVars
             PROVE  StringInv'
    OBVIOUS
<1> DEFINE c == Loaded(fields)
           n == Count(c)
           text == Formatted(c, SearchPath(c.schema))
<1>0. fields \in Fields /\ SettingsTo(0) = SettingsTo(1 - 1) /\ n \in {5, 6}
      BY DEF StringInv, Count
<1>1. /\ text = Left(c)[1] /\ Left(c)[n + 1] = << >>
      /\ \A k \in 1 .. n :
           /\ Left(c)[k] = Setting(Key(c)[k], Lead(c, k) \o Value(c)[k], Left(c)[k + 1])
           /\ Lead(c, k) \in {<< >>, <<Blank>>}
           /\ Left(c)[k + 1] \in Seq(Fragment)
           /\ Word(Value(c)[k])
           /\ Key(c)[k] \in Fragment /\ Key(c)[k] # Equals /\ Key(c)[k] # Blank
  <2>1. Loadable(c)
        BY <1>0, LoadedWords
  <2> HIDE DEF c
  <2>2. \A k \in 1 .. n : Word(Value(c)[k])
        BY <2>1, ValueWords
  <2>3. /\ Left(c)[1] = Formatted(c, SearchPath(c.schema))
        /\ \A k \in 1 .. n :
             /\ Left(c)[k] = Setting(Key(c)[k], Lead(c, k) \o Value(c)[k], Left(c)[k + 1])
             /\ Lead(c, k) \in {<< >>, <<Blank>>}
             /\ Left(c)[k + 1] \in Seq(Fragment)
        /\ Left(c)[n + 1] = << >>
        BY <2>1, LeftOf
  <2>4. \A k \in 1 .. n : /\ Key(c)[k] \in Fragment /\ Key(c)[k] # Equals
                           /\ Key(c)[k] # Blank
        BY Keys
  <2> QED BY <2>2, <2>3, <2>4
<1>2. UNCHANGED fields => \A k : UNCHANGED settings => SettingsTo(k)' = SettingsTo(k)
      BY DEF SettingsTo, Key, Value, Loaded
<1>3. UNCHANGED fields => Left(c)' = Left(c) /\ n' = n
      BY DEF Left, Count, Loaded, SearchPath, Setting
<1>4. ASSUME stage = "start", stage' = "reading", UNCHANGED <<fields, settings>>,
             fields.dsn = << >> => unread' = text
      PROVE  StringInv'
  <2>1. fields.dsn = << >> => unread' = Left(c)'[1] /\ SettingsTo(1 - 1)'
        BY <1>0, <1>1, <1>2, <1>3, <1>4, NothingRead DEF StringInv
  <2>2. 1 \in 1 .. n + 1 /\ n' = n
        BY <1>0, <1>3, <1>4
  <2> HIDE DEF c
  <2> QED BY <1>0, <1>4, <2>1, <2>2 DEF StringInv, c
<1>5. CASE ResolveConfig
  <2>1. fields.dsn = << >> => resolveDSN(c) = text
        BY <1>0, FormattedAlike
  <2> QED BY <1>4, <1>5, <2>1 DEF ResolveConfig
<1>6. CASE ResolvePreset
  <2>1. fields.dsn = << >> /\ Resolvable(fields) => buildPresetDSN(fields) = text
        BY <1>0, FormattedAlike
  <2> QED BY <1>4, <1>6, <2>1 DEF ResolvePreset
<1>7. ASSUME stage = "reading", fields.dsn = << >>, unread # << >>
      PROVE  \E k \in 1 .. n : /\ unread = Setting(Key(c)[k], Lead(c, k) \o Value(c)[k],
                                                     Left(c)[k + 1])
                               /\ SettingsTo(k - 1)
  <2>1. PICK k \in 1 .. n + 1 : unread = Left(c)[k] /\ SettingsTo(k - 1)
        BY <1>7 DEF StringInv
  <2> HIDE DEF c, n
  <2>2. k # n + 1
        BY <1>1, <1>7, <2>1
  <2>3. k \in 1 .. n
        BY <1>0, <2>2
  <2> QED BY <1>1, <2>1, <2>3
<1> HIDE DEF c, n, text
<1>8. CASE ReadSetting
  <2>1. /\ stage = "reading" /\ UNCHANGED <<place, fields, stage>> /\ unread # << >>
    <3>1. PICK eq \in 1 .. Len(unread) : TRUE
          BY <1>8 DEF ReadSetting
    <3> QED BY <1>8, <3>1 DEF ReadSetting
  <2>2. CASE fields.dsn = << >>
    <3>1. PICK k \in 1 .. n : /\ unread = Setting(Key(c)[k], Lead(c, k) \o Value(c)[k],
                                                  Left(c)[k + 1])
                              /\ SettingsTo(k - 1)
          BY <1>7, <2>1, <2>2
    <3>2. settings' = Put(settings, <<Key(c)[k]>>, Value(c)[k]) /\ unread' = Left(c)[k + 1]
          BY <1>1, <1>8, <3>1, ReadsFirst
    <3>3. SettingsTo(k)'
          BY <2>1, <3>1, <3>2, OneMoreRead DEF c, n
    <3>4. /\ unread' = Left(c)'[k + 1] /\ k + 1 \in 1 .. n' + 1 /\ (k + 1) - 1 = k
          BY <1>0, <1>3, <2>1, <3>2
    <3>5. \E j \in 1 .. n' + 1 : unread' = Left(c)'[j] /\ SettingsTo(j - 1)'
          BY <3>3, <3>4
    <3> QED BY <1>0, <2>1, <2>2, <3>5 DEF StringInv, c, n
  <2>3. CASE fields.dsn # << >>
        BY <1>0, <2>1, <2>3 DEF StringInv
  <2> QED BY <2>2, <2>3
<1>9. CASE ParseFails
  <2>1. stage = "reading" /\ unread # << >> /\ stage' = "failed" /\ UNCHANGED fields
        BY <1>9 DEF ParseFails
  <2>2. fields.dsn # << >>
    <3> SUFFICES ASSUME fields.dsn = << >> PROVE FALSE
        OBVIOUS
    <3>1. PICK k \in 1 .. n :
            unread = Setting(Key(c)[k], Lead(c, k) \o Value(c)[k], Left(c)[k + 1])
          BY <1>7, <2>1
    <3>2. 2 \in 1 .. Len(unread) /\ KeyUpTo(2)
          BY <1>1, <3>1, ReadsFirst
    <3> QED BY <1>9, <3>2 DEF ParseFails
  <2> QED BY <1>0, <2>1, <2>2 DEF StringInv
<1>10. CASE Connect
  <2>1. /\ stage = "reading" /\ unread = << >> /\ stage' = "connected"
        /\ UNCHANGED <<fields, settings>>
        BY <1>10 DEF Connect
  <2>2. CASE fields.dsn = << >>
    <3>1. PICK k \in 1 .. n + 1 : unread = Left(c)[k] /\ SettingsTo(k - 1)
          BY <2>1, <2>2 DEF StringInv, c, n
    <3>2. k = n + 1
      <4> SUFFICES ASSUME k \in 1 .. n PROVE FALSE
          BY <1>0
      <4>1. unread = Setting(Key(c)[k], Lead(c, k) \o Value(c)[k], Left(c)[k + 1])
            BY <1>1, <3>1
      <4>2. unread # << >>
            BY <1>1, <4>1, ReadsFirst
      <4> QED BY <2>1, <4>2
    <3>3. SettingsTo(n) /\ SettingsTo(n)' /\ n' = n
      <4>1. k - 1 = n
            BY <1>0, <3>2
      <4>2. SettingsTo(n)
            BY <3>1, <4>1
      <4> QED BY <1>2, <1>3, <2>1, <4>2
    <3>4. SettingsTo(Count(Loaded(fields)))'
      <4>1. UNCHANGED <<fields, settings>>
            BY <2>1
      <4>2. Count(Loaded(fields))' = n
            BY <3>3 DEF c, n
      <4> QED BY <3>3, <4>1, <4>2 DEF SettingsTo
    <3> QED BY <1>0, <2>1, <2>2, <3>4 DEF StringInv
  <2>3. CASE fields.dsn # << >>
        BY <1>0, <2>1, <2>3 DEF StringInv
  <2> QED BY <2>2, <2>3
<1>11. CASE UNCHANGED stringVars
  <2>1. UNCHANGED <<fields, stage, unread, settings>>
        BY <1>11 DEF stringVars
  <2>2. ASSUME fields.dsn = << >>, stage = "reading"
        PROVE  \E k \in 1 .. n' + 1 : unread' = Left(c)'[k] /\ SettingsTo(k - 1)'
    <3>1. PICK k \in 1 .. n + 1 : unread = Left(c)[k] /\ SettingsTo(k - 1)
          BY <2>2 DEF StringInv, c, n
    <3>2. SettingsTo(k - 1)'
      <4>1. UNCHANGED <<fields, settings>>
            BY <2>1
      <4> QED BY <3>1, <4>1 DEF SettingsTo
    <3> QED BY <1>3, <2>1, <3>1, <3>2
  <2>3. ASSUME fields.dsn = << >>, stage = "connected" PROVE SettingsTo(n)'
    <3>1. SettingsTo(n)
          BY <2>3 DEF StringInv, c, n
    <3>2. UNCHANGED <<fields, settings>> /\ n' = n
          BY <1>3, <2>1
    <3> QED BY <3>1, <3>2 DEF SettingsTo
  <2> QED BY <1>0, <2>1, <2>2, <2>3 DEF StringInv, c, n
<1> QED BY <1>5, <1>6, <1>8, <1>9, <1>10, <1>11 DEF StringNext

(* After all of them, each field is what was written for it; but where the *)
(* password is empty, the setting after it is in its place.                *)
LEMMA SettingsSound == StringInv => SettingsAsConfigured
<1> SUFFICES ASSUME StringInv, fields.dsn = << >>, stage = "connected"
             PROVE  LET c == Loaded(fields)
                        empty == c.password = << >>
                    IN /\ DOMAIN settings =
                            {<<"host">>, <<"port">>, <<"user">>, <<"password">>,
                             <<"search_path">>}
                            \cup (IF empty THEN {} ELSE {<<"dbname">>})
                       /\ settings[<<"host">>] = c.host
                       /\ settings[<<"port">>] = Decimal[c.port]
                       /\ settings[<<"user">>] = c.user
                       /\ settings[<<"search_path">>] = c.schema
                       /\ settings[<<"password">>] =
                            IF empty THEN <<"dbname", Equals>> \o c.database
                            ELSE c.password
                       /\ ~ empty => settings[<<"dbname">>] = c.database
    BY DEF StringInv, SettingsAsConfigured
<1> DEFINE c == Loaded(fields)
<1>1. /\ DOMAIN settings = {<<Key(c)[i]>> : i \in 1 .. Count(c)}
      /\ \A i \in 1 .. Count(c) : settings[<<Key(c)[i]>>] = Value(c)[i]
      BY DEF StringInv, SettingsTo
<1> HIDE DEF c
<1>2. CASE c.password = << >>
  <2>1. /\ Count(c) = 5
        /\ Key(c)[1] = "host" /\ Key(c)[2] = "port" /\ Key(c)[3] = "user"
        /\ Key(c)[4] = "password" /\ Key(c)[5] = "search_path"
        BY <1>2 DEF Count, Key
  <2>2. /\ Value(c)[1] = c.host /\ Value(c)[2] = Decimal[c.port] /\ Value(c)[3] = c.user
        /\ Value(c)[4] = <<"dbname", Equals>> \o c.database /\ Value(c)[5] = c.schema
        BY <1>2 DEF Value
  <2>3. 1 .. 5 = {1, 2, 3, 4, 5}
        OBVIOUS
  <2>4. DOMAIN settings =
          {<<Key(c)[1]>>, <<Key(c)[2]>>, <<Key(c)[3]>>, <<Key(c)[4]>>, <<Key(c)[5]>>}
        BY <1>1, <2>1, <2>3
  <2>5. /\ settings[<<Key(c)[1]>>] = Value(c)[1] /\ settings[<<Key(c)[2]>>] = Value(c)[2]
        /\ settings[<<Key(c)[3]>>] = Value(c)[3] /\ settings[<<Key(c)[4]>>] = Value(c)[4]
        /\ settings[<<Key(c)[5]>>] = Value(c)[5]
        BY <1>1, <2>1, <2>3
  <2>6. /\ settings[<<"host">>] = c.host /\ settings[<<"port">>] = Decimal[c.port]
        /\ settings[<<"user">>] = c.user /\ settings[<<"search_path">>] = c.schema
        /\ settings[<<"password">>] = <<"dbname", Equals>> \o c.database
        BY <2>1, <2>2, <2>5
  <2> QED BY <1>2, <2>1, <2>4, <2>6 DEF c
<1>3. CASE c.password # << >>
  <2>1. /\ Count(c) = 6
        /\ Key(c)[1] = "host" /\ Key(c)[2] = "port" /\ Key(c)[3] = "user"
        /\ Key(c)[4] = "password" /\ Key(c)[5] = "dbname" /\ Key(c)[6] = "search_path"
        BY <1>3 DEF Count, Key
  <2>2. /\ Value(c)[1] = c.host /\ Value(c)[2] = Decimal[c.port] /\ Value(c)[3] = c.user
        /\ Value(c)[4] = c.password /\ Value(c)[5] = c.database /\ Value(c)[6] = c.schema
        BY <1>3 DEF Value
  <2>3. 1 .. 6 = {1, 2, 3, 4, 5, 6}
        OBVIOUS
  <2>4. DOMAIN settings =
          {<<Key(c)[1]>>, <<Key(c)[2]>>, <<Key(c)[3]>>, <<Key(c)[4]>>, <<Key(c)[5]>>,
           <<Key(c)[6]>>}
        BY <1>1, <2>1, <2>3
  <2>5. /\ settings[<<Key(c)[1]>>] = Value(c)[1] /\ settings[<<Key(c)[2]>>] = Value(c)[2]
        /\ settings[<<Key(c)[3]>>] = Value(c)[3] /\ settings[<<Key(c)[4]>>] = Value(c)[4]
        /\ settings[<<Key(c)[5]>>] = Value(c)[5] /\ settings[<<Key(c)[6]>>] = Value(c)[6]
        BY <1>1, <2>1, <2>3
  <2>6. /\ settings[<<"host">>] = c.host /\ settings[<<"port">>] = Decimal[c.port]
        /\ settings[<<"user">>] = c.user /\ settings[<<"search_path">>] = c.schema
        /\ settings[<<"password">>] = c.password /\ settings[<<"dbname">>] = c.database
        BY <2>1, <2>2, <2>5
  <2> QED BY <1>3, <2>1, <2>4, <2>6 DEF c
<1> QED BY <1>2, <1>3

(* Both halves of the path from a query to its connection: every step of   *)
(* QueryPath is one of the validators', one of the connection string's, or *)
(* leaves the half as it is.                                               *)
LEMMA PathSteps ==
  /\ PathInit => ValidatorInit /\ StringInit
  /\ [PathNext]_pathVars => [ValidatorNext]_validatorVars /\ [StringNext]_stringVars
BY DEF PathInit, PathNext, pathVars, Validate, FindDatabase

(* read_query executes nothing in which a part that writes, the statement  *)
(* or a query of its WITH clause, has single spaces between its words: for *)
(* any names of columns, any number of queries in the WITH clause, and     *)
(* whatever white space there is elsewhere.                                *)
THEOREM QuerySpacedWritesAreNotRead == PathSpec => []SpacedWritesAreNotRead
<1>1. PathSpec => []VerdictInv
      BY VerdictInit, VerdictNext, PathSteps, PTL DEF PathSpec
<1> QED BY <1>1, ReadsSound, PTL

(* A plain statement, with names that do not mislead, is executed by the   *)
(* tool that is for its kind and by no other, by the path that returns its *)
(* rows if it has any: whatever the names and their number are.            *)
THEOREM QueryPlainByTheirTool == PathSpec => []PlainStatementsByTheirTool
<1>1. PathSpec => []VerdictInv
      BY VerdictInit, VerdictNext, PathSteps, PTL DEF PathSpec
<1> QED BY <1>1, PlainSound, PTL

(* What pgx reads in the string resolveDSN or buildPresetDSN formats is    *)
(* what the fields say, whatever words they hold: no setting runs over     *)
(* into another and the parser never fails.  Only an empty password, the   *)
(* default, swallows the dbname after it, and nothing else.                *)
THEOREM QuerySettingsAsConfigured == PathSpec => []SettingsAsConfigured
<1>1. PathSpec => []StringInv
      BY StringInvInit, StringInvNext, PathSteps, PTL DEF PathSpec
<1> QED BY <1>1, SettingsSound, PTL

=============================================================================
