----------------------------- MODULE WireProofs -----------------------------
(***************************************************************************)
(* Proofs about Wire, for any base of the bytes, any lists, names and      *)
(* maps, any room on the way and any cuts of the two streams.  The         *)
(* inductive invariant has two halves:                                     *)
(*                                                                         *)
(* UpInv   what the joiner wrote is one stream of bytes, given by the      *)
(*         constants; the server has taken a part of it from its beginning *)
(*         and has the fields of that part, and its state says how many    *)
(*         bytes they were;                                                *)
(* Flow    the bytes on their way to the client, with those that the       *)
(*         client has begun to read before them and those that are still   *)
(*         in the buffer behind them, are the bytes of the fields that are *)
(*         said and not decoded yet; and what the client has still to read *)
(*         is the formats of those of them that belong to its message.     *)
(*                                                                         *)
(* The library gives no induction that can be used on messages of any      *)
(* length, so where one is needed a least counterexample is taken.         *)
(***************************************************************************)
EXTENDS Wire, FiniteSetTheorems, TLAPS

LEMMA Least ==
  ASSUME NEW T, T \subseteq Nat, T # {}
  PROVE  \E m \in T : \A n \in T : m <= n
<1> DEFINE W == {0 .. m : m \in T}
<1>1. W \subseteq FiniteSubsetsOf(Nat) /\ W # {}
  <2>1. ASSUME NEW m \in T
        PROVE  IsFiniteSet(0 .. m) /\ 0 .. m \subseteq Nat
    BY FS_Interval
  <2> QED BY <2>1 DEF FiniteSubsetsOf
<1>2. \E w \in W : \A v \in W : <<v, w>> \notin StrictSubsetOrdering(Nat)
  <2> HIDE DEF W
  <2> QED BY <1>1, WFMin, FS_StrictSubsetOrderingWellFounded
<1>3. PICK m \in T : \A n \in T : <<0 .. n, 0 .. m>> \notin StrictSubsetOrdering(Nat)
  BY <1>2
<1> HIDE DEF W
<1>4. ASSUME NEW n \in T, n < m
      PROVE  FALSE
  <2>1. 0 .. n \in SUBSET Nat /\ 0 .. m \in SUBSET Nat
    OBVIOUS
  <2>2. 0 .. n \subseteq 0 .. m /\ m \in 0 .. m /\ m \notin 0 .. n
    BY <1>4
  <2>3. <<0 .. n, 0 .. m>> \in StrictSubsetOrdering(Nat)
    BY <2>1, <2>2 DEF StrictSubsetOrdering
  <2> QED BY <1>3, <2>3
<1>5. \A n \in T : n \in Nat /\ m \in Nat /\ ~(n < m)
  BY <1>4
<1>6. \A n \in T : m <= n
  BY <1>5
<1> QED BY <1>6

LEMMA Induction ==
  ASSUME NEW T, 0 \in T, \A n \in Nat : n \in T => n + 1 \in T
  PROVE  Nat \subseteq T
<1> SUFFICES ASSUME Nat \ T # {} PROVE FALSE
  OBVIOUS
<1>1. PICK m \in Nat \ T : \A n \in Nat \ T : m <= n
  BY Least
<1>2. m - 1 \in Nat /\ m - 1 \in T
  BY <1>1
<1> QED BY <1>1, <1>2

-----------------------------------------------------------------------------
(* FlattenSeq is defined by a recursive function: there is one.            *)

LEMMA Flattening ==
  ASSUME NEW S, NEW s \in Seq(Seq(S)), s # <<>>
  PROVE  \E f : /\ f \in [1 .. Len(s) -> Seq(S)]
                /\ f[1] = s[1]
                /\ \A i \in 2 .. Len(s) : f[i] = f[i - 1] \o s[i]
                /\ FlattenSeq(s) = f[Len(s)]
<1> DEFINE P(f, k) == f = [i \in 1 .. k |-> IF i = 1 THEN s[i] ELSE f[i - 1] \o s[i]]
           T == {k \in Nat : \E f : P(f, k)}
<1>1. 0 \in T
  <2>1. P(<<>>, 0)
    OBVIOUS
  <2> QED BY <2>1
<1>2. ASSUME NEW k \in Nat, k \in T
      PROVE  k + 1 \in T
  <2>1. PICK f : P(f, k)
    BY <1>2
  <2> DEFINE g == [i \in 1 .. k + 1 |->
                     IF i = 1 THEN s[i] ELSE IF i <= k THEN f[i] ELSE f[k] \o s[i]]
  <2>2. \A i \in 1 .. k : f[i] = IF i = 1 THEN s[i] ELSE f[i - 1] \o s[i]
    BY <2>1
  <2>3. \A i \in 1 .. k + 1 : g[i] = IF i = 1 THEN s[i] ELSE g[i - 1] \o s[i]
    <3> TAKE i \in 1 .. k + 1
    <3>1. CASE i = 1
      BY <3>1
    <3>2. CASE i > 1 /\ i <= k
      <4>1. i - 1 \in 1 .. k + 1 /\ g[i - 1] = f[i - 1]
        BY <3>2, <2>2
      <4> QED BY <3>2, <2>2, <4>1
    <3>3. CASE i > 1 /\ i = k + 1
      <4>1. i - 1 = k /\ k \in 1 .. k + 1 /\ g[k] = f[k]
        BY <3>3, <2>2
      <4> QED BY <3>3, <4>1
    <3> QED BY <3>1, <3>2, <3>3
  <2>4. g = [i \in 1 .. k + 1 |-> g[i]]
    OBVIOUS
  <2> HIDE DEF g
  <2>5. g = [i \in 1 .. k + 1 |-> IF i = 1 THEN s[i] ELSE g[i - 1] \o s[i]]
    BY <2>3, <2>4, Zenon
  <2>6. k + 1 \in Nat
    OBVIOUS
  <2>7. P(g, k + 1)
    BY <2>5
  <2> HIDE DEF P
  <2> QED BY <2>6, <2>7
<1>3. Len(s) \in Nat /\ Len(s) >= 1
  OBVIOUS
<1>4. Len(s) \in T
  <2> HIDE DEF T
  <2> QED BY <1>1, <1>2, <1>3, Induction
<1> DEFINE f == CHOOSE f : P(f, Len(s))
<1>5. P(f, Len(s))
  BY <1>4
<1>6. FlattenSeq(s) = f[Len(s)]
  BY <1>3 DEF FlattenSeq
<1> HIDE DEF f
<1>7. \A i \in 1 .. Len(s) : f[i] = IF i = 1 THEN s[i] ELSE f[i - 1] \o s[i]
  BY <1>5
<1>8. DOMAIN f = 1 .. Len(s) /\ f = [i \in 1 .. Len(s) |-> f[i]]
  BY <1>5
<1> DEFINE U == {k \in Nat : k + 1 \in 1 .. Len(s) => f[k + 1] \in Seq(S)}
<1>9. 0 \in U
  BY <1>7, <1>3
<1>10. ASSUME NEW k \in Nat, k \in U
       PROVE  k + 1 \in U
  <2> SUFFICES ASSUME k + 2 \in 1 .. Len(s)
               PROVE  f[k + 2] \in Seq(S)
    OBVIOUS
  <2>1. f[k + 1] \in Seq(S) /\ s[k + 2] \in Seq(S)
    BY <1>10, <1>3
  <2>2. f[k + 2] = f[k + 1] \o s[k + 2]
    <3>1. k + 2 \in 1 .. Len(s) /\ k + 2 # 1 /\ (k + 2) - 1 = k + 1
      OBVIOUS
    <3>2. f[k + 2] = f[(k + 2) - 1] \o s[k + 2]
      BY <1>7, <3>1
    <3> QED BY <3>1, <3>2
  <2> QED BY <2>1, <2>2
<1>11. Nat \subseteq U
  <2> HIDE DEF U
  <2> QED BY <1>9, <1>10, Induction
<1>12. \A i \in 1 .. Len(s) : f[i] \in Seq(S)
  <2> TAKE i \in 1 .. Len(s)
  <2>1. i - 1 \in Nat /\ (i - 1) + 1 = i
    BY <1>3
  <2> QED BY <2>1, <1>11
<1>13. f \in [1 .. Len(s) -> Seq(S)]
  BY <1>8, <1>12
<1>14. f[1] = s[1] /\ \A i \in 2 .. Len(s) : f[i] = f[i - 1] \o s[i]
  <2>1. 1 \in 1 .. Len(s) /\ \A i \in 2 .. Len(s) : i \in 1 .. Len(s) /\ i # 1
    BY <1>3
  <2> QED BY <2>1, <1>7
<1> QED BY <1>6, <1>13, <1>14, Zenon

LEMMA FlattenEmpty == FlattenSeq(<<>>) = <<>>
BY DEF FlattenSeq

LEMMA Appended ==
  ASSUME NEW Q, NEW s \in Seq(Q), NEW x \in Q
  PROVE  /\ Append(s, x) \in Seq(Q) /\ Append(s, x) # <<>>
         /\ Len(Append(s, x)) = Len(s) + 1 /\ Len(s) \in Nat
         /\ \A i \in 1 .. Len(s) : Append(s, x)[i] = s[i]
         /\ Append(s, x)[Len(s) + 1] = x
OBVIOUS

LEMMA LastApart ==
  ASSUME NEW Q, NEW u \in Seq(Q), NEW k \in Nat, Len(u) = k + 1, NEW s \in Seq(Q)
  PROVE  /\ SubSeq(u, 1, k) \in Seq(Q) /\ Len(SubSeq(u, 1, k)) = k /\ u[k + 1] \in Q
         /\ u = Append(SubSeq(u, 1, k), u[k + 1])
         /\ s \o u = Append(s \o SubSeq(u, 1, k), u[k + 1])
         /\ s \o SubSeq(u, 1, k) \in Seq(Q)
<1>1. /\ SubSeq(u, 1, k) \in Seq(Q) /\ Len(SubSeq(u, 1, k)) = k /\ u[k + 1] \in Q
      /\ u = Append(SubSeq(u, 1, k), u[k + 1])
  OBVIOUS
<1>2. s \o SubSeq(u, 1, k) \in Seq(Q)
  BY <1>1
<1>3. s \o Append(SubSeq(u, 1, k), u[k + 1]) = Append(s \o SubSeq(u, 1, k), u[k + 1])
  BY <1>1
<1> QED BY <1>1, <1>2, <1>3

LEMMA FlattenTyped ==
  ASSUME NEW S, NEW s \in Seq(Seq(S))
  PROVE  FlattenSeq(s) \in Seq(S)
<1>1. CASE s = <<>>
  <2>1. FlattenSeq(s) = <<>>
    BY <1>1, FlattenEmpty, Zenon
  <2> QED BY <2>1
<1>2. CASE s # <<>>
  <2>1. PICK f : f \in [1 .. Len(s) -> Seq(S)] /\ FlattenSeq(s) = f[Len(s)]
    BY <1>2, Flattening, Zenon
  <2>2. Len(s) \in 1 .. Len(s)
    BY <1>2
  <2> QED BY <2>1, <2>2, Zenon
<1> QED BY <1>1, <1>2

LEMMA FlattenAppend ==
  ASSUME NEW S, NEW s \in Seq(Seq(S)), NEW x \in Seq(S)
  PROVE  FlattenSeq(Append(s, x)) = FlattenSeq(s) \o x
<1> DEFINE t == Append(s, x)
<1>0. t \in Seq(Seq(S)) /\ t # <<>> /\ Len(t) = Len(s) + 1 /\ Len(s) \in Nat
  BY Appended
<1>1. \A i \in 1 .. Len(s) : t[i] = s[i]
  BY Appended
<1>2. t[Len(s) + 1] = x
  BY Appended
<1> HIDE DEF t
<1>3. PICK g : /\ g[1] = t[1]
               /\ \A i \in 2 .. Len(t) : g[i] = g[i - 1] \o t[i]
               /\ FlattenSeq(t) = g[Len(t)]
  BY <1>0, Flattening
<1>4. CASE s = <<>>
  BY <1>0, <1>2, <1>3, <1>4, FlattenEmpty DEF t
<1>5. CASE s # <<>>
  <2>1. PICK f : /\ f[1] = s[1]
                 /\ \A i \in 2 .. Len(s) : f[i] = f[i - 1] \o s[i]
                 /\ FlattenSeq(s) = f[Len(s)]
    BY <1>5, Flattening
  <2> DEFINE T == {k \in Nat : k + 1 \in 1 .. Len(s) => f[k + 1] = g[k + 1]}
  <2>2. 0 \in T
    BY <1>0, <1>1, <1>3, <1>5, <2>1
  <2>3. ASSUME NEW k \in Nat, k \in T
        PROVE  k + 1 \in T
    <3> SUFFICES ASSUME k + 2 \in 1 .. Len(s)
                 PROVE  f[k + 2] = g[k + 2]
      OBVIOUS
    <3>1. f[k + 1] = g[k + 1]
      BY <2>3, <1>0
    <3>2. f[k + 2] = f[k + 1] \o s[k + 2] /\ g[k + 2] = g[k + 1] \o t[k + 2] /\ s[k + 2] = t[k + 2]
      <4>1. /\ k + 2 \in 2 .. Len(s) /\ k + 2 \in 2 .. Len(t) /\ k + 2 \in 1 .. Len(s)
            /\ (k + 2) - 1 = k + 1
        BY <1>0
      <4>2. f[k + 2] = f[(k + 2) - 1] \o s[k + 2] /\ g[k + 2] = g[(k + 2) - 1] \o t[k + 2]
        BY <2>1, <1>3, <4>1
      <4> QED BY <4>1, <4>2, <1>1
    <3> QED BY <3>1, <3>2
  <2>4. Nat \subseteq T
    <3> HIDE DEF T
    <3> QED BY <2>2, <2>3, Induction
  <2>5. Len(s) - 1 \in Nat /\ (Len(s) - 1) + 1 = Len(s) /\ Len(s) \in 1 .. Len(s)
    BY <1>0, <1>5
  <2>6. f[Len(s)] = g[Len(s)]
    BY <2>4, <2>5
  <2>7. g[Len(s) + 1] = g[Len(s)] \o x
    <3>1. Len(s) + 1 \in 2 .. Len(t) /\ (Len(s) + 1) - 1 = Len(s)
      BY <1>0, <2>5
    <3>2. g[Len(s) + 1] = g[(Len(s) + 1) - 1] \o t[Len(s) + 1]
      BY <1>3, <3>1
    <3> QED BY <3>1, <3>2, <1>2
  <2> QED BY <2>1, <2>6, <2>7, <1>0, <1>3 DEF t
<1> QED BY <1>4, <1>5

LEMMA FlattenConcat ==
  ASSUME NEW S, NEW s \in Seq(Seq(S)), NEW t \in Seq(Seq(S))
  PROVE  FlattenSeq(s \o t) = FlattenSeq(s) \o FlattenSeq(t)
<1> DEFINE T == {k \in Nat : \A u \in Seq(Seq(S)) :
                   Len(u) = k => FlattenSeq(s \o u) = FlattenSeq(s) \o FlattenSeq(u)}
<1>1. 0 \in T
  <2> SUFFICES ASSUME NEW u \in Seq(Seq(S)), Len(u) = 0
               PROVE  FlattenSeq(s \o u) = FlattenSeq(s) \o FlattenSeq(u)
    OBVIOUS
  <2>1. u = <<>> /\ s \o u = s
    OBVIOUS
  <2>2. FlattenSeq(s) \in Seq(S)
    BY FlattenTyped
  <2> QED BY <2>1, <2>2, FlattenEmpty
<1>2. ASSUME NEW k \in Nat, k \in T
      PROVE  k + 1 \in T
  <2> SUFFICES ASSUME NEW u \in Seq(Seq(S)), Len(u) = k + 1
               PROVE  FlattenSeq(s \o u) = FlattenSeq(s) \o FlattenSeq(u)
    OBVIOUS
  <2> DEFINE v == SubSeq(u, 1, k)
             x == u[k + 1]
  <2>1. v \in Seq(Seq(S)) /\ Len(v) = k /\ x \in Seq(S) /\ u = Append(v, x)
    BY LastApart
  <2>2. s \o u = Append(s \o v, x) /\ s \o v \in Seq(Seq(S))
    BY LastApart, SMTT(40)
  <2>3. FlattenSeq(s \o v) = FlattenSeq(s) \o FlattenSeq(v)
    BY <1>2, <2>1
  <2>4. FlattenSeq(s \o u) = (FlattenSeq(s) \o FlattenSeq(v)) \o x
    BY <2>1, <2>2, <2>3, FlattenAppend, ZenonT(60)
  <2>5. FlattenSeq(u) = FlattenSeq(v) \o x
    BY <2>1, FlattenAppend
  <2>6. FlattenSeq(s) \in Seq(S) /\ FlattenSeq(v) \in Seq(S)
    BY <2>1, FlattenTyped
  <2> HIDE DEF v, x
  <2>7. \A a, b, c \in Seq(S) : (a \o b) \o c = a \o (b \o c)
    BY SMTT(40)
  <2>8. (FlattenSeq(s) \o FlattenSeq(v)) \o x = FlattenSeq(s) \o (FlattenSeq(v) \o x)
    BY <2>1, <2>6, <2>7
  <2> QED BY <2>4, <2>5, <2>8
<1>3. Nat \subseteq T
  <2> HIDE DEF T
  <2> QED BY <1>1, <1>2, Induction
<1> QED BY <1>3

LEMMA FlattenOne ==
  ASSUME NEW S, NEW x \in Seq(S)
  PROVE  FlattenSeq(<<x>>) = x
<1>1. <<>> \in Seq(Seq(S)) /\ Append(<<>>, x) = <<x>>
  OBVIOUS
<1>2. FlattenSeq(<<x>>) = <<>> \o x
  BY <1>1, FlattenAppend, FlattenEmpty
<1> QED BY <1>2

-----------------------------------------------------------------------------
(* Division with remainder.                                                *)

LEMMA Divided ==
  ASSUME NEW n \in Nat, NEW d \in Nat \ {0}
  PROVE  n \div d \in Nat /\ n % d \in 0 .. d - 1 /\ n = d * (n \div d) + (n % d)
OBVIOUS

LEMMA Monotonic ==
  ASSUME NEW d \in Nat, NEW a \in Nat, NEW b \in Nat, a <= b
  PROVE  d * a <= d * b
OBVIOUS

LEMMA OneQuotient ==
  ASSUME NEW n \in Nat, NEW d \in Nat \ {0}, NEW q \in Nat, d * q <= n, n < d * q + d
  PROVE  n \div d = q
<1>1. n \div d \in Nat /\ d * (n \div d) <= n /\ n < d * (n \div d) + d
  BY Divided
<1>2. CASE n \div d < q
  <2>1. d * (n \div d + 1) <= d * q
    BY <1>1, <1>2, Monotonic
  <2> QED BY <1>1, <2>1
<1>3. CASE q < n \div d
  <2>1. d * (q + 1) <= d * (n \div d)
    BY <1>1, <1>3, Monotonic
  <2> QED BY <1>1, <2>1
<1> QED BY <1>1, <1>2, <1>3

LEMMA TwiceDivided ==
  ASSUME NEW n \in Nat, NEW d \in Nat \ {0}, NEW e \in Nat \ {0}
  PROVE  n \div (d * e) = (n \div d) \div e
<1> DEFINE p == n \div d
           q == p \div e
<1>1. p \in Nat /\ d * p <= n /\ n < d * p + d
  BY Divided
<1>2. q \in Nat /\ e * q \in Nat /\ e * q <= p /\ p + 1 <= e * q + e
  <2>1. q \in Nat /\ p % e \in 0 .. e - 1 /\ p = e * q + (p % e)
    BY <1>1, Divided
  <2>2. e * q \in Nat
    BY <2>1
  <2> HIDE DEF q
  <2> QED BY <1>1, <2>1, <2>2
<1> HIDE DEF p, q
<1>3. d * (e * q) <= d * p /\ d * (p + 1) <= d * (e * q + e)
  BY <1>1, <1>2, Monotonic
<1>4. d * e \in Nat \ {0} /\ (d * e) * q <= n /\ n < (d * e) * q + d * e
  BY <1>1, <1>2, <1>3
<1>5. n \div (d * e) = q
  BY <1>2, <1>4, OneQuotient
<1> QED BY <1>5 DEF p, q

-----------------------------------------------------------------------------
(* A number is read as it was written.                                     *)

LEMMA Bases == Base \in Nat \ {0} /\ Base * Base \in Nat \ {0} /\ Base * Base * Base \in Nat \ {0}
BY WireAssumption

LEMMA FourBytes ==
  ASSUME NEW n \in Nat
  PROVE  BytesOf(n) \in Seq(Byte) /\ Len(BytesOf(n)) = 4
<1>1. \A m \in Nat : m % Base \in Byte
  BY Bases, Divided DEF Byte
<1>2. /\ n \div Base \in Nat
      /\ n \div (Base * Base) \in Nat
      /\ n \div (Base * Base * Base) \in Nat
  BY Bases, Divided
<1> QED BY <1>1, <1>2 DEF BytesOf

LEMMA ValueOfBytes ==
  ASSUME NEW n \in Word
  PROVE  ValueOf(BytesOf(n)) = n
<1> DEFINE p == n \div Base
           q == p \div Base
           r == q \div Base
<1>1. n \in Nat
  BY Bases DEF Word
<1>2. p \in Nat /\ n = Base * p + (n % Base)
  BY <1>1, Bases, Divided
<1>3. q \in Nat /\ p = Base * q + (p % Base)
  BY <1>2, Bases, Divided
<1>4. r \in Nat /\ q = Base * r + (q % Base)
  BY <1>3, Bases, Divided
<1>5. n \div (Base * Base) = q
  BY <1>1, Bases, TwiceDivided
<1>6. n \div (Base * Base * Base) = r
  <2>1. n \div ((Base * Base) * Base) = (n \div (Base * Base)) \div Base
    BY <1>1, Bases, TwiceDivided
  <2> QED BY <1>5, <2>1
<1>7. r < Base
  <2>1. /\ n < Base * Base * Base * Base
        /\ Base * Base * Base * r <= n
    <3>1. n < Base * Base * Base * Base
      BY Bases DEF Word
    <3>2. \A d \in Nat \ {0} : d * (n \div d) <= n
      <4>1. TAKE d \in Nat \ {0}
      <4>2. n \div d \in Nat /\ n % d \in 0 .. d - 1 /\ n = d * (n \div d) + (n % d)
        BY <1>1, Divided
      <4>3. d * (n \div d) \in Nat
        BY <4>2
      <4> QED BY <1>1, <4>2, <4>3
    <3>3. Base * Base * Base * (n \div (Base * Base * Base)) <= n
      BY <3>2, Bases
    <3> QED BY <1>6, <3>1, <3>3
  <2>2. Base <= r => Base * Base * Base * Base <= Base * Base * Base * r
    BY <1>4, Bases, Monotonic
  <2> QED BY <2>1, <2>2, <1>1, <1>4, Bases
<1>8. r % Base = r
  BY <1>4, <1>7, Bases
<1> HIDE DEF p, q, r
<1>9. ValueOf(BytesOf(n)) = (n % Base) + Base * ((p % Base) + Base * ((q % Base) + Base * r))
  BY <1>5, <1>6, <1>8 DEF ValueOf, BytesOf, p
<1>10. (q % Base) + Base * r = q
  BY <1>3, <1>4, Bases
<1>11. (p % Base) + Base * q = p
  BY <1>2, <1>3, Bases
<1>12. (n % Base) + Base * p = n
  BY <1>1, <1>2, Bases
<1> QED BY <1>9, <1>10, <1>11, <1>12

LEMMA Written ==
  ASSUME NEW n \in Nat
  PROVE  write_uint32(n) \in Seq(Byte) /\ Len(write_uint32(n)) = 4
BY FourBytes DEF write_uint32, Reverse

(***************************************************************************)
(* write_uint32 and read_uint32 agree on the order of the bytes: what is   *)
(* read from the first four of a stream is the number written there.       *)
(***************************************************************************)
THEOREM ReadsWhatWasWritten ==
  ASSUME NEW n \in Word
  PROVE  read_uint32(write_uint32(n)) = n
<1>1. n \in Nat
  BY Bases DEF Word
<1>2. BytesOf(n) \in Seq(Byte) /\ Len(BytesOf(n)) = 4
  BY <1>1, FourBytes
<1>3. Reverse(Reverse(BytesOf(n))) = BytesOf(n)
  BY <1>2 DEF Reverse
<1> QED BY <1>3, ValueOfBytes DEF read_uint32, write_uint32

(***************************************************************************)
(* serialize_uint32 and buff_to_uint32, which put numbers into messages    *)
(* and take them out, agree too, on the other order.                       *)
(***************************************************************************)
THEOREM DecodesWhatWasSerialized ==
  ASSUME NEW n \in Word
  PROVE  buff_to_uint32(serialize_uint32(n)) = n
<1>1. n \in Nat
  BY Bases DEF Word
<1>2. BytesOf(n) \in Seq(Byte) /\ Len(BytesOf(n)) = 4
  BY <1>1, FourBytes
<1>3. Reverse(Reverse(BytesOf(n))) = BytesOf(n)
  BY <1>2 DEF Reverse
<1> QED BY <1>3, ValueOfBytes DEF buff_to_uint32, serialize_uint32

-----------------------------------------------------------------------------
(* What is read of a sequence of fields: a piece for each format.          *)

\* What goes through the buffer, and all that is said
Told == [number : Word] \union [string : Name] \union [command : {"UPDATE_PLAYERS"}]

Field == Told \union {Command("START_GAME")}

Matching(R, T, F) ==
  \E p \in Seq(Seq(Field)) : /\ Len(p) = Len(T) /\ FlattenSeq(p) = F
                             /\ \A i \in 1 .. Len(T) : <<T[i], p[i]>> \in R

LEMMA Joined ==
  ASSUME NEW Q, NEW s \in Seq(Q), NEW t \in Seq(Q)
  PROVE  /\ s \o t \in Seq(Q) /\ Len(s \o t) = Len(s) + Len(t)
         /\ Len(s) \in Nat /\ Len(t) \in Nat
         /\ \A i \in 1 .. Len(s) : (s \o t)[i] = s[i]
         /\ \A i \in 1 .. Len(t) : (s \o t)[Len(s) + i] = t[i]
OBVIOUS

LEMMA HeadTail ==
  ASSUME NEW Q, NEW s \in Seq(Q), s # <<>>
  PROVE  /\ s[1] \in Q /\ Head(s) = s[1] /\ Tail(s) \in Seq(Q) /\ s = <<s[1]>> \o Tail(s)
         /\ <<s[1]>> \in Seq(Q)
         /\ Len(Tail(s)) = Len(s) - 1 /\ Len(s) \in Nat /\ Len(s) >= 1
         /\ \A i \in 1 .. Len(Tail(s)) : Tail(s)[i] = s[i + 1]
OBVIOUS

LEMMA ThreeJoined ==
  ASSUME NEW Q, NEW a \in Seq(Q), NEW b \in Seq(Q), NEW c \in Seq(Q)
  PROVE  (a \o b) \o c = a \o (b \o c)
OBVIOUS

LEMMA FieldsThree == \A x, y, z \in Seq(Field) : (x \o y) \o z = x \o (y \o z)
<1> SUFFICES ASSUME NEW x \in Seq(Field), NEW y \in Seq(Field), NEW z \in Seq(Field)
             PROVE  (x \o y) \o z = x \o (y \o z)
  OBVIOUS
<1> QED BY ThreeJoined

LEMMA FunctionSequence ==
  ASSUME NEW Q, NEW n \in Nat, NEW f \in [1 .. n -> Q]
  PROVE  f \in Seq(Q) /\ Len(f) = n
OBVIOUS

LEMMA MatchingTyped ==
  ASSUME NEW R, NEW T, NEW F, Matching(R, T, F)
  PROVE  F \in Seq(Field)
BY FlattenTyped DEF Matching

LEMMA NothingMatched ==
  ASSUME NEW R
  PROVE  Matching(R, <<>>, <<>>) /\ \A F : Matching(R, <<>>, F) => F = <<>>
<1>1. Matching(R, <<>>, <<>>)
  <2>1. <<>> \in Seq(Seq(Field)) /\ Len(<<>>) = 0 /\ 1 .. 0 = {}
    OBVIOUS
  <2> QED BY <2>1, FlattenEmpty DEF Matching
<1>2. ASSUME NEW F, Matching(R, <<>>, F)
      PROVE  F = <<>>
  <2>1. PICK p \in Seq(Seq(Field)) : Len(p) = Len(<<>>) /\ FlattenSeq(p) = F
    BY <1>2 DEF Matching
  <2>2. p = <<>>
    BY <2>1
  <2> QED BY <2>1, <2>2, FlattenEmpty
<1> QED BY <1>1, <1>2

LEMMA OneMatched ==
  ASSUME NEW R, NEW f, NEW F \in Seq(Field), <<f, F>> \in R
  PROVE  Matching(R, <<f>>, F)
<1>1. FlattenSeq(<<F>>) = F
  BY FlattenOne
<1>2. <<F>> \in Seq(Seq(Field)) /\ Len(<<F>>) = 1 /\ Len(<<f>>) = 1 /\ <<F>>[1] = F /\ <<f>>[1] = f
  OBVIOUS
<1> QED BY <1>1, <1>2 DEF Matching

LEMMA MoreMatched ==
  ASSUME NEW R, NEW Q, R \subseteq Q, NEW T, NEW F, Matching(R, T, F)
  PROVE  Matching(Q, T, F)
BY DEF Matching

LEMMA BothMatched ==
  ASSUME NEW R, NEW A, NEW T \in Seq(A), NEW U \in Seq(A), NEW F, NEW G,
         Matching(R, T, F), Matching(R, U, G)
  PROVE  Matching(R, T \o U, F \o G)
<1>1. PICK p \in Seq(Seq(Field)) : /\ Len(p) = Len(T) /\ FlattenSeq(p) = F
                                   /\ \A i \in 1 .. Len(T) : <<T[i], p[i]>> \in R
  BY DEF Matching
<1>2. PICK q \in Seq(Seq(Field)) : /\ Len(q) = Len(U) /\ FlattenSeq(q) = G
                                   /\ \A i \in 1 .. Len(U) : <<U[i], q[i]>> \in R
  BY DEF Matching
<1>3. FlattenSeq(p \o q) = F \o G
  BY <1>1, <1>2, FlattenConcat
<1>4. /\ p \o q \in Seq(Seq(Field)) /\ Len(p \o q) = Len(p) + Len(q)
      /\ Len(p) \in Nat /\ Len(q) \in Nat
      /\ \A i \in 1 .. Len(p) : (p \o q)[i] = p[i]
      /\ \A i \in 1 .. Len(q) : (p \o q)[Len(p) + i] = q[i]
  BY Joined
<1>5. /\ Len(T \o U) = Len(T) + Len(U)
      /\ \A i \in 1 .. Len(T) : (T \o U)[i] = T[i]
      /\ \A i \in 1 .. Len(U) : (T \o U)[Len(T) + i] = U[i]
  BY Joined
<1> DEFINE v == T \o U
           w == p \o q
<1> HIDE DEF v, w
<1>6. ASSUME NEW i \in 1 .. Len(v)
      PROVE  <<v[i], w[i]>> \in R
  <2>1. CASE i <= Len(T)
    <3>1. i \in 1 .. Len(T) /\ i \in 1 .. Len(p)
      BY <2>1, <1>1, <1>4
    <3> QED BY <3>1, <1>1, <1>4, <1>5 DEF v, w
  <2>2. CASE i > Len(T)
    <3>1. PICK k \in 1 .. Len(U) : i = Len(T) + k
      <4>1. i - Len(T) \in 1 .. Len(U) /\ i = Len(T) + (i - Len(T))
        BY <2>2, <1>1, <1>2, <1>4, <1>5 DEF v
      <4> QED BY <4>1
    <3>2. v[i] = U[k] /\ w[i] = q[k]
      BY <3>1, <1>1, <1>2, <1>4, <1>5 DEF v, w
    <3> QED BY <3>1, <3>2, <1>2
  <2> QED BY <2>1, <2>2, <1>1, <1>4
<1>7. Len(w) = Len(v)
  BY <1>1, <1>2, <1>4, <1>5 DEF v, w
<1>8. w \in Seq(Seq(Field)) /\ FlattenSeq(w) = F \o G
  BY <1>3, <1>4 DEF w
<1>9. Matching(R, v, F \o G)
  BY <1>6, <1>7, <1>8 DEF Matching
<1> QED BY <1>9 DEF v

LEMMA FirstMatched ==
  ASSUME NEW R, NEW A, NEW T \in Seq(A), T # <<>>, NEW F, Matching(R, T, F)
  PROVE  \E G \in Seq(Field), H \in Seq(Field) :
           F = G \o H /\ <<Head(T), G>> \in R /\ Matching(R, Tail(T), H)
<1>1. PICK p \in Seq(Seq(Field)) : /\ Len(p) = Len(T) /\ FlattenSeq(p) = F
                                   /\ \A i \in 1 .. Len(T) : <<T[i], p[i]>> \in R
  BY DEF Matching
<1>2. /\ Head(T) = T[1] /\ Len(Tail(T)) = Len(T) - 1 /\ Len(T) \in Nat /\ Len(T) >= 1
      /\ \A i \in 1 .. Len(Tail(T)) : Tail(T)[i] = T[i + 1]
  BY HeadTail
<1>3. p # <<>>
  BY <1>1, <1>2
<1>4. /\ p[1] \in Seq(Field) /\ Tail(p) \in Seq(Seq(Field)) /\ p = <<p[1]>> \o Tail(p)
      /\ <<p[1]>> \in Seq(Seq(Field)) /\ Len(Tail(p)) = Len(p) - 1
      /\ \A i \in 1 .. Len(Tail(p)) : Tail(p)[i] = p[i + 1]
  BY <1>3, HeadTail
<1> DEFINE q == Tail(p)
           U == Tail(T)
           G == p[1]
<1>5. F = G \o FlattenSeq(q)
  <2>1. FlattenSeq(p) = FlattenSeq(<<G>>) \o FlattenSeq(q)
    <3>1. FlattenSeq(<<G>> \o q) = FlattenSeq(<<G>>) \o FlattenSeq(q)
      BY <1>4, FlattenConcat
    <3> QED BY <3>1, <1>4
  <2>2. FlattenSeq(<<G>>) = G
    BY <1>4, FlattenOne
  <2> QED BY <2>1, <2>2, <1>1
<1>6. FlattenSeq(q) \in Seq(Field)
  BY <1>4, FlattenTyped
<1>7. <<Head(T), G>> \in R
  BY <1>1, <1>2
<1>8. Matching(R, U, FlattenSeq(q))
  <2>1. ASSUME NEW i \in 1 .. Len(U)
        PROVE  <<U[i], q[i]>> \in R
    <3>1. i + 1 \in 1 .. Len(T) /\ U[i] = T[i + 1] /\ q[i] = p[i + 1]
      BY <1>1, <1>2, <1>4
    <3> QED BY <3>1, <1>1
  <2>2. Len(q) = Len(U) /\ q \in Seq(Seq(Field))
    BY <1>1, <1>2, <1>4
  <2> HIDE DEF q, U
  <2> QED BY <2>1, <2>2 DEF Matching
<1> QED BY <1>4, <1>5, <1>6, <1>7, <1>8

LEMMA AllMatched ==
  ASSUME NEW R, NEW A, NEW T \in Seq(Seq(A)), NEW F \in Seq(Seq(Field)), Len(T) = Len(F),
         \A i \in 1 .. Len(T) : Matching(R, T[i], F[i])
  PROVE  Matching(R, FlattenSeq(T), FlattenSeq(F))
<1> DEFINE Good(u, g) == /\ Len(u) = Len(g)
                         /\ \A i \in 1 .. Len(u) : Matching(R, u[i], g[i])
           N == {k \in Nat : \A u \in Seq(Seq(A)), g \in Seq(Seq(Field)) :
                   Len(u) = k /\ Good(u, g) => Matching(R, FlattenSeq(u), FlattenSeq(g))}
<1>1. 0 \in N
  <2> SUFFICES ASSUME NEW u \in Seq(Seq(A)), NEW g \in Seq(Seq(Field)), Len(u) = 0, Good(u, g)
               PROVE  Matching(R, FlattenSeq(u), FlattenSeq(g))
    OBVIOUS
  <2>1. u = <<>> /\ g = <<>>
    OBVIOUS
  <2> QED BY <2>1, FlattenEmpty, NothingMatched
<1>2. ASSUME NEW k \in Nat, k \in N
      PROVE  k + 1 \in N
  <2> SUFFICES ASSUME NEW u \in Seq(Seq(A)), NEW g \in Seq(Seq(Field)), Len(u) = k + 1, Good(u, g)
               PROVE  Matching(R, FlattenSeq(u), FlattenSeq(g))
    OBVIOUS
  <2> DEFINE v == SubSeq(u, 1, k)
             h == SubSeq(g, 1, k)
  <2>1. v \in Seq(Seq(A)) /\ Len(v) = k /\ u[k + 1] \in Seq(A) /\ u = Append(v, u[k + 1])
    BY LastApart, SMTT(40)
  <2>2. h \in Seq(Seq(Field)) /\ Len(h) = k /\ g[k + 1] \in Seq(Field) /\ g = Append(h, g[k + 1])
    <3>1. Len(g) = k + 1
      OBVIOUS
    <3> QED BY <3>1, LastApart
  <2>3. Good(v, h)
    <3>1. ASSUME NEW i \in 1 .. k
          PROVE  Matching(R, v[i], h[i])
      <4>1. v[i] = u[i] /\ h[i] = g[i] /\ i \in 1 .. Len(u)
        BY <2>1, <2>2
      <4> QED BY <4>1
    <3> QED BY <3>1, <2>1, <2>2
  <2>4. Matching(R, FlattenSeq(v), FlattenSeq(h))
    <3> HIDE DEF Good, v, h
    <3> QED BY <1>2, <2>1, <2>2, <2>3
  <2>5. Matching(R, u[k + 1], g[k + 1])
    <3>1. k + 1 \in 1 .. Len(u)
      OBVIOUS
    <3> QED BY <3>1
  <2>6. FlattenSeq(u) = FlattenSeq(v) \o u[k + 1] /\ FlattenSeq(g) = FlattenSeq(h) \o g[k + 1]
    <3> HIDE DEF v, h, Good
    <3> QED BY <2>1, <2>2, FlattenAppend
  <2>7. FlattenSeq(v) \in Seq(A)
    BY <2>1, FlattenTyped
  <2>8. Matching(R, FlattenSeq(v) \o u[k + 1], FlattenSeq(h) \o g[k + 1])
    <3> HIDE DEF v, h, Good
    <3> QED BY <2>1, <2>4, <2>5, <2>7, BothMatched
  <2> QED BY <2>6, <2>8
<1>3. Nat \subseteq N
  <2> HIDE DEF N
  <2> QED BY <1>1, <1>2, Induction
<1>4. Len(T) \in N /\ Good(T, F)
  BY <1>3
<1> QED BY <1>4

-----------------------------------------------------------------------------
(* Bytes of fields.                                                        *)

FieldBytes(field) ==
  IF field = Command("START_GAME") THEN write_uint32(START_GAME) ELSE Serialized(field)

Bytes(F) == FlattenSeq([i \in DOMAIN F |-> FieldBytes(F[i])])

LEMMA WordNat == Word \subseteq Nat /\ 0 \in Word /\ 1 \in Word
<1>1. \A b, c \in Nat : b >= 1 /\ c >= 2 => b * c >= 2
  OBVIOUS
<1>2. Base * Base * Base * Base >= 2
  <2>1. Base \in Nat /\ Base >= 2
    BY WireAssumption
  <2>2. Base * Base \in Nat /\ Base * Base >= 2
    BY <2>1, <1>1
  <2>3. Base * Base * Base \in Nat /\ Base * Base * Base >= 2
    BY <2>1, <2>2, <1>1
  <2> QED BY <2>1, <2>3, <1>1
<1> QED BY <1>2, Bases DEF Word

LEMMA NumberBytes ==
  ASSUME NEW n \in Word
  PROVE  /\ serialize_uint32(n) \in Seq(Byte) /\ Len(serialize_uint32(n)) = 4
         /\ Number(n) \in Field /\ Number(n) \in Told /\ FieldBytes(Number(n)) = serialize_uint32(n)
<1>1. BytesOf(n) \in Seq(Byte) /\ Len(BytesOf(n)) = 4
  BY WordNat, FourBytes
<1>2. serialize_uint32(n) \in Seq(Byte) /\ Len(serialize_uint32(n)) = 4
  <2>1. Reverse(Reverse(BytesOf(n))) = BytesOf(n)
    BY <1>1 DEF Reverse
  <2> QED BY <1>1, <2>1 DEF serialize_uint32
<1>3. Number(n) \in Field /\ Number(n) \in Told
  BY DEF Number, Told, Field
<1>4. DOMAIN Number(n) = {"number"} /\ Number(n).number = n /\ DOMAIN Command("START_GAME") = {"command"}
  BY DEF Number, Command
<1>5. Number(n) # Command("START_GAME")
  BY <1>4
<1>6. FieldBytes(Number(n)) = serialize_uint32(n)
  BY <1>4, <1>5 DEF FieldBytes, Serialized
<1> QED BY <1>2, <1>3, <1>6

LEMMA StringBytes ==
  ASSUME NEW s \in Name
  PROVE  /\ s \in Seq(Byte) /\ Len(s) \in Word /\ Len(s) >= 1 /\ String(s) \in Field
         /\ String(s) \in Told
         /\ FieldBytes(String(s)) = serialize_uint32(Len(s)) \o s
         /\ FieldBytes(String(s)) \in Seq(Byte)
<1>1. s \in Seq(Byte) /\ Len(s) \in Word /\ Len(s) >= 1
  BY DEF Name
<1>2. String(s) \in Field /\ String(s) \in Told
  BY DEF String, Told, Field
<1>3. DOMAIN String(s) = {"string"} /\ String(s).string = s /\ DOMAIN Command("START_GAME") = {"command"}
  BY DEF String, Command
<1>4. String(s) # Command("START_GAME")
  BY <1>3
<1>5. FieldBytes(String(s)) = serialize_uint32(Len(s)) \o s
  BY <1>3, <1>4 DEF FieldBytes, Serialized
<1>6. serialize_uint32(Len(s)) \in Seq(Byte)
  BY <1>1, NumberBytes
<1>7. serialize_uint32(Len(s)) \o s \in Seq(Byte)
  BY <1>1, <1>6
<1> QED BY <1>1, <1>2, <1>5, <1>7

LEMMA CommandBytes ==
  /\ Command("UPDATE_PLAYERS") \in Field /\ Command("UPDATE_PLAYERS") \in Told
  /\ FieldBytes(Command("UPDATE_PLAYERS")) = serialize_uint32(UPDATE_PLAYERS)
  /\ Command("START_GAME") \in Field
  /\ FieldBytes(Command("START_GAME")) = write_uint32(START_GAME)
  /\ \A c \in {"UPDATE_PLAYERS", "START_GAME"} :
       FieldBytes(Command(c)) \in Seq(Byte) /\ Len(FieldBytes(Command(c))) = 4
<1>1. /\ Command("UPDATE_PLAYERS") # Command("START_GAME")
      /\ "number" \notin DOMAIN Command("UPDATE_PLAYERS")
      /\ "string" \notin DOMAIN Command("UPDATE_PLAYERS")
  BY DEF Command
<1>2. FieldBytes(Command("UPDATE_PLAYERS")) = serialize_uint32(UPDATE_PLAYERS)
  BY <1>1 DEF FieldBytes, Serialized
<1>3. FieldBytes(Command("START_GAME")) = write_uint32(START_GAME)
  BY DEF FieldBytes
<1>4. /\ Command("UPDATE_PLAYERS") \in Field /\ Command("UPDATE_PLAYERS") \in Told
      /\ Command("START_GAME") \in Field
  BY DEF Command, Told, Field
<1>5. 1 \in Word /\ 0 \in Nat
  BY WordNat
<1>6. /\ serialize_uint32(1) \in Seq(Byte) /\ Len(serialize_uint32(1)) = 4
      /\ write_uint32(0) \in Seq(Byte) /\ Len(write_uint32(0)) = 4
  BY <1>5, NumberBytes, Written
<1> QED BY <1>2, <1>3, <1>4, <1>6 DEF UPDATE_PLAYERS, START_GAME

LEMMA FieldTyped ==
  ASSUME NEW field \in Field
  PROVE  FieldBytes(field) \in Seq(Byte)
<1>1. CASE field \in [number : Word]
  <2>1. field.number \in Word /\ field = Number(field.number)
    BY <1>1 DEF Number
  <2> QED BY <2>1, NumberBytes
<1>2. CASE field \in [string : Name]
  <2>1. field.string \in Name /\ field = String(field.string)
    BY <1>2 DEF String
  <2> QED BY <2>1, StringBytes
<1>3. CASE field \in [command : {"UPDATE_PLAYERS"}]
  <2>1. field = Command("UPDATE_PLAYERS")
    BY <1>3 DEF Command
  <2> QED BY <2>1, CommandBytes
<1>4. CASE field = Command("START_GAME")
  BY <1>4, CommandBytes
<1> QED BY <1>1, <1>2, <1>3, <1>4 DEF Told, Field

LEMMA BytesPieces ==
  ASSUME NEW F \in Seq(Field)
  PROVE  /\ [i \in DOMAIN F |-> FieldBytes(F[i])] \in Seq(Seq(Byte))
         /\ Len([i \in DOMAIN F |-> FieldBytes(F[i])]) = Len(F)
         /\ \A i \in 1 .. Len(F) : [j \in DOMAIN F |-> FieldBytes(F[j])][i] = FieldBytes(F[i])
<1> DEFINE g == [i \in 1 .. Len(F) |-> FieldBytes(F[i])]
<1>1. \A i \in 1 .. Len(F) : FieldBytes(F[i]) \in Seq(Byte)
  BY FieldTyped
<1>2. DOMAIN F = 1 .. Len(F) /\ Len(F) \in Nat
  OBVIOUS
<1>3. g \in [1 .. Len(F) -> Seq(Byte)]
  BY <1>1
<1> HIDE DEF g
<1>4. g \in Seq(Seq(Byte)) /\ Len(g) = Len(F)
  BY <1>2, <1>3
<1> QED BY <1>2, <1>4 DEF g

LEMMA BytesTyped ==
  ASSUME NEW F \in Seq(Field)
  PROVE  Bytes(F) \in Seq(Byte)
BY BytesPieces, FlattenTyped DEF Bytes

LEMMA BytesEmpty == Bytes(<<>>) = <<>>
<1>1. [i \in DOMAIN <<>> |-> FieldBytes(<<>>[i])] = <<>>
  OBVIOUS
<1> QED BY <1>1, FlattenEmpty DEF Bytes

LEMMA BytesOne ==
  ASSUME NEW field \in Field
  PROVE  Bytes(<<field>>) = FieldBytes(field)
<1>1. [i \in DOMAIN <<field>> |-> FieldBytes(<<field>>[i])] = <<FieldBytes(field)>>
  OBVIOUS
<1>2. FieldBytes(field) \in Seq(Byte)
  BY FieldTyped
<1> QED BY <1>1, <1>2, FlattenOne DEF Bytes

LEMMA BytesJoined ==
  ASSUME NEW F \in Seq(Field), NEW G \in Seq(Field)
  PROVE  Bytes(F \o G) = Bytes(F) \o Bytes(G)
<1> DEFINE f == [i \in DOMAIN F |-> FieldBytes(F[i])]
           g == [i \in DOMAIN G |-> FieldBytes(G[i])]
           h == [i \in DOMAIN (F \o G) |-> FieldBytes((F \o G)[i])]
<1>1. /\ f \in Seq(Seq(Byte)) /\ Len(f) = Len(F)
      /\ \A i \in 1 .. Len(F) : f[i] = FieldBytes(F[i])
  BY BytesPieces
<1>2. /\ g \in Seq(Seq(Byte)) /\ Len(g) = Len(G)
      /\ \A i \in 1 .. Len(G) : g[i] = FieldBytes(G[i])
  BY BytesPieces
<1>3. /\ F \o G \in Seq(Field) /\ Len(F \o G) = Len(F) + Len(G) /\ Len(F) \in Nat /\ Len(G) \in Nat
      /\ \A i \in 1 .. Len(F) : (F \o G)[i] = F[i]
      /\ \A i \in 1 .. Len(G) : (F \o G)[Len(F) + i] = G[i]
  BY Joined
<1>4. /\ h \in Seq(Seq(Byte)) /\ Len(h) = Len(F) + Len(G)
      /\ \A i \in 1 .. Len(F) + Len(G) : h[i] = FieldBytes((F \o G)[i])
  BY <1>3, BytesPieces
<1> HIDE DEF f, g, h
<1>5. /\ f \o g \in Seq(Seq(Byte)) /\ Len(f \o g) = Len(F) + Len(G)
      /\ \A i \in 1 .. Len(F) : (f \o g)[i] = f[i]
      /\ \A i \in 1 .. Len(G) : (f \o g)[Len(F) + i] = g[i]
  <2>1. f \in Seq(Seq(Byte)) /\ g \in Seq(Seq(Byte))
    BY <1>1, <1>2
  <2>2. /\ f \o g \in Seq(Seq(Byte)) /\ Len(f \o g) = Len(f) + Len(g)
        /\ \A i \in 1 .. Len(f) : (f \o g)[i] = f[i]
        /\ \A i \in 1 .. Len(g) : (f \o g)[Len(f) + i] = g[i]
    BY <2>1, Joined
  <2> QED BY <2>2, <1>1, <1>2
<1>6. \A i \in 1 .. Len(h) : h[i] = (f \o g)[i]
  <2> TAKE i \in 1 .. Len(h)
  <2>1. CASE i <= Len(F)
    <3>1. i \in 1 .. Len(F) /\ i \in 1 .. Len(F) + Len(G)
      BY <2>1, <1>3, <1>4
    <3>2. h[i] = FieldBytes(F[i]) /\ f[i] = FieldBytes(F[i]) /\ (f \o g)[i] = f[i]
      BY <3>1, <1>1, <1>3, <1>4, <1>5
    <3> QED BY <3>2
  <2>2. CASE i > Len(F)
    <3>1. /\ i - Len(F) \in 1 .. Len(G) /\ i = Len(F) + (i - Len(F)) /\ i \in 1 .. Len(F) + Len(G)
      BY <2>2, <1>3, <1>4
    <3>2. PICK k \in 1 .. Len(G) : i = Len(F) + k
      BY <3>1
    <3>3. h[i] = FieldBytes((F \o G)[i])
      BY <3>1, <1>4
    <3>4. h[i] = FieldBytes(G[k]) /\ g[k] = FieldBytes(G[k]) /\ (f \o g)[i] = g[k]
      BY <3>2, <3>3, <1>2, <1>3, <1>5
    <3> QED BY <3>4
  <2>3. i <= Len(F) \/ i > Len(F)
    BY <1>3, <1>4
  <2> QED BY <2>1, <2>2, <2>3, Zenon
<1> DEFINE k == f \o g
<1>7. k \in Seq(Seq(Byte)) /\ Len(k) = Len(h) /\ \A i \in 1 .. Len(h) : h[i] = k[i]
  BY <1>4, <1>5, <1>6
<1> HIDE DEF k
<1>8. \A Q : \A s, t \in Seq(Q) : Len(s) = Len(t) /\ (\A i \in 1 .. Len(s) : s[i] = t[i]) => s = t
  OBVIOUS
<1>9. h = k
  BY <1>4, <1>7, <1>8
<1>10. FlattenSeq(f \o g) = FlattenSeq(f) \o FlattenSeq(g)
  BY <1>1, <1>2, FlattenConcat
<1> QED BY <1>9, <1>10 DEF Bytes, f, g, h, k

\* The buffer holds the bytes
LEMMA Buffered ==
  ASSUME NEW F \in Seq(Told)
  PROVE  F \in Seq(Field) /\ WriteBuffer(F) = Bytes(F)
<1>1. F \in Seq(Field)
  BY DEF Field
<1>2. ASSUME NEW field \in Told
      PROVE  FieldBytes(field) = Serialized(field)
  <2>1. field # Command("START_GAME")
    BY DEF Told, Command
  <2> QED BY <2>1 DEF FieldBytes
<1>3. \A i \in DOMAIN F : FieldBytes(F[i]) = Serialized(F[i])
  BY <1>2
<1>4. [i \in DOMAIN F |-> FieldBytes(F[i])] = [i \in DOMAIN F |-> Serialized(F[i])]
  BY <1>3
<1> QED BY <1>1, <1>4 DEF WriteBuffer, Bytes

-----------------------------------------------------------------------------
(* What each format reads.                                                 *)

uint32Pair == Format("numbers", 8, <<>>)

Plain == {uint32, uint32Pair, string}

Formats == Plain \union {read_vector(structure) : structure \in Seq(Plain)}

PlainPairs ==
  {<<uint32, <<Number(n)>>>> : n \in Word}
    \union {<<uint32Pair, <<Number(m), Number(n)>>>> : m, n \in Word}
    \union {<<string, <<String(s)>>>> : s \in Name}

Vectors(structure) ==
  {p \in Seq(Seq(Field)) : /\ Len(p) \in Word
                           /\ \A i \in 1 .. Len(p) : Matching(PlainPairs, structure, p[i])}

Pairs ==
  PlainPairs
    \union UNION {{<<read_vector(structure), write_vector(p)>> : p \in Vectors(structure)} :
                    structure \in Seq(Plain)}

Letters(s) == Format("letters", Len(s), <<>>)

\* What is to be read, the fields that it gives and the bytes that they come in: of a
\* string whose length is read only the letters
Expected(T, F, B) ==
  \/ T \in Seq(Formats) /\ Matching(Pairs, T, F) /\ B = Bytes(F)
  \/ \E s \in Name, U \in Seq(Formats), G \in Seq(Field) :
       /\ T = <<Letters(s)>> \o U /\ F = <<String(s)>> \o G
       /\ Matching(Pairs, U, G) /\ B = s \o Bytes(G)

LEMMA ExpectedTyped ==
  ASSUME NEW T, NEW F, NEW B, Expected(T, F, B)
  PROVE  F \in Seq(Field) /\ B \in Seq(Byte)
<1>1. CASE Matching(Pairs, T, F) /\ B = Bytes(F)
  BY <1>1, MatchingTyped, BytesTyped
<1>2. ASSUME NEW s \in Name, NEW G \in Seq(Field), F = <<String(s)>> \o G, B = s \o Bytes(G)
      PROVE  F \in Seq(Field) /\ B \in Seq(Byte)
  <2>1. s \in Seq(Byte) /\ Bytes(G) \in Seq(Byte) /\ <<String(s)>> \in Seq(Field)
    BY StringBytes, BytesTyped
  <2> QED BY <2>1, <1>2
<1> QED BY <1>1, <1>2 DEF Expected

LEMMA NothingExpected ==
  /\ Expected(<<>>, <<>>, <<>>)
  /\ \A F, B : Expected(<<>>, F, B) => F = <<>> /\ B = <<>>
<1>1. <<>> \in Seq(Formats)
  OBVIOUS
<1>2. ASSUME NEW F, NEW B, Expected(<<>>, F, B)
      PROVE  F = <<>> /\ B = <<>>
  <2>1. \A s, U : U \in Seq(Formats) => <<>> # <<Letters(s)>> \o U
    OBVIOUS
  <2>2. Matching(Pairs, <<>>, F) /\ B = Bytes(F)
    BY <1>2, <2>1 DEF Expected
  <2> QED BY <2>2, NothingMatched, BytesEmpty
<1> QED BY <1>1, <1>2, NothingMatched, BytesEmpty DEF Expected

LEMMA ExpectedMore ==
  ASSUME NEW T, NEW F, NEW B, Expected(T, F, B),
         NEW V \in Seq(Formats), NEW H \in Seq(Field), Matching(Pairs, V, H)
  PROVE  Expected(T \o V, F \o H, B \o Bytes(H))
<1>1. CASE T \in Seq(Formats) /\ Matching(Pairs, T, F) /\ B = Bytes(F)
  <2>1. F \in Seq(Field)
    BY <1>1, MatchingTyped
  <2>2. Matching(Pairs, T \o V, F \o H)
    BY <1>1, BothMatched
  <2>3. Bytes(F \o H) = B \o Bytes(H)
    BY <1>1, <2>1, BytesJoined
  <2>4. T \o V \in Seq(Formats)
    BY <1>1
  <2> QED BY <2>2, <2>3, <2>4 DEF Expected
<1>2. ASSUME NEW s \in Name, NEW U \in Seq(Formats), NEW G \in Seq(Field),
             T = <<Letters(s)>> \o U, F = <<String(s)>> \o G,
             Matching(Pairs, U, G), B = s \o Bytes(G)
      PROVE  Expected(T \o V, F \o H, B \o Bytes(H))
  <2>1. U \o V \in Seq(Formats) /\ G \o H \in Seq(Field)
    OBVIOUS
  <2>2. Matching(Pairs, U \o V, G \o H)
    BY <1>2, BothMatched
  <2>3. T \o V = <<Letters(s)>> \o (U \o V)
    <3>1. <<Letters(s)>> \in Seq(Formats \union {Letters(s)}) /\ U \in Seq(Formats \union {Letters(s)})
          /\ V \in Seq(Formats \union {Letters(s)})
      OBVIOUS
    <3> QED BY <3>1, <1>2, ThreeJoined
  <2>4. F \o H = <<String(s)>> \o (G \o H)
    <3>1. <<String(s)>> \in Seq(Field)
      BY StringBytes
    <3> QED BY <3>1, <1>2, ThreeJoined
  <2>5. B \o Bytes(H) = s \o Bytes(G \o H)
    <3>1. s \in Seq(Byte) /\ Bytes(G) \in Seq(Byte) /\ Bytes(H) \in Seq(Byte)
      BY StringBytes, BytesTyped
    <3>2. (s \o Bytes(G)) \o Bytes(H) = s \o (Bytes(G) \o Bytes(H))
      BY <3>1, ThreeJoined, SMTT(40)
    <3> QED BY <3>2, <1>2, BytesJoined
  <2> QED BY <2>1, <2>2, <2>3, <2>4, <2>5 DEF Expected
<1> QED BY <1>1, <1>2 DEF Expected

-----------------------------------------------------------------------------
(* The first read of a format.                                             *)

Reads(f, F, B) ==
  \E b \in Seq(Byte), c \in Seq(Byte), G \in Seq(Field), H \in Seq(Field) :
    /\ Len(b) = f.bytes /\ f.bytes \in Nat \ {0}
    /\ B = b \o c /\ F = G \o H
    /\ Fields(f, b) = G /\ Expected(Rest(f, b), H, c)

LEMMA ReadsIntroduced ==
  ASSUME NEW f, NEW F, NEW B,
         NEW b \in Seq(Byte), NEW c \in Seq(Byte), NEW G \in Seq(Field), NEW H \in Seq(Field),
         Len(b) = f.bytes, f.bytes \in Nat \ {0}, B = b \o c, F = G \o H,
         Fields(f, b) = G, Expected(Rest(f, b), H, c)
  PROVE  Reads(f, F, B)
BY DEF Reads

LEMMA Kinds ==
  /\ uint32.kind = "numbers" /\ uint32.bytes = 4
  /\ uint32Pair.kind = "numbers" /\ uint32Pair.bytes = 8
  /\ string.kind = "string" /\ string.bytes = 4
  /\ \A st : /\ read_vector(st).kind = "vector" /\ read_vector(st).bytes = 4
             /\ read_vector(st).of = st
  /\ \A s : Letters(s).kind = "letters" /\ Letters(s).bytes = Len(s)
BY DEF uint32, uint32Pair, string, read_vector, Letters, Format

LEMMA NumberReads ==
  ASSUME NEW n \in Word
  PROVE  Reads(uint32, <<Number(n)>>, Bytes(<<Number(n)>>))
<1> DEFINE b == serialize_uint32(n)
           F == <<Number(n)>>
<1>1. b \in Seq(Byte) /\ Len(b) = 4 /\ Number(n) \in Field /\ Bytes(F) = b /\ F \in Seq(Field)
  <2>1. /\ b \in Seq(Byte) /\ Len(b) = 4 /\ Number(n) \in Field /\ FieldBytes(Number(n)) = b
    BY NumberBytes
  <2>2. Bytes(F) = b
    BY <2>1, BytesOne
  <2> QED BY <2>1, <2>2
<1>2. buff_to_uint32(b) = n
  BY DecodesWhatWasSerialized
<1> HIDE DEF b
<1>3. Fields(uint32, b) = F
  <2>1. Len(b) \div 4 = 1
    BY <1>1
  <2>2. Fields(uint32, b) = [i \in 1 .. 1 |-> Number(buff_to_uint32(SubSeq(b, 4 * i - 3, 4 * i)))]
    BY <2>1, Kinds DEF Fields
  <2>3. SubSeq(b, 4 * 1 - 3, 4 * 1) = b
    BY <1>1
  <2>4. Fields(uint32, b) = <<Number(buff_to_uint32(SubSeq(b, 4 * 1 - 3, 4 * 1)))>>
    BY <2>2
  <2> QED BY <2>3, <2>4, <1>2
<1>4. Rest(uint32, b) = <<>>
  BY Kinds DEF Rest
<1>5. b = b \o <<>> /\ F = F \o <<>> /\ <<>> \in Seq(Byte) /\ <<>> \in Seq(Field)
  BY <1>1
<1>6. Expected(Rest(uint32, b), <<>>, <<>>)
  BY <1>4, NothingExpected
<1> HIDE DEF F
<1>7. Reads(uint32, F, Bytes(F))
  <2>1. Len(b) = uint32.bytes /\ uint32.bytes \in Nat \ {0} /\ Bytes(F) = b \o <<>>
    BY <1>1, <1>5, Kinds
  <2> QED BY <2>1, <1>1, <1>3, <1>5, <1>6, ReadsIntroduced
<1> QED BY <1>7 DEF F

LEMMA PairReads ==
  ASSUME NEW m \in Word, NEW n \in Word
  PROVE  Reads(uint32Pair, <<Number(m), Number(n)>>, Bytes(<<Number(m), Number(n)>>))
<1> DEFINE a == serialize_uint32(m)
           c == serialize_uint32(n)
           b == a \o c
           F == <<Number(m), Number(n)>>
<1>1. /\ a \in Seq(Byte) /\ Len(a) = 4 /\ Number(m) \in Field /\ FieldBytes(Number(m)) = a
      /\ c \in Seq(Byte) /\ Len(c) = 4 /\ Number(n) \in Field /\ FieldBytes(Number(n)) = c
  BY NumberBytes
<1>2. F \in Seq(Field) /\ Bytes(F) = b
  <2>1. <<Number(m)>> \in Seq(Field) /\ <<Number(n)>> \in Seq(Field) /\ F = <<Number(m)>> \o <<Number(n)>>
    BY <1>1
  <2>2. Bytes(<<Number(m)>>) = a /\ Bytes(<<Number(n)>>) = c
    BY <1>1, BytesOne
  <2>3. Bytes(F) = Bytes(<<Number(m)>>) \o Bytes(<<Number(n)>>)
    BY <2>1, BytesJoined
  <2> HIDE DEF a, c, F
  <2>4. F \in Seq(Field)
    BY <2>1
  <2> QED BY <2>1, <2>2, <2>3, <2>4
<1>3. buff_to_uint32(a) = m /\ buff_to_uint32(c) = n
  BY DecodesWhatWasSerialized
<1> HIDE DEF a, c
<1>4. b \in Seq(Byte) /\ Len(b) = 8 /\ SubSeq(b, 1, 4) = a /\ SubSeq(b, 5, 8) = c
  <2>1. /\ b \in Seq(Byte) /\ Len(b) = 8
        /\ \A i \in 1 .. 4 : b[i] = a[i] /\ b[4 + i] = c[i]
    <3>1. /\ b \in Seq(Byte) /\ Len(b) = Len(a) + Len(c)
          /\ \A i \in 1 .. Len(a) : b[i] = a[i]
          /\ \A i \in 1 .. Len(c) : b[Len(a) + i] = c[i]
      <4>1. a \in Seq(Byte) /\ c \in Seq(Byte)
        BY <1>1
      <4> QED BY <4>1, Joined
    <3> HIDE DEF b
    <3> QED BY <3>1, <1>1
  <2> HIDE DEF b
  <2>2. SubSeq(b, 1, 4) = a
    BY <2>1, <1>1
  <2>3. SubSeq(b, 5, 8) = c
    BY <2>1, <1>1
  <2> QED BY <2>1, <2>2, <2>3
<1> HIDE DEF b
<1>5. Fields(uint32Pair, b) = F
  <2>1. Len(b) \div 4 = 2
    BY <1>4
  <2>2. Fields(uint32Pair, b) = [i \in 1 .. 2 |-> Number(buff_to_uint32(SubSeq(b, 4 * i - 3, 4 * i)))]
    BY <2>1, Kinds DEF Fields
  <2>3. SubSeq(b, 4 * 1 - 3, 4 * 1) = a /\ SubSeq(b, 4 * 2 - 3, 4 * 2) = c
    BY <1>4
  <2>4. Fields(uint32Pair, b) = <<Number(buff_to_uint32(SubSeq(b, 4 * 1 - 3, 4 * 1))),
                                  Number(buff_to_uint32(SubSeq(b, 4 * 2 - 3, 4 * 2)))>>
    BY <2>2
  <2> QED BY <2>3, <2>4, <1>3
<1>6. Rest(uint32Pair, b) = <<>>
  BY Kinds DEF Rest
<1>7. b = b \o <<>> /\ F = F \o <<>> /\ <<>> \in Seq(Byte) /\ <<>> \in Seq(Field)
  BY <1>2, <1>4
<1>8. Expected(Rest(uint32Pair, b), <<>>, <<>>)
  BY <1>6, NothingExpected
<1> HIDE DEF F
<1>9. Reads(uint32Pair, F, Bytes(F))
  <2>1. Len(b) = uint32Pair.bytes /\ uint32Pair.bytes \in Nat \ {0} /\ Bytes(F) = b \o <<>>
    BY <1>2, <1>4, <1>7, Kinds
  <2> QED BY <2>1, <1>2, <1>4, <1>5, <1>7, <1>8, ReadsIntroduced
<1> QED BY <1>9 DEF F

LEMMA StringReads ==
  ASSUME NEW s \in Name
  PROVE  Reads(string, <<String(s)>>, Bytes(<<String(s)>>))
<1> DEFINE b == serialize_uint32(Len(s))
           F == <<String(s)>>
<1>1. s \in Seq(Byte) /\ Len(s) \in Word /\ Len(s) >= 1 /\ F \in Seq(Field) /\ Bytes(F) = b \o s
  BY StringBytes, BytesOne
<1>2. b \in Seq(Byte) /\ Len(b) = 4 /\ buff_to_uint32(b) = Len(s)
  BY <1>1, NumberBytes, DecodesWhatWasSerialized
<1> HIDE DEF b
<1>3. Fields(string, b) = <<>>
  BY <1>1, <1>2, Kinds DEF Fields
<1>4. Rest(string, b) = <<Letters(s)>>
  BY <1>1, <1>2, Kinds DEF Rest, Letters
<1>5. Expected(<<Letters(s)>>, F, s)
  <2>1. /\ <<>> \in Seq(Formats) /\ <<>> \in Seq(Field)
        /\ <<Letters(s)>> = <<Letters(s)>> \o <<>> /\ F = <<String(s)>> \o <<>>
        /\ s = s \o <<>>
    BY <1>1
  <2> QED BY <2>1, NothingMatched, BytesEmpty DEF Expected
<1>6. F = <<>> \o F /\ <<>> \in Seq(Field)
  OBVIOUS
<1> HIDE DEF F
<1>7. Reads(string, F, Bytes(F))
  <2>1. Len(b) = string.bytes /\ string.bytes \in Nat \ {0} /\ Bytes(F) = b \o s
    <3>1. Bytes(F) = b \o s
      BY <1>1 DEF F
    <3> QED BY <3>1, <1>2, Kinds
  <2>2. Expected(Rest(string, b), F, s)
    BY <1>4, <1>5
  <2>3. F \in Seq(Field)
    BY <1>1 DEF F
  <2> QED BY <2>1, <2>2, <2>3, <1>1, <1>2, <1>3, <1>6, ReadsIntroduced
<1> QED BY <1>7 DEF F

LEMMA LettersRead ==
  ASSUME NEW s \in Name
  PROVE  Reads(Letters(s), <<String(s)>>, s)
<1> DEFINE F == <<String(s)>>
<1>1. s \in Seq(Byte) /\ Len(s) \in Word /\ Len(s) >= 1 /\ F \in Seq(Field)
  BY StringBytes
<1>2. Fields(Letters(s), s) = F /\ Rest(Letters(s), s) = <<>>
  BY Kinds DEF Fields, Rest
<1>3. Len(s) \in Nat \ {0}
  BY <1>1, WordNat
<1>4. s = s \o <<>> /\ F = F \o <<>> /\ <<>> \in Seq(Byte) /\ <<>> \in Seq(Field)
  BY <1>1
<1>5. Expected(Rest(Letters(s), s), <<>>, <<>>)
  BY <1>2, NothingExpected
<1> HIDE DEF F
<1>6. Reads(Letters(s), F, s)
  BY <1>1, <1>2, <1>3, <1>4, <1>5, Kinds DEF Reads
<1> QED BY <1>6 DEF F

LEMMA VectorReads ==
  ASSUME NEW st \in Seq(Plain), NEW p \in Vectors(st)
  PROVE  Reads(read_vector(st), write_vector(p), Bytes(write_vector(p)))
<1> DEFINE k == Len(p)
           b == serialize_uint32(k)
           G == <<Number(k)>>
           H == FlattenSeq(p)
           F == write_vector(p)
           copies == [i \in 1 .. k |-> st]
<1>1. /\ p \in Seq(Seq(Field)) /\ k \in Word /\ k \in Nat
      /\ \A i \in 1 .. k : Matching(PlainPairs, st, p[i])
  BY WordNat DEF Vectors
<1>2. H \in Seq(Field)
  BY <1>1, FlattenTyped
<1>3. /\ b \in Seq(Byte) /\ Len(b) = 4 /\ Number(k) \in Field /\ FieldBytes(Number(k)) = b
      /\ buff_to_uint32(b) = k
  BY <1>1, NumberBytes, DecodesWhatWasSerialized
<1>4. G \in Seq(Field) /\ Bytes(G) = b
  BY <1>3, BytesOne
<1>5. F = G \o H
  BY DEF write_vector
<1>6. Bytes(F) = b \o Bytes(H) /\ Bytes(H) \in Seq(Byte)
  BY <1>2, <1>4, <1>5, BytesJoined, BytesTyped
<1>7. Fields(read_vector(st), b) = G
  <2> HIDE DEF b, k
  <2> QED BY <1>3, Kinds DEF Fields
<1>8. Rest(read_vector(st), b) = FlattenSeq(copies)
  <2> HIDE DEF b, k
  <2> QED BY <1>3, Kinds DEF Rest, Copies
<1>9. copies \in Seq(Seq(Plain)) /\ Len(copies) = k /\ \A i \in 1 .. k : copies[i] = st
  <2> HIDE DEF k
  <2> QED BY <1>1
<1>10. FlattenSeq(copies) \in Seq(Formats)
  <2>1. FlattenSeq(copies) \in Seq(Plain)
    BY <1>9, FlattenTyped
  <2>2. Plain \subseteq Formats
    BY DEF Formats
  <2> HIDE DEF copies
  <2> QED BY <2>1, <2>2
<1>11. Matching(Pairs, FlattenSeq(copies), H)
  <2>1. Matching(PlainPairs, FlattenSeq(copies), H)
    <3>1. \A i \in 1 .. Len(copies) : Matching(PlainPairs, copies[i], p[i])
      BY <1>1, <1>9
    <3> HIDE DEF copies
    <3> QED BY <3>1, <1>1, <1>9, AllMatched
  <2>2. PlainPairs \subseteq Pairs
    BY DEF Pairs
  <2> QED BY <2>1, <2>2, MoreMatched
<1>12. Expected(Rest(read_vector(st), b), H, Bytes(H))
  BY <1>8, <1>10, <1>11 DEF Expected
<1> HIDE DEF b, G, H, F, k
<1>13. Reads(read_vector(st), F, Bytes(F))
  <2>1. Len(b) = read_vector(st).bytes /\ read_vector(st).bytes \in Nat \ {0}
    BY <1>3, Kinds
  <2> QED BY <2>1, <1>2, <1>3, <1>4, <1>5, <1>6, <1>7, <1>12, ReadsIntroduced
<1> QED BY <1>13 DEF F

LEMMA PairsRead ==
  ASSUME NEW f, NEW F, <<f, F>> \in Pairs
  PROVE  Reads(f, F, Bytes(F))
<1>1. CASE \E n \in Word : f = uint32 /\ F = <<Number(n)>>
  BY <1>1, NumberReads
<1>2. CASE \E m, n \in Word : f = uint32Pair /\ F = <<Number(m), Number(n)>>
  BY <1>2, PairReads
<1>3. CASE \E s \in Name : f = string /\ F = <<String(s)>>
  BY <1>3, StringReads
<1>4. CASE \E st \in Seq(Plain) : \E p \in Vectors(st) : f = read_vector(st) /\ F = write_vector(p)
  BY <1>4, VectorReads
<1>5. CASE <<f, F>> \in PlainPairs
  BY <1>1, <1>2, <1>3, <1>5 DEF PlainPairs
<1> QED BY <1>4, <1>5 DEF Pairs

(***************************************************************************)
(* A read of as many bytes as the first format begins with gives the       *)
(* fields that are expected first, and leaves the rest of them expected.   *)
(***************************************************************************)
\* The bytes of the first read, and what is expected after it
HeadReads(T, F, B) ==
  \E b \in Seq(Byte), c \in Seq(Byte), H \in Seq(Field) :
    /\ Len(b) = Head(T).bytes /\ Head(T).bytes \in Nat \ {0}
    /\ B = b \o c /\ F = Fields(Head(T), b) \o H
    /\ Fields(Head(T), b) \in Seq(Field)
    /\ Expected(Rest(Head(T), b) \o Tail(T), H, c)

LEMMA HeadRead ==
  ASSUME NEW T, NEW F, NEW B, Expected(T, F, B), T # <<>>
  PROVE  HeadReads(T, F, B)
<1> USE DEF HeadReads
<1>1. PICK f, G, C, U, H :
        /\ Head(T) = f /\ Tail(T) = U /\ Reads(f, G, C) /\ F = G \o H /\ B = C \o Bytes(H)
        /\ U \in Seq(Formats) /\ H \in Seq(Field) /\ Matching(Pairs, U, H)
        /\ G \in Seq(Field) /\ C \in Seq(Byte)
  <2>1. CASE T \in Seq(Formats) /\ Matching(Pairs, T, F) /\ B = Bytes(F)
    <3>1. PICK G \in Seq(Field), H \in Seq(Field) :
            F = G \o H /\ <<Head(T), G>> \in Pairs /\ Matching(Pairs, Tail(T), H)
      BY <2>1, FirstMatched
    <3>2. Reads(Head(T), G, Bytes(G)) /\ B = Bytes(G) \o Bytes(H) /\ Bytes(G) \in Seq(Byte)
      BY <3>1, <2>1, PairsRead, BytesJoined, BytesTyped
    <3>3. Tail(T) \in Seq(Formats)
      BY <2>1, HeadTail
    <3> QED BY <3>1, <3>2, <3>3
  <2>2. ASSUME NEW s \in Name, NEW U \in Seq(Formats), NEW H \in Seq(Field),
               T = <<Letters(s)>> \o U, F = <<String(s)>> \o H,
               Matching(Pairs, U, H), B = s \o Bytes(H)
        PROVE  /\ Head(T) = Letters(s) /\ Tail(T) = U /\ Reads(Letters(s), <<String(s)>>, s)
               /\ <<String(s)>> \in Seq(Field) /\ s \in Seq(Byte)
    <3>1. \A x : Head(<<x>> \o U) = x /\ Tail(<<x>> \o U) = U
      OBVIOUS
    <3>2. <<String(s)>> \in Seq(Field) /\ s \in Seq(Byte)
      BY StringBytes
    <3> QED BY <3>1, <3>2, <2>2, LettersRead
  <2>3. CASE \E s \in Name, U \in Seq(Formats), G \in Seq(Field) :
               /\ T = <<Letters(s)>> \o U /\ F = <<String(s)>> \o G
               /\ Matching(Pairs, U, G) /\ B = s \o Bytes(G)
    <3>1. PICK s \in Name, U \in Seq(Formats), G \in Seq(Field) :
               /\ T = <<Letters(s)>> \o U /\ F = <<String(s)>> \o G
               /\ Matching(Pairs, U, G) /\ B = s \o Bytes(G)
      BY <2>3
    <3>2. /\ Head(T) = Letters(s) /\ Tail(T) = U /\ Reads(Letters(s), <<String(s)>>, s)
          /\ <<String(s)>> \in Seq(Field) /\ s \in Seq(Byte)
      BY <3>1, <2>2
    <3> QED BY <3>1, <3>2
  <2> QED BY <2>1, <2>3 DEF Expected
<1>2. PICK b \in Seq(Byte), c \in Seq(Byte), M \in Seq(Field), N \in Seq(Field) :
        /\ Len(b) = f.bytes /\ f.bytes \in Nat \ {0}
        /\ C = b \o c /\ G = M \o N
        /\ Fields(f, b) = M /\ Expected(Rest(f, b), N, c)
  BY <1>1 DEF Reads
<1>3. Expected(Rest(f, b) \o U, N \o H, c \o Bytes(H))
  BY <1>1, <1>2, ExpectedMore
<1>4. Bytes(H) \in Seq(Byte)
  BY <1>1, BytesTyped
<1>5. B = b \o (c \o Bytes(H)) /\ F = M \o (N \o H)
  <2>1. B = (b \o c) \o Bytes(H) /\ F = (M \o N) \o H
    BY <1>1, <1>2, Zenon
  <2>2. (b \o c) \o Bytes(H) = b \o (c \o Bytes(H))
    BY <1>4, ThreeJoined, SMTT(40)
  <2>3. (M \o N) \o H = M \o (N \o H)
    <3>1. H \in Seq(Field)
      BY <1>1
    <3> QED BY <3>1, ThreeJoined, SMTT(40)
  <2> QED BY <2>1, <2>2, <2>3
<1>6. c \o Bytes(H) \in Seq(Byte) /\ N \o H \in Seq(Field)
  BY <1>1, <1>4
<1> QED BY <1>1, <1>2, <1>3, <1>5, <1>6

-----------------------------------------------------------------------------
(* The messages are what the client expects.                               *)

LEMMA VectorMatched ==
  ASSUME NEW st \in Seq(Plain), NEW p, NEW n \in Word, p \in [1 .. n -> Seq(Told)],
         \A i \in 1 .. n : Matching(PlainPairs, st, p[i])
  PROVE  Matching(Pairs, <<read_vector(st)>>, write_vector(p)) /\ write_vector(p) \in Seq(Told)
<1>1. n \in Nat
  BY WordNat
<1>2. p \in Seq(Seq(Told)) /\ p \in Seq(Seq(Field)) /\ Len(p) = n
  <2>1. p \in Seq(Seq(Told)) /\ Len(p) = n
    BY <1>1, FunctionSequence
  <2>2. Seq(Told) \subseteq Seq(Field)
    BY DEF Field
  <2>3. p \in [1 .. n -> Seq(Field)]
    BY <2>2
  <2> QED BY <1>1, <2>1, <2>3, FunctionSequence
<1>3. p \in Vectors(st)
  BY <1>2 DEF Vectors
<1>4. write_vector(p) \in Seq(Told) /\ write_vector(p) \in Seq(Field)
  <2>1. FlattenSeq(p) \in Seq(Told) /\ <<Number(n)>> \in Seq(Told)
    BY <1>2, FlattenTyped, NumberBytes
  <2>2. write_vector(p) \in Seq(Told)
    BY <2>1, <1>2 DEF write_vector
  <2> QED BY <2>2, Buffered
<1>5. <<read_vector(st), write_vector(p)>> \in Pairs
  BY <1>3 DEF Pairs
<1> QED BY <1>4, <1>5, OneMatched

LEMMA PlainFormats ==
  /\ uint32 \in Plain /\ uint32Pair \in Plain /\ string \in Plain
  /\ \A st \in Seq(Plain) : read_vector(st) \in Formats
BY DEF Plain, Formats

LEMMA TwoOnes == \A a, b : <<a, b>> = <<a>> \o <<b>>
<1> SUFFICES ASSUME NEW a, NEW b
             PROVE  <<a, b>> = <<a>> \o <<b>>
  OBVIOUS
<1> DEFINE s == <<a>> \o <<b>>
<1>1. s \in Seq({a, b}) /\ Len(s) = 2 /\ s[1] = a /\ s[2] = b
  OBVIOUS
<1> HIDE DEF s
<1>2. <<a, b>> \in Seq({a, b}) /\ Len(<<a, b>>) = 2
  OBVIOUS
<1>3. s = <<a, b>>
  BY <1>1, <1>2
<1> QED BY <1>3 DEF s

LEMMA NumbersMatched ==
  /\ \A n \in Word \X Word : /\ Numbers(n) \in Seq(Told)
                             /\ Matching(PlainPairs, <<uint32Pair>>, Numbers(n))
  /\ \A n \in Word \X Word \X Word \X Word :
       /\ Numbers(n) \in Seq(Told)
       /\ Matching(PlainPairs, <<uint32, uint32, uint32, uint32>>, Numbers(n))
<1>0. \A n \in Word : Number(n) \in Told
  BY NumberBytes
<1>1. ASSUME NEW n \in Word \X Word
      PROVE  Numbers(n) \in Seq(Told) /\ Matching(PlainPairs, <<uint32Pair>>, Numbers(n))
  <2>1. n[1] \in Word /\ n[2] \in Word /\ DOMAIN n = 1 .. 2
    OBVIOUS
  <2>2. Numbers(n) = <<Number(n[1]), Number(n[2])>>
    BY <2>1 DEF Numbers
  <2>3. <<Number(n[1]), Number(n[2])>> \in Seq(Told)
    BY <2>1, <1>0
  <2>4. <<uint32Pair, <<Number(n[1]), Number(n[2])>>>> \in PlainPairs
    BY <2>1 DEF PlainPairs
  <2> QED BY <2>2, <2>3, <2>4, Buffered, OneMatched
<1>2. ASSUME NEW n \in Word \X Word \X Word \X Word
      PROVE  /\ Numbers(n) \in Seq(Told)
             /\ Matching(PlainPairs, <<uint32, uint32, uint32, uint32>>, Numbers(n))
  <2>1. n[1] \in Word /\ n[2] \in Word /\ n[3] \in Word /\ n[4] \in Word /\ DOMAIN n = 1 .. 4
    OBVIOUS
  <2> DEFINE N(i) == <<Number(n[i])>>
  <2>2. Numbers(n) = <<Number(n[1]), Number(n[2]), Number(n[3]), Number(n[4])>>
    BY <2>1 DEF Numbers
  <2>3. Numbers(n) = ((N(1) \o N(2)) \o N(3)) \o N(4)
    BY <2>2
  <2>4. ASSUME NEW i \in 1 .. 4
        PROVE  N(i) \in Seq(Told) /\ N(i) \in Seq(Field) /\ Matching(PlainPairs, <<uint32>>, N(i))
    <3>1. n[i] \in Word
      BY <2>1
    <3>2. N(i) \in Seq(Told) /\ <<uint32, N(i)>> \in PlainPairs
      BY <3>1, <1>0 DEF PlainPairs
    <3> QED BY <3>2, Buffered, OneMatched
  <2> HIDE DEF N
  <2> DEFINE U == <<uint32>>
  <2>5. U \in Seq(Plain)
    BY PlainFormats
  <2>6. <<uint32, uint32, uint32, uint32>> = ((U \o U) \o U) \o U
    OBVIOUS
  <2>11. /\ Matching(PlainPairs, U, N(1)) /\ Matching(PlainPairs, U, N(2))
         /\ Matching(PlainPairs, U, N(3)) /\ Matching(PlainPairs, U, N(4))
    BY <2>4
  <2> HIDE DEF U
  <2>12. U \o U \in Seq(Plain) /\ (U \o U) \o U \in Seq(Plain)
    BY <2>5
  <2>7. Matching(PlainPairs, U \o U, N(1) \o N(2))
    BY <2>11, <2>5, BothMatched
  <2>8. Matching(PlainPairs, (U \o U) \o U, (N(1) \o N(2)) \o N(3))
    BY <2>11, <2>5, <2>7, <2>12, BothMatched
  <2>9. Matching(PlainPairs, ((U \o U) \o U) \o U, ((N(1) \o N(2)) \o N(3)) \o N(4))
    BY <2>11, <2>5, <2>8, <2>12, BothMatched
  <2>10. ((N(1) \o N(2)) \o N(3)) \o N(4) \in Seq(Told)
    BY <2>4
  <2> QED BY <2>3, <2>6, <2>9, <2>10
<1> QED BY <1>1, <1>2

LEMMA RoomsReadable ==
  Matching(Pairs, <<RoomsFormat>>, RoomInfos) /\ RoomInfos \in Seq(Told)
<1> DEFINE p == [i \in DOMAIN RoomList |-> Numbers(RoomList[i])]
<1>1. Len(RoomList) \in Word /\ DOMAIN RoomList = 1 .. Len(RoomList)
  BY WireAssumption
<1>2. \A i \in 1 .. Len(RoomList) : RoomList[i] \in Word \X Word
  BY WireAssumption
<1>3. p \in [1 .. Len(RoomList) -> Seq(Told)]
  BY <1>1, <1>2, NumbersMatched
<1>4. \A i \in 1 .. Len(RoomList) : Matching(PlainPairs, <<uint32Pair>>, p[i])
  BY <1>1, <1>2, NumbersMatched
<1>5. <<uint32Pair>> \in Seq(Plain)
  BY PlainFormats
<1> HIDE DEF p
<1>6. Matching(Pairs, <<read_vector(<<uint32Pair>>)>>, write_vector(p)) /\ write_vector(p) \in Seq(Told)
  BY <1>1, <1>3, <1>4, <1>5, VectorMatched
<1> QED BY <1>6 DEF RoomsFormat, uint32Pair, RoomInfos, p

LEMMA StringMatched ==
  ASSUME NEW s \in Name
  PROVE  <<String(s)>> \in Seq(Told) /\ Matching(PlainPairs, <<string>>, <<String(s)>>)
<1>1. <<String(s)>> \in Seq(Told) /\ <<string, <<String(s)>>>> \in PlainPairs
  BY StringBytes DEF PlainPairs
<1> QED BY <1>1, Buffered, OneMatched

LEMMA PlayersReadable ==
  Matching(Pairs, <<PlayersFormat>>, PlayerInfos) /\ PlayerInfos \in Seq(Told)
<1> DEFINE P(i) == <<Number(Players[i][1]), String(Players[i][2])>>
           p == [i \in DOMAIN Players |-> P(i)]
<1>1. Len(Players) \in Word /\ DOMAIN Players = 1 .. Len(Players)
  BY WireAssumption
<1>2. \A i \in 1 .. Len(Players) : Players[i] \in Word \X Name
  BY WireAssumption
<1>3. ASSUME NEW i \in 1 .. Len(Players)
      PROVE  P(i) \in Seq(Told) /\ Matching(PlainPairs, <<uint32, string>>, P(i))
  <2> DEFINE n == <<Number(Players[i][1])>>
             s == <<String(Players[i][2])>>
  <2>1. Players[i][1] \in Word /\ Players[i][2] \in Name
    BY <1>2
  <2>2. n \in Seq(Told) /\ <<uint32, n>> \in PlainPairs
    BY <2>1, NumberBytes DEF PlainPairs
  <2>3. Matching(PlainPairs, <<uint32>>, n)
    BY <2>2, Buffered, OneMatched
  <2>4. s \in Seq(Told) /\ Matching(PlainPairs, <<string>>, s)
    BY <2>1, StringMatched
  <2>5. P(i) = n \o s /\ <<uint32, string>> = <<uint32>> \o <<string>>
    BY TwoOnes
  <2>6. <<uint32>> \in Seq(Plain) /\ <<string>> \in Seq(Plain)
    BY PlainFormats
  <2> HIDE DEF n, s, P
  <2>7. Matching(PlainPairs, <<uint32>> \o <<string>>, n \o s)
    BY <2>3, <2>4, <2>6, BothMatched
  <2>8. n \o s \in Seq(Told)
    BY <2>2, <2>4
  <2> QED BY <2>5, <2>7, <2>8
<1> HIDE DEF P
<1>4. p \in [1 .. Len(Players) -> Seq(Told)] /\ \A i \in 1 .. Len(Players) : p[i] = P(i)
  BY <1>1, <1>3
<1>5. <<uint32, string>> \in Seq(Plain)
  BY PlainFormats
<1> HIDE DEF p
<1>6. /\ Matching(Pairs, <<read_vector(<<uint32, string>>)>>, write_vector(p))
      /\ write_vector(p) \in Seq(Told)
  BY <1>1, <1>3, <1>4, <1>5, VectorMatched
<1> QED BY <1>6 DEF PlayersFormat, PlayerInfos, p, P

LEMMA GameReadable ==
  Matching(Pairs, GameFormat, GameInfo) /\ GameInfo \in Seq(Told) /\ GameFormat \in Seq(Formats)
<1> DEFINE p == [i \in DOMAIN Map |-> <<String(Map[i])>>]
           q == [i \in DOMAIN Objects |-> Numbers(Objects[i])]
           f == <<uint32, uint32, uint32, uint32>>
<1>1. /\ Len(Map) \in Word /\ DOMAIN Map = 1 .. Len(Map)
      /\ Len(Objects) \in Word /\ DOMAIN Objects = 1 .. Len(Objects)
  BY WireAssumption
<1>2. \A i \in 1 .. Len(Map) : Map[i] \in Name
  BY WireAssumption
<1>3. \A i \in 1 .. Len(Objects) : Objects[i] \in Word \X Word \X Word \X Word
  BY WireAssumption
<1>4. p \in [1 .. Len(Map) -> Seq(Told)]
  BY <1>1, <1>2, StringMatched
<1>5. \A i \in 1 .. Len(Map) : Matching(PlainPairs, <<string>>, p[i])
  BY <1>1, <1>2, StringMatched
<1>6. q \in [1 .. Len(Objects) -> Seq(Told)]
  BY <1>1, <1>3, NumbersMatched
<1>7. \A i \in 1 .. Len(Objects) : Matching(PlainPairs, f, q[i])
  BY <1>1, <1>3, NumbersMatched
<1>8. f \in Seq(Plain) /\ <<string>> \in Seq(Plain)
  BY PlainFormats
<1> HIDE DEF p, q, f
<1>9. /\ Matching(Pairs, <<read_vector(<<string>>)>>, write_vector(p))
      /\ write_vector(p) \in Seq(Told)
  BY <1>1, <1>4, <1>5, <1>8, VectorMatched
<1>10. /\ Matching(Pairs, <<read_vector(f)>>, write_vector(q))
       /\ write_vector(q) \in Seq(Told)
  BY <1>1, <1>6, <1>7, <1>8, VectorMatched
<1>11. /\ <<read_vector(<<string>>)>> \in Seq(Formats)
       /\ <<read_vector(f)>> \in Seq(Formats)
  <2>1. read_vector(<<string>>) \in Formats /\ read_vector(f) \in Formats
    BY <1>8, PlainFormats
  <2> QED BY <2>1
<1>12. Matching(Pairs, <<read_vector(<<string>>)>> \o <<read_vector(f)>>,
                write_vector(p) \o write_vector(q))
  BY <1>9, <1>10, <1>11, BothMatched
<1>13. GameFormat = <<read_vector(<<string>>)>> \o <<read_vector(f)>>
  BY DEF GameFormat, f
<1>14. GameInfo = write_vector(p) \o write_vector(q)
  BY DEF GameInfo, p, q
<1>15. write_vector(p) \o write_vector(q) \in Seq(Told)
  BY <1>9, <1>10
<1>16. <<read_vector(<<string>>)>> \o <<read_vector(f)>> \in Seq(Formats)
  BY <1>11
<1> QED BY <1>12, <1>13, <1>14, <1>15, <1>16

-----------------------------------------------------------------------------
(* The session: what the server says, message after message.               *)

Message(i) ==
  CASE i = 1 -> RoomInfos
    [] i = 2 -> PlayerInfos
    [] i = 3 -> <<Command("UPDATE_PLAYERS")>> \o PlayerInfos
    [] i = 4 -> <<Command("START_GAME")>>
    [] OTHER -> GameInfo

\* What the client expects of a message: of an update, after the command
FormatsOf(i) ==
  CASE i = 1 -> <<RoomsFormat>>
    [] i \in {2, 3} -> <<PlayersFormat>>
    [] OTHER -> GameFormat

LEMMA MessageTyped ==
  ASSUME NEW i
  PROVE  /\ i # 4 => Message(i) \in Seq(Told)
         /\ Message(i) \in Seq(Field) /\ Bytes(Message(i)) \in Seq(Byte)
<1>1. <<Command("UPDATE_PLAYERS")>> \in Seq(Told) /\ <<Command("START_GAME")>> \in Seq(Field)
  BY CommandBytes
<1>2. <<Command("UPDATE_PLAYERS")>> \o PlayerInfos \in Seq(Told)
  BY <1>1, PlayersReadable
<1>3. i # 4 => Message(i) \in Seq(Told)
  BY <1>2, RoomsReadable, PlayersReadable, GameReadable DEF Message
<1>4. Message(i) \in Seq(Field)
  <2>1. CASE i = 4
    BY <2>1, <1>1 DEF Message
  <2>2. CASE i # 4
    BY <2>2, <1>3, Buffered
  <2> QED BY <2>1, <2>2
<1> QED BY <1>3, <1>4, BytesTyped

LEMMA Begun ==
  /\ FormatsOf(1) \in Seq(Formats) /\ FormatsOf(1) # <<>>
  /\ FormatsOf(2) \in Seq(Formats) /\ FormatsOf(2) # <<>>
  /\ \A i \in Nat : i >= 5 => FormatsOf(i) \in Seq(Formats) /\ FormatsOf(i) # <<>>
<1>1. <<uint32Pair>> \in Seq(Plain) /\ <<uint32, string>> \in Seq(Plain)
  BY PlainFormats
<1>2. RoomsFormat \in Formats /\ PlayersFormat \in Formats
  BY <1>1, PlainFormats DEF RoomsFormat, PlayersFormat, uint32Pair
<1>3. GameFormat # <<>>
  BY DEF GameFormat
<1> QED BY <1>2, <1>3, GameReadable DEF FormatsOf

LEMMA MessageExpected ==
  ASSUME NEW i \in Nat, i \in {1, 2} \/ i >= 5
  PROVE  Expected(FormatsOf(i), Message(i), Bytes(Message(i)))
<1>1. CASE i = 1
  BY <1>1, Begun, RoomsReadable DEF Expected, FormatsOf, Message
<1>2. CASE i = 2
  BY <1>2, Begun, PlayersReadable DEF Expected, FormatsOf, Message
<1>3. CASE i >= 5
  <2>1. FormatsOf(i) = GameFormat /\ Message(i) = GameInfo
    BY <1>3 DEF FormatsOf, Message
  <2> QED BY <2>1, GameReadable DEF Expected
<1> QED BY <1>1, <1>2, <1>3

LEMMA Updated == Expected(<<PlayersFormat>>, PlayerInfos, Bytes(PlayerInfos))
BY MessageExpected DEF FormatsOf, Message

\* The fields of the messages after the r-th, up to the m-th
Later(r, m) == [i \in 1 .. m - r |-> Message(r + i)]

Queue(r, m) == FlattenSeq(Later(r, m))

LEMMA LaterTyped ==
  ASSUME NEW r \in Nat, NEW m \in Nat
  PROVE  /\ Later(r, m) \in Seq(Seq(Field)) /\ Len(Later(r, m)) = (IF r <= m THEN m - r ELSE 0)
         /\ Queue(r, m) \in Seq(Field) /\ Bytes(Queue(r, m)) \in Seq(Byte)
         /\ m <= r => Queue(r, m) = <<>> /\ Bytes(Queue(r, m)) = <<>>
<1>1. \A i : Message(i) \in Seq(Field)
  BY MessageTyped
<1>2. Later(r, m) \in [1 .. m - r -> Seq(Field)]
  BY <1>1 DEF Later
<1>3. CASE r <= m
  <2>1. m - r \in Nat
    BY <1>3
  <2>2. Later(r, m) \in Seq(Seq(Field)) /\ Len(Later(r, m)) = m - r
    BY <1>2, <2>1, FunctionSequence
  <2>3. Queue(r, m) \in Seq(Field)
    BY <2>2, FlattenTyped DEF Queue
  <2>4. m <= r => Later(r, m) = <<>>
    BY <1>3, <2>2
  <2> QED BY <1>3, <2>2, <2>3, <2>4, BytesTyped, BytesEmpty, FlattenEmpty DEF Queue
<1>4. CASE m < r
  <2>1. 1 .. m - r = 1 .. 0 /\ ~(r <= m)
    BY <1>4
  <2>2. Later(r, m) \in Seq(Seq(Field)) /\ Len(Later(r, m)) = 0 /\ Later(r, m) = <<>>
    <3>1. Later(r, m) \in Seq(Seq(Field)) /\ Len(Later(r, m)) = 0
      BY <1>2, <2>1, FunctionSequence
    <3> QED BY <3>1
  <2>3. Queue(r, m) = <<>>
    BY <2>2, FlattenEmpty DEF Queue
  <2>4. Queue(r, m) \in Seq(Field) /\ Bytes(Queue(r, m)) \in Seq(Byte) /\ Bytes(Queue(r, m)) = <<>>
    <3>1. <<>> \in Seq(Field) /\ <<>> \in Seq(Byte)
      OBVIOUS
    <3> QED BY <3>1, <2>3, BytesEmpty
  <2> QED BY <2>1, <2>2, <2>3, <2>4
<1> QED BY <1>3, <1>4

LEMMA LaterMore ==
  ASSUME NEW r \in Nat, NEW m \in Nat, r <= m
  PROVE  /\ Queue(r, m + 1) = Queue(r, m) \o Message(m + 1)
         /\ Bytes(Queue(r, m + 1)) = Bytes(Queue(r, m)) \o Bytes(Message(m + 1))
<1> DEFINE s == Later(r, m)
           t == Later(r, m + 1)
           x == Message(m + 1)
<1>1. s \in Seq(Seq(Field)) /\ Len(s) = m - r /\ x \in Seq(Field)
  BY LaterTyped, MessageTyped
<1>2. t \in Seq(Seq(Field)) /\ Len(t) = m + 1 - r
  <2>1. m + 1 \in Nat /\ r <= m + 1
    OBVIOUS
  <2> QED BY <2>1, LaterTyped
<1>3. \A i \in 1 .. m - r : s[i] = Message(r + i) /\ t[i] = Message(r + i)
  BY DEF Later
<1>4. t[m + 1 - r] = x
  <2>1. m + 1 - r \in 1 .. (m + 1) - r /\ r + (m + 1 - r) = m + 1
    OBVIOUS
  <2> QED BY <2>1 DEF Later
<1> HIDE DEF s, t, x
<1>5. /\ Append(s, x) \in Seq(Seq(Field)) /\ Len(Append(s, x)) = Len(s) + 1 /\ Len(s) \in Nat
      /\ \A i \in 1 .. Len(s) : Append(s, x)[i] = s[i]
      /\ Append(s, x)[Len(s) + 1] = x
  BY <1>1, Appended
<1> DEFINE u == Append(s, x)
<1>6. u \in Seq(Seq(Field)) /\ Len(u) = Len(t)
  BY <1>1, <1>2, <1>5
<1>7. \A i \in 1 .. Len(u) : u[i] = t[i]
  <2> TAKE i \in 1 .. Len(u)
  <2>1. CASE i <= m - r
    BY <2>1, <1>1, <1>3, <1>5
  <2>2. CASE i = m + 1 - r
    <3>1. i = Len(s) + 1
      BY <2>2, <1>1
    <3> QED BY <3>1, <2>2, <1>4, <1>5
  <2>3. i <= m - r \/ i = m + 1 - r
    BY <1>2, <1>6
  <2> QED BY <2>1, <2>2, <2>3, Zenon
<1> HIDE DEF u
<1>8. \A Q : \A a, b \in Seq(Q) : Len(a) = Len(b) /\ (\A i \in 1 .. Len(a) : a[i] = b[i]) => a = b
  OBVIOUS
<1>9. u = t
  BY <1>2, <1>6, <1>7, <1>8
<1>10. FlattenSeq(Append(s, x)) = FlattenSeq(s) \o x
  BY <1>1, FlattenAppend
<1>11. Queue(r, m + 1) = Queue(r, m) \o x
  BY <1>9, <1>10 DEF u, s, t, Queue
<1>12. Queue(r, m) \in Seq(Field)
  BY LaterTyped
<1> QED BY <1>1, <1>11, <1>12, BytesJoined DEF x

LEMMA LaterFirst ==
  ASSUME NEW r \in Nat, NEW m \in Nat, r < m
  PROVE  /\ Queue(r, m) = Message(r + 1) \o Queue(r + 1, m)
         /\ Bytes(Queue(r, m)) = Bytes(Message(r + 1)) \o Bytes(Queue(r + 1, m))
<1> DEFINE s == Later(r, m)
           t == Later(r + 1, m)
           x == Message(r + 1)
<1>1. s \in Seq(Seq(Field)) /\ Len(s) = m - r /\ x \in Seq(Field)
  BY LaterTyped, MessageTyped
<1>2. t \in Seq(Seq(Field)) /\ Len(t) = m - (r + 1)
  <2>1. r + 1 \in Nat /\ r + 1 <= m
    OBVIOUS
  <2> QED BY <2>1, LaterTyped
<1>3. s # <<>>
  BY <1>1
<1>4. /\ s[1] = x
      /\ \A i \in 1 .. m - (r + 1) : s[i + 1] = t[i]
  <2>1. 1 \in 1 .. m - r
    OBVIOUS
  <2>2. ASSUME NEW i \in 1 .. m - (r + 1)
        PROVE  s[i + 1] = t[i]
    <3>1. i + 1 \in 1 .. m - r /\ r + (i + 1) = (r + 1) + i
      OBVIOUS
    <3>2. s[i + 1] = Message(r + (i + 1)) /\ t[i] = Message((r + 1) + i)
      BY <3>1 DEF Later
    <3> QED BY <3>1, <3>2
  <2> QED BY <2>1, <2>2 DEF Later
<1> HIDE DEF s, t, x
<1>5. /\ s[1] \in Seq(Field) /\ Tail(s) \in Seq(Seq(Field)) /\ s = <<s[1]>> \o Tail(s)
      /\ <<s[1]>> \in Seq(Seq(Field))
      /\ Len(Tail(s)) = Len(s) - 1
      /\ \A i \in 1 .. Len(Tail(s)) : Tail(s)[i] = s[i + 1]
  BY <1>1, <1>3, HeadTail
<1> DEFINE u == Tail(s)
<1>6. u \in Seq(Seq(Field)) /\ Len(u) = Len(t)
  BY <1>1, <1>2, <1>5
<1>7. \A i \in 1 .. Len(u) : u[i] = t[i]
  BY <1>1, <1>2, <1>4, <1>5
<1> HIDE DEF u
<1>8. \A Q : \A a, b \in Seq(Q) : Len(a) = Len(b) /\ (\A i \in 1 .. Len(a) : a[i] = b[i]) => a = b
  OBVIOUS
<1>9. u = t
  BY <1>2, <1>6, <1>7, <1>8
<1>10. FlattenSeq(<<x>> \o t) = FlattenSeq(<<x>>) \o FlattenSeq(t) /\ FlattenSeq(<<x>>) = x
  <2>1. <<x>> \in Seq(Seq(Field))
    BY <1>4, <1>5
  <2> QED BY <2>1, <1>1, <1>2, FlattenConcat, FlattenOne
<1>11. s = <<x>> \o t
  BY <1>4, <1>5, <1>9 DEF u
<1>12. Queue(r, m) = x \o Queue(r + 1, m)
  BY <1>10, <1>11 DEF s, t, Queue
<1>13. Queue(r + 1, m) \in Seq(Field)
  BY LaterTyped
<1> QED BY <1>1, <1>12, <1>13, BytesJoined DEF x

-----------------------------------------------------------------------------
(* Where the client is in the session.                                     *)

\* The client reads the r-th message of m, of which F comes in the bytes B; or it
\* waits for it
Stands(r, m, T, g, F, B) ==
  \/ r <= m /\ Expected(T, F, B)
  \/ /\ r = m + 1 /\ (r \in {1, 2} \/ r >= 5)
     /\ T = FormatsOf(r) /\ g = <<>> /\ F = <<>> /\ B = <<>>

\* Fields and bytes that are said and not yet decoded
Ahead(r, m, F) == F \o Queue(r, m)
BytesAhead(r, m, B) == B \o Bytes(Queue(r, m))

LEMMA StandsTyped ==
  ASSUME NEW r \in Nat, NEW m \in Nat, NEW T, NEW g, NEW F, NEW B, Stands(r, m, T, g, F, B)
  PROVE  /\ F \in Seq(Field) /\ B \in Seq(Byte)
         /\ Ahead(r, m, F) \in Seq(Field) /\ BytesAhead(r, m, B) \in Seq(Byte)
<1>1. F \in Seq(Field) /\ B \in Seq(Byte)
  <2>1. <<>> \in Seq(Field) /\ <<>> \in Seq(Byte)
    OBVIOUS
  <2> QED BY <2>1, ExpectedTyped DEF Stands
<1>2. Queue(r, m) \in Seq(Field) /\ Bytes(Queue(r, m)) \in Seq(Byte)
  BY LaterTyped
<1> QED BY <1>1, <1>2 DEF Ahead, BytesAhead

MoreAhead(r, m, T, g, F, B) ==
  \E G, C : /\ Stands(r, m + 1, T, g, G, C)
            /\ Ahead(r, m + 1, G) = Ahead(r, m, F) \o Message(m + 1)
            /\ BytesAhead(r, m + 1, C) = BytesAhead(r, m, B) \o Bytes(Message(m + 1))

\* The server says another message
LEMMA SaidMore ==
  ASSUME NEW r \in Nat, NEW m \in Nat, NEW T, NEW g, NEW F, NEW B, Stands(r, m, T, g, F, B)
  PROVE  MoreAhead(r, m, T, g, F, B)
<1> USE DEF MoreAhead
<1>0. /\ F \in Seq(Field) /\ B \in Seq(Byte) /\ m + 1 \in Nat
      /\ Queue(r, m) \in Seq(Field) /\ Bytes(Queue(r, m)) \in Seq(Byte)
      /\ Message(m + 1) \in Seq(Field) /\ Bytes(Message(m + 1)) \in Seq(Byte)
  <2>1. F \in Seq(Field) /\ B \in Seq(Byte)
    BY StandsTyped
  <2>2. Queue(r, m) \in Seq(Field) /\ Bytes(Queue(r, m)) \in Seq(Byte)
    BY LaterTyped
  <2> QED BY <2>1, <2>2, MessageTyped
<1>1. CASE r <= m /\ Expected(T, F, B)
  <2>1. Stands(r, m + 1, T, g, F, B)
    BY <1>1 DEF Stands
  <2>2. Ahead(r, m + 1, F) = Ahead(r, m, F) \o Message(m + 1)
    <3>1. (F \o Queue(r, m)) \o Message(m + 1) = F \o (Queue(r, m) \o Message(m + 1))
      BY <1>0, FieldsThree, Zenon
    <3> QED BY <3>1, <1>1, LaterMore DEF Ahead
  <2>3. BytesAhead(r, m + 1, B) = BytesAhead(r, m, B) \o Bytes(Message(m + 1))
    <3> DEFINE b == Bytes(Queue(r, m))
               c == Bytes(Message(m + 1))
    <3>1. B \in Seq(Byte) /\ b \in Seq(Byte) /\ c \in Seq(Byte)
      BY <1>0
    <3>2. Bytes(Queue(r, m + 1)) = b \o c
      BY <1>1, LaterMore
    <3> HIDE DEF b, c
    <3>3. (B \o b) \o c = B \o (b \o c)
      BY <3>1, ThreeJoined, SMTT(40)
    <3> QED BY <3>2, <3>3 DEF BytesAhead, b, c
  <2> QED BY <2>1, <2>2, <2>3
<1>2. CASE /\ r = m + 1 /\ (r \in {1, 2} \/ r >= 5)
           /\ T = FormatsOf(r) /\ g = <<>> /\ F = <<>> /\ B = <<>>
  <2> DEFINE G == Message(r)
             C == Bytes(Message(r))
  <2>1. Expected(T, G, C)
    BY <1>2, MessageExpected
  <2>2. Stands(r, m + 1, T, g, G, C)
    BY <2>1, <1>2 DEF Stands
  <2>3. Queue(r, m) = <<>> /\ Queue(r, m + 1) = <<>>
    <3>1. m <= r /\ m + 1 <= r
      BY <1>2
    <3> QED BY <3>1, <1>0, LaterTyped
  <2>4. Ahead(r, m + 1, G) = Ahead(r, m, F) \o Message(m + 1)
    <3>1. \A s \in Seq(Field) : s \o <<>> = (<<>> \o <<>>) \o s
      OBVIOUS
    <3> QED BY <3>1, <2>3, <1>2, <1>0 DEF Ahead
  <2>5. BytesAhead(r, m + 1, C) = BytesAhead(r, m, B) \o Bytes(Message(m + 1))
    <3>1. \A s \in Seq(Byte) : s \o <<>> = (<<>> \o <<>>) \o s
      OBVIOUS
    <3> QED BY <3>1, <2>3, <1>2, <1>0, BytesEmpty DEF BytesAhead
  <2> QED BY <2>2, <2>4, <2>5
<1> QED BY <1>1, <1>2 DEF Stands

NextAhead(r, m, F, B, s) ==
  \E G, C : /\ Stands(s, m, FormatsOf(s), <<>>, G, C)
            /\ Ahead(s, m, G) = Ahead(r, m, F)
            /\ BytesAhead(s, m, C) = BytesAhead(r, m, B)

\* The client begins with the next message
LEMMA NextBegun ==
  ASSUME NEW r \in Nat, NEW m \in Nat, NEW g, NEW F, NEW B, NEW s \in Nat,
         Stands(r, m, <<>>, g, F, B), s = r + 1, s \in {1, 2} \/ s >= 5
  PROVE  NextAhead(r, m, F, B, s)
<1> USE DEF NextAhead
<1>0. r <= m /\ F = <<>> /\ B = <<>>
  <2>1. ~(r = m + 1 /\ (r \in {1, 2} \/ r >= 5) /\ <<>> = FormatsOf(r))
    BY Begun
  <2>2. r <= m /\ Expected(<<>>, F, B)
    BY <2>1 DEF Stands
  <2> QED BY <2>2, NothingExpected
<1>1. /\ Queue(r, m) \in Seq(Field) /\ Bytes(Queue(r, m)) \in Seq(Byte)
      /\ Queue(s, m) \in Seq(Field) /\ Bytes(Queue(s, m)) \in Seq(Byte)
      /\ Message(s) \in Seq(Field) /\ Bytes(Message(s)) \in Seq(Byte)
  BY LaterTyped, MessageTyped
<1>2. Ahead(r, m, F) = Queue(r, m) /\ BytesAhead(r, m, B) = Bytes(Queue(r, m))
  BY <1>0, <1>1 DEF Ahead, BytesAhead
<1>3. CASE r < m
  <2>1. Stands(s, m, FormatsOf(s), <<>>, Message(s), Bytes(Message(s)))
    BY <1>3, MessageExpected DEF Stands
  <2>2. Ahead(s, m, Message(s)) = Queue(r, m) /\ BytesAhead(s, m, Bytes(Message(s))) = Bytes(Queue(r, m))
    BY <1>3, LaterFirst DEF Ahead, BytesAhead
  <2> QED BY <2>1, <2>2, <1>2
<1>4. CASE r = m
  <2>1. Stands(s, m, FormatsOf(s), <<>>, <<>>, <<>>)
    BY <1>4 DEF Stands
  <2>2. Queue(r, m) = <<>> /\ Queue(s, m) = <<>>
    BY <1>4, LaterTyped
  <2>3. Ahead(s, m, <<>>) = Queue(r, m) /\ BytesAhead(s, m, <<>>) = Bytes(Queue(r, m))
    BY <2>2, BytesEmpty DEF Ahead, BytesAhead
  <2> QED BY <2>1, <2>3, <1>2
<1> QED BY <1>0, <1>3, <1>4

CommandNext(r, m, F, B, s) ==
  \/ r = m /\ Ahead(r, m, F) = <<>> /\ BytesAhead(r, m, B) = <<>>
  \/ \E c, T, G, C :
       /\ Stands(s, m, T, <<>>, G, C)
       /\ s = 3 => c = Command("UPDATE_PLAYERS") /\ T = <<PlayersFormat>>
       /\ s = 4 => c = Command("START_GAME") /\ T = <<>>
       /\ Ahead(r, m, F) = <<c>> \o Ahead(s, m, G)
       /\ BytesAhead(r, m, B) = FieldBytes(c) \o BytesAhead(s, m, C)

\* The next message begins with a command
LEMMA CommandAhead ==
  ASSUME NEW r \in Nat, NEW m \in Nat, NEW g, NEW F, NEW B, NEW s \in {3, 4},
         Stands(r, m, <<>>, g, F, B), s = r + 1
  PROVE  CommandNext(r, m, F, B, s)
<1> USE DEF CommandNext
<1>0. r <= m /\ F = <<>> /\ B = <<>> /\ s \in Nat
  <2>1. ~(r = m + 1 /\ (r \in {1, 2} \/ r >= 5) /\ <<>> = FormatsOf(r))
    BY Begun
  <2>2. r <= m /\ Expected(<<>>, F, B)
    BY <2>1 DEF Stands
  <2> QED BY <2>2, NothingExpected
<1>1. /\ Queue(r, m) \in Seq(Field) /\ Bytes(Queue(r, m)) \in Seq(Byte)
      /\ Queue(s, m) \in Seq(Field) /\ Bytes(Queue(s, m)) \in Seq(Byte)
      /\ PlayerInfos \in Seq(Field) /\ Bytes(PlayerInfos) \in Seq(Byte)
  BY <1>0, LaterTyped, PlayersReadable, Buffered, BytesTyped
<1>2. Ahead(r, m, F) = Queue(r, m) /\ BytesAhead(r, m, B) = Bytes(Queue(r, m))
  BY <1>0, <1>1 DEF Ahead, BytesAhead
<1>3. CASE r = m
  BY <1>2, <1>3, LaterTyped
<1>4. CASE r < m
  <2>1. Queue(r, m) = Message(s) \o Queue(s, m) /\ Bytes(Queue(r, m)) = Bytes(Message(s)) \o Bytes(Queue(s, m))
    BY <1>4, LaterFirst
  <2>2. CASE s = 3
    <3> DEFINE c == Command("UPDATE_PLAYERS")
    <3>1. c \in Field /\ <<c>> \in Seq(Field) /\ Bytes(<<c>>) = FieldBytes(c) /\ FieldBytes(c) \in Seq(Byte)
      BY CommandBytes, BytesOne, FieldTyped
    <3>2. Message(s) = <<c>> \o PlayerInfos
      BY <2>2 DEF Message
    <3> HIDE DEF c
    <3>3. Bytes(Message(s)) = FieldBytes(c) \o Bytes(PlayerInfos)
      BY <3>1, <3>2, <1>1, BytesJoined
    <3>4. Stands(s, m, <<PlayersFormat>>, <<>>, PlayerInfos, Bytes(PlayerInfos))
      BY <1>4, <1>0, Updated DEF Stands
    <3>5. (<<c>> \o PlayerInfos) \o Queue(s, m) = <<c>> \o (PlayerInfos \o Queue(s, m))
      BY <3>1, <1>1, ThreeJoined, SMTT(40)
    <3>6. (FieldBytes(c) \o Bytes(PlayerInfos)) \o Bytes(Queue(s, m))
            = FieldBytes(c) \o (Bytes(PlayerInfos) \o Bytes(Queue(s, m)))
      <4>1. /\ FieldBytes(c) \in Seq(Byte) /\ Bytes(PlayerInfos) \in Seq(Byte)
            /\ Bytes(Queue(s, m)) \in Seq(Byte)
        BY <3>1, <1>1
      <4> QED BY <4>1, ThreeJoined, SMTT(40)
    <3>7. Ahead(r, m, F) = <<c>> \o Ahead(s, m, PlayerInfos)
      BY <1>2, <2>1, <3>2, <3>5 DEF Ahead
    <3>8. BytesAhead(r, m, B) = FieldBytes(c) \o BytesAhead(s, m, Bytes(PlayerInfos))
      BY <1>2, <2>1, <3>3, <3>6 DEF BytesAhead
    <3>9. s # 4 /\ c = Command("UPDATE_PLAYERS")
      BY <2>2 DEF c
    <3> QED BY <3>9, <3>4, <3>7, <3>8, Zenon
  <2>3. CASE s = 4
    <3> DEFINE c == Command("START_GAME")
    <3>1. c \in Field /\ <<c>> \in Seq(Field) /\ Bytes(<<c>>) = FieldBytes(c) /\ FieldBytes(c) \in Seq(Byte)
      BY CommandBytes, BytesOne, FieldTyped
    <3>2. Message(s) = <<c>>
      BY <2>3 DEF Message
    <3> HIDE DEF c
    <3>4. Stands(s, m, <<>>, <<>>, <<>>, <<>>)
      BY <1>4, <1>0, NothingExpected DEF Stands
    <3>5. Ahead(s, m, <<>>) = Queue(s, m) /\ BytesAhead(s, m, <<>>) = Bytes(Queue(s, m))
      BY <1>1 DEF Ahead, BytesAhead
    <3>7. Ahead(r, m, F) = <<c>> \o Ahead(s, m, <<>>)
      BY <1>2, <2>1, <3>2, <3>5
    <3>8. BytesAhead(r, m, B) = FieldBytes(c) \o BytesAhead(s, m, <<>>)
      BY <1>2, <2>1, <3>1, <3>2, <3>5
    <3>9. s # 3 /\ c = Command("START_GAME")
      BY <2>3 DEF c
    <3> QED BY <3>9, <3>4, <3>7, <3>8, Zenon
  <2> QED BY <2>2, <2>3
<1>5. r = m \/ r < m
  BY <1>0
<1> QED BY <1>3, <1>4, <1>5, Zenon

-----------------------------------------------------------------------------
(* The joiner's stream: where its fields are.                              *)

Size == Len(Login)

Rooms == RoomList[1][1]

\* What the client writes in all, field by field and byte by byte
AskedField(i) == IF i <= 4 THEN JoinMessage.fields[i] ELSE Number(Orders[i - 4])

AskedFields == {AskedField(i) : i \in 1 .. 4 + Len(Orders)}

StreamByte(i) ==
  IF i <= 12 + Size
  THEN JoinMessage.bytes[i]
  ELSE write_uint32(Orders[(i - Size - 9) \div 4])[((i - Size - 13) % 4) + 1]

LEMMA Sizes ==
  /\ Login \in Seq(Byte) /\ Size \in Nat /\ Size >= 1 /\ Size \in Word
  /\ Rooms \in Word /\ JOIN_ROOM \in Word
  /\ Orders \in Seq(Word) /\ Len(Orders) \in Nat /\ Word \subseteq Nat
<1>1. Word \subseteq Nat /\ 1 \in Word
  BY Bases, WireAssumption DEF Word
<1>2. RoomList[1] \in Word \X Word
  BY WireAssumption
<1>3. Login \in Seq(Byte) /\ Len(Login) \in Word /\ Len(Login) >= 1
  BY WireAssumption, StringBytes
<1>4. Orders \in Seq(Word) /\ Len(Orders) \in Nat
  BY WireAssumption
<1> QED BY <1>1, <1>2, <1>3, <1>4 DEF Size, Rooms, JOIN_ROOM

LEMMA JoinFields ==
  /\ JoinMessage.fields = <<Number(JOIN_ROOM), Number(Rooms), Number(Size), String(Login)>>
  /\ JoinMessage.bytes = write_uint32(JOIN_ROOM) \o write_uint32(Rooms) \o write_uint32(Size)
                           \o Login
BY DEF JoinMessage, Rooms, Size

LEMMA JoinBytes ==
  /\ JoinMessage.bytes \in Seq(Byte) /\ Len(JoinMessage.bytes) = 12 + Size
  /\ \A j \in 1 .. 4 : /\ StreamByte(j) = write_uint32(JOIN_ROOM)[j]
                       /\ StreamByte(4 + j) = write_uint32(Rooms)[j]
                       /\ StreamByte(8 + j) = write_uint32(Size)[j]
  /\ \A j \in 1 .. Size : StreamByte(12 + j) = Login[j]
<1>1. /\ write_uint32(JOIN_ROOM) \in Seq(Byte) /\ Len(write_uint32(JOIN_ROOM)) = 4
      /\ write_uint32(Rooms) \in Seq(Byte) /\ Len(write_uint32(Rooms)) = 4
      /\ write_uint32(Size) \in Seq(Byte) /\ Len(write_uint32(Size)) = 4
  BY Sizes, Written
<1>2. /\ JoinMessage.bytes \in Seq(Byte) /\ Len(JoinMessage.bytes) = 12 + Size
      /\ \A j \in 1 .. 4 : /\ JoinMessage.bytes[j] = write_uint32(JOIN_ROOM)[j]
                           /\ JoinMessage.bytes[4 + j] = write_uint32(Rooms)[j]
                           /\ JoinMessage.bytes[8 + j] = write_uint32(Size)[j]
      /\ \A j \in 1 .. Size : JoinMessage.bytes[12 + j] = Login[j]
  <2> DEFINE u == write_uint32(JOIN_ROOM)
             v == write_uint32(Rooms)
             w == write_uint32(Size)
  <2>1. JoinMessage.bytes = u \o v \o w \o Login /\ Login \in Seq(Byte) /\ Len(Login) = Size
    BY JoinFields, Sizes DEF Size
  <2>2. /\ u \in Seq(Byte) /\ v \in Seq(Byte) /\ w \in Seq(Byte)
        /\ Len(u) = 4 /\ Len(v) = 4 /\ Len(w) = 4
    BY <1>1
  <2> HIDE DEF u, v, w
  <2>3. u \in Seq(Byte) /\ v \in Seq(Byte) /\ w \in Seq(Byte) /\ Login \in Seq(Byte)
    BY <2>1, <2>2
  <2> DEFINE e == u \o v
             f == e \o w
             g == f \o Login
  <2>4. /\ e \in Seq(Byte) /\ Len(e) = Len(u) + Len(v)
        /\ \A j \in 1 .. Len(u) : e[j] = u[j]
        /\ \A j \in 1 .. Len(v) : e[Len(u) + j] = v[j]
    BY <2>3, Joined
  <2> HIDE DEF e
  <2>5. /\ f \in Seq(Byte) /\ Len(f) = Len(e) + Len(w)
        /\ \A j \in 1 .. Len(e) : f[j] = e[j]
        /\ \A j \in 1 .. Len(w) : f[Len(e) + j] = w[j]
    <3>1. e \in Seq(Byte) /\ w \in Seq(Byte)
      BY <2>3, <2>4
    <3> QED BY <3>1, Joined
  <2> HIDE DEF f
  <2>6. /\ g \in Seq(Byte) /\ Len(g) = Len(f) + Len(Login)
        /\ \A j \in 1 .. Len(f) : g[j] = f[j]
        /\ \A j \in 1 .. Len(Login) : g[Len(f) + j] = Login[j]
    <3>1. f \in Seq(Byte) /\ Login \in Seq(Byte)
      BY <2>3, <2>5
    <3> QED BY <3>1, Joined
  <2> HIDE DEF g
  <2>7. Len(e) = 8 /\ \A j \in 1 .. 4 : e[j] = u[j] /\ e[4 + j] = v[j]
    BY <2>2, <2>4
  <2>8. Len(f) = 12 /\ (\A j \in 1 .. 8 : f[j] = e[j]) /\ \A j \in 1 .. 4 : f[8 + j] = w[j]
    BY <2>2, <2>5, <2>7
  <2>9. /\ Len(g) = 12 + Size /\ (\A j \in 1 .. 12 : g[j] = f[j])
        /\ \A j \in 1 .. Size : g[12 + j] = Login[j]
    BY <2>1, <2>6, <2>8
  <2>10. \A j \in 1 .. 4 : g[j] = u[j] /\ g[4 + j] = v[j] /\ g[8 + j] = w[j]
    <3> TAKE j \in 1 .. 4
    <3>1. /\ j \in 1 .. 8 /\ 4 + j \in 1 .. 8
          /\ j \in 1 .. 12 /\ 4 + j \in 1 .. 12 /\ 8 + j \in 1 .. 12
      OBVIOUS
    <3> QED BY <3>1, <2>7, <2>8, <2>9, SMTT(40)
  <2>11. JoinMessage.bytes = g
    BY <2>1 DEF g, f, e
  <2> QED BY <2>6, <2>9, <2>10, <2>11 DEF u, v, w
<1>3. \A i \in 1 .. 12 + Size : StreamByte(i) = JoinMessage.bytes[i]
  BY Sizes DEF StreamByte
<1>4. \A j \in 1 .. 4 : j \in 1 .. 12 + Size /\ 4 + j \in 1 .. 12 + Size /\ 8 + j \in 1 .. 12 + Size
  BY Sizes
<1>5. \A j \in 1 .. Size : 12 + j \in 1 .. 12 + Size
  BY Sizes
<1> QED BY <1>2, <1>3, <1>4, <1>5

LEMMA OrderBytes ==
  ASSUME NEW k \in Nat, NEW j \in 1 .. 4
  PROVE  StreamByte(12 + Size + 4 * k + j) = write_uint32(Orders[k + 1])[j]
<1>1. ASSUME NEW z \in Nat, NEW i, i = 12 + z + 4 * k + j
      PROVE  ~(i <= 12 + z) /\ (i - z - 9) \div 4 = k + 1 /\ ((i - z - 13) % 4) + 1 = j
  BY <1>1
<1>2. PICK i : i = 12 + Size + 4 * k + j
  OBVIOUS
<1>3. ~(i <= 12 + Size) /\ (i - Size - 9) \div 4 = k + 1 /\ ((i - Size - 13) % 4) + 1 = j
  BY <1>1, <1>2, Sizes
<1>4. StreamByte(i) = write_uint32(Orders[k + 1])[j]
  BY <1>3 DEF StreamByte
<1> QED BY <1>2, <1>4

-----------------------------------------------------------------------------
(* How far both sides are.                                                 *)

\* Bytes that the client wrote, and that the server took
Sent == IF client = "ROOMS" THEN 0 ELSE 12 + Size + 4 * orders

TakenBy(s, i, h) ==
  CASE s \in {"ROOMS", "COMMAND"} -> 0
    [] s = "PID" -> 4
    [] s = "SIZE" -> 8
    [] s = "LOGIN" -> 12 + i
    [] s \in {"LIST", "UPDATE", "START"} -> 12 + Size
    [] OTHER -> 12 + Size + 4 * (h - 4)

Taken == TakenBy(server, index, Len(heard))

LEMMA TakenValues ==
  ASSUME NEW i, NEW h
  PROVE  /\ TakenBy("ROOMS", i, h) = 0 /\ TakenBy("COMMAND", i, h) = 0
         /\ TakenBy("PID", i, h) = 4 /\ TakenBy("SIZE", i, h) = 8
         /\ TakenBy("LOGIN", i, h) = 12 + i
         /\ TakenBy("LIST", i, h) = 12 + Size /\ TakenBy("UPDATE", i, h) = 12 + Size
         /\ TakenBy("START", i, h) = 12 + Size
         /\ TakenBy("GAME", i, h) = 12 + Size + 4 * (h - 4)
<1>1. TakenBy("ROOMS", i, h) = 0 /\ TakenBy("COMMAND", i, h) = 0
  BY DEF TakenBy
<1>2. TakenBy("PID", i, h) = 4 /\ TakenBy("SIZE", i, h) = 8
  BY DEF TakenBy
<1>3. TakenBy("LOGIN", i, h) = 12 + i
  BY DEF TakenBy
<1>4. /\ TakenBy("LIST", i, h) = 12 + Size /\ TakenBy("UPDATE", i, h) = 12 + Size
      /\ TakenBy("START", i, h) = 12 + Size
  BY DEF TakenBy
<1>5. TakenBy("GAME", i, h) = 12 + Size + 4 * (h - 4)
  BY DEF TakenBy
<1> QED BY <1>1, <1>2, <1>3, <1>4, <1>5

\* A sequence that is cut after n
LEMMA Cut ==
  ASSUME NEW Q, NEW s \in Seq(Q), NEW n \in Nat, n <= Len(s)
  PROVE  /\ SubSeq(s, 1, n) \in Seq(Q) /\ Len(SubSeq(s, 1, n)) = n
         /\ \A i \in 1 .. n : SubSeq(s, 1, n)[i] = s[i]
         /\ SubSeq(s, n + 1, Len(s)) \in Seq(Q) /\ Len(SubSeq(s, n + 1, Len(s))) = Len(s) - n
         /\ \A i \in 1 .. Len(s) - n : SubSeq(s, n + 1, Len(s))[i] = s[i + n]
OBVIOUS

Asking ==
  /\ client \in {"ROOMS", "LOBBY", "GAME"}
  /\ orders \in 0 .. Len(Orders) /\ (client # "GAME" => orders = 0)
  /\ asked \in Seq(AskedFields) /\ heard \in Seq(AskedFields)
  /\ Len(asked) = IF client = "ROOMS" THEN 0 ELSE 4 + orders
  /\ \A i \in 1 .. Len(asked) : asked[i] = AskedField(i)
  /\ Len(heard) <= Len(asked)
  /\ \A i \in 1 .. Len(heard) : heard[i] = AskedField(i)

NumberedBy(s, k) ==
  /\ s \in {"ROOMS", "COMMAND", "PID", "SIZE", "LOGIN", "LIST", "UPDATE", "START", "GAME"}
  /\ s \in {"ROOMS", "COMMAND"} => k = 0
  /\ s = "PID" => k = 1
  /\ s = "SIZE" => k = 2
  /\ s = "LOGIN" => k = 3
  /\ s \in {"LIST", "UPDATE", "START"} => k = 4
  /\ s = "GAME" => k >= 4

Numbered == NumberedBy(server, Len(heard))

LEMMA NumberedValues ==
  ASSUME NEW k
  PROVE  /\ NumberedBy("ROOMS", k) <=> k = 0
         /\ NumberedBy("COMMAND", k) <=> k = 0
         /\ NumberedBy("PID", k) <=> k = 1
         /\ NumberedBy("SIZE", k) <=> k = 2
         /\ NumberedBy("LOGIN", k) <=> k = 3
         /\ NumberedBy("LIST", k) <=> k = 4
         /\ NumberedBy("UPDATE", k) <=> k = 4
         /\ NumberedBy("START", k) <=> k = 4
         /\ NumberedBy("GAME", k) <=> k >= 4
<1>1. /\ NumberedBy("ROOMS", k) <=> k = 0
      /\ NumberedBy("COMMAND", k) <=> k = 0
  BY DEF NumberedBy
<1>2. NumberedBy("PID", k) <=> k = 1
  BY DEF NumberedBy
<1>3. NumberedBy("SIZE", k) <=> k = 2
  BY DEF NumberedBy
<1>4. NumberedBy("LOGIN", k) <=> k = 3
  BY DEF NumberedBy
<1>5. /\ NumberedBy("LIST", k) <=> k = 4
      /\ NumberedBy("UPDATE", k) <=> k = 4
      /\ NumberedBy("START", k) <=> k = 4
  BY DEF NumberedBy
<1>6. NumberedBy("GAME", k) <=> k >= 4
  BY DEF NumberedBy
<1> QED BY <1>1, <1>2, <1>3, <1>4, <1>5, <1>6

\* The login as far as it came
LoginBegun ==
  /\ server \in {"COMMAND", "PID", "SIZE"} => buffer = <<>> /\ index = 0
  /\ server = "LOGIN" => /\ index \in 0 .. Size - 1
                         /\ buffer \in Seq(Byte) /\ Len(buffer) = index
                         /\ \A i \in 1 .. index : buffer[i] = Login[i]

Coming ==
  /\ up \in Seq(Byte) /\ Taken + Len(up) = Sent
  /\ \A i \in 1 .. Len(up) : up[i] = StreamByte(Taken + i)

UpInv == Asking /\ (~torn => Numbered /\ LoginBegun /\ Coming)

LEMMA InitUpInv == Init => UpInv
BY Sizes DEF Init, UpInv, Asking, Numbered, LoginBegun, Coming, Sent, Taken, TakenBy, NumberedBy

LEMMA SentNat == UpInv => Sent \in Nat /\ orders \in Nat
BY Sizes DEF UpInv, Asking, Sent

LEMMA TakenNat == UpInv /\ ~torn => Taken \in Nat
<1> SUFFICES ASSUME UpInv, ~torn
             PROVE  Taken \in Nat
  OBVIOUS
<1>1. CASE server = "LOGIN"
  <2>1. index \in Nat
    BY <1>1, Sizes DEF UpInv, LoginBegun
  <2> QED BY <2>1, <1>1, TakenValues DEF Taken
<1>2. CASE server = "GAME"
  <2>1. Len(heard) \in Nat /\ Len(heard) >= 4
    BY <1>2, NumberedValues DEF UpInv, Asking, Numbered
  <2>2. 12 + Size + 4 * (Len(heard) - 4) \in Nat
    BY <2>1, Sizes
  <2> QED BY <2>2, <1>2, TakenValues DEF Taken
<1>3. CASE server \in {"ROOMS", "COMMAND", "PID", "SIZE", "LIST", "UPDATE", "START"}
  <2>1. Taken \in {0, 4, 8, 12 + Size}
    BY <1>3, TakenValues DEF Taken
  <2> QED BY <2>1, Sizes
<1> QED BY <1>1, <1>2, <1>3 DEF UpInv, Numbered, NumberedBy

-----------------------------------------------------------------------------
(* The client.                                                             *)

LEMMA AskedFieldsFour ==
  /\ JoinMessage.fields \in Seq(AskedFields) /\ Len(JoinMessage.fields) = 4
  /\ \A i \in 1 .. 4 : JoinMessage.fields[i] = AskedField(i)
<1>1. Len(JoinMessage.fields) = 4 /\ DOMAIN JoinMessage.fields = 1 .. 4
  BY JoinFields
<1>2. \A i \in 1 .. 4 : JoinMessage.fields[i] = AskedField(i)
  BY DEF AskedField
<1>3. \A i \in 1 .. 4 : AskedField(i) \in AskedFields
  <2>1. \A i \in 1 .. 4 : i \in 1 .. 4 + Len(Orders)
    BY Sizes
  <2> QED BY <2>1 DEF AskedFields
<1>4. JoinMessage.fields = [i \in 1 .. 4 |-> AskedField(i)]
  BY <1>2, JoinFields
<1> QED BY <1>1, <1>2, <1>3, <1>4

LEMMA AskToJoinUpInv == UpInv /\ ~torn /\ AskToJoin => UpInv'
<1> SUFFICES ASSUME UpInv, ~torn, AskToJoin
             PROVE  UpInv'
  OBVIOUS
<1>1. client = "ROOMS" /\ client' = "LOBBY" /\ orders = 0
  BY DEF AskToJoin, UpInv, Asking
<1>2. asked = <<>> /\ heard = <<>>
  BY <1>1 DEF UpInv, Asking
<1>3. Taken = 0 /\ up = <<>>
  BY <1>1, TakenNat DEF UpInv, Coming, Sent
<1>4. asked' = JoinMessage.fields /\ up' = JoinMessage.bytes
  BY <1>2, <1>3, AskedFieldsFour, JoinBytes DEF AskToJoin
<1>5. Asking'
  BY <1>1, <1>2, <1>4, AskedFieldsFour, Sizes, SMTT(40) DEF AskToJoin, Asking, UpInv
<1>6. Numbered' /\ LoginBegun'
  BY DEF AskToJoin, sides, UpInv, Numbered, LoginBegun
<1>7. Coming'
  <2>1. Taken' = 0 /\ Sent' = 12 + Size
    <3>1. Taken' = Taken
      BY DEF AskToJoin, Taken
    <3>2. Sent' = 12 + Size + 4 * 0
      BY <1>1 DEF AskToJoin, Sent
    <3> QED BY <3>1, <3>2, <1>3, Sizes
  <2>2. \A i \in 1 .. 12 + Size : StreamByte(i) = JoinMessage.bytes[i]
    BY Sizes DEF StreamByte
  <2> QED BY <1>4, <2>1, <2>2, JoinBytes, Sizes, SMTT(40) DEF Coming
<1> QED BY <1>5, <1>6, <1>7 DEF UpInv

LEMMA OrderUpInv == UpInv /\ ~torn /\ Order => UpInv'
<1> SUFFICES ASSUME UpInv, ~torn, Order
             PROVE  UpInv'
  OBVIOUS
<1> DEFINE w == write_uint32(Orders[orders + 1])
<1>0. /\ client = "GAME" /\ orders \in Nat /\ orders < Len(Orders) /\ orders' = orders + 1
      /\ UNCHANGED <<sides, buffer, index, heard, torn>>
      /\ asked' = Append(asked, Number(Orders[orders + 1])) /\ up' = up \o w
  BY SentNat DEF Order
<1>1. orders + 1 \in 1 .. Len(Orders) /\ Orders[orders + 1] \in Nat
  <2>1. orders + 1 \in 1 .. Len(Orders)
    BY <1>0, Sizes
  <2>2. Orders[orders + 1] \in Word
    BY <2>1, Sizes
  <2> QED BY <2>1, <2>2, Sizes
<1>2. w \in Seq(Byte) /\ Len(w) = 4
  BY <1>1, Written
<1>3. Number(Orders[orders + 1]) = AskedField(5 + orders) /\ AskedField(5 + orders) \in AskedFields
  <2>1. 5 + orders \in 1 .. 4 + Len(Orders) /\ ~(5 + orders <= 4) /\ (5 + orders) - 4 = orders + 1
    BY <1>0, Sizes
  <2> QED BY <2>1 DEF AskedField, AskedFields
<1>4. Asking'
  BY <1>0, <1>3, Sizes DEF Asking, UpInv, sides
<1>5. Numbered' /\ LoginBegun' /\ Taken' = Taken
  BY <1>0 DEF sides, UpInv, Numbered, LoginBegun, Taken
<1>6. Sent' = Sent + 4 /\ Sent = 12 + Size + 4 * orders
  BY <1>0, Sizes DEF sides, Sent
<1>7. up \in Seq(Byte) /\ Taken \in Nat /\ Taken + Len(up) = Sent
  BY TakenNat DEF UpInv, Coming
<1>8. /\ up' \in Seq(Byte) /\ Len(up') = Len(up) + 4 /\ Len(up) \in Nat
      /\ \A i \in 1 .. Len(up) : up'[i] = up[i]
      /\ \A i \in 1 .. 4 : up'[Len(up) + i] = w[i]
  <2>1. up \in Seq(Byte) /\ w \in Seq(Byte)
    BY <1>2, <1>7
  <2> HIDE DEF w
  <2>2. /\ up \o w \in Seq(Byte) /\ Len(up \o w) = Len(up) + Len(w)
        /\ Len(up) \in Nat
        /\ \A i \in 1 .. Len(up) : (up \o w)[i] = up[i]
        /\ \A i \in 1 .. Len(w) : (up \o w)[Len(up) + i] = w[i]
    BY <2>1, Joined
  <2> QED BY <2>2, <1>0, <1>2
<1>9. ASSUME NEW i \in 1 .. Len(up')
      PROVE  up'[i] = StreamByte(Taken + i)
  <2>1. CASE i <= Len(up)
    <3>1. i \in 1 .. Len(up) /\ up'[i] = up[i]
      BY <2>1, <1>8
    <3> QED BY <3>1 DEF UpInv, Coming
  <2>2. CASE i > Len(up)
    <3>1. PICK j \in 1 .. 4 : i = Len(up) + j
      BY <2>2, <1>7, <1>8
    <3>2. up'[i] = w[j]
      BY <3>1, <1>8
    <3>3. Taken + i = 12 + Size + 4 * orders + j
      <4>1. Len(up) \in Int /\ Taken \in Int /\ j \in Int
        BY <1>7, <1>8
      <4>2. Taken + (Len(up) + j) = (Taken + Len(up)) + j
        BY <4>1
      <4> QED BY <3>1, <4>2, <1>6, <1>7, Zenon
    <3> QED BY <3>2, <3>3, <1>0, OrderBytes
  <2> QED BY <2>1, <2>2, <1>7
<1>10. Coming'
  BY <1>5, <1>6, <1>7, <1>8, <1>9 DEF Coming
<1> QED BY <1>4, <1>5, <1>10 DEF UpInv

LEMMA ClientUpInv == UpInv /\ Client => UpInv'
<1> SUFFICES ASSUME UpInv, Client
             PROVE  UpInv'
  OBVIOUS
<1>0. ~torn
  BY DEF Client
<1>1. CASE ReadSome \/ ReadInfo
  <2>1. UNCHANGED <<sides, buffer, index, up, asked, heard, orders, torn>>
    BY <1>1 DEF ReadSome, ReadInfo
  <2> QED BY <2>1, <1>0 DEF sides, UpInv, Asking, Numbered, LoginBegun, Coming, Sent, Taken
<1>2. CASE ReadUpdate
  <2>1. /\ UNCHANGED <<server, buffer, index, up, asked, heard, orders>>
        /\ client = "LOBBY" /\ client' \in {"LOBBY", "GAME"}
    BY <1>2 DEF ReadUpdate
  <2> QED BY <2>1, <1>0 DEF UpInv, Asking, Numbered, LoginBegun, Coming, Sent, Taken
<1> QED BY <1>0, <1>1, <1>2, AskToJoinUpInv, OrderUpInv DEF Client

-----------------------------------------------------------------------------
(* The server.                                                             *)

\* A step that reads nothing and goes on to something else
LEMMA SilentUpInv ==
  ASSUME UpInv, ~torn, UNCHANGED <<client, up, asked, heard, orders>>,
         \/ server = "ROOMS" /\ server' = "ROOMS"
         \/ server = "ROOMS" /\ server' = "COMMAND" /\ buffer' = <<>> /\ index' = 0
         \/ server \in {"LIST", "UPDATE", "START"} /\ server' \in {"LIST", "UPDATE", "START", "GAME"}
         \/ server = "GAME" /\ server' = "GAME"
  PROVE  UpInv'
<1>1. Asking'
  BY DEF UpInv, Asking
<1>2. Numbered' /\ LoginBegun' /\ Taken' = Taken
  <2>0. Numbered /\ LoginBegun
    BY DEF UpInv
  <2> DEFINE k == Len(heard)
  <2>00. k = Len(heard) /\ Len(heard') = k
    OBVIOUS
  <2> HIDE DEF k
  <2>1. CASE server = "ROOMS" /\ server' = "ROOMS"
    BY <2>0, <2>1, <2>00, TakenValues, NumberedValues DEF Numbered, LoginBegun, Taken
  <2>2. CASE server = "ROOMS" /\ server' = "COMMAND" /\ buffer' = <<>> /\ index' = 0
    BY <2>0, <2>2, <2>00, TakenValues, NumberedValues DEF Numbered, LoginBegun, Taken
  <2>3. CASE server = "GAME" /\ server' = "GAME"
    BY <2>0, <2>3, <2>00, TakenValues, NumberedValues DEF Numbered, LoginBegun, Taken
  <2>4. CASE server \in {"LIST", "UPDATE", "START"} /\ server' \in {"LIST", "UPDATE", "START"}
    BY <2>0, <2>4, <2>00, TakenValues, NumberedValues DEF Numbered, LoginBegun, Taken
  <2>5. CASE server \in {"LIST", "UPDATE", "START"} /\ server' = "GAME"
    <3>1. k = 4 /\ Taken = 12 + Size
      BY <2>0, <2>00, <2>5, TakenValues, NumberedValues DEF Numbered, Taken
    <3>3. Taken' = 12 + Size + 4 * (k - 4)
      BY <2>00, <2>5, TakenValues DEF Taken
    <3>4. Numbered'
      BY <2>00, <2>5, <3>1, NumberedValues DEF Numbered
    <3>5. LoginBegun'
      BY <2>5 DEF LoginBegun
    <3> QED BY <3>1, <3>3, <3>4, <3>5, Sizes
  <2> QED BY <2>1, <2>2, <2>3, <2>4, <2>5
<1>3. Sent' = Sent
  BY DEF Sent
<1>4. Coming'
  BY <1>2, <1>3 DEF UpInv, Coming
<1> QED BY <1>1, <1>2, <1>4 DEF UpInv

LEMMA SendListSilent ==
  ASSUME NEW here, NEW fields, NEW next, SendList(here, fields, next)
  PROVE  /\ UNCHANGED <<client, up, asked, heard, orders>>
         /\ server = here
         /\ server' = here \/ (server' = next /\ buffer' = <<>> /\ index' = 0)
BY DEF SendList, Send, Rewound

LEMMA SendUpInv ==
  ASSUME UpInv, ~torn,
         SendRooms \/ SendPlayers \/ SendUpdate \/ SendStart \/ SendInfo
  PROVE  UpInv'
<1>1. CASE SendRooms
  <2>1. SendList("ROOMS", RoomInfos, "COMMAND")
    BY <1>1 DEF SendRooms
  <2> QED BY <2>1, SendListSilent, SilentUpInv
<1>2. CASE SendPlayers
  <2>1. SendList("LIST", PlayerInfos, "UPDATE")
    BY <1>2 DEF SendPlayers
  <2> QED BY <2>1, SendListSilent, SilentUpInv
<1>3. CASE SendUpdate
  <2>1. PICK fields : SendList("UPDATE", fields, "START")
    BY <1>3 DEF SendUpdate
  <2> QED BY <2>1, SendListSilent, SilentUpInv
<1>4. CASE SendStart
  <2>1. /\ UNCHANGED <<client, up, asked, heard, orders>>
        /\ server = "START" /\ server' = "GAME"
    BY <1>4 DEF SendStart
  <2> QED BY <2>1, SilentUpInv
<1>5. CASE SendInfo
  <2>1. /\ UNCHANGED <<client, up, asked, heard, orders>>
        /\ server = "GAME" /\ server' = "GAME"
    BY <1>5 DEF SendInfo, Send
  <2> QED BY <2>1, SilentUpInv
<1> QED BY <1>1, <1>2, <1>3, <1>4, <1>5

\* Four bytes are the number that is written there
LEMMA NumberRead ==
  ASSUME NEW v \in Word, NEW s \in Seq(Byte), Len(s) >= 4,
         \A j \in 1 .. 4 : s[j] = write_uint32(v)[j]
  PROVE  read_uint32(SubSeq(s, 1, 4)) = v
<1>1. write_uint32(v) \in Seq(Byte) /\ Len(write_uint32(v)) = 4
  BY Sizes, Written
<1>2. SubSeq(s, 1, 4) = write_uint32(v)
  BY <1>1
<1> QED BY <1>2, ReadsWhatWasWritten

LEMMA ReadNumberUpInv ==
  ASSUME UpInv, ~torn, NEW here, NEW next, ReadNumber(here, next), UNCHANGED buffer,
         \/ here = "COMMAND" /\ next = "PID"
         \/ here = "PID" /\ next = "SIZE"
         \/ here = "SIZE" /\ next = "LOGIN"
         \/ here = "GAME" /\ next = "GAME"
  PROVE  UpInv'
<1>0. /\ server = here /\ server' = next
      /\ UNCHANGED <<client, index, asked, orders, buffer>>
      /\ up \in Seq(Byte) /\ Taken \in Nat /\ Sent \in Nat /\ orders \in Nat
      /\ Len(up) \in Nat /\ Taken + Len(up) = Sent
  BY SentNat, TakenNat DEF ReadNumber, UpInv, Coming
<1>1. PICK n \in 1 .. Len(up) :
        /\ n <= 4
        /\ torn' = (n < 4)
        /\ heard' = IF n < 4 THEN heard ELSE Append(heard, Number(read_uint32(SubSeq(up, 1, n))))
        /\ up' = SubSeq(up, n + 1, Len(up))
  BY DEF ReadNumber
<1>2. CASE n < 4
  BY <1>0, <1>1, <1>2 DEF UpInv, Asking
<1>3. CASE n = 4
  <2> DEFINE l == Len(heard)
             h == l + 1
  <2>00. l \in Nat /\ Len(asked) \in Nat /\ heard \in Seq(AskedFields)
    BY DEF UpInv, Asking
  <2>02. l = Len(heard)
    OBVIOUS
  <2> HIDE DEF l
  <2>0. /\ here = "COMMAND" => l = 0 /\ Taken = 0
        /\ here = "PID" => l = 1 /\ Taken = 4
        /\ here = "SIZE" => l = 2 /\ Taken = 8
        /\ here = "GAME" => l >= 4 /\ Taken = 12 + Size + 4 * (l - 4)
    <3>1. NumberedBy(here, l) /\ Taken = TakenBy(here, index, l)
      BY <1>0, <2>02 DEF UpInv, Numbered, Taken
    <3>2. here = "COMMAND" => l = 0 /\ Taken = 0
      BY <3>1, TakenValues, NumberedValues
    <3>3. here = "PID" => l = 1 /\ Taken = 4
      BY <3>1, TakenValues, NumberedValues
    <3>4. here = "SIZE" => l = 2 /\ Taken = 8
      BY <3>1, TakenValues, NumberedValues
    <3>5. here = "GAME" => l >= 4 /\ Taken = 12 + Size + 4 * (l - 4)
      BY <3>1, TakenValues, NumberedValues
    <3> QED BY <3>2, <3>3, <3>4, <3>5
  <2>01. client # "ROOMS" /\ Len(asked) = 4 + orders /\ Sent = 12 + Size + 4 * orders
    <3>1. Sent >= 4
      BY <1>0, <1>3
    <3> QED BY <3>1 DEF UpInv, Asking, Sent
  <2>1. h <= Len(asked) /\ h \in Nat /\ h >= 1 /\ (here # "GAME" => h <= 3) /\ (here = "GAME" => h >= 5)
    <3>1. CASE here = "GAME"
      <4>1. \A x, z, o, w \in Nat : (12 + z + 4 * (x - 4)) + w = 12 + z + 4 * o /\ w >= 4 => x + 1 <= 4 + o
        OBVIOUS
      <4>2. h <= 4 + orders
        BY <4>1, <2>0, <2>00, <2>01, <3>1, <1>0, <1>3, Sizes
      <4> QED BY <4>2, <2>0, <2>00, <2>01, <3>1
    <3>2. CASE here # "GAME"
      BY <3>2, <2>0, <2>00, <2>01, <1>0
    <3> QED BY <3>1, <3>2
  <2>2. PICK v \in Word : /\ Number(v) = AskedField(h)
                          /\ \A j \in 1 .. 4 : StreamByte(Taken + j) = write_uint32(v)[j]
    <3>1. CASE here = "COMMAND"
      <4>1. Taken = 0 /\ h = 1
        BY <3>1, <2>0
      <4>2. Number(JOIN_ROOM) = AskedField(h)
        BY <4>1, JoinFields DEF AskedField
      <4>3. ASSUME NEW j \in 1 .. 4
            PROVE  StreamByte(Taken + j) = write_uint32(JOIN_ROOM)[j]
        <5>1. Taken + j = j
          BY <4>1
        <5> QED BY <5>1, JoinBytes
      <4> QED BY <4>2, <4>3, Sizes
    <3>2. CASE here = "PID"
      <4>1. Taken = 4 /\ h = 2
        BY <3>2, <2>0
      <4>2. Number(Rooms) = AskedField(h)
        BY <4>1, JoinFields DEF AskedField
      <4>3. ASSUME NEW j \in 1 .. 4
            PROVE  StreamByte(Taken + j) = write_uint32(Rooms)[j]
        <5>1. Taken + j = 4 + j
          BY <4>1
        <5> QED BY <5>1, JoinBytes
      <4> QED BY <4>2, <4>3, Sizes
    <3>3. CASE here = "SIZE"
      <4>1. Taken = 8 /\ h = 3
        BY <3>3, <2>0
      <4>2. Number(Size) = AskedField(h)
        BY <4>1, JoinFields DEF AskedField
      <4>3. ASSUME NEW j \in 1 .. 4
            PROVE  StreamByte(Taken + j) = write_uint32(Size)[j]
        <5>1. Taken + j = 8 + j
          BY <4>1
        <5> QED BY <5>1, JoinBytes
      <4> QED BY <4>2, <4>3, Sizes
    <3>4. CASE here = "GAME"
      <4> DEFINE k == h - 5
      <4>1. k \in Nat /\ Taken = 12 + Size + 4 * k
        BY <3>4, <2>0, <2>00, <2>1, Sizes
      <4>2. k + 1 \in 1 .. Len(Orders) /\ Orders[k + 1] \in Word
        <5>1. h <= 4 + orders /\ orders \in 0 .. Len(Orders)
          BY <2>1, <2>01 DEF UpInv, Asking
        <5>2. k + 1 \in 1 .. Len(Orders)
          <6>1. \A x, o, n1 \in Nat :
                  x + 1 <= 4 + o /\ o <= n1 /\ x >= 4 => (x + 1 - 5) + 1 \in 1 .. n1
            OBVIOUS
          <6>2. l \in Nat /\ orders \in Nat /\ Len(Orders) \in Nat /\ orders <= Len(Orders)
            BY <5>1, <2>00, Sizes
          <6>3. l >= 4 /\ l + 1 <= 4 + orders
            BY <5>1, <3>4, <2>0
          <6> QED BY <6>1, <6>2, <6>3
        <5> HIDE DEF k
        <5> QED BY <5>2, Sizes
      <4>3. Number(Orders[k + 1]) = AskedField(h)
        BY <2>1, <3>4 DEF AskedField
      <4>4. \A j \in 1 .. 4 : StreamByte(Taken + j) = write_uint32(Orders[k + 1])[j]
        BY <4>1, OrderBytes
      <4> QED BY <4>2, <4>3, <4>4
    <3> QED BY <3>1, <3>2, <3>3, <3>4
  <2>3. read_uint32(SubSeq(up, 1, 4)) = v
    <3>1. \A j \in 1 .. 4 : up[j] = write_uint32(v)[j]
      BY <2>2, <1>0, <1>1, <1>3 DEF UpInv, Coming
    <3> QED BY <3>1, <1>0, <1>1, <1>3, NumberRead
  <2>4. heard' = Append(heard, AskedField(h)) /\ AskedField(h) \in AskedFields
    <3>1. h \in 1 .. 4 + Len(Orders)
      BY <2>1, Sizes, SMTT(40) DEF UpInv, Asking
    <3> QED BY <3>1, <1>1, <1>3, <2>2, <2>3 DEF AskedFields
  <2>5. Asking' /\ Len(heard') = h
    <3> DEFINE x == AskedField(h)
    <3>0. x = AskedField(h) /\ x \in AskedFields
      BY <2>4
    <3> HIDE DEF x
    <3>1. /\ Append(heard, x) \in Seq(AskedFields) /\ Len(Append(heard, x)) = l + 1
          /\ \A i \in 1 .. l : Append(heard, x)[i] = heard[i]
          /\ Append(heard, x)[l + 1] = x
      <4>1. /\ Append(heard, x) \in Seq(AskedFields) /\ Len(Append(heard, x)) = Len(heard) + 1
            /\ \A i \in 1 .. Len(heard) : Append(heard, x)[i] = heard[i]
            /\ Append(heard, x)[Len(heard) + 1] = x
        BY <2>00, <3>0, Appended
      <4> QED BY <4>1, <2>02
    <3>2. heard' = Append(heard, x)
      BY <2>4, <3>0
    <3>3. ASSUME NEW i \in 1 .. h
          PROVE  heard'[i] = AskedField(i)
      <4>1. CASE i = h
        BY <4>1, <3>0, <3>1, <3>2
      <4>2. CASE i \in 1 .. l
        <5>1. heard[i] = AskedField(i)
          BY <4>2, <2>02 DEF UpInv, Asking
        <5> QED BY <5>1, <4>2, <3>1, <3>2
      <4> QED BY <4>1, <4>2, <2>00
    <3>4. Len(heard') = h /\ heard' \in Seq(AskedFields) /\ Len(heard') <= Len(asked)
      BY <3>1, <3>2, <2>1
    <3>5. \A i \in 1 .. Len(heard') : heard'[i] = AskedField(i)
      BY <3>3, <3>4
    <3> QED BY <1>0, <3>4, <3>5 DEF UpInv, Asking
  <2>6. Len(heard') = h
    BY <2>5
  <2>70. Sent' = Sent
    BY <1>0 DEF Sent
  <2>7. Numbered' /\ LoginBegun' /\ Taken' = Taken + 4
    <3>0. LoginBegun
      BY DEF UpInv
    <3>00. h = l + 1
      OBVIOUS
    <3> HIDE DEF h
    <3>1. CASE here = "COMMAND" /\ next = "PID"
      <4>1. server' = "PID" /\ h = 1 /\ Taken = 0
        BY <3>1, <3>00, <1>0, <2>0
      <4>2. Numbered'
        BY <4>1, <2>6, NumberedValues DEF Numbered
      <4>3. LoginBegun'
        BY <4>1, <3>0, <3>1, <1>0 DEF LoginBegun
      <4>4. Taken' = 4
        BY <4>1, TakenValues DEF Taken
      <4> QED BY <4>1, <4>2, <4>3, <4>4
    <3>2. CASE here = "PID" /\ next = "SIZE"
      <4>1. server' = "SIZE" /\ h = 2 /\ Taken = 4
        BY <3>2, <3>00, <1>0, <2>0
      <4>2. Numbered'
        BY <4>1, <2>6, NumberedValues DEF Numbered
      <4>3. LoginBegun'
        BY <4>1, <3>0, <3>2, <1>0 DEF LoginBegun
      <4>4. Taken' = 8
        BY <4>1, TakenValues DEF Taken
      <4> QED BY <4>1, <4>2, <4>3, <4>4
    <3>3. CASE here = "SIZE" /\ next = "LOGIN"
      <4>1. server' = "LOGIN" /\ index' = 0 /\ buffer' = <<>>
        BY <3>0, <3>3, <1>0 DEF LoginBegun
      <4>2. Numbered'
        <5>1. h = 3
          BY <3>3, <3>00, <2>0
        <5> QED BY <4>1, <5>1, <2>6, NumberedValues DEF Numbered
      <4>3. LoginBegun'
        <5>1. 0 \in 0 .. Size - 1
          BY Sizes
        <5>2. <<>> \in Seq(Byte) /\ Len(<<>>) = 0 /\ 1 .. 0 = {}
          OBVIOUS
        <5> QED BY <4>1, <5>1, <5>2 DEF LoginBegun
      <4>4. Taken' = 12 + 0
        BY <4>1, TakenValues DEF Taken
      <4> QED BY <4>2, <4>3, <4>4, <3>3, <2>0
    <3>4. CASE here = "GAME" /\ next = "GAME"
      <4>1. Taken' = 12 + Size + 4 * (h - 4)
        BY <3>4, <1>0, <2>6, TakenValues DEF Taken
      <4>2. Numbered' /\ LoginBegun'
        <5>1. h >= 4 /\ server' = "GAME"
          BY <3>00, <3>4, <1>0, <2>0, <2>00
        <5>2. Numbered'
          BY <5>1, <2>6, NumberedValues DEF Numbered
        <5> QED BY <5>1, <5>2 DEF LoginBegun
      <4>3. Taken' = Taken + 4
        BY <4>1, <3>00, <3>4, <2>0, <2>00, Sizes
      <4> QED BY <4>2, <4>3
    <3> QED BY <3>1, <3>2, <3>3, <3>4
  <2>10. /\ up' \in Seq(Byte) /\ Len(up') = Len(up) - 4
         /\ \A i \in 1 .. Len(up') : up'[i] = up[i + 4]
    <3>1. /\ up' = SubSeq(up, n + 1, Len(up)) /\ n \in Nat /\ n <= Len(up)
      BY <1>0, <1>1
    <3>2. /\ up' \in Seq(Byte) /\ Len(up') = Len(up) - n
          /\ \A i \in 1 .. Len(up) - n : up'[i] = up[i + n]
      BY <3>1, <1>0, Cut
    <3> QED BY <3>2, <1>3
  <2>11. Coming'
    <3>1. ASSUME NEW i \in 1 .. Len(up')
          PROVE  up'[i] = StreamByte(Taken' + i)
      <4>1. i + 4 \in 1 .. Len(up) /\ Taken + (i + 4) = Taken' + i
        BY <1>0, <2>7, <2>10
      <4>2. up[i + 4] = StreamByte(Taken + (i + 4))
        BY <4>1 DEF UpInv, Coming
      <4> QED BY <4>1, <4>2, <2>10
    <3>2. Taken' + Len(up') = Sent'
      <4>1. \A x, y, z, u \in Int : x + y = z /\ u = x + 4 => u + (y - 4) = z
        OBVIOUS
      <4>2. Taken \in Int /\ Len(up) \in Int /\ Sent \in Int /\ Taken' \in Int
        BY <1>0, <2>7
      <4>3. Taken' + (Len(up) - 4) = Sent
        BY <4>1, <4>2, <1>0, <2>7
      <4> QED BY <4>3, <2>70, <2>10
    <3> QED BY <3>1, <3>2, <2>10 DEF Coming
  <2> QED BY <2>5, <2>7, <2>11 DEF UpInv
<1> QED BY <1>1, <1>2, <1>3

LEMMA ReadLoginUpInv ==
  ASSUME UpInv, ~torn, ReadLogin, client # "GAME"
  PROVE  UpInv'
<1>0. /\ server = "LOGIN" /\ UNCHANGED <<client, asked, orders, torn>>
      /\ up \in Seq(Byte) /\ Len(up) \in Nat /\ index \in 0 .. Size - 1
      /\ buffer \in Seq(Byte) /\ Len(buffer) = index
      /\ Taken = 12 + index /\ Sent \in Nat /\ Taken + Len(up) = Sent
      /\ Len(heard) = 3 /\ heard \in Seq(AskedFields)
  <2>1. server = "LOGIN" /\ UNCHANGED <<client, asked, orders, torn>>
    BY DEF ReadLogin
  <2>2. /\ up \in Seq(Byte) /\ Len(up) \in Nat /\ index \in 0 .. Size - 1
        /\ buffer \in Seq(Byte) /\ Len(buffer) = index
    BY <2>1 DEF UpInv, Coming, LoginBegun
  <2>3. Taken = 12 + index
    BY <2>1, TakenValues DEF Taken
  <2>4. Sent \in Nat /\ Taken + Len(up) = Sent
    BY SentNat DEF UpInv, Coming
  <2>5. Len(heard) = 3
    BY <2>1, NumberedValues DEF UpInv, Numbered
  <2>6. heard \in Seq(AskedFields)
    BY DEF UpInv, Asking
  <2> QED BY <2>1, <2>2, <2>3, <2>4, <2>5, <2>6
<1>1. Last(heard).number = Size
  <2>1. heard[3] = AskedField(3)
    BY <1>0 DEF UpInv, Asking
  <2> QED BY <1>0, <2>1, JoinFields DEF Last, AskedField, Number
<1>2. PICK n \in 1 .. Len(up) :
        /\ n <= Size
        /\ up' = SubSeq(up, n + 1, Len(up))
        /\ IF index + n = Size
           THEN /\ heard' = Append(heard, String(buffer \o SubSeq(up, 1, n)))
                /\ buffer' = <<>> /\ index' = Rewound
                /\ server' = "LIST"
           ELSE /\ buffer' = buffer \o SubSeq(up, 1, n)
                /\ index' = index + n
                /\ UNCHANGED <<server, heard>>
  BY <1>1 DEF ReadLogin
<1>3. /\ up' \in Seq(Byte) /\ Len(up') = Len(up) - n
      /\ \A i \in 1 .. Len(up') : up'[i] = up[i + n]
  <2>1. /\ up' = SubSeq(up, n + 1, Len(up)) /\ n \in Nat /\ n <= Len(up) /\ up \in Seq(Byte)
    BY <1>0, <1>2
  <2>2. /\ up' \in Seq(Byte) /\ Len(up') = Len(up) - n
        /\ \A i \in 1 .. Len(up) - n : up'[i] = up[i + n]
    BY <2>1, Cut
  <2> QED BY <2>2
<1> DEFINE b == buffer \o SubSeq(up, 1, n)
<1>4. /\ b \in Seq(Byte) /\ Len(b) = index + n
      /\ \A i \in 1 .. index + n : b[i] = IF i <= index THEN buffer[i] ELSE up[i - index]
  <2> DEFINE c == SubSeq(up, 1, n)
  <2>1. n \in Nat /\ n <= Len(up) /\ up \in Seq(Byte)
    BY <1>0, <1>2
  <2>2. c \in Seq(Byte) /\ Len(c) = n /\ \A i \in 1 .. n : c[i] = up[i]
    BY <2>1, Cut
  <2> HIDE DEF c
  <2>3. buffer \in Seq(Byte) /\ c \in Seq(Byte)
    BY <1>0, <2>2
  <2> DEFINE d == buffer \o c
  <2>4. /\ d \in Seq(Byte) /\ Len(d) = Len(buffer) + Len(c)
        /\ \A i \in 1 .. Len(buffer) : d[i] = buffer[i]
        /\ \A i \in 1 .. Len(c) : d[Len(buffer) + i] = c[i]
    BY <2>3, Joined
  <2> HIDE DEF d
  <2>5. ASSUME NEW i \in 1 .. index + n
        PROVE  d[i] = IF i <= index THEN buffer[i] ELSE up[i - index]
    <3>1. CASE i <= index
      <4>1. i \in 1 .. Len(buffer)
        BY <3>1, <1>0
      <4> QED BY <3>1, <4>1, <2>4
    <3>2. CASE ~(i <= index)
      <4>1. i - index \in 1 .. Len(c) /\ Len(buffer) + (i - index) = i /\ i - index \in 1 .. n
        BY <3>2, <1>0, <2>1, <2>2
      <4> QED BY <3>2, <4>1, <2>2, <2>4
    <3> QED BY <3>1, <3>2
  <2>6. b = d
    BY DEF b, c, d
  <2> HIDE DEF b
  <2> QED BY <1>0, <2>2, <2>4, <2>5, <2>6
<1> HIDE DEF b
\* In the lobby nothing follows the login
<1>5. Sent = 12 + Size /\ client # "ROOMS" /\ orders = 0 /\ Sent' = Sent
  BY <1>0, <1>2, Sizes DEF UpInv, Asking, Sent
<1>6. index + n <= Size
  BY <1>0, <1>2, <1>5, Sizes
<1>7. \A i \in 1 .. index + n : b[i] = Login[i]
  <2> TAKE i \in 1 .. index + n
  <2>1. CASE i <= index
    BY <2>1, <1>0, <1>4 DEF UpInv, LoginBegun
  <2>2. CASE i > index
    <3>1. /\ b[i] = up[i - index] /\ i - index \in 1 .. Len(up) /\ i \in 1 .. Size
          /\ Taken + (i - index) = 12 + i
      BY <2>2, <1>0, <1>2, <1>4, <1>6, Sizes, SMTT(40)
    <3>2. up[i - index] = StreamByte(12 + i)
      BY <3>1 DEF UpInv, Coming
    <3> QED BY <3>1, <3>2, JoinBytes
  <2>3. i <= index \/ i > index
    BY <1>0
  <2> QED BY <2>1, <2>2, <2>3, Zenon
<1>8. CASE index + n = Size
  <2>1. b = Login
    BY <1>4, <1>7, <1>8, Sizes DEF Size
  <2>2. /\ heard' = Append(heard, AskedField(4)) /\ AskedField(4) \in AskedFields
        /\ buffer' = <<>> /\ index' = 0 /\ server' = "LIST"
    <3>1. AskedField(4) = String(Login)
      BY JoinFields DEF AskedField
    <3>2. AskedField(4) \in AskedFields
      BY Sizes DEF AskedFields
    <3> QED BY <1>2, <1>8, <2>1, <3>1, <3>2 DEF Rewound, b
  <2>3. Len(asked) = 4
    BY <1>5 DEF UpInv, Asking
  <2>4. Asking' /\ Len(heard') = 4
    <3> DEFINE x == AskedField(4)
               l == Len(heard)
    <3>0. /\ x = AskedField(4) /\ x \in AskedFields /\ heard' = Append(heard, x)
          /\ l = Len(heard) /\ l = 3
      BY <1>0, <2>2
    <3> HIDE DEF x, l
    <3>01. heard \in Seq(AskedFields) /\ x \in AskedFields
      BY <1>0, <3>0
    <3>1. /\ Append(heard, x) \in Seq(AskedFields) /\ Len(Append(heard, x)) = l + 1
          /\ \A i \in 1 .. l : Append(heard, x)[i] = heard[i]
          /\ Append(heard, x)[l + 1] = x
      <4>1. /\ Append(heard, x) \in Seq(AskedFields) /\ Len(Append(heard, x)) = Len(heard) + 1
            /\ \A i \in 1 .. Len(heard) : Append(heard, x)[i] = heard[i]
            /\ Append(heard, x)[Len(heard) + 1] = x
        BY <3>01, Appended
      <4>2. l = Len(heard)
        BY <3>0
      <4> QED BY <4>1, <4>2
    <3>2. heard' \in Seq(AskedFields) /\ Len(heard') = 4
      BY <3>0, <3>1
    <3>3. ASSUME NEW i \in 1 .. 4
          PROVE  heard'[i] = AskedField(i)
      <4>1. CASE i = 4
        BY <4>1, <3>0, <3>1
      <4>2. CASE i \in 1 .. 3
        <5>1. heard[i] = AskedField(i)
          BY <4>2, <3>0 DEF UpInv, Asking
        <5> QED BY <5>1, <4>2, <3>0, <3>1
      <4> QED BY <4>1, <4>2
    <3>5. \A i \in 1 .. Len(heard') : heard'[i] = AskedField(i)
      BY <3>2, <3>3
    <3>6. Len(heard') <= Len(asked)
      BY <2>3, <3>2
    <3> QED BY <1>0, <3>2, <3>5, <3>6 DEF UpInv, Asking
  <2>6. Numbered' /\ LoginBegun'
    <3>1. Numbered'
      BY <2>2, <2>4, NumberedValues DEF Numbered
    <3> QED BY <2>2, <3>1 DEF LoginBegun
  <2>7. Taken' = 12 + Size
    BY <2>2, TakenValues DEF Taken
  <2>8. up' = <<>>
    BY <1>0, <1>3, <1>5, <1>8, Sizes
  <2>9. Coming'
    BY <1>5, <2>7, <2>8, Sizes DEF Coming
  <2> QED BY <2>4, <2>6, <2>9 DEF UpInv
<1>9. CASE index + n # Size
  <2>1. buffer' = b /\ index' = index + n /\ server' = "LOGIN" /\ heard' = heard
    BY <1>0, <1>2, <1>9 DEF b
  <2>2. Asking'
    BY <1>0, <2>1 DEF UpInv, Asking
  <2>3. Numbered'
    BY <1>0, <2>1 DEF UpInv, Numbered
  <2>4. LoginBegun'
    <3>1. index + n \in 0 .. Size - 1
      BY <1>0, <1>2, <1>6, <1>9, Sizes
    <3> QED BY <3>1, <1>4, <1>7, <2>1 DEF LoginBegun
  <2>5. Taken' = Taken + n
    <3>1. Taken' = 12 + (index + n)
      BY <2>1, TakenValues DEF Taken
    <3> QED BY <3>1, <1>0, <1>2
  <2>6. \A i \in 1 .. Len(up') : up'[i] = StreamByte(Taken' + i)
    <3> TAKE i \in 1 .. Len(up')
    <3>1. i + n \in 1 .. Len(up) /\ Taken' + i = Taken + (i + n)
      BY <1>0, <1>2, <1>3, <2>5
    <3> QED BY <3>1, <1>3 DEF UpInv, Coming
  <2>7. Coming'
    <3>1. Taken' + Len(up') = Sent'
      <4>1. Taken' \in Int /\ Taken \in Int /\ n \in Int /\ Len(up) \in Int
        BY <1>0, <1>2, <2>5
      <4>2. (Taken + n) + (Len(up) - n) = Taken + Len(up)
        BY <4>1
      <4> QED BY <4>2, <1>0, <1>3, <1>5, <2>5
    <3> QED BY <3>1, <1>3, <2>6 DEF Coming
  <2> QED BY <2>2, <2>3, <2>4, <2>7 DEF UpInv
<1> QED BY <1>8, <1>9

-----------------------------------------------------------------------------
(* The server's stream: what is on its way belongs to what is said.        *)

Wired == Byte \union {Junk}

\* The message that a client reads or waits for
Place(c, r) ==
  /\ c = "ROOMS" => r = 1
  /\ c = "LOBBY" => r \in {2, 3}
  /\ c = "GAME" => r >= 5

\* In the state c the client has decoded D of what the server said, S, which is m messages.
\* It has T still to read, of which it has g; d is on its way to it and u is not sent yet.
\* It reads the r-th message, of which F comes in the bytes B, and there is junk behind it
\* all only if a write went past the end, o.
Flows(c, m, T, g, S, D, d, u, o) ==
  /\ D \in Seq(Field)
  /\ \E r, F, B, j : /\ r \in Nat /\ j \in Seq({Junk}) /\ (j # <<>> => o)
                     /\ Place(c, r) /\ Stands(r, m, T, g, F, B)
                     /\ S = D \o Ahead(r, m, F)
                     /\ (g \o d) \o u = BytesAhead(r, m, B) \o j

LEMMA Wide ==
  /\ \A s \in Seq(Byte) : s \in Seq(Wired)
  /\ \A s \in Seq({Junk}) : s \in Seq(Wired)
  /\ <<>> \in Seq(Wired) /\ <<>> \in Seq(Byte) /\ <<>> \in Seq({Junk})
<1>1. Byte \subseteq Wired /\ {Junk} \subseteq Wired
  BY DEF Wired
<1>2. \A Q, R : Q \subseteq R => \A s \in Seq(Q) : s \in Seq(R)
  OBVIOUS
<1>3. \A Q : <<>> \in Seq(Q)
  OBVIOUS
<1> QED BY <1>1, <1>2, <1>3, Zenon

LEMMA NothingJoined ==
  ASSUME NEW Q, NEW s \in Seq(Q)
  PROVE  s \o <<>> = s /\ <<>> \o s = s
OBVIOUS

LEMMA WiredThree == \A x, y, z \in Seq(Wired) : (x \o y) \o z = x \o (y \o z)
<1> SUFFICES ASSUME NEW x \in Seq(Wired), NEW y \in Seq(Wired), NEW z \in Seq(Wired)
             PROVE  (x \o y) \o z = x \o (y \o z)
  OBVIOUS
<1> QED BY ThreeJoined

LEMMA Same ==
  ASSUME NEW Q, NEW x \in Seq(Q), NEW y \in Seq(Q)
  PROVE  Len(x) = Len(y) /\ (\A i \in 1 .. Len(x) : x[i] = y[i]) => x = y
OBVIOUS

\* What is equal in length at the beginning of equal sequences is equal
LEMMA Parted ==
  ASSUME NEW Q, NEW a \in Seq(Q), NEW b \in Seq(Q), NEW c \in Seq(Q), NEW d \in Seq(Q)
  PROVE  a \o b = c \o d /\ Len(a) = Len(c) => a = c /\ b = d
<1>0. SUFFICES ASSUME a \o b = c \o d, Len(a) = Len(c)
               PROVE  a = c /\ b = d
  OBVIOUS
<1> DEFINE v == a \o b
           w == c \o d
<1>1. /\ Len(a) \in Nat /\ Len(b) \in Nat /\ Len(v) = Len(a) + Len(b)
      /\ \A i \in 1 .. Len(a) : v[i] = a[i]
      /\ \A i \in 1 .. Len(b) : v[Len(a) + i] = b[i]
  BY Joined
<1>2. /\ Len(c) \in Nat /\ Len(d) \in Nat /\ Len(w) = Len(c) + Len(d)
      /\ \A i \in 1 .. Len(c) : w[i] = c[i]
      /\ \A i \in 1 .. Len(d) : w[Len(c) + i] = d[i]
  BY Joined
<1>3. v = w
  BY <1>0
<1> HIDE DEF v, w
<1>4. Len(b) = Len(d)
  BY <1>0, <1>1, <1>2, <1>3
<1>5. \A i \in 1 .. Len(a) : a[i] = c[i]
  BY <1>0, <1>1, <1>2, <1>3
<1>6. \A i \in 1 .. Len(b) : b[i] = d[i]
  <2> TAKE i \in 1 .. Len(b)
  <2>1. v[Len(a) + i] = b[i] /\ w[Len(c) + i] = d[i]
    BY <1>1, <1>2, <1>4
  <2> QED BY <2>1, <1>3, <1>0
<1>7. a = c
  BY <1>0, <1>5, Same
<1>8. b = d
  BY <1>4, <1>6, Same
<1> QED BY <1>7, <1>8

-----------------------------------------------------------------------------
(* The server's steps.                                                     *)

\* A message is said and is still to be sent
\* One more message is said
LEMMA FlowSaid ==
  ASSUME NEW c, NEW m \in Nat, NEW T, NEW g \in Seq(Wired), NEW S, NEW D, NEW d \in Seq(Wired),
         NEW u \in Seq(Wired), Flows(c, m, T, g, S, D, d, u, FALSE)
  PROVE  Flows(c, m + 1, T, g, S \o Message(m + 1), D, d, u \o Bytes(Message(m + 1)), FALSE)
<1>1. D \in Seq(Field)
  BY DEF Flows
<1>2. PICK r, F, B, j : /\ r \in Nat /\ j \in Seq({Junk}) /\ (j # <<>> => FALSE)
                        /\ Place(c, r) /\ Stands(r, m, T, g, F, B)
                        /\ S = D \o Ahead(r, m, F)
                        /\ (g \o d) \o u = BytesAhead(r, m, B) \o j
  BY DEF Flows
<1>3. PICK G, C : /\ Stands(r, m + 1, T, g, G, C)
                  /\ Ahead(r, m + 1, G) = Ahead(r, m, F) \o Message(m + 1)
                  /\ BytesAhead(r, m + 1, C) = BytesAhead(r, m, B) \o Bytes(Message(m + 1))
  <2>1. r \in Nat /\ Stands(r, m, T, g, F, B)
    BY <1>2
  <2>2. MoreAhead(r, m, T, g, F, B)
    BY <2>1, SaidMore
  <2> QED BY <2>2 DEF MoreAhead
<1> DEFINE M == Message(m + 1)
           K == Bytes(Message(m + 1))
           A == Ahead(r, m, F)
           E == BytesAhead(r, m, B)
<1>4. /\ A \in Seq(Field) /\ E \in Seq(Byte) /\ M \in Seq(Field) /\ K \in Seq(Byte) /\ j = <<>>
      /\ S = D \o A /\ (g \o d) \o u = E \o j
      /\ Ahead(r, m + 1, G) = A \o M /\ BytesAhead(r, m + 1, C) = E \o K
  BY <1>2, <1>3, StandsTyped, MessageTyped
<1> HIDE DEF M, K, A, E
<1>5. S \o M = D \o (A \o M)
  <2>1. D \in Seq(Field) /\ A \in Seq(Field) /\ M \in Seq(Field)
    BY <1>1, <1>4
  <2>2. (D \o A) \o M = D \o (A \o M)
    BY <2>1, FieldsThree, Zenon
  <2> QED BY <2>2, <1>4
<1>6. (g \o d) \o (u \o K) = (E \o K) \o <<>>
  <2>1. g \in Seq(Wired) /\ d \in Seq(Wired) /\ u \in Seq(Wired) /\ E \in Seq(Wired) /\ K \in Seq(Wired)
    BY <1>4, Wide
  <2>2. g \o d \in Seq(Wired) /\ E \o K \in Seq(Wired)
    BY <2>1, Joined
  <2>3. (g \o d) \o (u \o K) = ((g \o d) \o u) \o K
    <3>1. g \o d \in Seq(Wired) /\ u \in Seq(Wired) /\ K \in Seq(Wired)
      BY <2>1, <2>2
    <3> QED BY <3>1, WiredThree, ZenonT(60)
  <2>4. (g \o d) \o u = E
    BY <1>4, <2>1, NothingJoined
  <2>5. (E \o K) \o <<>> = E \o K
    BY <2>2, NothingJoined
  <2> QED BY <2>3, <2>4, <2>5
<1>7. /\ r \in Nat /\ <<>> \in Seq({Junk}) /\ (<<>> # <<>> => FALSE)
      /\ Place(c, r) /\ Stands(r, m + 1, T, g, G, C)
      /\ S \o M = D \o Ahead(r, m + 1, G)
      /\ (g \o d) \o (u \o K) = BytesAhead(r, m + 1, C) \o <<>>
  BY <1>2, <1>3, <1>4, <1>5, <1>6, Wide
<1> QED BY <1>1, <1>7, Zenon DEF Flows, M, K

\* Bytes move from the buffer to the wire
LEMMA FlowSent ==
  ASSUME NEW c, NEW m, NEW T, NEW g \in Seq(Wired), NEW S, NEW D, NEW d \in Seq(Wired),
         NEW u \in Seq(Wired), NEW o, NEW e \in Seq(Wired), NEW v \in Seq(Wired)
  PROVE  Flows(c, m, T, g, S, D, d, u, o) /\ d \o u = e \o v => Flows(c, m, T, g, S, D, e, v, o)
<1>0. SUFFICES ASSUME Flows(c, m, T, g, S, D, d, u, o), d \o u = e \o v
               PROVE  Flows(c, m, T, g, S, D, e, v, o)
  OBVIOUS
<1>1. (g \o d) \o u = g \o (d \o u)
  BY WiredThree, ZenonT(60)
<1>3. (g \o e) \o v = g \o (e \o v)
  BY WiredThree, ZenonT(60)
<1>2. (g \o e) \o v = (g \o d) \o u
  BY <1>0, <1>1, <1>3
<1> QED BY <1>0, <1>2 DEF Flows

\* A resumed write goes past the end of its buffer
LEMMA FlowOvershot ==
  ASSUME NEW c, NEW m \in Nat, NEW T, NEW g \in Seq(Wired), NEW S, NEW D, NEW d \in Seq(Wired),
         NEW u \in Seq(Wired), NEW j \in Seq({Junk}), Flows(c, m, T, g, S, D, d, u, FALSE)
  PROVE  Flows(c, m, T, g, S, D, d \o (u \o j), <<>>, TRUE)
<1>1. D \in Seq(Field)
  BY DEF Flows
<1>2. PICK r, F, B, k : /\ r \in Nat /\ k \in Seq({Junk}) /\ (k # <<>> => FALSE)
                        /\ Place(c, r) /\ Stands(r, m, T, g, F, B)
                        /\ S = D \o Ahead(r, m, F)
                        /\ (g \o d) \o u = BytesAhead(r, m, B) \o k
  BY DEF Flows
<1> DEFINE E == BytesAhead(r, m, B)
<1>3. E \in Seq(Byte) /\ k = <<>> /\ (g \o d) \o u = E \o k
  BY <1>2, StandsTyped
<1> HIDE DEF E
<1>4. g \in Seq(Wired) /\ d \in Seq(Wired) /\ u \in Seq(Wired) /\ E \in Seq(Wired) /\ j \in Seq(Wired)
  BY <1>3, Wide
<1>5. g \o d \in Seq(Wired) /\ u \o j \in Seq(Wired)
  BY <1>4, Joined
<1>6. d \o (u \o j) \in Seq(Wired)
  BY <1>4, <1>5, Joined
<1>7. g \o (d \o (u \o j)) \in Seq(Wired)
  BY <1>4, <1>6, Joined
<1>8. (g \o (d \o (u \o j))) \o <<>> = g \o (d \o (u \o j))
  BY <1>7, NothingJoined
<1>9. g \o (d \o (u \o j)) = (g \o d) \o (u \o j)
  <2>1. g \in Seq(Wired) /\ d \in Seq(Wired) /\ u \o j \in Seq(Wired)
    BY <1>4, <1>5
  <2> DEFINE w == u \o j
  <2>2. w \in Seq(Wired)
    BY <2>1
  <2> HIDE DEF w
  <2>3. (g \o d) \o w = g \o (d \o w)
    BY <2>2, WiredThree, ZenonT(60)
  <2> QED BY <2>3 DEF w
<1>10. (g \o d) \o (u \o j) = ((g \o d) \o u) \o j
  <2> DEFINE w == g \o d
  <2>1. w \in Seq(Wired) /\ j \in Seq(Wired)
    BY <1>4, <1>5
  <2> HIDE DEF w
  <2>2. (w \o u) \o j = w \o (u \o j)
    BY <2>1, WiredThree, ZenonT(60)
  <2> QED BY <2>2 DEF w
<1>11. (g \o d) \o u = E
  BY <1>3, <1>4, NothingJoined
<1>12. (g \o (d \o (u \o j))) \o <<>> = E \o j
  BY <1>8, <1>9, <1>10, <1>11
<1>13. /\ r \in Nat /\ j \in Seq({Junk}) /\ (j # <<>> => TRUE)
       /\ Place(c, r) /\ Stands(r, m, T, g, F, B)
       /\ S = D \o Ahead(r, m, F)
       /\ (g \o (d \o (u \o j))) \o <<>> = BytesAhead(r, m, B) \o j
  BY <1>2, <1>12 DEF E
<1> QED BY <1>1, <1>13, Zenon DEF Flows

-----------------------------------------------------------------------------
(* The client's steps.                                                     *)

\* A sequence is what is cut off and the rest
LEMMA CutTwo ==
  ASSUME NEW d \in Seq(Wired), NEW n \in Nat
  PROVE  n <= Len(d) => d = SubSeq(d, 1, n) \o SubSeq(d, n + 1, Len(d))
<1>0. SUFFICES ASSUME n <= Len(d)
               PROVE  d = SubSeq(d, 1, n) \o SubSeq(d, n + 1, Len(d))
  OBVIOUS
<1> DEFINE h == SubSeq(d, 1, n)
           e == SubSeq(d, n + 1, Len(d))
<1>3. /\ h \in Seq(Wired) /\ Len(h) = n /\ (\A i \in 1 .. n : h[i] = d[i])
      /\ e \in Seq(Wired) /\ Len(e) = Len(d) - n
      /\ \A i \in 1 .. Len(d) - n : e[i] = d[i + n]
  BY <1>0, Cut
<1>4. Len(d) \in Nat
  OBVIOUS
<1> HIDE DEF h, e
<1>5. d = h \o e
  <2>1. h \in Seq(Wired) /\ e \in Seq(Wired)
    BY <1>3
  <2>2. /\ h \o e \in Seq(Wired) /\ Len(h \o e) = Len(h) + Len(e)
        /\ \A i \in 1 .. Len(h) : (h \o e)[i] = h[i]
        /\ \A i \in 1 .. Len(e) : (h \o e)[Len(h) + i] = e[i]
    BY <2>1, Joined
  <2> DEFINE w == h \o e
  <2>3. w \in Seq(Wired) /\ Len(w) = Len(d)
    <3>1. Len(h) = n /\ Len(e) = Len(d) - n
      BY <1>3
    <3>2. Len(w) = n + (Len(d) - n)
      BY <2>2, <3>1
    <3> QED BY <3>2, <2>2, <1>4
  <2>4. ASSUME NEW i \in 1 .. Len(d)
        PROVE  w[i] = d[i]
    <3>1. CASE i <= n
      <4>1. i \in 1 .. Len(h) /\ i \in 1 .. n
        BY <3>1, <1>3, <1>4
      <4>2. w[i] = h[i] /\ h[i] = d[i]
        BY <4>1, <2>2, <1>3, Zenon
      <4> QED BY <4>2
    <3>2. CASE i > n
      <4>1. i - n \in 1 .. Len(e) /\ Len(h) + (i - n) = i /\ i - n \in 1 .. Len(d) - n
            /\ (i - n) + n = i
        <5>1. \A x, y, z \in Nat : x \in 1 .. y /\ x > z /\ z <= y =>
                x - z \in 1 .. y - z /\ z + (x - z) = x /\ (x - z) + z = x
          OBVIOUS
        <5>2. Len(d) \in Nat /\ i \in Nat /\ n <= Len(d)
          BY <1>0, <1>4
        <5>3. Len(h) = n /\ Len(e) = Len(d) - n
          BY <1>3
        <5>4. i - n \in 1 .. Len(d) - n /\ n + (i - n) = i /\ (i - n) + n = i
          BY <5>1, <5>2, <3>2
        <5> QED BY <5>3, <5>4
      <4>2. w[Len(h) + (i - n)] = e[i - n] /\ e[i - n] = d[(i - n) + n]
        BY <4>1, <2>2, <1>3, Zenon
      <4> QED BY <4>1, <4>2
    <3>3. i <= n \/ i > n
      BY <1>4
    <3> QED BY <3>1, <3>2, <3>3, Zenon
  <2> HIDE DEF w
  <2>6. w = d
    BY <2>3, <2>4, Same
  <2> QED BY <2>6 DEF w
<1> QED BY <1>5 DEF h, e

LEMMA CutClean ==
  ASSUME NEW d \in Seq(Wired), NEW n \in Nat
  PROVE  n <= Len(d) /\ Junk \notin Range(SubSeq(d, 1, n)) => SubSeq(d, 1, n) \in Seq(Byte)
<1>0. SUFFICES ASSUME n <= Len(d), Junk \notin Range(SubSeq(d, 1, n))
               PROVE  SubSeq(d, 1, n) \in Seq(Byte)
  OBVIOUS
<1> DEFINE h == SubSeq(d, 1, n)
<1>3. h \in Seq(Wired) /\ Len(h) = n /\ \A i \in 1 .. n : h[i] = d[i]
  BY <1>0, Cut
<1>6. h \in Seq(Byte)
  <2>1. \A i \in 1 .. n : h[i] # Junk
    <3>1. DOMAIN h = 1 .. n
      BY <1>3
    <3> QED BY <3>1, <1>0 DEF Range
  <2>2. \A i \in 1 .. n : h[i] \in Byte
    BY <2>1, <1>3 DEF Wired
  <2> HIDE DEF h
  <2> QED BY <2>2, <1>3
<1> QED BY <1>6

\* Junk is not taken for an arrived byte
LEMMA NothingArrived ==
  ASSUME NEW d \in Seq(Wired), NEW u \in Seq(Wired), NEW n \in Nat, NEW j \in Seq({Junk})
  PROVE  ~(d \o u = j /\ n >= 1 /\ n <= Len(d) /\ Junk \notin Range(SubSeq(d, 1, n)))
<1>0. SUFFICES ASSUME d \o u = j, n >= 1, n <= Len(d), Junk \notin Range(SubSeq(d, 1, n))
               PROVE  FALSE
  OBVIOUS
<1> DEFINE h == SubSeq(d, 1, n)
<1>1. h \in Seq(Byte)
  BY <1>0, CutClean
<1>2. Len(h) = n /\ \A i \in 1 .. n : h[i] = d[i]
  BY <1>0, Cut
<1> HIDE DEF h
<1>3. /\ Len(d \o u) = Len(d) + Len(u) /\ Len(d) \in Nat /\ Len(u) \in Nat
      /\ \A i \in 1 .. Len(d) : (d \o u)[i] = d[i]
  BY Joined
<1>4. j[1] = d[1] /\ 1 \in 1 .. Len(j)
  <2>1. 1 \in 1 .. Len(d) /\ 1 \in 1 .. Len(d) + Len(u)
    BY <1>0, <1>3
  <2> QED BY <2>1, <1>0, <1>3
<1>5. d[1] = Junk
  BY <1>4
<1>6. 1 \in 1 .. n
  BY <1>0
<1>7. h[1] = Junk /\ h[1] \in Byte
  BY <1>1, <1>2, <1>5, <1>6
<1> QED BY <1>7 DEF Byte, Junk

LEMMA FlowRead ==
  ASSUME NEW c, NEW m \in Nat, NEW T, NEW g \in Seq(Byte), NEW S, NEW D,
         NEW d \in Seq(Wired), NEW u \in Seq(Wired), NEW o, NEW n \in Nat, NEW b, NEW e
  PROVE  /\ Flows(c, m, T, g, S, D, d, u, o) /\ T # <<>>
         /\ n >= 1 /\ n <= Head(T).bytes - Len(g) /\ n <= Len(d)
         /\ Junk \notin Range(SubSeq(d, 1, n))
         /\ b = g \o SubSeq(d, 1, n) /\ e = SubSeq(d, n + 1, Len(d))
         => /\ b \in Seq(Byte) /\ e \in Seq(Wired) /\ Len(e) <= Len(d)
            /\ Len(b) < Head(T).bytes => Flows(c, m, T, b, S, D, e, u, o)
            /\ ~(Len(b) < Head(T).bytes) =>
                 Flows(c, m, Rest(Head(T), b) \o Tail(T), <<>>, S, D \o Fields(Head(T), b), e, u, o)
<1>0. SUFFICES ASSUME Flows(c, m, T, g, S, D, d, u, o), T # <<>>,
                      n >= 1, n <= Head(T).bytes - Len(g), n <= Len(d),
                      Junk \notin Range(SubSeq(d, 1, n)),
                      b = g \o SubSeq(d, 1, n), e = SubSeq(d, n + 1, Len(d))
               PROVE  /\ b \in Seq(Byte) /\ e \in Seq(Wired) /\ Len(e) <= Len(d)
                      /\ Len(b) < Head(T).bytes => Flows(c, m, T, b, S, D, e, u, o)
                      /\ ~(Len(b) < Head(T).bytes) =>
                           Flows(c, m, Rest(Head(T), b) \o Tail(T), <<>>, S,
                                 D \o Fields(Head(T), b), e, u, o)
  OBVIOUS
<1> DEFINE h == SubSeq(d, 1, n)
<1>1. D \in Seq(Field)
  BY <1>0 DEF Flows
<1>2. PICK r, F, B, j : /\ r \in Nat /\ j \in Seq({Junk}) /\ (j # <<>> => o)
                        /\ Place(c, r) /\ Stands(r, m, T, g, F, B)
                        /\ S = D \o Ahead(r, m, F)
                        /\ (g \o d) \o u = BytesAhead(r, m, B) \o j
  BY <1>0 DEF Flows
<1>3. /\ h \in Seq(Wired) /\ Len(h) = n /\ (\A i \in 1 .. n : h[i] = d[i])
      /\ e \in Seq(Wired) /\ Len(e) = Len(d) - n
      /\ \A i \in 1 .. Len(d) - n : e[i] = d[i + n]
  BY <1>0, Cut
<1>4. Len(d) \in Nat /\ Len(g) \in Nat
  OBVIOUS
<1>5. d = h \o e
  BY <1>0, CutTwo
<1>6. h \in Seq(Byte)
  BY <1>0, CutClean
<1>7. b = g \o h /\ b \in Seq(Byte) /\ Len(b) = Len(g) + n
  <2>1. g \in Seq(Byte) /\ h \in Seq(Byte) /\ b = g \o h
    BY <1>0, <1>6
  <2> HIDE DEF h
  <2>2. b \in Seq(Byte) /\ Len(b) = Len(g) + Len(h)
    BY <2>1, Joined
  <2> QED BY <2>1, <2>2, <1>3
<1> HIDE DEF h
<1>8. g \in Seq(Wired) /\ h \in Seq(Wired) /\ b \in Seq(Wired) /\ j \in Seq(Wired)
  BY <1>2, <1>3, <1>7, Wide
<1>9. g \o d = b \o e
  <2>1. (g \o h) \o e = g \o (h \o e)
    <3>1. g \in Seq(Wired) /\ h \in Seq(Wired) /\ e \in Seq(Wired)
      BY <1>3, <1>8
    <3> QED BY <3>1, WiredThree, ZenonT(60)
  <2> QED BY <2>1, <1>5, <1>7
\* What arrived is of a message: there is one to be read
<1>10. r <= m /\ Expected(T, F, B)
  <2>1. SUFFICES ASSUME r = m + 1, g = <<>>, B = <<>>
                 PROVE  FALSE
    BY <1>2 DEF Stands
  <2>2. Bytes(Queue(r, m)) = <<>>
    <3>1. m <= r
      BY <2>1
    <3> QED BY <3>1, <1>2, LaterTyped
  <2>3. BytesAhead(r, m, B) = <<>>
    <3>1. <<>> \o <<>> = <<>>
      BY Wide, NothingJoined
    <3> QED BY <2>1, <2>2, <3>1 DEF BytesAhead
  <2>4. d \o u = j
    <3>1. <<>> \o d = d /\ <<>> \o j = j
      BY <1>8, NothingJoined
    <3> QED BY <3>1, <2>1, <2>3, <1>2
  <2> QED BY <2>4, <1>0, <1>2, NothingArrived
<1>11. PICK x \in Seq(Byte), y \in Seq(Byte), H \in Seq(Field) :
         /\ Len(x) = Head(T).bytes /\ Head(T).bytes \in Nat \ {0}
         /\ B = x \o y /\ F = Fields(Head(T), x) \o H
         /\ Fields(Head(T), x) \in Seq(Field)
         /\ Expected(Rest(Head(T), x) \o Tail(T), H, y)
  <2>1. Expected(T, F, B) /\ T # <<>>
    BY <1>0, <1>10
  <2>2. HeadReads(T, F, B)
    BY <2>1, HeadRead
  <2> QED BY <2>2 DEF HeadReads
<1> DEFINE q == Bytes(Queue(r, m))
<1>12. q \in Seq(Byte) /\ Queue(r, m) \in Seq(Field)
  BY <1>2, LaterTyped
<1>13. (b \o e) \o u = ((x \o y) \o q) \o j
  BY <1>2, <1>9, <1>11 DEF BytesAhead
<1> HIDE DEF q
<1>14. x \in Seq(Wired) /\ y \in Seq(Wired) /\ q \in Seq(Wired) /\ e \in Seq(Wired)
  BY <1>3, <1>11, <1>12, Wide
<1>15. y \o q \in Seq(Wired) /\ e \o u \in Seq(Wired)
  BY <1>14, Joined
<1>150. (y \o q) \o j \in Seq(Wired)
  BY <1>8, <1>15, Joined
<1>16. b \o (e \o u) = x \o ((y \o q) \o j)
  <2>1. (b \o e) \o u = b \o (e \o u)
    <3>1. b \in Seq(Wired) /\ e \in Seq(Wired)
      BY <1>8, <1>14
    <3> QED BY <3>1, WiredThree, ZenonT(60)
  <2>2. ((x \o y) \o q) \o j = x \o ((y \o q) \o j)
    <3> DEFINE w == y \o q
    <3>1. x \in Seq(Wired) /\ y \in Seq(Wired) /\ q \in Seq(Wired)
      BY <1>14
    <3>2. (x \o y) \o q = x \o w
      BY <3>1, WiredThree, ZenonT(60)
    <3>3. x \in Seq(Wired) /\ w \in Seq(Wired) /\ j \in Seq(Wired)
      BY <1>8, <1>14, <1>15
    <3> HIDE DEF w
    <3>4. (x \o w) \o j = x \o (w \o j)
      BY <3>3, WiredThree, ZenonT(60)
    <3> QED BY <3>2, <3>4, Zenon DEF w
  <2> QED BY <2>1, <2>2, <1>13
<1>17. Len(b) <= Len(x)
  BY <1>0, <1>4, <1>7, <1>11, SMTT(40)
<1>18. ASSUME Len(b) < Head(T).bytes
       PROVE  Flows(c, m, T, b, S, D, e, u, o)
  <2>1. Stands(r, m, T, b, F, B)
    BY <1>10 DEF Stands
  <2>2. (b \o e) \o u = BytesAhead(r, m, B) \o j
    BY <1>2, <1>9
  <2> QED BY <1>1, <1>2, <2>1, <2>2 DEF Flows
<1>19. ASSUME ~(Len(b) < Head(T).bytes)
       PROVE  Flows(c, m, Rest(Head(T), b) \o Tail(T), <<>>, S, D \o Fields(Head(T), b), e, u, o)
  <2>1. Len(b) = Len(x)
    BY <1>0, <1>4, <1>7, <1>11, <1>17, <1>19, SMTT(40)
  <2>2. b = x /\ e \o u = (y \o q) \o j
    <3>1. /\ b \in Seq(Wired) /\ x \in Seq(Wired) /\ e \o u \in Seq(Wired)
          /\ (y \o q) \o j \in Seq(Wired)
      BY <1>8, <1>14, <1>15, <1>150
    <3> DEFINE k == e \o u
               l == (y \o q) \o j
    <3>2. k \in Seq(Wired) /\ l \in Seq(Wired) /\ b \o k = x \o l
      BY <3>1, <1>16
    <3> HIDE DEF k, l
    <3>3. b = x /\ k = l
      <4>1. b \in Seq(Wired) /\ x \in Seq(Wired) /\ k \in Seq(Wired) /\ l \in Seq(Wired)
        BY <3>1, <3>2
      <4>2. b \o k = x \o l /\ Len(b) = Len(x) => b = x /\ k = l
        BY <4>1, Parted
      <4> QED BY <4>2, <3>2, <2>1
    <3> QED BY <3>3 DEF k, l
  <2>3. Stands(r, m, Rest(Head(T), b) \o Tail(T), <<>>, H, y)
    BY <1>10, <1>11, <2>2 DEF Stands
  <2>4. (<<>> \o e) \o u = BytesAhead(r, m, y) \o j
    <3>1. <<>> \o e = e
      BY <1>14, NothingJoined
    <3> QED BY <3>1, <2>2 DEF BytesAhead, q
  <2> DEFINE f == Fields(Head(T), b)
  <2>5. f \in Seq(Field) /\ F = f \o H
    BY <1>11, <2>2
  <2> HIDE DEF f
  <2>6. S = (D \o f) \o Ahead(r, m, H)
    <3> DEFINE l == Queue(r, m)
    <3>1. S = D \o ((f \o H) \o l) /\ Ahead(r, m, H) = H \o l /\ l \in Seq(Field)
      BY <1>2, <1>12, <2>5 DEF Ahead
    <3> HIDE DEF l
    <3>2. H \in Seq(Field) /\ f \in Seq(Field) /\ D \in Seq(Field) /\ l \in Seq(Field)
      BY <1>1, <1>11, <2>5, <3>1
    <3>3. H \o l \in Seq(Field)
      BY <3>2, Joined
    <3>4. (f \o H) \o l = f \o (H \o l)
      <4>1. H \in Seq(Field) /\ f \in Seq(Field) /\ l \in Seq(Field)
        BY <3>2
      <4> QED BY <4>1, FieldsThree, Zenon
    <3>5. (D \o f) \o (H \o l) = D \o (f \o (H \o l))
      <4> DEFINE w == H \o l
      <4>1. f \in Seq(Field) /\ D \in Seq(Field) /\ w \in Seq(Field)
        BY <3>2, <3>3
      <4> HIDE DEF w
      <4>2. (D \o f) \o w = D \o (f \o w)
        BY <4>1, FieldsThree, Zenon
      <4> QED BY <4>2 DEF w
    <3> QED BY <3>1, <3>4, <3>5
  <2>7. D \o f \in Seq(Field)
    BY <1>1, <2>5, Joined
  <2> QED BY <1>2, <2>3, <2>4, <2>6, <2>7 DEF Flows, f
<1> QED BY <1>3, <1>4, <1>7, <1>18, <1>19

LEMMA FlowJoin ==
  ASSUME NEW m \in Nat, NEW T, NEW S, NEW D, NEW d, NEW u, NEW o,
         Flows("ROOMS", m, <<>>, <<>>, S, D, d, u, o)
  PROVE  Flows("LOBBY", m, <<PlayersFormat>>, <<>>, S, D, d, u, o)
<1>1. PICK r, F, B, j : /\ r \in Nat /\ j \in Seq({Junk}) /\ (j # <<>> => o)
                        /\ Place("ROOMS", r) /\ Stands(r, m, <<>>, <<>>, F, B)
                        /\ S = D \o Ahead(r, m, F)
                        /\ (<<>> \o d) \o u = BytesAhead(r, m, B) \o j
  BY DEF Flows
<1>2. r = 1 /\ Place("LOBBY", 2) /\ FormatsOf(2) = <<PlayersFormat>>
  BY <1>1 DEF Place, FormatsOf
<1>3. NextAhead(r, m, F, B, 2)
  BY <1>1, <1>2, NextBegun
<1>4. PICK G, C : /\ Stands(2, m, FormatsOf(2), <<>>, G, C)
                  /\ Ahead(2, m, G) = Ahead(r, m, F)
                  /\ BytesAhead(2, m, C) = BytesAhead(r, m, B)
  BY <1>3 DEF NextAhead
<1>5. /\ 2 \in Nat /\ j \in Seq({Junk}) /\ (j # <<>> => o)
      /\ Place("LOBBY", 2) /\ Stands(2, m, <<PlayersFormat>>, <<>>, G, C)
      /\ S = D \o Ahead(2, m, G)
      /\ (<<>> \o d) \o u = BytesAhead(2, m, C) \o j
  BY <1>1, <1>2, <1>4
<1>6. D \in Seq(Field)
  BY DEF Flows
<1> QED BY <1>5, <1>6, Zenon DEF Flows

LEMMA FlowInfo ==
  ASSUME NEW m \in Nat, NEW T, NEW S, NEW D, NEW d, NEW u, NEW o,
         Flows("GAME", m, <<>>, <<>>, S, D, d, u, o)
  PROVE  Flows("GAME", m, GameFormat, <<>>, S, D, d, u, o)
<1>1. PICK r, F, B, j : /\ r \in Nat /\ j \in Seq({Junk}) /\ (j # <<>> => o)
                        /\ Place("GAME", r) /\ Stands(r, m, <<>>, <<>>, F, B)
                        /\ S = D \o Ahead(r, m, F)
                        /\ (<<>> \o d) \o u = BytesAhead(r, m, B) \o j
  BY DEF Flows
<1> DEFINE s == r + 1
<1>2. /\ r >= 5 /\ s \in Nat /\ s >= 5 /\ s = r + 1 /\ Place("GAME", s)
      /\ FormatsOf(s) = GameFormat
  <2>1. r >= 5
    BY <1>1 DEF Place
  <2>2. s \in Nat /\ s >= 5 /\ s \notin {1, 2, 3}
    BY <2>1, <1>1
  <2> HIDE DEF s
  <2>3. Place("GAME", s)
    BY <2>2 DEF Place
  <2>4. FormatsOf(s) = GameFormat
    BY <2>2 DEF FormatsOf
  <2> QED BY <2>1, <2>2, <2>3, <2>4 DEF s
<1> HIDE DEF s
<1>3. NextAhead(r, m, F, B, s)
  BY <1>1, <1>2, NextBegun
<1>4. PICK G, C : /\ Stands(s, m, FormatsOf(s), <<>>, G, C)
                  /\ Ahead(s, m, G) = Ahead(r, m, F)
                  /\ BytesAhead(s, m, C) = BytesAhead(r, m, B)
  BY <1>3 DEF NextAhead
<1>5. /\ s \in Nat /\ j \in Seq({Junk}) /\ (j # <<>> => o)
      /\ Place("GAME", s) /\ Stands(s, m, GameFormat, <<>>, G, C)
      /\ S = D \o Ahead(s, m, G)
      /\ (<<>> \o d) \o u = BytesAhead(s, m, C) \o j
  BY <1>1, <1>2, <1>4
<1>6. D \in Seq(Field)
  BY DEF Flows
<1> QED BY <1>5, <1>6, Zenon DEF Flows

\* Who is in the game was told that it starts
LEMMA FlowGame ==
  ASSUME NEW m \in Nat, NEW T, NEW g, NEW S, NEW D, NEW d, NEW u, NEW o,
         Flows("GAME", m, T, g, S, D, d, u, o)
  PROVE  m >= 4
<1>1. PICK r, F, B : r \in Nat /\ Place("GAME", r) /\ Stands(r, m, T, g, F, B)
  BY DEF Flows
<1> QED BY <1>1 DEF Place, Stands

LEMMA CommandRead ==
  /\ read_uint32(FieldBytes(Command("UPDATE_PLAYERS"))) # START_GAME
  /\ read_uint32(FieldBytes(Command("START_GAME"))) = START_GAME
  /\ FieldBytes(Command("UPDATE_PLAYERS")) \in Seq(Byte)
  /\ FieldBytes(Command("START_GAME")) \in Seq(Byte)
  /\ Len(FieldBytes(Command("UPDATE_PLAYERS"))) = 4
  /\ Len(FieldBytes(Command("START_GAME"))) = 4
  /\ Command("UPDATE_PLAYERS") \in Field /\ Command("START_GAME") \in Field
<1>1. read_uint32(write_uint32(0)) = 0
  BY WordNat, ReadsWhatWasWritten
<1>2. read_uint32(serialize_uint32(1)) # 0
  <2>1. /\ 1 % Base = 1 /\ 1 \div Base = 0 /\ 1 \div (Base * Base) = 0
        /\ 1 \div (Base * Base * Base) = 0 /\ 0 % Base = 0
    <3>1. Base \in Nat /\ Base >= 2
      BY WireAssumption
    <3>2. Base * Base \in Nat /\ Base * Base >= 2 /\ Base * Base * Base \in Nat /\ Base * Base * Base >= 2
      <4>1. \A x, y \in Nat : x >= 2 /\ y >= 2 => x * y \in Nat /\ x * y >= 2
        OBVIOUS
      <4> QED BY <4>1, <3>1
    <3>3. \A x \in Nat : x >= 2 => 1 % x = 1 /\ 1 \div x = 0 /\ 0 % x = 0
      OBVIOUS
    <3> QED BY <3>1, <3>2, <3>3
  <2>2. BytesOf(1) = <<1, 0, 0, 0>>
    BY <2>1 DEF BytesOf
  <2>3. serialize_uint32(1) = <<1, 0, 0, 0>>
    <3>1. Reverse(<<1, 0, 0, 0>>) = <<0, 0, 0, 1>>
      BY DEF Reverse
    <3>2. Reverse(<<0, 0, 0, 1>>) = <<1, 0, 0, 0>>
      BY DEF Reverse
    <3> QED BY <2>2, <3>1, <3>2 DEF serialize_uint32
  <2>4. read_uint32(<<1, 0, 0, 0>>) = Base * Base * Base
    <3>1. Reverse(<<1, 0, 0, 0>>) = <<0, 0, 0, 1>>
      BY DEF Reverse
    <3>2. ValueOf(<<0, 0, 0, 1>>) = 0 + Base * (0 + Base * (0 + Base * 1))
      BY DEF ValueOf
    <3>3. 0 + Base * (0 + Base * (0 + Base * 1)) = Base * Base * Base
      <4>1. \A x \in Nat : 0 + x * (0 + x * (0 + x * 1)) = x * x * x
        OBVIOUS
      <4> QED BY <4>1, WireAssumption
    <3> QED BY <3>1, <3>2, <3>3 DEF read_uint32
  <2> QED BY <2>3, <2>4, Bases
<1> QED BY <1>1, <1>2, CommandBytes DEF UPDATE_PLAYERS, START_GAME

\* The next thing that the client reads in the lobby
LEMMA FlowCommand ==
  ASSUME NEW m \in Nat, NEW S, NEW D, NEW d \in Seq(Wired), NEW u \in Seq(Wired), NEW o,
         NEW b, NEW e
  PROVE  /\ Flows("LOBBY", m, <<>>, <<>>, S, D, d, u, o)
         /\ 4 <= Len(d) /\ Junk \notin Range(SubSeq(d, 1, 4))
         /\ b = SubSeq(d, 1, 4) /\ e = SubSeq(d, 4 + 1, Len(d))
         => /\ read_uint32(b) = START_GAME =>
                 Flows("GAME", m, GameFormat, <<>>, S, D \o <<Command("START_GAME")>>, e, u, o)
            /\ read_uint32(b) # START_GAME =>
                 Flows("LOBBY", m, <<PlayersFormat>>, <<>>, S,
                       D \o <<Command("UPDATE_PLAYERS")>>, e, u, o)
<1>0. SUFFICES ASSUME Flows("LOBBY", m, <<>>, <<>>, S, D, d, u, o),
                      4 <= Len(d), Junk \notin Range(SubSeq(d, 1, 4)),
                      b = SubSeq(d, 1, 4), e = SubSeq(d, 4 + 1, Len(d))
               PROVE  /\ read_uint32(b) = START_GAME =>
                           Flows("GAME", m, GameFormat, <<>>, S,
                                 D \o <<Command("START_GAME")>>, e, u, o)
                      /\ read_uint32(b) # START_GAME =>
                           Flows("LOBBY", m, <<PlayersFormat>>, <<>>, S,
                                 D \o <<Command("UPDATE_PLAYERS")>>, e, u, o)
  OBVIOUS
<1>1. D \in Seq(Field)
  BY <1>0 DEF Flows
<1>2. PICK r, F, B, j : /\ r \in Nat /\ j \in Seq({Junk}) /\ (j # <<>> => o)
                        /\ Place("LOBBY", r) /\ Stands(r, m, <<>>, <<>>, F, B)
                        /\ S = D \o Ahead(r, m, F)
                        /\ (<<>> \o d) \o u = BytesAhead(r, m, B) \o j
  BY <1>0 DEF Flows
<1>3. /\ b \in Seq(Byte) /\ b \in Seq(Wired) /\ e \in Seq(Wired) /\ j \in Seq(Wired)
      /\ Len(b) = 4 /\ d = b \o e /\ d \o u = BytesAhead(r, m, B) \o j
  <2>1. b \in Seq(Wired) /\ e \in Seq(Wired) /\ Len(b) = 4
    BY <1>0, Cut
  <2>2. b \in Seq(Byte)
    BY <1>0, CutClean
  <2>3. d = b \o e
    BY <1>0, CutTwo
  <2>4. <<>> \o d = d
    BY NothingJoined
  <2> QED BY <2>1, <2>2, <2>3, <2>4, <1>2, Wide
<1> DEFINE s == r + 1
<1>4. r \in {2, 3} /\ s \in {3, 4} /\ s = r + 1 /\ s \in Nat
  BY <1>2 DEF Place
<1> HIDE DEF s
<1>5. CommandNext(r, m, F, B, s)
  BY <1>2, <1>4, CommandAhead
<1>6. ~(BytesAhead(r, m, B) = <<>>)
  <2>1. <<>> \o j = j
    BY <1>3, NothingJoined
  <2>2. 4 >= 1 /\ 4 \in Nat
    OBVIOUS
  <2> QED BY <2>1, <2>2, <1>0, <1>2, <1>3, NothingArrived
<1>7. PICK c, T, G, C : /\ Stands(s, m, T, <<>>, G, C)
                        /\ s = 3 => c = Command("UPDATE_PLAYERS") /\ T = <<PlayersFormat>>
                        /\ s = 4 => c = Command("START_GAME") /\ T = <<>>
                        /\ Ahead(r, m, F) = <<c>> \o Ahead(s, m, G)
                        /\ BytesAhead(r, m, B) = FieldBytes(c) \o BytesAhead(s, m, C)
  BY <1>5, <1>6 DEF CommandNext
<1> DEFINE f == FieldBytes(c)
           E == BytesAhead(s, m, C)
           A == Ahead(s, m, G)
<1>8. /\ f \in Seq(Byte) /\ f \in Seq(Wired) /\ Len(f) = 4 /\ c \in Field
      /\ E \in Seq(Byte) /\ E \in Seq(Wired) /\ A \in Seq(Field)
      /\ d \o u = (f \o E) \o j /\ S = D \o (<<c>> \o A)
  <2>1. c \in {Command("UPDATE_PLAYERS"), Command("START_GAME")}
    BY <1>4, <1>7
  <2>2. f \in Seq(Byte) /\ Len(f) = 4 /\ c \in Field
    BY <2>1, CommandRead
  <2>3. E \in Seq(Byte) /\ A \in Seq(Field)
    BY <1>4, <1>7, StandsTyped
  <2>4. d \o u = (f \o E) \o j /\ S = D \o (<<c>> \o A)
    BY <1>2, <1>3, <1>7
  <2> QED BY <2>2, <2>3, <2>4, Wide
<1> HIDE DEF E, A
<1>9. b = f /\ e \o u = E \o j
  <2> HIDE DEF f
  <2>1. (b \o e) \o u = b \o (e \o u)
    <3>1. b \in Seq(Wired) /\ e \in Seq(Wired)
      BY <1>3
    <3> QED BY <3>1, WiredThree, ZenonT(60)
  <2>2. (f \o E) \o j = f \o (E \o j)
    <3>1. f \in Seq(Wired) /\ E \in Seq(Wired) /\ j \in Seq(Wired)
      BY <1>3, <1>8
    <3> QED BY <3>1, WiredThree, ZenonT(60)
  <2> DEFINE k == e \o u
             l == E \o j
  <2>3. k \in Seq(Wired)
    <3>1. e \in Seq(Wired)
      BY <1>3
    <3> QED BY <3>1, Joined
  <2>4. l \in Seq(Wired)
    <3>1. E \in Seq(Wired) /\ j \in Seq(Wired)
      BY <1>3, <1>8
    <3> QED BY <3>1, Joined
  <2>5. b \o k = f \o l
    BY <2>1, <2>2, <1>3, <1>8, Zenon
  <2> HIDE DEF k, l
  <2>6. b \in Seq(Wired) /\ f \in Seq(Wired)
    BY <1>3, <1>8
  <2>7. b \o k = f \o l /\ Len(b) = Len(f) => b = f /\ k = l
    BY <2>3, <2>4, <2>6, Parted
  <2> QED BY <2>5, <2>7, <1>3, <1>8 DEF k, l
<1>10. D \o <<c>> \in Seq(Field) /\ S = (D \o <<c>>) \o A
  <2> DEFINE x == <<c>>
  <2>1. x \in Seq(Field)
    BY <1>8
  <2> HIDE DEF x
  <2>2. D \in Seq(Field) /\ x \in Seq(Field) /\ A \in Seq(Field)
    BY <1>1, <1>8, <2>1
  <2>3. (D \o x) \o A = D \o (x \o A)
    BY <2>2, FieldsThree, Zenon
  <2>4. D \o x \in Seq(Field)
    BY <2>2, Joined
  <2> QED BY <2>3, <2>4, <1>8 DEF x
<1>11. <<>> \o e = e
  BY <1>3, NothingJoined
<1>12. CASE s = 3
  <2>1. c = Command("UPDATE_PLAYERS") /\ T = <<PlayersFormat>> /\ read_uint32(b) # START_GAME
    BY <1>7, <1>9, <1>12, CommandRead
  <2>2. Place("LOBBY", s)
    BY <1>12 DEF Place
  <2>3. /\ s \in Nat /\ j \in Seq({Junk}) /\ (j # <<>> => o)
        /\ Place("LOBBY", s) /\ Stands(s, m, <<PlayersFormat>>, <<>>, G, C)
        /\ S = (D \o <<c>>) \o Ahead(s, m, G)
        /\ (<<>> \o e) \o u = BytesAhead(s, m, C) \o j
    BY <1>2, <1>4, <1>7, <1>9, <1>10, <1>11, <2>1, <2>2, Zenon DEF A, E
  <2>4. Flows("LOBBY", m, <<PlayersFormat>>, <<>>, S, D \o <<c>>, e, u, o)
    BY <2>3, <1>10, Zenon DEF Flows
  <2> QED BY <2>1, <2>4
<1>13. CASE s = 4
  <2>1. c = Command("START_GAME") /\ T = <<>> /\ read_uint32(b) = START_GAME
    BY <1>7, <1>9, <1>13, CommandRead
  <2>2. 5 \in Nat /\ 5 = s + 1 /\ 5 >= 5 /\ Stands(s, m, <<>>, <<>>, G, C)
    BY <1>7, <1>13, <2>1
  <2>3. NextAhead(s, m, G, C, 5)
    BY <1>4, <2>2, NextBegun
  <2>4. PICK H, K : /\ Stands(5, m, FormatsOf(5), <<>>, H, K)
                    /\ Ahead(5, m, H) = Ahead(s, m, G)
                    /\ BytesAhead(5, m, K) = BytesAhead(s, m, C)
    BY <2>3 DEF NextAhead
  <2>5. Place("GAME", 5) /\ FormatsOf(5) = GameFormat
    BY DEF Place, FormatsOf
  <2>6. /\ 5 \in Nat /\ j \in Seq({Junk}) /\ (j # <<>> => o)
        /\ Place("GAME", 5) /\ Stands(5, m, GameFormat, <<>>, H, K)
        /\ S = (D \o <<c>>) \o Ahead(5, m, H)
        /\ (<<>> \o e) \o u = BytesAhead(5, m, K) \o j
    BY <1>2, <1>9, <1>10, <1>11, <2>2, <2>4, <2>5, Zenon DEF A, E
  <2>7. Flows("GAME", m, GameFormat, <<>>, S, D \o <<c>>, e, u, o)
    BY <2>6, <1>10, Zenon DEF Flows
  <2> QED BY <2>1, <2>7
<1> QED BY <1>4, <1>12, <1>13

-----------------------------------------------------------------------------
(* Pieces of the buffer.                                                   *)

LEMMA Piece ==
  ASSUME NEW Q, NEW s \in Seq(Q), NEW a \in Nat, NEW b \in Nat
  PROVE  a <= b /\ b <= Len(s) =>
           /\ SubSeq(s, a + 1, b) \in Seq(Q) /\ Len(SubSeq(s, a + 1, b)) = b - a
           /\ \A i \in 1 .. b - a : SubSeq(s, a + 1, b)[i] = s[a + i]
OBVIOUS

LEMMA PieceFirst ==
  ASSUME NEW Q, NEW s \in Seq(Q), NEW t \in Seq(Q), NEW a \in Nat, NEW b \in Nat
  PROVE  a <= b /\ b <= Len(s) => SubSeq(s \o t, a + 1, b) = SubSeq(s, a + 1, b)
<1>0. SUFFICES ASSUME a <= b, b <= Len(s)
               PROVE  SubSeq(s \o t, a + 1, b) = SubSeq(s, a + 1, b)
  OBVIOUS
<1> DEFINE w == s \o t
<1>1. /\ w \in Seq(Q) /\ Len(w) = Len(s) + Len(t) /\ Len(s) \in Nat /\ Len(t) \in Nat
      /\ \A i \in 1 .. Len(s) : w[i] = s[i]
  BY Joined
<1> HIDE DEF w
<1> DEFINE x == SubSeq(w, a + 1, b)
           y == SubSeq(s, a + 1, b)
<1>2. x \in Seq(Q) /\ Len(x) = b - a /\ \A i \in 1 .. b - a : x[i] = w[a + i]
  <2>1. w \in Seq(Q) /\ a <= b /\ b <= Len(w)
    BY <1>0, <1>1
  <2> QED BY <2>1, Piece
<1>3. y \in Seq(Q) /\ Len(y) = b - a /\ \A i \in 1 .. b - a : y[i] = s[a + i]
  BY <1>0, Piece
<1> HIDE DEF x, y
<1>4. ASSUME NEW i \in 1 .. b - a
      PROVE  x[i] = y[i]
  <2>1. a + i \in 1 .. Len(s)
    BY <1>0, <1>1
  <2> QED BY <2>1, <1>1, <1>2, <1>3
<1>5. x = y
  BY <1>2, <1>3, <1>4, Same
<1> QED BY <1>5 DEF w, x, y

LEMMA PieceSecond ==
  ASSUME NEW Q, NEW s \in Seq(Q), NEW t \in Seq(Q), NEW b \in Nat
  PROVE  b <= Len(t) => SubSeq(s \o t, Len(s) + 1, Len(s) + b) = SubSeq(t, 1, b)
<1>0. SUFFICES ASSUME b <= Len(t)
               PROVE  SubSeq(s \o t, Len(s) + 1, Len(s) + b) = SubSeq(t, 1, b)
  OBVIOUS
<1> DEFINE w == s \o t
           l == Len(s)
<1>1. /\ w \in Seq(Q) /\ Len(w) = l + Len(t) /\ l \in Nat /\ Len(t) \in Nat
      /\ \A i \in 1 .. Len(t) : w[l + i] = t[i]
  BY Joined
<1> HIDE DEF w, l
<1> DEFINE x == SubSeq(w, l + 1, l + b)
           y == SubSeq(t, 1, b)
<1>2. x \in Seq(Q) /\ Len(x) = b /\ \A i \in 1 .. b : x[i] = w[l + i]
  <2> DEFINE c == l + b
  <2>1. c \in Nat /\ l <= c /\ c <= Len(w) /\ c - l = b
    BY <1>0, <1>1
  <2> HIDE DEF c
  <2>2. /\ SubSeq(w, l + 1, c) \in Seq(Q) /\ Len(SubSeq(w, l + 1, c)) = c - l
        /\ \A i \in 1 .. c - l : SubSeq(w, l + 1, c)[i] = w[l + i]
    BY <2>1, <1>1, Piece
  <2> QED BY <2>1, <2>2 DEF c
<1>3. y \in Seq(Q) /\ Len(y) = b /\ \A i \in 1 .. b : y[i] = t[i]
  BY <1>0, Cut
<1> HIDE DEF x, y
<1>4. \A i \in 1 .. b : x[i] = y[i]
  <2> TAKE i \in 1 .. b
  <2>1. i \in 1 .. Len(t)
    BY <1>0, <1>1
  <2> QED BY <2>1, <1>1, <1>2, <1>3
<1>5. x = y
  BY <1>2, <1>3, <1>4, Same
<1> QED BY <1>5 DEF w, x, y, l

LEMMA PieceSplit ==
  ASSUME NEW Q, NEW s \in Seq(Q), NEW a \in Nat, NEW b \in Nat, NEW c \in Nat
  PROVE  a <= b /\ b <= c /\ c <= Len(s) =>
           SubSeq(s, a + 1, c) = SubSeq(s, a + 1, b) \o SubSeq(s, b + 1, c)
<1>0. SUFFICES ASSUME a <= b, b <= c, c <= Len(s)
               PROVE  SubSeq(s, a + 1, c) = SubSeq(s, a + 1, b) \o SubSeq(s, b + 1, c)
  OBVIOUS
<1> DEFINE x == SubSeq(s, a + 1, b)
           y == SubSeq(s, b + 1, c)
           z == SubSeq(s, a + 1, c)
<1>1. x \in Seq(Q) /\ Len(x) = b - a /\ \A i \in 1 .. b - a : x[i] = s[a + i]
  <2>1. a <= b /\ b <= Len(s)
    BY <1>0
  <2> QED BY <2>1, Piece
<1>2. y \in Seq(Q) /\ Len(y) = c - b /\ \A i \in 1 .. c - b : y[i] = s[b + i]
  BY <1>0, Piece
<1>3. z \in Seq(Q) /\ Len(z) = c - a /\ \A i \in 1 .. c - a : z[i] = s[a + i]
  <2>1. a <= c /\ c <= Len(s)
    BY <1>0
  <2> QED BY <2>1, Piece
<1> HIDE DEF x, y, z
<1> DEFINE w == x \o y
<1>4. /\ w \in Seq(Q) /\ Len(w) = Len(x) + Len(y)
      /\ \A i \in 1 .. Len(x) : w[i] = x[i]
      /\ \A i \in 1 .. Len(y) : w[Len(x) + i] = y[i]
  <2>1. x \in Seq(Q) /\ y \in Seq(Q)
    BY <1>1, <1>2
  <2> QED BY <2>1, Joined
<1> HIDE DEF w
<1>5. Len(w) = c - a
  BY <1>0, <1>1, <1>2, <1>4
<1>6. \A i \in 1 .. c - a : w[i] = z[i]
  <2> TAKE i \in 1 .. c - a
  <2>1. CASE i <= b - a
    <3>1. i \in 1 .. Len(x) /\ i \in 1 .. b - a
      BY <2>1, <1>0, <1>1
    <3>2. w[i] = x[i] /\ x[i] = s[a + i] /\ z[i] = s[a + i]
      BY <3>1, <1>1, <1>3, <1>4
    <3> QED BY <3>2
  <2>2. CASE i > b - a
    <3> DEFINE k == i - (b - a)
    <3>1. k \in 1 .. c - b /\ (b - a) + k = i /\ b + k = a + i
      BY <2>2, <1>0
    <3> HIDE DEF k
    <3>2. w[(b - a) + k] = y[k]
      BY <3>1, <1>1, <1>2, <1>4
    <3>3. y[k] = s[b + k] /\ z[i] = s[a + i]
      BY <3>1, <1>2, <1>3
    <3> QED BY <3>1, <3>2, <3>3
  <2>3. i <= b - a \/ i > b - a
    BY <1>0
  <2> QED BY <2>1, <2>2, <2>3, Zenon
<1>7. w = z
  BY <1>3, <1>4, <1>5, <1>6, Same
<1> QED BY <1>7 DEF w, x, y, z

LEMMA Whole ==
  ASSUME NEW Q, NEW s \in Seq(Q)
  PROVE  SubSeq(s, 1, Len(s)) = s /\ SubSeq(s, Len(s) + 1, Len(s)) = <<>>
OBVIOUS

LEMMA PieceAcross ==
  ASSUME NEW Q, NEW s \in Seq(Q), NEW t \in Seq(Q), NEW a \in Nat, NEW b \in Nat
  PROVE  a <= Len(s) /\ b <= Len(t) =>
           SubSeq(s \o t, a + 1, Len(s) + b) = SubSeq(s, a + 1, Len(s)) \o SubSeq(t, 1, b)
<1>0. SUFFICES ASSUME a <= Len(s), b <= Len(t)
               PROVE  SubSeq(s \o t, a + 1, Len(s) + b)
                        = SubSeq(s, a + 1, Len(s)) \o SubSeq(t, 1, b)
  OBVIOUS
<1> DEFINE w == s \o t
           l == Len(s)
           c == l + b
<1>1. w \in Seq(Q) /\ Len(w) = l + Len(t) /\ l \in Nat /\ Len(t) \in Nat
  BY Joined
<1>2. SubSeq(w, a + 1, l) = SubSeq(s, a + 1, l)
  <2>1. l \in Nat /\ a <= l /\ l <= Len(s)
    BY <1>0, <1>1
  <2> HIDE DEF l
  <2> QED BY <2>1, PieceFirst
<1>3. SubSeq(w, l + 1, c) = SubSeq(t, 1, b)
  BY <1>0, PieceSecond
<1>4. SubSeq(w, a + 1, c) = SubSeq(w, a + 1, l) \o SubSeq(w, l + 1, c)
  <2>1. w \in Seq(Q) /\ l \in Nat /\ c \in Nat /\ a <= l /\ l <= c /\ c <= Len(w)
    BY <1>0, <1>1
  <2> HIDE DEF w, l, c
  <2> QED BY <2>1, PieceSplit
<1> QED BY <1>2, <1>3, <1>4

\* What write_buffer_some takes of the whole buffer W from the index i on: n bytes, and
\* beyond the end of W there is junk
Taking(W, i, n) == SubSeq(W \o [k \in 1 .. i |-> Junk], i + 1, i + n)

LEMMA Moved ==
  ASSUME NEW W \in Seq(Byte), NEW i \in Nat, NEW n \in Nat
  PROVE  i <= Len(W) /\ n <= Len(W) =>
           /\ Taking(W, i, n) \in Seq(Wired) /\ Len(Taking(W, i, n)) = n
           /\ i + n <= Len(W) =>
                SubSeq(W, i + 1, Len(W)) = Taking(W, i, n) \o SubSeq(W, i + n + 1, Len(W))
           /\ ~(i + n <= Len(W)) =>
                \E j \in Seq({Junk}) : Taking(W, i, n) = SubSeq(W, i + 1, Len(W)) \o j
<1>0. SUFFICES ASSUME i <= Len(W), n <= Len(W)
               PROVE  /\ Taking(W, i, n) \in Seq(Wired) /\ Len(Taking(W, i, n)) = n
                      /\ i + n <= Len(W) =>
                           SubSeq(W, i + 1, Len(W)) = Taking(W, i, n) \o SubSeq(W, i + n + 1, Len(W))
                      /\ ~(i + n <= Len(W)) =>
                           \E j \in Seq({Junk}) : Taking(W, i, n) = SubSeq(W, i + 1, Len(W)) \o j
  OBVIOUS
<1> DEFINE z == [k \in 1 .. i |-> Junk]
           l == Len(W)
<1>1. z \in Seq({Junk}) /\ Len(z) = i /\ z \in Seq(Wired) /\ W \in Seq(Wired) /\ l \in Nat
  <2>1. z \in [1 .. i -> {Junk}]
    OBVIOUS
  <2> HIDE DEF z
  <2>2. z \in Seq({Junk}) /\ Len(z) = i
    BY <2>1, FunctionSequence
  <2> QED BY <2>2, Wide
<1> HIDE DEF z
<1>2. W \o z \in Seq(Wired) /\ Len(W \o z) = l + i
  <2>1. W \in Seq(Wired) /\ z \in Seq(Wired)
    BY <1>1
  <2>2. W \o z \in Seq(Wired) /\ Len(W \o z) = Len(W) + Len(z)
    BY <2>1, Joined
  <2> QED BY <2>2, <1>1
<1>3. Taking(W, i, n) = SubSeq(W \o z, i + 1, i + n)
  BY DEF Taking, z
<1> DEFINE w == Taking(W, i, n)
           c == i + n
<1>4. w \in Seq(Wired) /\ Len(w) = n
  <2> DEFINE x == W \o z
  <2>1. x \in Seq(Wired) /\ c \in Nat /\ i <= c /\ c <= Len(x) /\ c - i = n
    BY <1>0, <1>1, <1>2
  <2> HIDE DEF x, c
  <2>2. SubSeq(x, i + 1, c) \in Seq(Wired) /\ Len(SubSeq(x, i + 1, c)) = c - i
    BY <2>1, Piece
  <2> QED BY <2>1, <2>2, <1>3 DEF x, c
<1> HIDE DEF l, c
<1>5. ASSUME c <= l
      PROVE  SubSeq(W, i + 1, l) = w \o SubSeq(W, c + 1, l)
  <2>1. W \in Seq(Wired) /\ z \in Seq(Wired) /\ c \in Nat /\ l \in Nat
    BY <1>1 DEF c
  <2>2. i <= c /\ c <= Len(W) /\ c <= l /\ l <= Len(W)
    BY <1>5, <1>1 DEF c, l
  <2>3. SubSeq(W \o z, i + 1, c) = SubSeq(W, i + 1, c)
    BY <2>1, <2>2, PieceFirst
  <2>4. SubSeq(W, i + 1, l) = SubSeq(W, i + 1, c) \o SubSeq(W, c + 1, l)
    BY <2>1, <2>2, PieceSplit
  <2> QED BY <2>3, <2>4, <1>3 DEF c
<1>6. ASSUME ~(c <= l)
      PROVE  \E j \in Seq({Junk}) : w = SubSeq(W, i + 1, l) \o j
  <2> DEFINE b == c - l
             j == SubSeq(z, 1, b)
  <2>1. /\ b \in Nat /\ i <= Len(W) /\ b <= Len(z) /\ c = Len(W) + b
        /\ W \in Seq(Wired) /\ z \in Seq(Wired)
    BY <1>0, <1>1, <1>6 DEF c, l
  <2>2. j \in Seq({Junk})
    <3> HIDE DEF b
    <3>1. z \in Seq({Junk}) /\ b \in Nat /\ b <= Len(z)
      BY <1>1, <2>1
    <3> QED BY <3>1, Cut
  <2>3. SubSeq(W \o z, i + 1, Len(W) + b) = SubSeq(W, i + 1, Len(W)) \o j
    <3> HIDE DEF b
    <3> QED BY <2>1, PieceAcross, ZenonT(60)
  <2>4. w = SubSeq(W, i + 1, l) \o j
    <3> HIDE DEF b, j
    <3> QED BY <2>1, <2>3, <1>3 DEF c, l
  <2> HIDE DEF j
  <2> QED BY <2>2, <2>4
<1> QED BY <1>4, <1>5, <1>6 DEF c, l

\* What is put behind the buffer is to be sent after what is left of it
LEMMA Behind ==
  ASSUME NEW b \in Seq(Byte), NEW K \in Seq(Byte), NEW i \in Nat
  PROVE  i <= Len(b) =>
           /\ SubSeq(b \o K, i + 1, Len(b \o K)) = SubSeq(b, i + 1, Len(b)) \o K
           /\ SubSeq(b, i + 1, Len(b)) \in Seq(Byte)
           /\ b \o K \in Seq(Byte) /\ Len(b \o K) = Len(b) + Len(K)
           /\ Len(b) \in Nat /\ Len(K) \in Nat
<1>0. SUFFICES ASSUME i <= Len(b)
               PROVE  /\ SubSeq(b \o K, i + 1, Len(b \o K)) = SubSeq(b, i + 1, Len(b)) \o K
                      /\ SubSeq(b, i + 1, Len(b)) \in Seq(Byte)
                      /\ b \o K \in Seq(Byte) /\ Len(b \o K) = Len(b) + Len(K)
                      /\ Len(b) \in Nat /\ Len(K) \in Nat
  OBVIOUS
<1> DEFINE k == Len(K)
           l == Len(b)
<1>1. b \o K \in Seq(Byte) /\ Len(b \o K) = l + k /\ l \in Nat /\ k \in Nat
  BY Joined
<1>2. SubSeq(K, 1, k) = K
  BY Whole
<1>3. SubSeq(b \o K, i + 1, Len(b) + k) = SubSeq(b, i + 1, Len(b)) \o SubSeq(K, 1, k)
  <2>1. i <= Len(b) /\ k <= Len(K) /\ k \in Nat
    BY <1>0, <1>1
  <2> HIDE DEF k
  <2> QED BY <2>1, PieceAcross
<1>4. SubSeq(b, i + 1, l) \in Seq(Byte)
  <2>1. i <= l /\ l <= Len(b) /\ l \in Nat
    BY <1>0, <1>1
  <2> HIDE DEF l
  <2> QED BY <2>1, Piece
<1> HIDE DEF k, l
<1> QED BY <1>1, <1>2, <1>3, <1>4 DEF k, l

-----------------------------------------------------------------------------
(* The server's stream in the session.                                     *)

\* Messages that the server said
CountBy(s, empty, i) ==
  CASE s = "ROOMS" -> (IF empty THEN 0 ELSE 1)
    [] s \in {"COMMAND", "PID", "SIZE", "LOGIN"} -> 1
    [] s = "LIST" -> (IF empty THEN 1 ELSE 2)
    [] s = "UPDATE" -> (IF empty THEN 2 ELSE 3)
    [] s = "START" -> 3
    [] OTHER -> 4 + i

Count == CountBy(server, buffer = <<>>, infos)

\* What of the buffer is still to be sent
Left(b, i) == SubSeq(b, i + 1, Len(b))

Unsent == IF server = "LOGIN" THEN <<>> ELSE Left(buffer, index)

\* The client's side and the server's fit together
Flow == Flows(client, Count, todo, got, said, decoded, down, Unsent, overshot)

\* What the buffer and the count of the infos are where nothing is on its way
Idle ==
  /\ buffer = <<>> => index = 0
  /\ server = "START" => buffer = <<>>
  /\ server # "GAME" => infos = 0

\* What a step keeps besides UpInv
Good == TypeOK /\ Understood /\ (~torn => Idle /\ Flow)

IInv == UpInv /\ Good

LEMMA CountValues ==
  ASSUME NEW e, NEW i
  PROVE  /\ CountBy("ROOMS", e, i) = IF e THEN 0 ELSE 1
         /\ CountBy("COMMAND", e, i) = 1 /\ CountBy("PID", e, i) = 1
         /\ CountBy("SIZE", e, i) = 1 /\ CountBy("LOGIN", e, i) = 1
         /\ CountBy("LIST", e, i) = IF e THEN 1 ELSE 2
         /\ CountBy("UPDATE", e, i) = IF e THEN 2 ELSE 3
         /\ CountBy("START", e, i) = 3
         /\ CountBy("GAME", e, i) = 4 + i
<1>1. CountBy("ROOMS", e, i) = IF e THEN 0 ELSE 1
  BY DEF CountBy
<1>2. /\ CountBy("COMMAND", e, i) = 1 /\ CountBy("PID", e, i) = 1
      /\ CountBy("SIZE", e, i) = 1 /\ CountBy("LOGIN", e, i) = 1
  BY DEF CountBy
<1>3. CountBy("LIST", e, i) = IF e THEN 1 ELSE 2
  BY DEF CountBy
<1>4. CountBy("UPDATE", e, i) = IF e THEN 2 ELSE 3
  BY DEF CountBy
<1>5. CountBy("START", e, i) = 3
  BY DEF CountBy
<1>6. CountBy("GAME", e, i) = 4 + i
  BY DEF CountBy
<1> QED BY <1>1, <1>2, <1>3, <1>4, <1>5, <1>6

LEMMA CountNat ==
  ASSUME TypeOK
  PROVE  Count \in Nat /\ infos \in Nat
<1>1. infos \in Nat
  BY WireAssumption DEF TypeOK
<1>2. CASE server = "GAME"
  BY <1>1, <1>2, CountValues DEF Count
<1>3. CASE server # "GAME"
  <2>1. Count \in {0, 1, 2, 3}
    BY <1>3, CountValues DEF Count, TypeOK
  <2> QED BY <1>1, <2>1
<1> QED BY <1>2, <1>3

\* A message, or what is left of it, goes out; k messages are said after that
LEMMA SendSteps ==
  ASSUME NEW F \in Seq(Told), NEW next, NEW m \in Nat, NEW k \in Nat
  PROVE  /\ TypeOK /\ Idle /\ ~overshot
         /\ Flows(client, m, todo, got, said, decoded, down, Left(buffer, index), overshot)
         /\ \/ F = <<>> /\ k = m
            \/ F = Message(m + 1) /\ k = m + 1
         /\ Send(F, next)
         => /\ Flows(client, k, todo, got, said', decoded, down', Left(buffer', index'), overshot')
            /\ buffer' \in Seq(Byte) /\ index' \in Nat /\ (index' <= Len(buffer') \/ overshot')
            /\ down' \in Seq(Wired) /\ Len(down') <= Capacity /\ overshot' \in BOOLEAN
            /\ buffer' = <<>> => index' = 0
            /\ \/ server' = next /\ buffer' = <<>>
               \/ server' = server /\ buffer' # <<>>
<1>0. SUFFICES
        ASSUME TypeOK, Idle, ~overshot,
               Flows(client, m, todo, got, said, decoded, down, Left(buffer, index), overshot),
               \/ F = <<>> /\ k = m
               \/ F = Message(m + 1) /\ k = m + 1,
               Send(F, next)
        PROVE  /\ Flows(client, k, todo, got, said', decoded, down', Left(buffer', index'), overshot')
               /\ buffer' \in Seq(Byte) /\ index' \in Nat /\ (index' <= Len(buffer') \/ overshot')
               /\ down' \in Seq(Wired) /\ Len(down') <= Capacity /\ overshot' \in BOOLEAN
               /\ buffer' = <<>> => index' = 0
               /\ \/ server' = next /\ buffer' = <<>>
                  \/ server' = server /\ buffer' # <<>>
  OBVIOUS
<1> DEFINE K == WriteBuffer(F)
           W == buffer \o K
           space == Capacity - Len(down)
           n == IF Len(W) < space THEN Len(W) ELSE space
           U == Left(buffer, index)
           w == Taking(W, index, n)
           V == SubSeq(W, index + n + 1, Len(W))
<1>1. /\ buffer \in Seq(Byte) /\ index \in Nat /\ index <= Len(buffer)
      /\ down \in Seq(Wired) /\ got \in Seq(Wired) /\ overshot = FALSE
      /\ Capacity \in Nat /\ Len(down) \in Nat
  <2>1. buffer \in Seq(Byte) /\ index \in Nat /\ index <= Len(buffer) /\ overshot = FALSE
    BY <1>0 DEF TypeOK
  <2>2. down \in Seq(Wired) /\ Len(down) \in Nat
    BY <1>0 DEF TypeOK, Wired
  <2>3. got \in Seq(Wired)
    BY <1>0, Wide DEF TypeOK
  <2> QED BY <2>1, <2>2, <2>3, WireAssumption
<1>2. K \in Seq(Byte) /\ K = Bytes(F) /\ F \in Seq(Field)
  BY Buffered, BytesTyped
<1>3. /\ W \in Seq(Byte) /\ Len(W) = Len(buffer) + Len(K) /\ Len(buffer) \in Nat /\ Len(K) \in Nat
      /\ Left(W, index) = U \o K /\ U \in Seq(Byte)
  <2>1. buffer \in Seq(Byte) /\ K \in Seq(Byte) /\ index \in Nat /\ index <= Len(buffer)
    BY <1>1, <1>2
  <2> HIDE DEF K
  <2> QED BY <2>1, Behind DEF Left
<1>4. /\ n \in Nat /\ n <= Len(W) /\ index <= Len(W) /\ Len(down) + n <= Capacity
      /\ Len(W) \in Nat
      /\ Len(W) = 0 => n = 0
  <2>1. Len(down) <= Capacity
    BY <1>0 DEF TypeOK
  <2> HIDE DEF W, K
  <2> QED BY <2>1, <1>1, <1>3
<1>5. /\ said' = said \o F /\ down' = down \o w
      /\ overshot' = (index + n > Len(W))
      /\ \/ index + n = Len(W) /\ buffer' = <<>> /\ index' = 0 /\ server' = next
         \/ index + n # Len(W) /\ buffer' = W /\ index' = index + n /\ server' = server
  BY <1>0, <1>1 DEF Send, Rewound, Taking
<1>6. Flows(client, k, todo, got, said \o F, decoded, down, U \o K, FALSE)
  <2>1. Flows(client, m, todo, got, said, decoded, down, U, FALSE)
    BY <1>0, <1>1
  <2>2. CASE F = <<>> /\ k = m
    <3>1. K = <<>>
      BY <2>2, <1>2, BytesEmpty
    <3>2. U \o <<>> = U
      BY <1>3, NothingJoined
    <3>3. said \in Seq(Field)
      <4>1. PICK r, G, B : /\ r \in Nat /\ Stands(r, m, todo, got, G, B)
                           /\ said = decoded \o Ahead(r, m, G)
        BY <2>1 DEF Flows
      <4>2. decoded \in Seq(Field) /\ Ahead(r, m, G) \in Seq(Field)
        BY <2>1, <4>1, StandsTyped DEF Flows
      <4> QED BY <4>1, <4>2, Joined
    <3>4. said \o <<>> = said
      BY <3>3, NothingJoined
    <3> QED BY <2>1, <2>2, <3>1, <3>2, <3>4
  <2>3. CASE F = Message(m + 1) /\ k = m + 1
    <3>1. U \in Seq(Wired)
      BY <1>3, Wide
    <3> HIDE DEF U
    <3>2. Flows(client, m + 1, todo, got, said \o Message(m + 1), decoded, down,
                U \o Bytes(Message(m + 1)), FALSE)
      BY <2>1, <3>1, <1>1, FlowSaid
    <3> QED BY <3>2, <2>3, <1>2
  <2> QED BY <2>2, <2>3, <1>0
<1> HIDE DEF K, W, space, n, U
<1>7. /\ w \in Seq(Wired) /\ Len(w) = n
      /\ index + n <= Len(W) => Left(W, index) = w \o V
      /\ ~(index + n <= Len(W)) => \E j \in Seq({Junk}) : w = Left(W, index) \o j
  <2>1. W \in Seq(Byte) /\ index \in Nat /\ n \in Nat
    BY <1>1, <1>3, <1>4
  <2>2. index <= Len(W) /\ n <= Len(W)
    BY <1>4
  <2>3. /\ Taking(W, index, n) \in Seq(Wired) /\ Len(Taking(W, index, n)) = n
        /\ index + n <= Len(W) =>
             SubSeq(W, index + 1, Len(W)) = Taking(W, index, n) \o SubSeq(W, index + n + 1, Len(W))
        /\ ~(index + n <= Len(W)) =>
             \E j \in Seq({Junk}) : Taking(W, index, n) = SubSeq(W, index + 1, Len(W)) \o j
    BY <2>1, <2>2, Moved
  <2> QED BY <2>3, Zenon DEF Left
<1> HIDE DEF w
<1>8. down' \in Seq(Wired) /\ Len(down') <= Capacity
  <2>1. down \in Seq(Wired) /\ w \in Seq(Wired)
    BY <1>1, <1>7
  <2>2. down \o w \in Seq(Wired) /\ Len(down \o w) = Len(down) + Len(w)
    BY <2>1, Joined
  <2> QED BY <2>2, <1>4, <1>5, <1>7
<1>9. U \o K \in Seq(Wired)
  <2>1. U \in Seq(Byte) /\ K \in Seq(Byte)
    BY <1>2, <1>3
  <2>2. U \o K \in Seq(Byte)
    BY <2>1, Joined
  <2> QED BY <2>2, Wide
<1>10. CASE index + n <= Len(W)
  <2>1. overshot' = FALSE
    <3>1. ~(index + n > Len(W))
      BY <1>1, <1>4, <1>10
    <3>2. (index + n > Len(W)) = FALSE
      BY <3>1
    <3> QED BY <3>2, <1>5, Zenon
  <2>2. V \in Seq(Wired)
    <3> DEFINE c == index + n
    <3>1. c \in Nat /\ c <= Len(W) /\ W \in Seq(Byte)
      BY <1>1, <1>3, <1>4, <1>10
    <3> HIDE DEF c
    <3>2. SubSeq(W, c + 1, Len(W)) \in Seq(Byte)
      BY <3>1, Cut
    <3> QED BY <3>2, Wide DEF c
  <2>3. Left(buffer', index') = V
    <3>1. CASE index + n = Len(W)
      <4>1. buffer' = <<>> /\ index' = 0
        BY <3>1, <1>5
      <4>2. Left(<<>>, 0) = <<>>
        BY DEF Left
      <4>3. V = <<>>
        BY <3>1, <1>3, Whole
      <4> QED BY <4>1, <4>2, <4>3
    <3>2. CASE index + n # Len(W)
      BY <3>2, <1>5 DEF Left
    <3> QED BY <3>1, <3>2
  <2> HIDE DEF V
  <2>4. down \o (U \o K) = (down \o w) \o V
    <3>1. down \in Seq(Wired) /\ w \in Seq(Wired) /\ V \in Seq(Wired)
      BY <1>1, <1>7, <2>2
    <3>2. (down \o w) \o V = down \o (w \o V)
      BY <3>1, WiredThree, ZenonT(60)
    <3> QED BY <3>2, <1>3, <1>7, <1>10
  <2>5. Flows(client, k, todo, got, said \o F, decoded, down', V, FALSE)
    <3> DEFINE u == U \o K
    <3>1. u \in Seq(Wired) /\ down \in Seq(Wired) /\ got \in Seq(Wired) /\ down' \in Seq(Wired)
          /\ V \in Seq(Wired)
      BY <1>1, <1>8, <1>9, <2>2
    <3>2. Flows(client, k, todo, got, said \o F, decoded, down, u, FALSE) /\ down \o u = down' \o V
      BY <1>5, <1>6, <2>4
    <3> HIDE DEF u
    <3> QED BY <3>1, <3>2, FlowSent
  <2>6. /\ buffer' \in Seq(Byte) /\ index' \in Nat /\ index' <= Len(buffer') /\ (buffer' = <<>> => index' = 0)
        /\ \/ server' = next /\ buffer' = <<>>
           \/ server' = server /\ buffer' # <<>>
    <3>1. CASE index + n = Len(W)
      <4>1. buffer' = <<>> /\ index' = 0 /\ server' = next
        BY <3>1, <1>5
      <4>2. <<>> \in Seq(Byte) /\ 0 \in Nat /\ 0 <= Len(<<>>)
        BY Wide
      <4>3. buffer' \in Seq(Byte) /\ index' \in Nat /\ index' <= Len(buffer')
        BY <4>1, <4>2
      <4>4. buffer' = <<>> => index' = 0
        BY <4>1
      <4>5. server' = next /\ buffer' = <<>>
        BY <4>1
      <4> QED BY <4>3, <4>4, <4>5, Zenon
    <3>2. CASE index + n # Len(W)
      <4>1. buffer' = W /\ index' = index + n /\ server' = server
        BY <3>2, <1>5
      <4>2. W # <<>>
        <5>1. Len(W) > 0
          BY <3>2, <1>1, <1>4, <1>10
        <5>2. Len(<<>>) = 0
          OBVIOUS
        <5> QED BY <5>1, <5>2
      <4>3. index + n \in Nat /\ index + n <= Len(W)
        BY <1>1, <1>4, <1>10
      <4> QED BY <4>1, <4>2, <4>3, <1>3
    <3>3. index + n = Len(W) \/ index + n # Len(W)
      OBVIOUS
    <3> QED BY <3>1, <3>2, <3>3, Zenon
  <2>7. Flows(client, k, todo, got, said', decoded, down', Left(buffer', index'), overshot')
    BY <1>5, <2>1, <2>3, <2>5, Zenon
  <2>8. overshot' \in BOOLEAN /\ buffer' \in Seq(Byte) /\ index' \in Nat /\ (index' <= Len(buffer') \/ overshot')
        /\ (buffer' = <<>> => index' = 0)
    <3>1. overshot' \in BOOLEAN
      BY <2>1
    <3>2. buffer' \in Seq(Byte) /\ index' \in Nat /\ index' <= Len(buffer') /\ (buffer' = <<>> => index' = 0)
      BY <2>6, Zenon
    <3> QED BY <3>1, <3>2, Zenon
  <2>9. \/ server' = next /\ buffer' = <<>>
        \/ server' = server /\ buffer' # <<>>
    BY <2>6
  <2> QED BY <1>8, <2>7, <2>8, <2>9, Zenon
<1>11. CASE ~(index + n <= Len(W))
  <2>1. /\ overshot' = TRUE /\ buffer' = W /\ index' = index + n /\ server' = server
        /\ index + n # Len(W)
    <3>1. index + n > Len(W) /\ index + n # Len(W)
      BY <1>1, <1>4, <1>11
    <3> QED BY <3>1, <1>5, Zenon
  <2>2. Left(buffer', index') = <<>>
    <3>1. index + n + 1 > Len(W) /\ index + n \in Nat
      BY <1>1, <1>4, <1>11
    <3>2. \A a \in Nat : a > Len(W) => SubSeq(W, a, Len(W)) = <<>>
      BY <1>3
    <3> QED BY <2>1, <3>1, <3>2 DEF Left
  <2>3. PICK j \in Seq({Junk}) : w = (U \o K) \o j
    BY <1>3, <1>7, <1>11
  <2>4. Flows(client, k, todo, got, said \o F, decoded, down \o ((U \o K) \o j), <<>>, TRUE)
    <3> DEFINE u == U \o K
    <3>1. u \in Seq(Wired) /\ down \in Seq(Wired) /\ got \in Seq(Wired)
      BY <1>1, <1>9
    <3>2. Flows(client, k, todo, got, said \o F, decoded, down, u, FALSE)
      BY <1>6
    <3> HIDE DEF u
    <3>3. Flows(client, k, todo, got, said \o F, decoded, down \o (u \o j), <<>>, TRUE)
      BY <3>1, <3>2, FlowOvershot
    <3> QED BY <3>3 DEF u
  <2>5. W # <<>>
    <3>1. Len(W) > 0
      <4>1. Len(W) = 0 => index = 0 /\ n = 0
        BY <1>1, <1>4
      <4> QED BY <4>1, <1>4, <1>11
    <3> QED BY <3>1
  <2>6. Flows(client, k, todo, got, said', decoded, down', Left(buffer', index'), overshot')
    <3>1. down' = down \o ((U \o K) \o j) /\ said' = said \o F
      BY <2>3, <1>5
    <3> QED BY <3>1, <2>1, <2>2, <2>4, Zenon
  <2>7. index + n \in Nat
    BY <1>1, <1>4
  <2> QED BY <1>3, <1>8, <2>1, <2>5, <2>6, <2>7, Zenon
<1>12. (index + n <= Len(W)) \/ ~(index + n <= Len(W))
  OBVIOUS
<1> QED BY <1>10, <1>11, <1>12, Zenon

LEMMA FlowUnderstood ==
  ASSUME NEW c, NEW m \in Nat, NEW T, NEW g, NEW S, NEW D, NEW d, NEW u, NEW o,
         Flows(c, m, T, g, S, D, d, u, o)
  PROVE  IsPrefix(D, S) /\ D \in Seq(Field) /\ S \in Seq(Field)
<1>1. PICK r, F, B, j : /\ r \in Nat /\ Stands(r, m, T, g, F, B)
                        /\ S = D \o Ahead(r, m, F)
  BY DEF Flows
<1> DEFINE A == Ahead(r, m, F)
<1>2. D \in Seq(Field) /\ A \in Seq(Field) /\ S = D \o A
  BY <1>1, StandsTyped DEF Flows
<1> HIDE DEF A
<1>3. /\ D \o A \in Seq(Field) /\ Len(D \o A) = Len(D) + Len(A)
      /\ Len(D) \in Nat /\ Len(A) \in Nat
      /\ \A i \in 1 .. Len(D) : (D \o A)[i] = D[i]
  <2>1. D \in Seq(Field) /\ A \in Seq(Field)
    BY <1>2
  <2> QED BY <2>1, Joined
<1>4. S \in Seq(Field) /\ Len(D) <= Len(S) /\ Len(D) \in Nat /\ \A i \in 1 .. Len(D) : S[i] = D[i]
  BY <1>2, <1>3
<1>5. SubSeq(D, 1, Len(D)) = D
  BY <1>2, Whole
<1>6. SubSeq(S, 1, Len(D)) = D
  <2> DEFINE h == SubSeq(S, 1, Len(D))
  <2>1. h \in Seq(Field) /\ Len(h) = Len(D) /\ \A i \in 1 .. Len(D) : h[i] = S[i]
    BY <1>4, Cut
  <2> HIDE DEF h
  <2>2. h \in Seq(Field) /\ D \in Seq(Field) /\ Len(h) = Len(D) /\ \A i \in 1 .. Len(h) : h[i] = D[i]
    BY <1>2, <1>4, <2>1
  <2>3. h = D
    BY <2>2, Same
  <2> QED BY <2>3 DEF h
<1> QED BY <1>2, <1>4, <1>5, <1>6 DEF IsPrefix

-----------------------------------------------------------------------------
(* The server writes.                                                      *)

LEMMA Started ==
  ASSUME IInv, ~torn
  PROVE  TypeOK /\ Idle /\ UpInv /\ Understood /\ Count \in Nat
         /\ Flows(client, Count, todo, got, said, decoded, down, Unsent, overshot)
         /\ (server # "LOGIN" => Unsent = Left(buffer, index))
<1>1. Idle /\ Flow
  BY DEF IInv, Good
<1> QED BY <1>1, CountNat DEF IInv, Good, Flow, Unsent

LEMMA SendListGood ==
  ASSUME IInv, ~torn, ~overshot, NEW F \in Seq(Told), NEW m \in Nat,
         NEW here \in {"ROOMS", "LIST", "UPDATE"}, NEW next \in {"COMMAND", "UPDATE", "START"},
         SendList(here, F, next), F = Message(m + 1),
         \A i : /\ CountBy(here, TRUE, i) = m /\ CountBy(here, FALSE, i) = m + 1
                /\ CountBy(next, TRUE, i) = m + 1
  PROVE  Good'
<1> DEFINE G == IF buffer = <<>> THEN F ELSE <<>>
           c == IF buffer = <<>> THEN m ELSE m + 1
           k == m + 1
<1>1. /\ server = here /\ Len(down) < Capacity /\ Send(G, next)
      /\ UNCHANGED <<client, up, decoded, todo, got, asked, heard, infos, orders, torn>>
  BY DEF SendList
<1>2. /\ TypeOK /\ Idle
      /\ Flows(client, Count, todo, got, said, decoded, down, Left(buffer, index), overshot)
  <2>1. server # "LOGIN"
    BY <1>1
  <2> QED BY <2>1, Started
<1>3. Count = c
  BY <1>1 DEF Count
<1>4. G \in Seq(Told) /\ c \in Nat /\ k \in Nat
      /\ \/ G = <<>> /\ k = c
         \/ G = Message(c + 1) /\ k = c + 1
  <2>1. <<>> \in Seq(Told)
    OBVIOUS
  <2> QED BY <2>1
<1>5. Flows(client, c, todo, got, said, decoded, down, Left(buffer, index), overshot)
  BY <1>2, <1>3
<1> HIDE DEF G, c
<1>6. /\ Flows(client, k, todo, got, said', decoded, down', Left(buffer', index'), overshot')
      /\ buffer' \in Seq(Byte) /\ index' \in Nat /\ (index' <= Len(buffer') \/ overshot')
      /\ down' \in Seq(Wired) /\ Len(down') <= Capacity /\ overshot' \in BOOLEAN
      /\ buffer' = <<>> => index' = 0
      /\ \/ server' = next /\ buffer' = <<>>
         \/ server' = server /\ buffer' # <<>>
  <2>1. /\ TypeOK /\ Idle /\ ~overshot
        /\ Flows(client, c, todo, got, said, decoded, down, Left(buffer, index), overshot)
        /\ \/ G = <<>> /\ k = c
           \/ G = Message(c + 1) /\ k = c + 1
        /\ Send(G, next)
    BY <1>1, <1>2, <1>4, <1>5
  <2>2. G \in Seq(Told) /\ c \in Nat /\ k \in Nat
    BY <1>4
  <2> HIDE DEF k
  <2> QED BY <2>1, <2>2, SendSteps
<1>7. Count' = k /\ Unsent' = Left(buffer', index') /\ Idle'
  <2>1. CASE server' = next /\ buffer' = <<>>
    BY <2>1, <1>1, <1>2, <1>6 DEF Count, Unsent, Idle
  <2>2. CASE server' = server /\ buffer' # <<>>
    BY <2>2, <1>1, <1>2 DEF Count, Unsent, Idle
  <2> QED BY <1>6, <2>1, <2>2
<1>8. TypeOK'
  <2>1. server' \in {"ROOMS", "COMMAND", "PID", "SIZE", "LOGIN", "LIST", "UPDATE", "START", "GAME"}
    BY <1>1, <1>6
  <2> QED BY <1>1, <1>2, <1>6, <2>1 DEF TypeOK, Wired
<1>9. Understood'
  <2>1. IsPrefix(decoded, said')
    BY <1>4, <1>6, FlowUnderstood
  <2> QED BY <1>1, <2>1 DEF Understood
<1>10. Flow'
  BY <1>1, <1>6, <1>7 DEF Flow
<1> QED BY <1>7, <1>8, <1>9, <1>10 DEF Good

LEMMA SendRoomsGood == IInv /\ ~torn /\ ~overshot /\ SendRooms => Good'
<1>0. SUFFICES ASSUME IInv, ~torn, ~overshot, SendRooms
               PROVE  Good'
  OBVIOUS
<1>1. RoomInfos \in Seq(Told) /\ RoomInfos = Message(0 + 1)
  BY RoomsReadable DEF Message
<1>2. \A i : /\ CountBy("ROOMS", TRUE, i) = 0 /\ CountBy("ROOMS", FALSE, i) = 0 + 1
             /\ CountBy("COMMAND", TRUE, i) = 0 + 1
  <2>1. \A i : CountBy("ROOMS", TRUE, i) = 0
    BY DEF CountBy
  <2>2. \A i : CountBy("ROOMS", FALSE, i) = 0 + 1
    BY DEF CountBy
  <2>3. \A i : CountBy("COMMAND", TRUE, i) = 0 + 1
    BY DEF CountBy
  <2> QED BY <2>1, <2>2, <2>3
<1>3. SendList("ROOMS", RoomInfos, "COMMAND")
  BY <1>0 DEF SendRooms
<1> QED BY <1>0, <1>1, <1>2, <1>3, SendListGood

LEMMA SendPlayersGood == IInv /\ ~torn /\ ~overshot /\ SendPlayers => Good'
<1>0. SUFFICES ASSUME IInv, ~torn, ~overshot, SendPlayers
               PROVE  Good'
  OBVIOUS
<1>1. PlayerInfos \in Seq(Told) /\ PlayerInfos = Message(1 + 1)
  BY PlayersReadable DEF Message
<1>2. \A i : /\ CountBy("LIST", TRUE, i) = 1 /\ CountBy("LIST", FALSE, i) = 1 + 1
             /\ CountBy("UPDATE", TRUE, i) = 1 + 1
  <2>1. \A i : CountBy("LIST", TRUE, i) = 1
    BY DEF CountBy
  <2>2. \A i : CountBy("LIST", FALSE, i) = 1 + 1
    BY DEF CountBy
  <2>3. \A i : CountBy("UPDATE", TRUE, i) = 1 + 1
    BY DEF CountBy
  <2> QED BY <2>1, <2>2, <2>3
<1>3. SendList("LIST", PlayerInfos, "UPDATE")
  BY <1>0 DEF SendPlayers
<1> QED BY <1>0, <1>1, <1>2, <1>3, SendListGood

LEMMA SendUpdateGood == IInv /\ ~torn /\ ~overshot /\ SendUpdate => Good'
<1>0. SUFFICES ASSUME IInv, ~torn, ~overshot, SendUpdate
               PROVE  Good'
  OBVIOUS
<1> DEFINE F == <<Command("UPDATE_PLAYERS")>> \o PlayerInfos
<1>1. F \in Seq(Told) /\ F = Message(2 + 1)
  <2>1. F = Message(3) /\ 2 + 1 = 3
    BY DEF Message
  <2>2. Message(3) \in Seq(Told)
    BY MessageTyped
  <2> HIDE DEF F
  <2> QED BY <2>1, <2>2
<1>2. \A i : /\ CountBy("UPDATE", TRUE, i) = 2 /\ CountBy("UPDATE", FALSE, i) = 2 + 1
             /\ CountBy("START", TRUE, i) = 2 + 1
  <2>1. \A i : CountBy("UPDATE", TRUE, i) = 2
    BY DEF CountBy
  <2>2. \A i : CountBy("UPDATE", FALSE, i) = 2 + 1
    BY DEF CountBy
  <2>3. \A i : CountBy("START", TRUE, i) = 2 + 1
    BY DEF CountBy
  <2> QED BY <2>1, <2>2, <2>3
<1>3. SendList("UPDATE", F, "START")
  BY <1>0 DEF SendUpdate
<1> HIDE DEF F
<1> QED BY <1>0, <1>1, <1>2, <1>3, SendListGood

LEMMA SendInfoGood == IInv /\ ~torn /\ ~overshot /\ SendInfo => Good'
<1>0. SUFFICES ASSUME IInv, ~torn, ~overshot, SendInfo
               PROVE  Good'
  OBVIOUS
<1>1. /\ server = "GAME"
      /\ UNCHANGED <<client, up, decoded, todo, got, asked, heard, orders, torn>>
  BY <1>0 DEF SendInfo
<1>2. /\ TypeOK /\ Idle /\ infos \in Nat /\ Infos \in Nat /\ infos <= Infos
      /\ Flows(client, Count, todo, got, said, decoded, down, Left(buffer, index), overshot)
  <2>1. server # "LOGIN" /\ TypeOK
    BY <1>0, <1>1, Started
  <2>2. infos \in Nat /\ Infos \in Nat /\ infos <= Infos
    BY <2>1, WireAssumption DEF TypeOK
  <2> QED BY <2>1, <2>2, <1>0, Started
<1> DEFINE m == 4 + infos
           k == 4 + infos'
<1>3. Count = m /\ m \in Nat
  BY <1>1, <1>2, CountValues DEF Count
<1>4. PICK G \in Seq(Told) :
        /\ Send(G, "GAME") /\ infos' \in 0 .. Infos
        /\ \/ G = <<>> /\ k = m
           \/ G = Message(m + 1) /\ k = m + 1
  <2>1. CASE infos < Infos /\ Send(GameInfo, "GAME") /\ infos' = infos + 1
    <3>1. m + 1 \notin {1, 2, 3, 4}
      BY <1>2
    <3>2. Message(m + 1) = GameInfo
      BY <3>1 DEF Message
    <3>3. GameInfo \in Seq(Told)
      BY GameReadable
    <3>4. infos' \in 0 .. Infos /\ k = m + 1
      BY <1>2, <2>1
    <3> HIDE DEF m, k
    <3> QED BY <3>2, <3>3, <3>4, <2>1
  <2>2. CASE Send(<<>>, "GAME") /\ infos' = infos
    <3>1. <<>> \in Seq(Told)
      OBVIOUS
    <3>2. infos' \in 0 .. Infos /\ k = m
      BY <1>2, <2>2
    <3> HIDE DEF m, k
    <3> QED BY <3>1, <3>2, <2>2
  <2> QED BY <1>0, <2>1, <2>2 DEF SendInfo
<1>5. k \in Nat /\ infos' \in Nat
  <2>1. infos' \in 0 .. Infos
    BY <1>4
  <2>2. Infos \in Nat
    BY <1>2
  <2>3. infos' \in Nat
    BY <2>1, <2>2
  <2>4. \A x \in Nat : 4 + x \in Nat
    OBVIOUS
  <2> QED BY <2>3, <2>4, Zenon
<1>6. /\ Flows(client, k, todo, got, said', decoded, down', Left(buffer', index'), overshot')
      /\ buffer' \in Seq(Byte) /\ index' \in Nat /\ (index' <= Len(buffer') \/ overshot')
      /\ down' \in Seq(Wired) /\ Len(down') <= Capacity /\ overshot' \in BOOLEAN
      /\ buffer' = <<>> => index' = 0
      /\ \/ server' = "GAME" /\ buffer' = <<>>
         \/ server' = server /\ buffer' # <<>>
  <2>1. /\ TypeOK /\ Idle /\ ~overshot
        /\ Flows(client, m, todo, got, said, decoded, down, Left(buffer, index), overshot)
        /\ \/ G = <<>> /\ k = m
           \/ G = Message(m + 1) /\ k = m + 1
        /\ Send(G, "GAME")
    BY <1>0, <1>1, <1>2, <1>3, <1>4
  <2>2. G \in Seq(Told) /\ m \in Nat /\ k \in Nat
    BY <1>3, <1>4, <1>5
  <2> HIDE DEF k, m
  <2> QED BY <2>1, <2>2, SendSteps
<1>7. Count' = k /\ Unsent' = Left(buffer', index') /\ Idle' /\ server' = "GAME"
  <2>1. server' = "GAME"
    BY <1>1, <1>6
  <2>2. Count' = CountBy("GAME", buffer' = <<>>, infos')
    BY <2>1 DEF Count
  <2>3. CountBy("GAME", buffer' = <<>>, infos') = 4 + infos'
    BY CountValues
  <2> QED BY <1>6, <2>1, <2>2, <2>3 DEF Unsent, Idle
<1>8. TypeOK'
  BY <1>1, <1>2, <1>4, <1>6, <1>7 DEF TypeOK, Wired
<1>9. Understood'
  <2> HIDE DEF k
  <2>1. IsPrefix(decoded, said')
    BY <1>5, <1>6, FlowUnderstood
  <2> QED BY <1>1, <2>1 DEF Understood
<1>10. Flow'
  BY <1>1, <1>6, <1>7 DEF Flow
<1> QED BY <1>7, <1>8, <1>9, <1>10 DEF Good

LEMMA PrefixOfMore ==
  ASSUME NEW Q, NEW s \in Seq(Q), NEW t \in Seq(Q), NEW x \in Q, IsPrefix(s, t)
  PROVE  IsPrefix(s, Append(t, x))
<1>1. /\ Append(t, x) \in Seq(Q) /\ Len(Append(t, x)) = Len(t) + 1
      /\ \A i \in 1 .. Len(t) : Append(t, x)[i] = t[i]
      /\ Len(s) \in Nat /\ Len(t) \in Nat
  OBVIOUS
<1>2. Len(s) <= Len(t) /\ SubSeq(s, 1, Len(s)) = SubSeq(t, 1, Len(s))
  BY DEF IsPrefix
<1>3. SubSeq(Append(t, x), 1, Len(s)) = SubSeq(t, 1, Len(s))
  <2> DEFINE a == Append(t, x)
             v == SubSeq(a, 1, Len(s))
             w == SubSeq(t, 1, Len(s))
             n == Len(s)
  <2>1. n \in Nat /\ n <= Len(t) /\ a \in Seq(Q) /\ n <= Len(a) /\ \A i \in 1 .. n : a[i] = t[i]
    BY <1>1, <1>2
  <2>2. v = SubSeq(a, 1, n) /\ w = SubSeq(t, 1, n)
    OBVIOUS
  <2> HIDE DEF a, v, w, n
  <2>3. v \in Seq(Q) /\ Len(v) = n /\ \A i \in 1 .. n : v[i] = a[i]
    BY <2>1, <2>2, Cut
  <2>4. w \in Seq(Q) /\ Len(w) = n /\ \A i \in 1 .. n : w[i] = t[i]
    BY <2>1, <2>2, Cut
  <2>5. v \in Seq(Q) /\ w \in Seq(Q) /\ Len(v) = Len(w) /\ \A i \in 1 .. Len(v) : v[i] = w[i]
    BY <2>1, <2>3, <2>4
  <2>6. v = w
    BY <2>5, Same
  <2> QED BY <2>6 DEF v, w, a, n
<1> QED BY <1>1, <1>2, <1>3 DEF IsPrefix

LEMMA SendStartGood == IInv /\ ~torn /\ ~overshot /\ SendStart => Good'
<1>0. SUFFICES ASSUME IInv, ~torn, ~overshot, SendStart
               PROVE  Good'
  OBVIOUS
<1> DEFINE space == Capacity - Len(down)
           n == IF 4 < space THEN 4 ELSE space
           W == write_uint32(START_GAME)
           w == SubSeq(W, 1, n)
<1>1. /\ server = "START" /\ Len(down) < Capacity
      /\ down' = down \o w /\ torn' = (n < 4)
      /\ said' = Append(said, Command("START_GAME")) /\ server' = "GAME"
      /\ UNCHANGED <<client, buffer, index, up, decoded, todo, got, asked, heard, infos, orders,
                     overshot>>
  BY <1>0 DEF SendStart
<1>2. /\ TypeOK /\ Idle /\ buffer = <<>> /\ index = 0 /\ overshot = FALSE
      /\ got \in Seq(Wired) /\ down \in Seq(Wired) /\ Len(down) \in Nat /\ Capacity \in Nat
      /\ infos \in Nat
  <2>1. TypeOK /\ Idle
    BY <1>0, Started
  <2>2. buffer = <<>> /\ index = 0 /\ overshot = FALSE
    BY <2>1, <1>0, <1>1 DEF Idle, TypeOK
  <2>3. got \in Seq(Byte) /\ down \in Seq(Wired) /\ Len(down) \in Nat
    BY <2>1 DEF TypeOK, Wired
  <2>4. got \in Seq(Wired) /\ Capacity \in Nat /\ infos \in Nat
    BY <2>1, <2>3, Wide, WireAssumption DEF TypeOK
  <2> QED BY <2>1, <2>2, <2>3, <2>4
<1>3. Flows(client, 3, todo, got, said, decoded, down, <<>>, FALSE)
  <2>1. Left(<<>>, 0) = <<>>
    BY DEF Left
  <2>2. Count = 3
    <3>1. Count = CountBy("START", buffer = <<>>, infos)
      BY <1>1 DEF Count
    <3> QED BY <3>1, CountValues
  <2>3. Flows(client, Count, todo, got, said, decoded, down, Left(buffer, index), overshot)
    BY <1>0, <1>1, Started
  <2> QED BY <1>2, <2>1, <2>2, <2>3
<1>4. W \in Seq(Byte) /\ Len(W) = 4 /\ W = Bytes(Message(4)) /\ Message(4) = <<Command("START_GAME")>>
      /\ Command("START_GAME") \in Field
  <2>1. W \in Seq(Byte) /\ Len(W) = 4
    BY Written, WordNat DEF START_GAME
  <2>2. Message(4) = <<Command("START_GAME")>>
    BY DEF Message
  <2>3. Command("START_GAME") \in Field
    BY CommandRead
  <2>4. Bytes(Message(4)) = FieldBytes(Command("START_GAME"))
    BY <2>2, <2>3, BytesOne
  <2> QED BY <2>1, <2>2, <2>3, <2>4 DEF FieldBytes
<1>5. n \in Nat /\ n <= 4 /\ Len(down) + n <= Capacity
  <2> HIDE DEF W
  <2> QED BY <1>1, <1>2
<1> HIDE DEF n, W, space
<1>6. w \in Seq(Byte) /\ Len(w) = n
  BY <1>4, <1>5, Cut
<1>7. w \in Seq(Wired)
  BY <1>6, Wide
<1> HIDE DEF w
<1>8. down' \in Seq(Wired) /\ Len(down') <= Capacity
  <2>1. down \in Seq(Wired) /\ w \in Seq(Wired)
    BY <1>2, <1>7
  <2>2. down \o w \in Seq(Wired) /\ Len(down \o w) = Len(down) + Len(w)
    BY <2>1, Joined
  <2> QED BY <1>1, <1>5, <1>6, <2>2
<1>9. torn' \in BOOLEAN
  BY <1>1
<1>10. TypeOK'
  BY <1>1, <1>2, <1>8, <1>9 DEF TypeOK, Wired
<1>11. Understood'
  <2>1. IsPrefix(decoded, said) /\ decoded \in Seq(Field) /\ said \in Seq(Field)
    BY <1>3, FlowUnderstood
  <2>2. IsPrefix(decoded, Append(said, Command("START_GAME")))
    BY <1>4, <2>1, PrefixOfMore
  <2> QED BY <1>1, <2>2 DEF Understood
<1>12. ~torn' => Idle' /\ Flow'
  <2>0. SUFFICES ASSUME ~torn'
                 PROVE  Idle' /\ Flow'
    OBVIOUS
  <2>1. n = 4 /\ w = W
    <3>1. ~(n < 4)
      BY <2>0, <1>1
    <3>2. n = 4
      BY <3>1, <1>5
    <3>3. SubSeq(W, 1, Len(W)) = W
      BY <1>4, Whole
    <3> QED BY <3>2, <3>3, <1>4 DEF w
  <2>2. Flows(client, 4, todo, got, said \o Message(4), decoded, down, <<>> \o Bytes(Message(4)),
              FALSE)
    <3>1. <<>> \in Seq(Wired) /\ 3 \in Nat /\ 3 + 1 = 4
      BY Wide
    <3>2. Flows(client, 3 + 1, todo, got, said \o Message(3 + 1), decoded, down,
                <<>> \o Bytes(Message(3 + 1)), FALSE)
      BY <3>1, <1>2, <1>3, FlowSaid
    <3> QED BY <3>1, <3>2
  <2>3. said \o Message(4) = said'
    <3>1. said \in Seq(Field)
      BY <1>3, FlowUnderstood
    <3>2. said \o <<Command("START_GAME")>> = Append(said, Command("START_GAME"))
      BY <3>1, <1>4
    <3> QED BY <3>2, <1>1, <1>4
  <2>4. Flows(client, 4, todo, got, said', decoded, down, w, FALSE)
    <3>1. <<>> \o W = W
      BY <1>4, NothingJoined
    <3> QED BY <3>1, <2>1, <2>2, <2>3, <1>4
  <2>5. Flows(client, 4, todo, got, said', decoded, down', <<>>, FALSE)
    <3>1. down' \o <<>> = down'
      BY <1>8, NothingJoined
    <3>2. down \o w = down' \o <<>> /\ <<>> \in Seq(Wired)
      BY <3>1, <1>1, Wide
    <3> QED BY <2>4, <3>2, <1>2, <1>7, <1>8, FlowSent
  <2>6. Idle'
    BY <1>1, <1>2 DEF Idle
  <2>7. Count' = 4 + infos'
    <3>1. Count' = CountBy("GAME", buffer' = <<>>, infos')
      BY <1>1 DEF Count
    <3> QED BY <3>1, CountValues
  <2>8. Count' = 4 /\ client' = client /\ todo' = todo /\ got' = got /\ decoded' = decoded
    BY <2>7, <1>1, <1>2 DEF Idle
  <2>9. Unsent' = <<>> /\ overshot' = FALSE
    <3>1. Left(<<>>, 0) = <<>>
      BY DEF Left
    <3>2. Unsent' = Left(buffer', index')
      BY <1>1 DEF Unsent
    <3> QED BY <3>1, <3>2, <1>1, <1>2
  <2>10. Flow'
    BY <2>5, <2>8, <2>9 DEF Flow
  <2> QED BY <2>6, <2>10
<1> QED BY <1>10, <1>11, <1>12 DEF Good

LEMMA ReadNumberGood ==
  ASSUME IInv, ~torn, ~overshot, NEW here, NEW next, ReadNumber(here, next), UNCHANGED buffer,
         \/ here = "COMMAND" /\ next = "PID"
         \/ here = "PID" /\ next = "SIZE"
         \/ here = "SIZE" /\ next = "LOGIN"
         \/ here = "GAME" /\ next = "GAME"
  PROVE  Good'
<1>1. /\ server = here /\ server' = next
      /\ UNCHANGED <<client, buffer, index, down, said, decoded, todo, got, asked, infos, orders,
                     overshot>>
  BY DEF ReadNumber
<1>2. /\ TypeOK /\ Idle /\ Understood /\ LoginBegun
      /\ Flows(client, Count, todo, got, said, decoded, down, Left(buffer, index), overshot)
  <2>1. server # "LOGIN"
    BY <1>1
  <2> QED BY <2>1, Started DEF UpInv
<1>3. up' \in Seq(Byte) /\ torn' \in BOOLEAN
  <2>1. PICK n \in 1 .. Len(up) : torn' = (n < 4) /\ up' = SubSeq(up, n + 1, Len(up))
    BY DEF ReadNumber
  <2>2. n \in Nat /\ n <= Len(up) /\ up \in Seq(Byte)
    BY <1>2 DEF TypeOK
  <2>3. SubSeq(up, n + 1, Len(up)) \in Seq(Byte)
    BY <2>2, Cut
  <2> QED BY <2>1, <2>3
<1>4. TypeOK'
  BY <1>1, <1>2, <1>3 DEF TypeOK
<1>5. Understood' /\ Idle'
  BY <1>1, <1>2 DEF Understood, Idle
<1>6. Count' = Count /\ Unsent' = Left(buffer, index)
  <2>1. CASE here = "COMMAND" /\ next = "PID"
    BY <1>1, <2>1, CountValues DEF Count, Unsent
  <2>2. CASE here = "PID" /\ next = "SIZE"
    BY <1>1, <2>2, CountValues DEF Count, Unsent
  <2>3. CASE here = "SIZE" /\ next = "LOGIN"
    <3>1. Left(buffer, index) = <<>>
      BY <1>1, <1>2, <2>3 DEF LoginBegun, Left
    <3> QED BY <1>1, <2>3, <3>1, CountValues DEF Count, Unsent
  <2>4. CASE here = "GAME" /\ next = "GAME"
    BY <1>1, <2>4, CountValues DEF Count, Unsent
  <2> QED BY <2>1, <2>2, <2>3, <2>4
<1>7. Flow'
  BY <1>1, <1>2, <1>6 DEF Flow
<1> QED BY <1>4, <1>5, <1>7 DEF Good

\* The server counts the login as a part of the first conversation
LEMMA NotInGame ==
  ASSUME IInv, ~torn, server = "LOGIN"
  PROVE  client # "GAME"
<1>1. Flows(client, Count, todo, got, said, decoded, down, Unsent, overshot) /\ Count \in Nat
  BY Started
<1>2. Count = 1
  BY CountValues DEF Count
<1>3. client = "GAME" => Count >= 4
  BY <1>1, FlowGame
<1> QED BY <1>2, <1>3

LEMMA ReadLoginGood ==
  ASSUME IInv, ~torn, ~overshot, ReadLogin, UpInv'
  PROVE  Good'
<1>1. /\ server = "LOGIN"
      /\ UNCHANGED <<client, down, said, decoded, todo, got, asked, infos, orders, torn, overshot>>
      /\ \/ server' = "LIST" /\ buffer' = <<>> /\ index' = 0
         \/ server' = "LOGIN"
  BY DEF ReadLogin, Rewound
<1>2. /\ TypeOK /\ Idle /\ Understood
      /\ Flows(client, Count, todo, got, said, decoded, down, Unsent, overshot)
  BY Started
<1>3. up' \in Seq(Byte) /\ LoginBegun'
  BY <1>1 DEF UpInv, Coming
<1>4. Count = 1 /\ Unsent = <<>>
  BY <1>1, CountValues DEF Count, Unsent
<1>5. /\ buffer' \in Seq(Byte) /\ index' \in Nat /\ index' <= Len(buffer')
      /\ buffer' = <<>> => index' = 0
      /\ Count' = 1 /\ Unsent' = <<>>
  <2>1. CASE server' = "LIST" /\ buffer' = <<>> /\ index' = 0
    <3>1. Left(<<>>, 0) = <<>> /\ <<>> \in Seq(Byte) /\ 0 <= Len(<<>>)
      BY Wide DEF Left
    <3>2. Unsent' = Left(buffer', index')
      BY <2>1 DEF Unsent
    <3>3. Count' = CountBy("LIST", buffer' = <<>>, infos')
      BY <2>1 DEF Count
    <3>4. Count' = 1
      BY <2>1, <3>3, CountValues
    <3> QED BY <2>1, <3>1, <3>2, <3>4
  <2>2. CASE server' = "LOGIN"
    <3>1. buffer' \in Seq(Byte) /\ Len(buffer') = index' /\ index' \in 0 .. Size - 1
      BY <2>2, <1>3 DEF LoginBegun
    <3>2. index' \in Nat /\ index' <= Len(buffer') /\ (buffer' = <<>> => index' = 0)
      BY <3>1, Sizes
    <3>3. Unsent' = <<>>
      BY <2>2 DEF Unsent
    <3>4. Count' = CountBy("LOGIN", buffer' = <<>>, infos')
      BY <2>2 DEF Count
    <3>5. Count' = 1
      BY <3>4, CountValues
    <3> QED BY <3>1, <3>2, <3>3, <3>5
  <2> QED BY <1>1, <2>1, <2>2
<1>6. TypeOK'
  BY <1>1, <1>2, <1>3, <1>5 DEF TypeOK
<1>7. Idle'
  BY <1>1, <1>2, <1>5 DEF Idle
<1>8. Understood'
  BY <1>1, <1>2 DEF Understood
<1>9. Flow'
  BY <1>1, <1>2, <1>4, <1>5 DEF Flow
<1> QED BY <1>6, <1>7, <1>8, <1>9 DEF Good

-----------------------------------------------------------------------------
(* The client.                                                             *)

LEMMA ClientGood ==
  ASSUME IInv, ~torn, UNCHANGED <<server, buffer, index, said, infos, overshot>>,
         torn' \in BOOLEAN, client' \in {"ROOMS", "LOBBY", "GAME"},
         orders' \in 0 .. Len(Orders), up' \in Seq(Byte),
         down' \in Seq(Wired), Len(down') <= Len(down),
         got' \in Seq(Byte), got' # <<>> => todo' # <<>> /\ Len(got') < Head(todo').bytes,
         torn' => decoded' = decoded,
         ~torn' => Flows(client', Count, todo', got', said, decoded', down', Unsent, overshot)
  PROVE  Good'
<1>1. TypeOK /\ Idle /\ Understood /\ Count \in Nat
  BY Started
<1>2. TypeOK'
  <2>1. Len(down') <= Capacity
    <3>1. Len(down) <= Capacity /\ Capacity \in Nat /\ Len(down) \in Nat /\ Len(down') \in Nat
      BY <1>1, WireAssumption, SMTT(40) DEF TypeOK, Wired
    <3> QED BY <3>1
  <2> QED BY <1>1, <2>1 DEF TypeOK, Wired
<1>3. Count' = Count /\ Unsent' = Unsent /\ Idle'
  BY <1>1 DEF Count, Unsent, Idle
<1>4. CASE torn'
  BY <1>1, <1>2, <1>4 DEF Good, Understood
<1>5. CASE ~torn'
  <2>1. Flows(client', Count, todo', got', said, decoded', down', Unsent, overshot)
    BY <1>5
  <2>2. IsPrefix(decoded', said)
    BY <2>1, <1>1, FlowUnderstood
  <2>3. Understood'
    BY <2>2 DEF Understood
  <2>4. Flow'
    BY <1>3, <2>1 DEF Flow
  <2> QED BY <1>2, <1>3, <2>3, <2>4 DEF Good
<1> QED BY <1>4, <1>5

LEMMA UnsentTyped == TypeOK => Unsent \in Seq(Wired)
<1>0. SUFFICES ASSUME TypeOK
               PROVE  Unsent \in Seq(Wired)
  OBVIOUS
<1>1. Left(buffer, index) \in Seq(Byte)
  <2>1. buffer \in Seq(Byte) /\ index \in Nat
    BY <1>0 DEF TypeOK
  <2> QED BY <2>1 DEF Left
<1>2. Unsent = <<>> \/ Unsent = Left(buffer, index)
  BY DEF Unsent
<1> QED BY <1>1, <1>2, Wide

LEMMA BytesToRead ==
  ASSUME NEW c, NEW m \in Nat, NEW T, NEW g, NEW S, NEW D, NEW d, NEW u, NEW o,
         Flows(c, m, T, g, S, D, d, u, o), T # <<>>
  PROVE  Head(T).bytes \in Nat
<1>1. PICK r, F, B : r \in Nat /\ Stands(r, m, T, g, F, B)
  BY DEF Flows
<1>2. \A f \in Formats : f.bytes \in Nat
  BY DEF Formats, Plain, uint32, uint32Pair, string, read_vector, Format
<1>3. CASE T \in Seq(Formats)
  <2>1. Head(T) \in Formats
    BY <1>3
  <2> QED BY <2>1, <1>2
<1>4. ASSUME NEW s \in Name, NEW U \in Seq(Formats), T = <<Letters(s)>> \o U
      PROVE  Head(T).bytes \in Nat
  <2>1. Head(T) = Letters(s)
    BY <1>4
  <2>2. Letters(s).bytes = Len(s) /\ Len(s) \in Nat
    BY DEF Letters, Format, Name
  <2> QED BY <2>1, <2>2
<1>5. CASE T = FormatsOf(r)
  <2>1. Head(T).bytes = 4
    BY <1>5 DEF FormatsOf, RoomsFormat, PlayersFormat, GameFormat, read_vector, Format
  <2> QED BY <2>1
<1> QED BY <1>1, <1>3, <1>4, <1>5 DEF Stands, Expected

LEMMA ReadSomeGood == IInv /\ ~torn /\ ReadSome => Good'
<1>0. SUFFICES ASSUME IInv, ~torn, ReadSome
               PROVE  Good'
  OBVIOUS
<1>1. /\ todo # <<>>
      /\ UNCHANGED <<server, client, buffer, index, up, said, asked, heard, infos, orders, torn,
                     overshot>>
  BY <1>0 DEF ReadSome, sides
<1>2. /\ TypeOK /\ Count \in Nat
      /\ Flows(client, Count, todo, got, said, decoded, down, Unsent, overshot)
  BY <1>0, Started
<1>3. /\ got \in Seq(Byte) /\ down \in Seq(Wired) /\ Len(down) \in Nat
      /\ client \in {"ROOMS", "LOBBY", "GAME"} /\ torn \in BOOLEAN
      /\ orders \in 0 .. Len(Orders) /\ up \in Seq(Byte)
  BY <1>2 DEF TypeOK, Wired
<1>4. Unsent \in Seq(Wired)
  BY <1>2, UnsentTyped
<1>5. PICK n \in Nat :
        LET format == Head(todo)
            b == got \o SubSeq(down, 1, n)
        IN  /\ n >= 1 /\ n <= format.bytes - Len(got) /\ n <= Len(down)
            /\ Junk \notin Range(SubSeq(down, 1, n))
            /\ down' = SubSeq(down, n + 1, Len(down))
            /\ IF Len(b) < format.bytes
               THEN got' = b /\ UNCHANGED <<todo, decoded>>
               ELSE /\ got' = <<>>
                    /\ todo' = Rest(format, b) \o Tail(todo)
                    /\ decoded' = decoded \o Fields(format, b)
  <2>1. PICK n \in 1 .. Head(todo).bytes - Len(got) :
          LET format == Head(todo)
              b == got \o SubSeq(down, 1, n)
          IN  /\ Arrived(n)
              /\ down' = SubSeq(down, n + 1, Len(down))
              /\ IF Len(b) < format.bytes
                 THEN got' = b /\ UNCHANGED <<todo, decoded>>
                 ELSE /\ got' = <<>>
                      /\ todo' = Rest(format, b) \o Tail(todo)
                      /\ decoded' = decoded \o Fields(format, b)
    BY <1>0 DEF ReadSome
  <2>2. Head(todo).bytes \in Nat /\ Len(got) \in Nat
    BY <1>1, <1>2, <1>3, BytesToRead
  <2>3. n \in Nat /\ n >= 1 /\ n <= Head(todo).bytes - Len(got)
    BY <2>1, <2>2
  <2> QED BY <2>1, <2>3 DEF Arrived
<1> DEFINE f == Head(todo)
           b == got \o SubSeq(down, 1, n)
           e == SubSeq(down, n + 1, Len(down))
<1>6. /\ b \in Seq(Byte) /\ e \in Seq(Wired) /\ Len(e) <= Len(down)
      /\ Len(b) < f.bytes => Flows(client, Count, todo, b, said, decoded, e, Unsent, overshot)
      /\ ~(Len(b) < f.bytes) =>
           Flows(client, Count, Rest(f, b) \o Tail(todo), <<>>, said, decoded \o Fields(f, b), e,
                 Unsent, overshot)
  <2>1. got \in Seq(Byte) /\ down \in Seq(Wired) /\ Unsent \in Seq(Wired) /\ Count \in Nat
        /\ n \in Nat
    BY <1>2, <1>3, <1>4, <1>5
  <2>2. /\ Flows(client, Count, todo, got, said, decoded, down, Unsent, overshot) /\ todo # <<>>
        /\ n >= 1 /\ n <= f.bytes - Len(got) /\ n <= Len(down)
        /\ Junk \notin Range(SubSeq(down, 1, n))
        /\ b = got \o SubSeq(down, 1, n) /\ e = SubSeq(down, n + 1, Len(down))
    BY <1>1, <1>2, <1>5
  <2> HIDE DEF b, e
  <2>3. /\ Flows(client, Count, todo, got, said, decoded, down, Unsent, overshot) /\ todo # <<>>
        /\ n >= 1 /\ n <= Head(todo).bytes - Len(got) /\ n <= Len(down)
        /\ Junk \notin Range(SubSeq(down, 1, n))
        /\ b = got \o SubSeq(down, 1, n) /\ e = SubSeq(down, n + 1, Len(down))
        => /\ b \in Seq(Byte) /\ e \in Seq(Wired) /\ Len(e) <= Len(down)
           /\ Len(b) < Head(todo).bytes =>
                Flows(client, Count, todo, b, said, decoded, e, Unsent, overshot)
           /\ ~(Len(b) < Head(todo).bytes) =>
                Flows(client, Count, Rest(Head(todo), b) \o Tail(todo), <<>>, said,
                      decoded \o Fields(Head(todo), b), e, Unsent, overshot)
    BY <2>1, FlowRead
  <2> QED BY <2>2, <2>3, Zenon
<1>7. /\ down' = e
      /\ Len(b) < f.bytes => got' = b /\ todo' = todo /\ decoded' = decoded
      /\ ~(Len(b) < f.bytes) => /\ got' = <<>>
                                /\ todo' = Rest(f, b) \o Tail(todo)
                                /\ decoded' = decoded \o Fields(f, b)
  BY <1>5
<1> HIDE DEF b, e, f
<1>8. /\ got' \in Seq(Byte) /\ (got' # <<>> => todo' # <<>> /\ Len(got') < Head(todo').bytes)
      /\ Flows(client, Count, todo', got', said, decoded', down', Unsent, overshot)
  <2>1. CASE Len(b) < f.bytes
    <3>1. got' \in Seq(Byte) /\ todo' # <<>> /\ Len(got') < Head(todo').bytes
      BY <2>1, <1>1, <1>6, <1>7 DEF f
    <3>2. Flows(client, Count, todo', got', said, decoded', down', Unsent, overshot)
      BY <2>1, <1>6, <1>7
    <3> QED BY <3>1, <3>2
  <2>2. CASE ~(Len(b) < f.bytes)
    <3>1. got' \in Seq(Byte) /\ got' = <<>>
      BY <2>2, <1>7, Wide
    <3>2. Flows(client, Count, todo', got', said, decoded', down', Unsent, overshot)
      BY <2>2, <1>6, <1>7
    <3> QED BY <3>1, <3>2
  <2> QED BY <2>1, <2>2
<1> QED BY <1>0, <1>1, <1>3, <1>6, <1>7, <1>8, ClientGood

LEMMA AskToJoinGood == IInv /\ ~torn /\ AskToJoin /\ UpInv' => Good'
<1>0. SUFFICES ASSUME IInv, ~torn, AskToJoin, UpInv'
               PROVE  Good'
  OBVIOUS
<1>1. /\ client = "ROOMS" /\ todo = <<>> /\ todo' = <<PlayersFormat>> /\ client' = "LOBBY"
      /\ UNCHANGED <<server, buffer, index, down, said, decoded, got, heard, infos, orders, torn,
                     overshot>>
  BY <1>0 DEF AskToJoin
<1>2. /\ TypeOK /\ Count \in Nat
      /\ Flows(client, Count, todo, got, said, decoded, down, Unsent, overshot)
  BY <1>0, Started
<1>3. got = <<>> /\ got' = <<>> /\ <<>> \in Seq(Byte)
  BY <1>1, <1>2, Wide DEF TypeOK
<1>4. Flows("LOBBY", Count, <<PlayersFormat>>, <<>>, said, decoded, down, Unsent, overshot)
  BY <1>1, <1>2, <1>3, FlowJoin
<1>5. up' \in Seq(Byte)
  BY <1>0, <1>1 DEF UpInv, Coming
<1>6. down \in Seq(Wired) /\ Len(down) <= Len(down) /\ orders \in 0 .. Len(Orders) /\ torn \in BOOLEAN
  BY <1>2 DEF TypeOK, Wired
<1> QED BY <1>0, <1>1, <1>3, <1>4, <1>5, <1>6, ClientGood

LEMMA ReadInfoGood == IInv /\ ~torn /\ ReadInfo => Good'
<1>0. SUFFICES ASSUME IInv, ~torn, ReadInfo
               PROVE  Good'
  OBVIOUS
<1>1. /\ client = "GAME" /\ todo = <<>> /\ todo' = GameFormat
      /\ UNCHANGED <<server, client, buffer, index, down, up, said, decoded, got, heard, infos,
                     orders, torn, overshot>>
  BY <1>0 DEF ReadInfo, sides
<1>2. /\ TypeOK /\ Count \in Nat
      /\ Flows(client, Count, todo, got, said, decoded, down, Unsent, overshot)
  BY <1>0, Started
<1>3. got = <<>> /\ got' = <<>> /\ <<>> \in Seq(Byte)
  BY <1>1, <1>2, Wide DEF TypeOK
<1>4. Flows("GAME", Count, GameFormat, <<>>, said, decoded, down, Unsent, overshot)
  BY <1>1, <1>2, <1>3, FlowInfo
<1>5. down \in Seq(Wired) /\ Len(down) <= Len(down) /\ orders \in 0 .. Len(Orders) /\ torn \in BOOLEAN
      /\ up \in Seq(Byte)
  BY <1>2 DEF TypeOK, Wired
<1> QED BY <1>0, <1>1, <1>3, <1>4, <1>5, ClientGood

LEMMA OrderGood == IInv /\ ~torn /\ Order /\ UpInv' => Good'
<1>0. SUFFICES ASSUME IInv, ~torn, Order, UpInv'
               PROVE  Good'
  OBVIOUS
<1>1. /\ client = "GAME" /\ todo = <<>> /\ orders < Len(Orders) /\ orders' = orders + 1
      /\ UNCHANGED <<server, client, buffer, index, down, said, decoded, todo, got, heard, infos,
                     torn, overshot>>
  BY <1>0 DEF Order, sides
<1>2. /\ TypeOK /\ Count \in Nat
      /\ Flows(client, Count, todo, got, said, decoded, down, Unsent, overshot)
  BY <1>0, Started
<1>3. got = <<>> /\ got' = <<>> /\ <<>> \in Seq(Byte)
  BY <1>1, <1>2, Wide DEF TypeOK
<1>4. down \in Seq(Wired) /\ Len(down) <= Len(down) /\ torn \in BOOLEAN
  BY <1>2 DEF TypeOK, Wired
<1>5. orders' \in 0 .. Len(Orders)
  <2>1. orders \in 0 .. Len(Orders) /\ Len(Orders) \in Nat
    BY <1>2, Sizes DEF TypeOK
  <2> QED BY <1>1, <2>1
<1>6. up' \in Seq(Byte)
  BY <1>0, <1>1 DEF UpInv, Coming
<1> QED BY <1>0, <1>1, <1>2, <1>3, <1>4, <1>5, <1>6, ClientGood

LEMMA ReadUpdateGood == IInv /\ ~torn /\ ReadUpdate => Good'
<1>0. SUFFICES ASSUME IInv, ~torn, ReadUpdate
               PROVE  Good'
  OBVIOUS
<1>1. /\ client = "LOBBY" /\ todo = <<>>
      /\ UNCHANGED <<server, buffer, index, up, said, got, asked, heard, infos, orders, overshot>>
  BY <1>0 DEF ReadUpdate
<1>2. /\ TypeOK /\ Count \in Nat
      /\ Flows(client, Count, todo, got, said, decoded, down, Unsent, overshot)
  BY <1>0, Started
<1>3. got = <<>> /\ got' = <<>> /\ <<>> \in Seq(Byte)
  BY <1>1, <1>2, Wide DEF TypeOK
<1>4. /\ down \in Seq(Wired) /\ Len(down) \in Nat /\ up \in Seq(Byte)
      /\ orders \in 0 .. Len(Orders)
  BY <1>2 DEF TypeOK, Wired
<1>5. Unsent \in Seq(Wired)
  BY <1>2, UnsentTyped
<1>6. PICK n \in 1 .. 4 :
        /\ n <= Len(down) /\ Junk \notin Range(SubSeq(down, 1, n))
        /\ down' = SubSeq(down, n + 1, Len(down))
        /\ torn' = (n < 4)
        /\ \/ n < 4 /\ UNCHANGED <<client, decoded, todo>>
           \/ /\ n = 4
              /\ read_uint32(SubSeq(down, 1, 4)) = START_GAME
              /\ decoded' = Append(decoded, Command("START_GAME"))
              /\ todo' = GameFormat
              /\ client' = "GAME"
           \/ /\ n = 4
              /\ read_uint32(SubSeq(down, 1, 4)) # START_GAME
              /\ decoded' = Append(decoded, Command("UPDATE_PLAYERS"))
              /\ todo' = <<PlayersFormat>>
              /\ UNCHANGED client
  BY <1>0 DEF ReadUpdate, Arrived
<1>7. down' \in Seq(Wired) /\ Len(down') <= Len(down)
  <2>1. n \in Nat /\ n <= Len(down)
    BY <1>6
  <2>2. down' \in Seq(Wired) /\ Len(down') = Len(down) - n
    BY <1>4, <1>6, <2>1, Cut
  <2> QED BY <1>4, <2>1, <2>2
<1>8. CASE n < 4
  <2>1. torn' = TRUE /\ UNCHANGED <<client, decoded, todo>>
    <3>1. n # 4
      BY <1>8
    <3>2. (n < 4) = TRUE
      BY <1>8
    <3> QED BY <3>1, <3>2, <1>6
  <2> QED BY <2>1, <1>0, <1>1, <1>3, <1>4, <1>7, ClientGood
<1>9. CASE n = 4
  <2> DEFINE b == SubSeq(down, 1, 4)
             e == SubSeq(down, 4 + 1, Len(down))
  <2>1. /\ 4 <= Len(down) /\ Junk \notin Range(SubSeq(down, 1, 4))
        /\ down' = e /\ torn' = FALSE
    <3>1. (4 < 4) = FALSE
      OBVIOUS
    <3> QED BY <3>1, <1>6, <1>9
  <2>2. decoded \in Seq(Field)
    BY <1>2 DEF Flows
  <2>3. \A x \in Field : Append(decoded, x) = decoded \o <<x>>
    BY <2>2
  <2>4. Command("UPDATE_PLAYERS") \in Field /\ Command("START_GAME") \in Field
    BY CommandRead
  <2>5. /\ read_uint32(b) = START_GAME =>
             Flows("GAME", Count, GameFormat, <<>>, said, decoded \o <<Command("START_GAME")>>, e,
                   Unsent, overshot)
        /\ read_uint32(b) # START_GAME =>
             Flows("LOBBY", Count, <<PlayersFormat>>, <<>>, said,
                   decoded \o <<Command("UPDATE_PLAYERS")>>, e, Unsent, overshot)
    <3>1. /\ Flows("LOBBY", Count, <<>>, <<>>, said, decoded, down, Unsent, overshot)
          /\ 4 <= Len(down) /\ Junk \notin Range(SubSeq(down, 1, 4))
          /\ b = SubSeq(down, 1, 4) /\ e = SubSeq(down, 4 + 1, Len(down))
      BY <1>1, <1>2, <1>3, <2>1
    <3>2. down \in Seq(Wired) /\ Unsent \in Seq(Wired) /\ Count \in Nat
      BY <1>2, <1>4, <1>5
    <3> HIDE DEF b, e
    <3> QED BY <3>1, <3>2, FlowCommand
  <2> HIDE DEF b, e
  <2>6. Flows(client', Count, todo', <<>>, said, decoded', down', Unsent, overshot)
        /\ client' \in {"ROOMS", "LOBBY", "GAME"}
    <3>1. CASE /\ read_uint32(b) = START_GAME
               /\ decoded' = Append(decoded, Command("START_GAME"))
               /\ todo' = GameFormat
               /\ client' = "GAME"
      <4>1. decoded' = decoded \o <<Command("START_GAME")>>
        BY <3>1, <2>3, <2>4
      <4> QED BY <3>1, <4>1, <2>1, <2>5
    <3>2. CASE /\ read_uint32(b) # START_GAME
               /\ decoded' = Append(decoded, Command("UPDATE_PLAYERS"))
               /\ todo' = <<PlayersFormat>>
               /\ UNCHANGED client
      <4>1. decoded' = decoded \o <<Command("UPDATE_PLAYERS")>>
        BY <3>2, <2>3, <2>4
      <4>2. client' = "LOBBY"
        BY <3>2, <1>1
      <4> QED BY <3>2, <4>1, <4>2, <2>1, <2>5
    <3>3. ~(n < 4)
      BY <1>9
    <3> QED BY <1>6, <3>1, <3>2, <3>3 DEF b
  <2> QED BY <2>1, <2>6, <1>0, <1>1, <1>3, <1>4, <1>7, ClientGood
<1>10. n < 4 \/ n = 4
  BY <1>6
<1> QED BY <1>8, <1>9, <1>10

-----------------------------------------------------------------------------
(* The session.                                                            *)

LEMMA InitFlow == Init => Flow
<1>0. SUFFICES ASSUME Init
               PROVE  Flow
  OBVIOUS
<1>1. /\ client = "ROOMS" /\ todo = <<RoomsFormat>> /\ got = <<>> /\ said = <<>> /\ decoded = <<>>
      /\ down = <<>> /\ buffer = <<>> /\ index = 0 /\ server = "ROOMS" /\ overshot = FALSE
  BY <1>0 DEF Init
<1>2. Count = 0
  <2>1. Count = CountBy("ROOMS", TRUE, infos)
    BY <1>1 DEF Count
  <2>2. CountBy("ROOMS", TRUE, infos) = 0
    BY DEF CountBy
  <2> QED BY <2>1, <2>2
<1>3. Unsent = <<>>
  BY <1>1 DEF Unsent, Left
<1>4. Place("ROOMS", 1) /\ <<>> \in Seq({Junk}) /\ <<>> \in Seq(Field) /\ 1 \in Nat
  BY DEF Place
<1>5. Stands(1, 0, <<RoomsFormat>>, <<>>, <<>>, <<>>)
  <2>1. FormatsOf(1) = <<RoomsFormat>>
    BY DEF FormatsOf
  <2> QED BY <2>1 DEF Stands
<1>6. Ahead(1, 0, <<>>) = <<>> /\ BytesAhead(1, 0, <<>>) = <<>>
  <2>1. Queue(1, 0) = <<>> /\ Bytes(Queue(1, 0)) = <<>>
    <3>1. 0 \in Nat /\ 1 \in Nat /\ 0 <= 1
      OBVIOUS
    <3> QED BY <3>1, LaterTyped
  <2> QED BY <2>1 DEF Ahead, BytesAhead
<1>7. Flows("ROOMS", 0, <<RoomsFormat>>, <<>>, <<>>, <<>>, <<>>, <<>>, FALSE)
  <2>1. /\ 1 \in Nat /\ <<>> \in Seq({Junk}) /\ (<<>> # <<>> => FALSE)
        /\ Place("ROOMS", 1) /\ Stands(1, 0, <<RoomsFormat>>, <<>>, <<>>, <<>>)
        /\ <<>> = <<>> \o Ahead(1, 0, <<>>)
        /\ (<<>> \o <<>>) \o <<>> = BytesAhead(1, 0, <<>>) \o <<>>
    BY <1>4, <1>5, <1>6
  <2> QED BY <2>1, <1>4, Zenon DEF Flows
<1> QED BY <1>1, <1>2, <1>3, <1>7 DEF Flow

LEMMA InitIInv == Init => IInv
<1>0. SUFFICES ASSUME Init
               PROVE  IInv
  OBVIOUS
<1>1. UpInv /\ Flow
  BY <1>0, InitUpInv, InitFlow
<1>2. TypeOK
  <2>1. <<>> \in Seq(Byte) /\ <<>> \in Seq(Byte \union {Junk}) /\ Len(<<>>) = 0
    OBVIOUS
  <2>2. 0 \in 0 .. Infos /\ 0 \in 0 .. Len(Orders) /\ 0 <= Capacity
    BY WireAssumption
  <2>3. /\ server \in {"ROOMS"} /\ client \in {"ROOMS"} /\ buffer = <<>> /\ index = 0
        /\ down = <<>> /\ up = <<>> /\ got = <<>> /\ infos = 0 /\ orders = 0
        /\ torn = FALSE /\ overshot = FALSE
    BY <1>0 DEF Init
  <2>4. /\ server \in {"ROOMS", "COMMAND", "PID", "SIZE", "LOGIN", "LIST", "UPDATE", "START", "GAME"}
        /\ client \in {"ROOMS", "LOBBY", "GAME"}
    BY <2>3
  <2>5. index \in Nat /\ index <= Len(buffer) /\ Len(down) <= Capacity
    BY <2>1, <2>2, <2>3
  <2>6. torn \in BOOLEAN /\ overshot \in BOOLEAN
    BY <2>3
  <2>7. buffer \in Seq(Byte) /\ down \in Seq(Byte \union {Junk}) /\ up \in Seq(Byte) /\ got \in Seq(Byte)
    BY <2>1, <2>3, Zenon
  <2>8. (got # <<>> => todo # <<>> /\ Len(got) < Head(todo).bytes)
    BY <2>3
  <2>9. infos \in 0 .. Infos /\ orders \in 0 .. Len(Orders)
    BY <2>2, <2>3
  <2> QED BY <2>4, <2>5, <2>6, <2>7, <2>8, <2>9, Zenon DEF TypeOK
<1>3. Understood
  BY <1>0 DEF Init, Understood, IsPrefix
<1>4. Idle
  BY <1>0 DEF Init, Idle
<1> QED BY <1>1, <1>2, <1>3, <1>4 DEF IInv, Good

LEMMA NextIInv == IInv /\ [Next]_vars => IInv'
<1>0. SUFFICES ASSUME IInv, [Next]_vars
               PROVE  IInv'
  OBVIOUS
<1>1. UpInv
  BY <1>0 DEF IInv, Good
<1>2. ASSUME UpInv', Good'
      PROVE  IInv'
  BY <1>2 DEF IInv, Good
<1>3. CASE Server
  <2>1. ~torn /\ ~overshot
    BY <1>3 DEF Server
  <2>2. CASE SendRooms \/ SendPlayers \/ SendUpdate \/ SendStart \/ SendInfo
    <3>1. UpInv'
      BY <1>1, <2>1, <2>2, SendUpInv
    <3>2. Good'
      BY <1>0, <2>1, <2>2, SendRoomsGood, SendPlayersGood, SendUpdateGood, SendStartGood,
         SendInfoGood
    <3> QED BY <1>2, <3>1, <3>2
  <2>3. ASSUME NEW here, NEW next, ReadNumber(here, next), UNCHANGED buffer,
               \/ here = "COMMAND" /\ next = "PID"
               \/ here = "PID" /\ next = "SIZE"
               \/ here = "SIZE" /\ next = "LOGIN"
               \/ here = "GAME" /\ next = "GAME"
        PROVE  IInv'
    BY <1>0, <1>1, <1>2, <2>1, <2>3, ReadNumberUpInv, ReadNumberGood
  <2>4. CASE ReadOrder
    <3>1. ReadNumber("GAME", "GAME") /\ UNCHANGED buffer
      BY <2>4 DEF ReadOrder
    <3> QED BY <2>3, <3>1
  <2>5. CASE ReadCommand \/ ReadPid \/ ReadLoginSize
    BY <2>3, <2>5 DEF ReadCommand, ReadPid, ReadLoginSize
  <2>6. CASE ReadLogin
    <3>1. server = "LOGIN"
      BY <2>6 DEF ReadLogin
    <3>2. UpInv'
      BY <1>0, <1>1, <2>1, <2>6, <3>1, NotInGame, ReadLoginUpInv
    <3>3. Good'
      BY <1>0, <2>1, <2>6, <3>2, ReadLoginGood
    <3> QED BY <1>2, <3>2, <3>3
  <2> QED BY <1>3, <2>2, <2>4, <2>5, <2>6 DEF Server
<1>4. CASE Client
  <2>1. ~torn
    BY <1>4 DEF Client
  <2>2. UpInv'
    BY <1>1, <1>4, ClientUpInv
  <2>3. Good'
    BY <1>0, <1>4, <2>1, <2>2, ReadSomeGood, AskToJoinGood, ReadUpdateGood, ReadInfoGood,
       OrderGood DEF Client
  <2> QED BY <1>2, <2>2, <2>3
<1>5. CASE UNCHANGED vars
  <2> USE DEF vars, sides
  <2>1. UpInv'
    BY <1>1, <1>5 DEF UpInv, Asking, Numbered, LoginBegun, Coming, Sent, Taken
  <2>2. Good'
    <3>1. TypeOK'
      BY <1>0, <1>5 DEF IInv, Good, TypeOK
    <3>2. Understood'
      BY <1>0, <1>5 DEF IInv, Good, Understood
    <3>3. torn' = torn /\ (Idle => Idle') /\ (Flow => Flow')
      BY <1>5 DEF Idle, Flow, Count, Unsent
    <3> QED BY <1>0, <3>1, <3>2, <3>3 DEF IInv, Good
  <2> QED BY <1>2, <2>1, <2>2
<1> QED BY <1>0, <1>3, <1>4, <1>5 DEF Next

LEMMA IInvHolds == Spec => []IInv
BY InitIInv, NextIInv, PTL DEF Spec

(***************************************************************************)
(* The variables keep their types: what is on the way never exceeds its    *)
(* room, read_buffer never has more than the bytes it was asked for, and   *)
(* operation_index stays within the buffer until a write overshoots.       *)
(***************************************************************************)
THEOREM TypeCorrect == Spec => []TypeOK
<1>1. IInv => TypeOK
  BY DEF IInv, Good
<1> QED BY <1>1, IInvHolds, PTL

(***************************************************************************)
(* Whatever the lists, the logins and the map are, and however SendBuffers *)
(* and read_buffer cut them, what the client's read_vector, read_string    *)
(* and read_uint32 decode is what WriteBuffer and WriteCommand encoded, in *)
(* its order; until a single write of a command is torn or a resumed one   *)
(* overshoots, and of what came before that.                               *)
(***************************************************************************)
THEOREM ClientUnderstands == Spec => []Understood
<1>1. IInv => Understood
  BY DEF IInv, Good
<1> QED BY <1>1, IInvHolds, PTL

\* What the server has is the beginning of what the client wrote
LEMMA AskingHeard == Asking => Heard
<1>0. SUFFICES ASSUME Asking
               PROVE  Heard
  OBVIOUS
<1>1. /\ heard \in Seq(AskedFields) /\ asked \in Seq(AskedFields)
      /\ Len(heard) \in Nat /\ Len(asked) \in Nat /\ Len(heard) <= Len(asked)
      /\ \A i \in 1 .. Len(heard) : heard[i] = AskedField(i)
      /\ \A i \in 1 .. Len(asked) : asked[i] = AskedField(i)
  BY <1>0 DEF Asking
<1>2. \A i \in 1 .. Len(heard) : asked[i] = heard[i]
  BY <1>1
<1> DEFINE n == Len(heard)
           h == SubSeq(asked, 1, n)
<1>3. SubSeq(heard, 1, Len(heard)) = heard
  BY <1>1, Whole
<1>4. n \in Nat /\ n <= Len(asked)
  BY <1>1
<1>5. h \in Seq(AskedFields) /\ Len(h) = n /\ \A i \in 1 .. n : h[i] = asked[i]
  BY <1>1, <1>4, Cut
<1>6. h = heard
  <2> HIDE DEF h
  <2>1. h \in Seq(AskedFields) /\ heard \in Seq(AskedFields) /\ Len(h) = Len(heard)
        /\ \A i \in 1 .. Len(h) : h[i] = heard[i]
    BY <1>1, <1>2, <1>5
  <2> QED BY <2>1, Same
<1> QED BY <1>1, <1>3, <1>6 DEF Heard, IsPrefix

(***************************************************************************)
(* Whatever the login is, and in whatever pieces ReadLogin gets it, the    *)
(* server has the command, the room, the login and the orders as the       *)
(* client wrote them, in their order: no byte of a message is taken for    *)
(* one of the next.  A number that ReadCommand or read_uint32 tears ends   *)
(* this.                                                                   *)
(***************************************************************************)
THEOREM ServerHears == Spec => []Heard
<1>1. IInv => Heard
  BY AskingHeard DEF IInv, UpInv
<1> QED BY <1>1, IInvHolds, PTL
=============================================================================
