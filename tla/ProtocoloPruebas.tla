-------------------------- MODULE ProtocoloPruebas --------------------------
(***************************************************************************)
(* Lemmas about the numbers and the buffers of Protocolo.                  *)
(***************************************************************************)
EXTENDS Protocolo, WellFoundedInduction, SequenceTheorems, TLAPS

\* Induction, over the elements of a set.
LEMMA Induccion ==
    ASSUME NEW S, NEW n \in Nat, 0 \in S,
           \A i \in 0 .. n - 1 : i \in S => i + 1 \in S
    PROVE  \A i \in 0 .. n : i \in S
<1> DEFINE R == OpToRel(<, Nat)
           Falta == (0 .. n) \ S
<1> SUFFICES ASSUME Falta # {} PROVE FALSE
  OBVIOUS
<1>1. IsWellFoundedOn(R, Nat)
  BY NatLessThanWellFounded
<1>2. Falta \subseteq Nat
  OBVIOUS
<1> HIDE DEF R, Falta
<1>3. PICK f \in Falta : \A g \in Falta : ~(<<g, f>> \in R)
  BY <1>1, <1>2, WFMin
<1>4. \A g \in Falta : ~(g < f)
  <2> SUFFICES ASSUME NEW g \in Falta, g < f PROVE FALSE
    OBVIOUS
  <2>1. <<g, f>> \in R
    BY <1>2 DEF R, OpToRel
  <2> QED
    BY <1>3, <2>1
<1>5. f \in 0 .. n /\ f \notin S /\ f # 0
  BY DEF Falta
<1>6. f - 1 \in 0 .. n - 1 /\ f - 1 \notin Falta
  BY <1>4, <1>5, <1>2
<1> QED
  BY <1>5, <1>6 DEF Falta

\* A function defined from its value at the number before exists.
LEMMA Recursion ==
    ASSUME NEW a \in Nat, NEW n \in Nat, NEW h \in [1 .. n -> [Nat -> Nat]]
    PROVE  \E f \in [0 .. n -> Nat] : f[0] = a /\ \A i \in 1 .. n : f[i] = h[i][f[i - 1]]
<1> DEFINE S == {k \in 0 .. n : \E f \in [0 .. k -> Nat] :
                    f[0] = a /\ \A i \in 1 .. k : f[i] = h[i][f[i - 1]]}
<1>1. 0 \in S
  <2> DEFINE f == [i \in 0 .. 0 |-> a]
  <2>1. f \in [0 .. 0 -> Nat] /\ f[0] = a /\ \A i \in 1 .. 0 : f[i] = h[i][f[i - 1]]
    OBVIOUS
  <2> HIDE DEF f
  <2> QED
    BY <2>1
<1>2. \A k \in 0 .. n - 1 : k \in S => k + 1 \in S
  <2> SUFFICES ASSUME NEW k \in 0 .. n - 1, NEW f \in [0 .. k -> Nat], f[0] = a,
                      \A i \in 1 .. k : f[i] = h[i][f[i - 1]]
               PROVE  k + 1 \in S
    OBVIOUS
  <2> DEFINE z == h[k + 1][f[k]]
             g == [i \in 0 .. k + 1 |-> IF i <= k THEN f[i] ELSE z]
  <2>1. k + 1 \in 1 .. n /\ k \in 0 .. k
    OBVIOUS
  <2>2. h[k + 1] \in [Nat -> Nat]
    BY <2>1
  <2>3. f[k] \in Nat
    BY <2>1
  <2>4. z \in Nat
    BY <2>2, <2>3
  <2> HIDE DEF z
  <2>5. g \in [0 .. k + 1 -> Nat]
    BY <2>4
  <2>6. g[0] = a /\ \A i \in 0 .. k : g[i] = f[i]
    OBVIOUS
  <2>7. g[k + 1] = z
    OBVIOUS
  <2> HIDE DEF g
  <2>8. \A i \in 1 .. k + 1 : g[i] = h[i][g[i - 1]]
    <3> TAKE i \in 1 .. k + 1
    <3>1. CASE i = k + 1
      <4>1. i - 1 = k
        BY <3>1
      <4>2. g[i - 1] = f[k]
        BY <2>1, <2>6, <4>1
      <4> QED
        BY <2>7, <3>1, <4>2 DEF z
    <3>2. CASE i # k + 1
      <4>1. i \in 1 .. k /\ i \in 0 .. k /\ i - 1 \in 0 .. k
        BY <3>2
      <4>2. g[i] = f[i] /\ g[i - 1] = f[i - 1]
        BY <2>6, <4>1
      <4> QED
        BY <4>1, <4>2
    <3> QED
      BY <3>1, <3>2
  <2>9. g[0] = a /\ k + 1 \in 0 .. n
    BY <2>6
  <2>10. \E e \in [0 .. k + 1 -> Nat] : e[0] = a /\ \A i \in 1 .. k + 1 : e[i] = h[i][e[i - 1]]
    BY <2>5, <2>8, <2>9, Zenon
  <2> QED
    BY <2>9, <2>10, Zenon
<1>3. n \in S
  <2> HIDE DEF S
  <2>1. \A k \in 0 .. n : k \in S
    BY <1>1, <1>2, Induccion
  <2> QED
    BY <2>1
<1> QED
  BY <1>3

\* A number is its quotient by another, and the remainder.
LEMMA Division ==
    ASSUME NEW a \in Nat, NEW b \in Nat, b > 0
    PROVE  a \div b \in Nat /\ a % b \in 0 .. b - 1 /\ a = b * (a \div b) + (a % b)
<1> DEFINE S == {x \in Nat : \E q, r \in Nat : r < b /\ x = b * q + r}
<1>1. 0 \in S
  BY 0 = b * 0 + 0
<1>2. \A i \in 0 .. a - 1 : i \in S => i + 1 \in S
  <2> SUFFICES ASSUME NEW i \in 0 .. a - 1, NEW q \in Nat, NEW r \in Nat, r < b,
                      i = b * q + r
               PROVE  i + 1 \in S
    OBVIOUS
  <2>1. CASE r + 1 < b
    BY <2>1, i + 1 = b * q + (r + 1)
  <2>2. CASE r + 1 = b
    <3>1. i + 1 = b * q + b
      BY <2>2
    <3>2. b * (q + 1) = b * q + b
      OBVIOUS
    <3>3. i + 1 = b * (q + 1) + 0
      BY <3>1, <3>2
    <3>4. q + 1 \in Nat /\ i + 1 \in Nat
      OBVIOUS
    <3> QED
      BY <3>3, <3>4
  <2> QED
    BY <2>1, <2>2
<1>3. a \in S
  <2> HIDE DEF S
  <2> QED
    BY <1>1, <1>2, Induccion
<1>4. PICK q \in Nat, r \in Nat : r < b /\ a = b * q + r
  BY <1>3
<1>5. a \div b = q /\ a % b = r
  BY <1>4
<1>6. a = b * (a \div b) + (a % b)
  BY <1>4, <1>5, Zenon
<1>7. q \in Nat /\ r \in 0 .. b - 1
  BY <1>4
<1> QED
  BY <1>5, <1>6, <1>7, Zenon

\* What Peso is.
LEMMA PesoDef ==
    /\ Peso \in [0 .. Ancho -> Nat \ {0}] /\ Peso[0] = 1
    /\ \A i \in 1 .. Ancho : Peso[i] = Base * Peso[i - 1]
<1> DEFINE A == Nat \ {0}
           h == [i \in 1 .. Ancho |-> [x \in Nat |-> Base * x]]
<1>1. h \in [1 .. Ancho -> [Nat -> Nat]]
  BY Anchos
<1>2. PICK f \in [0 .. Ancho -> Nat] : f[0] = 1 /\ \A i \in 1 .. Ancho : f[i] = h[i][f[i - 1]]
  <2>1. 1 \in Nat /\ Ancho \in Nat
    BY Anchos
  <2> HIDE DEF h
  <2> QED
    BY <1>1, <2>1, Recursion, ZenonT(30)
<1>3. \A i \in 1 .. Ancho : f[i] = Base * f[i - 1]
  <2> TAKE i \in 1 .. Ancho
  <2>1. i - 1 \in 0 .. Ancho
    BY Anchos
  <2> QED
    BY <1>2, <2>1
<1>4. f = [i \in 0 .. Ancho |-> IF i = 0 THEN 1 ELSE Base * f[i - 1]]
  <2>1. f = [i \in 0 .. Ancho |-> f[i]]
    OBVIOUS
  <2>2. \A i \in 0 .. Ancho : f[i] = IF i = 0 THEN 1 ELSE Base * f[i - 1]
    <3> TAKE i \in 0 .. Ancho
    <3>1. CASE i = 0
      BY <1>2, <3>1
    <3>2. CASE i # 0
      <4>1. i \in 1 .. Ancho
        BY <3>2, Anchos
      <4> QED
        BY <1>3, <3>2, <4>1, Zenon
    <3> QED
      BY <3>1, <3>2
  <2> QED
    BY <2>1, <2>2, Zenon
<1>5. Peso = [i \in 0 .. Ancho |-> IF i = 0 THEN 1 ELSE Base * Peso[i - 1]]
  BY <1>4 DEF Peso
<1>6. Peso[0] = 1 /\ \A i \in 1 .. Ancho : Peso[i] = Base * Peso[i - 1]
  <2> DEFINE G(i) == IF i = 0 THEN 1 ELSE Base * Peso[i - 1]
  <2>1. \A i \in 0 .. Ancho : Peso[i] = G(i)
    <3> HIDE DEF G
    <3>1. Peso = [i \in 0 .. Ancho |-> G(i)]
      BY <1>5 DEF G
    <3> QED
      BY <3>1, Zenon
  <2> QED
    BY <2>1, Anchos
<1>7. DOMAIN Peso = 0 .. Ancho
  BY <1>5
<1> DEFINE S == {i \in 0 .. Ancho : Peso[i] \in A}
<1>8. \A i \in 0 .. Ancho : i \in S
  <2>1. 0 \in S
    BY <1>6, Anchos
  <2>2. \A i \in 0 .. Ancho - 1 : i \in S => i + 1 \in S
    <3> SUFFICES ASSUME NEW i \in 0 .. Ancho - 1, Peso[i] \in A PROVE Peso[i + 1] \in A
      BY Anchos
    <3>1. Peso[i + 1] = Base * Peso[i]
      BY <1>6, Anchos
    <3> QED
      BY <3>1, Anchos
  <2> HIDE DEF S
  <2> QED
    BY <2>1, <2>2, Induccion, Anchos
<1> QED
  BY <1>5, <1>6, <1>7, <1>8

\* The greatest number that fits is some number of bytes away (protocolo.h:11-16).
LEMMA LimiteForma == Limite \in Nat /\ Limite > 0 /\ Ancho \in Nat /\ Ancho > 0
BY PesoDef, Anchos DEF Limite

\* A quotient of a quotient is the quotient by the product.
LEMMA DivisionDoble ==
    ASSUME NEW a \in Nat, NEW b \in Nat, b > 0, NEW c \in Nat, c > 0
    PROVE  a \div (c * b) = (a \div b) \div c
<1> DEFINE q == a \div b
           r == a % b
           p == q \div c
           d == q % c
<1>1. q \in Nat /\ r \in Nat /\ r < b /\ a = b * q + r
  BY Division
<1>2. p \in Nat /\ d \in Nat /\ d + 1 <= c /\ q = c * p + d
  BY <1>1, Division
<1> HIDE DEF q, r, p, d
<1>3. b * q = (c * b) * p + b * d
  <2>1. b * q = b * (c * p) + b * d
    BY <1>1, <1>2
  <2>2. b * (c * p) = (c * b) * p
    BY <1>2
  <2> QED
    BY <2>1, <2>2, <1>1, <1>2
<1>4. b * d + r \in Nat /\ b * d + r < c * b
  <2>1. b * d + b = b * (d + 1)
    BY <1>2
  <2>2. b * (d + 1) <= b * c
    BY <1>2
  <2> QED
    BY <2>1, <2>2, <1>1, <1>2
<1>5. a = (c * b) * p + (b * d + r)
  BY <1>1, <1>2, <1>3
<1>6. c * b \in Nat /\ c * b > 0
  OBVIOUS
<1>7. \A x, y, z, w \in Nat : y > 0 /\ w < y /\ x = y * z + w => x \div y = z
  OBVIOUS
<1>8. a \div (c * b) = p
  <2> DEFINE y == c * b
             w == b * d + r
  <2>1. y \in Nat /\ y > 0 /\ w \in Nat /\ w < y /\ a = y * p + w
    BY <1>4, <1>5, <1>6
  <2> HIDE DEF y, w
  <2>2. a \div y = p
    BY <1>2, <1>7, <2>1
  <2> QED
    BY <2>2 DEF y
<1> QED
  BY <1>8 DEF p, q

\* A number is written in Ancho bytes (protocolo.c:30-34).
LEMMA EnBytesForma ==
    ASSUME NEW v \in Nat
    PROVE  /\ EnBytes(v) \in [1 .. Ancho -> Byte] /\ EnBytes(v) \in Seq(Byte)
           /\ Len(EnBytes(v)) = Ancho
<1>1. \A i \in 1 .. Ancho : (v \div Peso[i - 1]) % Base \in Byte
  <2> TAKE i \in 1 .. Ancho
  <2>1. Peso[i - 1] \in Nat /\ Peso[i - 1] > 0
    BY PesoDef, Anchos
  <2>2. v \div Peso[i - 1] \in Nat
    BY <2>1, Division
  <2> QED
    BY <2>2, Division, Anchos DEF Byte
<1>2. EnBytes(v) \in [1 .. Ancho -> Byte]
  BY <1>1 DEF EnBytes
<1> QED
  BY <1>2, Anchos

\* The bytes of a number, added with their weights.
LEMMA ValorDef ==
    ASSUME NEW n \in Nat, n <= Ancho, NEW bytes \in [1 .. n -> Byte]
    PROVE  \E s \in [0 .. n -> Nat] :
              /\ s[0] = 0 /\ \A i \in 1 .. n : s[i] = s[i - 1] + bytes[i] * Peso[i - 1]
              /\ Valor(bytes) = s[n]
<1> DEFINE h == [i \in 1 .. n |-> [x \in Nat |-> x + bytes[i] * Peso[i - 1]]]
<1>0. Len(bytes) = n /\ n \in Nat
  BY Anchos
<1>1. \A i \in 1 .. n : i - 1 \in 0 .. n /\ bytes[i] \in Nat /\ Peso[i - 1] \in Nat
  BY PesoDef, Anchos, SMTT(30) DEF Byte
<1>2. \A i \in 1 .. n : bytes[i] * Peso[i - 1] \in Nat
  BY <1>1
<1>3. h \in [1 .. n -> [Nat -> Nat]]
  BY <1>2
<1>4a. \E f \in [0 .. n -> Nat] : f[0] = 0 /\ \A i \in 1 .. n : f[i] = h[i][f[i - 1]]
  <2>1. 0 \in Nat
    OBVIOUS
  <2> HIDE DEF h
  <2> QED
    BY <1>3, <2>1, Recursion, ZenonT(30)
<1>4. PICK f \in [0 .. n -> Nat] : f[0] = 0 /\ \A i \in 1 .. n : f[i] = h[i][f[i - 1]]
  BY <1>4a
<1>5. \A i \in 1 .. n : f[i] = f[i - 1] + bytes[i] * Peso[i - 1]
  <2> TAKE i \in 1 .. n
  <2>1. f[i - 1] \in Nat
    BY <1>1
  <2> QED
    BY <1>4, <2>1
<1> DEFINE G(g, i) == IF i = 0 THEN 0 ELSE g[i - 1] + bytes[i] * Peso[i - 1]
           suma == CHOOSE g : g = [i \in 0 .. n |-> G(g, i)]
<1>6. f = [i \in 0 .. n |-> G(f, i)]
  <2>1. f = [i \in 0 .. n |-> f[i]]
    OBVIOUS
  <2>2. \A i \in 0 .. n : f[i] = G(f, i)
    <3> TAKE i \in 0 .. n
    <3>1. CASE i = 0
      BY <1>4, <3>1
    <3>2. CASE i # 0
      <4>1. i \in 1 .. n
        BY <3>2, <1>0
      <4> QED
        BY <1>5, <3>2, <4>1, Zenon
    <3> QED
      BY <3>1, <3>2
  <2> HIDE DEF G
  <2> QED
    BY <2>1, <2>2, Zenon
<1>7. suma = [i \in 0 .. n |-> G(suma, i)]
  <2> HIDE DEF G
  <2> QED
    BY <1>6
<1>8. \A i \in 0 .. n : suma[i] = G(suma, i)
  <2> HIDE DEF G, suma
  <2> QED
    BY <1>7, Zenon
<1>9. DOMAIN suma = 0 .. n
  <2> HIDE DEF G
  <2> QED
    BY <1>7
<1>10. suma[0] = 0 /\ \A i \in 1 .. n : suma[i] = suma[i - 1] + bytes[i] * Peso[i - 1]
  <2> HIDE DEF suma
  <2> QED
    BY <1>0, <1>8
<1>11. Valor(bytes) = suma[n]
  <2>1. ~\E i \in 1 .. n : bytes[i] = Basura
    BY <1>1, Anchos
  <2> QED
    BY <1>0, <2>1 DEF Valor
<1>12. suma \in [0 .. n -> Nat]
  <2> HIDE DEF suma
  <2> DEFINE S == {i \in 0 .. n : suma[i] \in Nat}
  <2>1. 0 \in S
    BY <1>0, <1>10
  <2>2. \A i \in 0 .. n - 1 : i \in S => i + 1 \in S
    <3> SUFFICES ASSUME NEW i \in 0 .. n - 1, suma[i] \in Nat PROVE suma[i + 1] \in Nat
      BY <1>0
    <3>1. i + 1 \in 1 .. n /\ (i + 1) - 1 = i
      BY <1>0
    <3>2. bytes[i + 1] * Peso[i] \in Nat
      BY <1>2, <3>1
    <3>3. suma[i + 1] = suma[i] + bytes[i + 1] * Peso[i]
      BY <1>10, <3>1
    <3> QED
      BY <3>2, <3>3
  <2>3. \A i \in 0 .. n : i \in S
    <3> HIDE DEF S
    <3> QED
      BY <1>0, <2>1, <2>2, Induccion
  <2>4. suma = [i \in 0 .. n |-> suma[i]]
    <3> HIDE DEF G
    <3> QED
      BY <1>7, <1>9
  <2> QED
    BY <1>9, <2>3, <2>4
<1> QED
  <2> HIDE DEF suma
  <2> QED
    BY <1>10, <1>11, <1>12

\* Bytes stand for a number.
LEMMA ValorNumero ==
    ASSUME NEW n \in Nat, n <= Ancho, NEW bytes \in [1 .. n -> Byte]
    PROVE  Valor(bytes) \in Nat
<1>1. PICK s \in [0 .. n -> Nat] : Valor(bytes) = s[n]
  BY ValorDef
<1> QED
  BY <1>1, Anchos

\* Bytes stand for a number, or for an unknown one.
LEMMA ValorForma ==
    ASSUME NEW n \in Nat, n <= Ancho, NEW bytes \in [1 .. n -> Byte \cup {Basura}]
    PROVE  Valor(bytes) \in Nat \cup {Basura}
<1>1. CASE bytes \in [1 .. n -> Byte]
  BY <1>1, ValorNumero
<1>2. CASE bytes \notin [1 .. n -> Byte]
  <2>1. \E i \in 1 .. n : bytes[i] = Basura
    BY <1>2
  <2>2. Len(bytes) = n
    BY Anchos
  <2> QED
    BY <2>1, <2>2 DEF Valor
<1> QED
  BY <1>1, <1>2

\* A number that fits is read back from its bytes (protocolo.c:30-34, 64-78).
THEOREM IdaYVueltaDeNumeros ==
    ASSUME NEW v \in 0 .. Limite - 1
    PROVE  Valor(EnBytes(v)) = v
<1> DEFINE b == EnBytes(v)
<1>0. v \in Nat /\ Ancho \in Nat /\ Ancho \in 0 .. Ancho /\ Limite = Peso[Ancho]
  BY PesoDef, Anchos DEF Limite
<1>1. b \in [1 .. Ancho -> Byte] /\ \A i \in 1 .. Ancho : b[i] = (v \div Peso[i - 1]) % Base
  BY <1>0, EnBytesForma DEF EnBytes
<1> HIDE DEF b
<1>2. PICK s \in [0 .. Ancho -> Nat] :
          /\ s[0] = 0 /\ \A i \in 1 .. Ancho : s[i] = s[i - 1] + b[i] * Peso[i - 1]
          /\ Valor(b) = s[Ancho]
  BY <1>0, <1>1, ValorDef, Ancho <= Ancho
<1> DEFINE S == {i \in 0 .. Ancho : v = s[i] + Peso[i] * (v \div Peso[i])}
<1>3. 0 \in S
  <2>1. v \div 1 = v
    BY <1>0
  <2> QED
    BY <1>0, <1>2, <2>1, PesoDef
<1>4. \A i \in 0 .. Ancho - 1 : i \in S => i + 1 \in S
  <2> SUFFICES ASSUME NEW i \in 0 .. Ancho - 1, v = s[i] + Peso[i] * (v \div Peso[i])
               PROVE  v = s[i + 1] + Peso[i + 1] * (v \div Peso[i + 1])
    BY <1>0
  <2> DEFINE P == Peso[i]
             q == v \div P
             d == q % Base
             c == q \div Base
  <2>1. i \in 0 .. Ancho /\ i + 1 \in 1 .. Ancho /\ (i + 1) - 1 = i
    BY <1>0
  <2>2. P \in Nat /\ P > 0 /\ Peso[i + 1] = Base * P
    BY <2>1, PesoDef
  <2>3. s[i + 1] = s[i] + d * P /\ s[i] \in Nat
    BY <1>1, <1>2, <2>1
  <2>4. q \in Nat
    BY <1>0, <2>2, Division
  <2>5. c \in Nat /\ d \in Nat /\ q = Base * c + d
    <3>1. \A x \in Nat : x \div Base \in Nat /\ x % Base \in Nat
                         /\ x = Base * (x \div Base) + (x % Base)
      BY Division, Anchos, SMTT(30)
    <3> HIDE DEF q
    <3> QED
      BY <2>4, <3>1
  <2>6. v \div Peso[i + 1] = c
    <3>1. \A x \in Nat : x > 0 => v \div (Base * x) = (v \div x) \div Base
      BY <1>0, DivisionDoble, Anchos
    <3> HIDE DEF P
    <3> QED
      BY <2>2, <3>1
  <2>7. v = s[i] + P * q
    OBVIOUS
  <2> HIDE DEF P, q, d, c
  <2>8. P * q = (Base * P) * c + d * P
    <3>1. P * q = P * (Base * c) + P * d
      BY <2>2, <2>5, Anchos
    <3>2. P * (Base * c) = (Base * P) * c
      BY <2>2, <2>5, Anchos
    <3> QED
      BY <3>1, <3>2, <2>2, <2>5, Anchos
  <2> DEFINE x == (Base * P) * c
             y == d * P
  <2>9. x \in Nat /\ y \in Nat
    BY <2>2, <2>5, Anchos
  <2>10. v = s[i] + (x + y) /\ s[i + 1] = s[i] + y
    BY <2>3, <2>7, <2>8
  <2> HIDE DEF x, y
  <2>11. v = s[i + 1] + x
    BY <2>3, <2>9, <2>10
  <2> QED
    BY <2>2, <2>6, <2>11 DEF x
<1>5. Ancho \in S
  <2> HIDE DEF S
  <2>1. \A i \in 0 .. Ancho : i \in S
    BY <1>0, <1>3, <1>4, Induccion
  <2> QED
    BY <1>0, <2>1
<1>6. v \div Limite = 0
  <2>1. \A x, y \in Nat : x < y => x \div y = 0
    OBVIOUS
  <2>2. Limite \in Nat /\ v < Limite
    BY <1>0, PesoDef
  <2> QED
    BY <1>0, <2>1, <2>2
<1>7. v = s[Ancho]
  BY <1>0, <1>2, <1>5, <1>6, PesoDef
<1> QED
  BY <1>2, <1>7 DEF b

-----------------------------------------------------------------------------
(* Numbers one after the other *)

\* The bytes are those of the numbers, in order.
Escrito(bytes, numeros) ==
    /\ Len(bytes) = Ancho * Len(numeros)
    /\ \A j \in 1 .. Len(numeros), i \in 1 .. Ancho :
          bytes[Ancho * (j - 1) + i] = EnBytes(numeros[j])[i]

\* The place of a byte of a number among the others.
LEMMA Lugar ==
    ASSUME NEW n \in Nat, NEW j \in 1 .. n
    PROVE  /\ Ancho * (j - 1) \in Nat /\ Ancho * (j - 1) + Ancho = Ancho * j
           /\ Ancho * j <= Ancho * n /\ Ancho * n \in Nat
           /\ Ancho * ((j + 1) - 1) = Ancho * (j - 1) + Ancho
<1>1. Ancho \in Nat /\ Ancho > 0
  BY Anchos
<1>2. Ancho * (j - 1) + Ancho = Ancho * j
  BY <1>1
<1>3. Ancho * (n - j) \in Nat /\ Ancho * n = Ancho * (n - j) + Ancho * j
  <2>1. n - j \in Nat
    OBVIOUS
  <2>2. Ancho * ((n - j) + j) = Ancho * (n - j) + Ancho * j
    BY <1>1
  <2>3. (n - j) + j = n
    OBVIOUS
  <2> QED
    BY <1>1, <2>1, <2>2, <2>3
<1>4. Ancho * j \in Nat /\ Ancho * n \in Nat /\ Ancho * (j - 1) \in Nat
  <2>1. j - 1 \in Nat /\ j \in Nat
    OBVIOUS
  <2> QED
    BY <1>1, <2>1
<1>5. (j + 1) - 1 = j
  OBVIOUS
<1> QED
  BY <1>1, <1>2, <1>3, <1>4, <1>5

\* What is left after the first n bytes, when they are in the first of two parts.
LEMMA QuitarDelPrimero ==
    ASSUME NEW S, NEW s \in Seq(S), NEW t \in Seq(S), NEW n \in 0 .. Len(s)
    PROVE  SubSeq(s \o t, n + 1, Len(s \o t)) = SubSeq(s, n + 1, Len(s)) \o t
<1> DEFINE q == s \o t
           r == SubSeq(s, n + 1, Len(s))
           a == SubSeq(q, n + 1, Len(q))
           b == r \o t
<1>0. Len(s) \in Nat /\ Len(t) \in Nat
  OBVIOUS
<1>1. /\ q \in Seq(S) /\ Len(q) = Len(s) + Len(t)
      /\ \A k \in 1 .. Len(s) + Len(t) : q[k] = IF k <= Len(s) THEN s[k] ELSE t[k - Len(s)]
  BY ConcatProperties
<1>2. /\ r \in Seq(S) /\ Len(r) = Len(s) - n
      /\ \A k \in 1 .. Len(s) - n : r[k] = s[n + k]
  OBVIOUS
<1> HIDE DEF q, r
<1>3. /\ a \in Seq(S) /\ Len(a) = Len(q) - n
      /\ \A k \in 1 .. Len(q) - n : a[k] = q[n + k]
  BY <1>0, <1>1
<1>4. /\ b \in Seq(S) /\ Len(b) = Len(r) + Len(t)
      /\ \A k \in 1 .. Len(r) + Len(t) : b[k] = IF k <= Len(r) THEN r[k] ELSE t[k - Len(r)]
  BY <1>2, ConcatProperties
<1> HIDE DEF a, b
<1>5. Len(a) = Len(b)
  BY <1>0, <1>1, <1>2, <1>3, <1>4
<1>6. ASSUME NEW k \in 1 .. Len(a) PROVE a[k] = b[k]
  <2>1. /\ k \in 1 .. Len(q) - n /\ n + k \in 1 .. Len(s) + Len(t)
        /\ k \in 1 .. Len(r) + Len(t)
    BY <1>0, <1>1, <1>2, <1>3
  <2>2. a[k] = IF n + k <= Len(s) THEN s[n + k] ELSE t[(n + k) - Len(s)]
    BY <1>1, <1>3, <2>1
  <2>3. CASE n + k <= Len(s)
    <3>1. k \in 1 .. Len(s) - n /\ k <= Len(r)
      BY <1>0, <1>2, <2>1, <2>3
    <3> QED
      BY <1>2, <1>4, <2>1, <2>2, <2>3, <3>1
  <2>4. CASE ~(n + k <= Len(s))
    <3>1. ~(k <= Len(r)) /\ k - Len(r) = (n + k) - Len(s)
      BY <1>0, <1>2, <2>1, <2>4
    <3> QED
      BY <1>4, <2>1, <2>2, <2>4, <3>1
  <2> QED
    BY <2>3, <2>4
<1> QED
  BY <1>3, <1>4, <1>5, <1>6, SeqEqual DEF a, b, q, r

\* A number more.
LEMMA EscritoAgrega ==
    ASSUME NEW bytes \in Seq(Byte), NEW numeros \in Seq(Nat), NEW v \in Nat,
           Escrito(bytes, numeros)
    PROVE  Escrito(bytes \o EnBytes(v), Append(numeros, v))
<1> DEFINE n == Len(numeros)
           mas == Append(numeros, v)
           q == bytes \o EnBytes(v)
<1>1. EnBytes(v) \in Seq(Byte) /\ Len(EnBytes(v)) = Ancho
  BY EnBytesForma
<1>2. n \in Nat /\ Len(bytes) = Ancho * n
  BY DEF Escrito
<1>3. /\ Len(mas) = n + 1 /\ mas[n + 1] = v
      /\ \A j \in 1 .. n : mas[j] = numeros[j]
  OBVIOUS
<1>4. /\ Len(q) = Len(bytes) + Ancho
      /\ \A k \in 1 .. Len(bytes) : q[k] = bytes[k]
      /\ \A i \in 1 .. Ancho : q[Len(bytes) + i] = EnBytes(v)[i]
  <2>1. PICK e \in Seq(Byte) : e = EnBytes(v) /\ Len(e) = Ancho
    BY <1>1
  <2>2. /\ Len(bytes \o e) = Len(bytes) + Len(e)
        /\ \A k \in 1 .. Len(bytes) : (bytes \o e)[k] = bytes[k]
        /\ \A i \in 1 .. Len(e) : (bytes \o e)[Len(bytes) + i] = e[i]
    BY SMTT(30)
  <2> QED
    BY <2>1, <2>2
<1> HIDE DEF n, mas, q
<1>5. Len(q) = Ancho * (n + 1) /\ Ancho * ((n + 1) - 1) = Len(bytes)
  <2>1. n + 1 \in 1 .. n + 1 /\ n + 1 \in Nat /\ (n + 1) - 1 = n
    BY <1>2
  <2> QED
    BY <1>2, <1>4, <2>1, Lugar
<1>6. ASSUME NEW j \in 1 .. n + 1, NEW i \in 1 .. Ancho
      PROVE  q[Ancho * (j - 1) + i] = EnBytes(mas[j])[i]
  <2>1. CASE j = n + 1
    BY <1>3, <1>4, <1>5, <2>1
  <2>2. CASE j # n + 1
    <3>1. j \in 1 .. n
      BY <1>2, <2>2
    <3>2. Ancho * (j - 1) + i \in 1 .. Len(bytes)
      BY <1>2, <3>1, Lugar, Anchos
    <3>3. bytes[Ancho * (j - 1) + i] = EnBytes(numeros[j])[i]
      BY <3>1 DEF Escrito, n
    <3> QED
      BY <1>3, <1>4, <3>1, <3>2, <3>3
  <2> QED
    BY <2>1, <2>2
<1> QED
  BY <1>3, <1>5, <1>6 DEF Escrito, mas, q

\* The first number is the first bytes, and the others are the rest.
LEMMA EscritoQuita ==
    ASSUME NEW bytes \in Seq(Byte), NEW numeros \in Seq(Nat), numeros # <<>>,
           Escrito(bytes, numeros)
    PROVE  /\ Len(bytes) >= Ancho
           /\ \A i \in 1 .. Ancho : bytes[i] = EnBytes(numeros[1])[i]
           /\ Escrito(SubSeq(bytes, Ancho + 1, Len(bytes)), Tail(numeros))
<1> DEFINE n == Len(numeros)
           q == SubSeq(bytes, Ancho + 1, Len(bytes))
           t == Tail(numeros)
<1>1. n \in Nat /\ n > 0 /\ Len(bytes) = Ancho * n /\ Ancho \in Nat
  BY Anchos DEF Escrito
<1>2. Len(t) = n - 1 /\ \A j \in 1 .. n - 1 : t[j] = numeros[j + 1]
  OBVIOUS
<1>3. Ancho * (1 - 1) = 0 /\ Len(bytes) >= Ancho
  <2>1. 1 \in 1 .. n
    BY <1>1
  <2>2. Ancho * (1 - 1) + Ancho <= Ancho * n
    BY <1>1, <2>1, Lugar
  <2>3. Ancho * (1 - 1) = 0
    BY <1>1
  <2> QED
    BY <1>1, <2>2, <2>3
<1>4. /\ Len(q) = Len(bytes) - Ancho
      /\ \A k \in 1 .. Len(bytes) - Ancho : q[k] = bytes[Ancho + k]
  BY <1>1, <1>3
<1>5. \A i \in 1 .. Ancho : bytes[i] = EnBytes(numeros[1])[i]
  <2> TAKE i \in 1 .. Ancho
  <2>1. 1 \in 1 .. n
    BY <1>1
  <2>2. bytes[Ancho * (1 - 1) + i] = EnBytes(numeros[1])[i]
    BY <2>1 DEF Escrito
  <2>3. Ancho * (1 - 1) + i = i
    BY <1>3
  <2> QED
    BY <2>2, <2>3
<1>6. Len(q) = Ancho * Len(t)
  <2>1. Ancho * n = Ancho * (n - 1) + Ancho
    <3>1. n \in 1 .. n
      BY <1>1
    <3> HIDE DEF n
    <3> QED
      BY <1>1, <3>1, Lugar
  <2>2. Ancho * (n - 1) \in Nat
    <3>1. n - 1 \in Nat
      BY <1>1
    <3> HIDE DEF n
    <3> QED
      BY <1>1, <3>1
  <2> QED
    BY <1>1, <1>2, <1>4, <2>1, <2>2
<1>7. ASSUME NEW j \in 1 .. Len(t), NEW i \in 1 .. Ancho
      PROVE  q[Ancho * (j - 1) + i] = EnBytes(t[j])[i]
  <2>1. j \in 1 .. n - 1 /\ j + 1 \in 1 .. n /\ j \in 1 .. n
    BY <1>1, <1>2
  <2>2. bytes[Ancho * ((j + 1) - 1) + i] = EnBytes(numeros[j + 1])[i]
    BY <2>1 DEF Escrito
  <2>3. /\ Ancho * ((j + 1) - 1) + i = Ancho + (Ancho * (j - 1) + i)
        /\ Ancho * (j - 1) \in Nat
    <3> HIDE DEF n
    <3> QED
      BY <1>1, <2>1, Lugar
  <2>4. Ancho * (j - 1) + i \in 1 .. Len(bytes) - Ancho
    <3>1. Ancho * (j - 1) + Ancho <= Ancho * Len(t)
      <4>1. Len(t) \in Nat
        BY <1>1, <1>2
      <4> HIDE DEF t
      <4> QED
        BY <4>1, Lugar
    <3> DEFINE x == Ancho * (j - 1)
    <3>2. x \in Nat /\ x + Ancho <= Len(bytes) - Ancho /\ Len(bytes) \in Nat
      <4> HIDE DEF q, t, n
      <4> QED
        BY <1>4, <1>6, <2>3, <3>1
    <3>3. i \in 1 .. Ancho /\ Ancho \in Nat
      BY Anchos
    <3> HIDE DEF x
    <3>4. x + i \in 1 .. Len(bytes) - Ancho
      BY <3>2, <3>3
    <3> QED
      BY <3>4 DEF x
  <2> HIDE DEF q, t
  <2> QED
    BY <1>2, <1>4, <2>1, <2>2, <2>3, <2>4
<1> QED
  BY <1>3, <1>5, <1>6, <1>7 DEF Escrito

-----------------------------------------------------------------------------
(* Buffers *)

\* A buffer whose block has been filled with some bytes, from its start.
Bloque(bytes) == [k \in 0 .. Len(bytes) - 1 |-> bytes[k + 1]]
Lleno(size, offset, bytes) == [size |-> size, offset |-> offset, stream |-> Bloque(bytes)]

\* Some bytes are among others, from a place on.
Tiene(bytes, lugar, parte) ==
    /\ lugar + Len(parte) <= Len(bytes)
    /\ \A i \in 1 .. Len(parte) : bytes[lugar + i] = parte[i]

\* A new buffer has nothing (protocolo.c:7-13).
LEMMA CrearForma ==
    ASSUME NEW z \in Nat, z < Limite
    PROVE  CrearBuffer(z) = Lleno(z, 0, <<>>)
<1>1. z % Limite = z
  <2>1. Limite \in Nat /\ Limite > 0
    BY PesoDef, Anchos DEF Limite
  <2>2. \A x, y \in Nat : y > 0 /\ x < y => x % y = x
    OBVIOUS
  <2> QED
    BY <2>1, <2>2
<1>2. Bloque(<<>>) = <<>>
  BY DEF Bloque
<1> QED
  BY <1>1, <1>2 DEF CrearBuffer, Lleno

\* memcpy after what the block has (protocolo.c:23-27).
LEMMA CopiarForma ==
    ASSUME NEW z, NEW s \in Seq(Byte), NEW d \in Seq(Byte)
    PROVE  /\ Copiar(Lleno(z, Len(s), s), d) = Lleno(z, Len(s), s \o d)
           /\ BufferAdd(Lleno(z, Len(s), s), d) = Lleno(z, Len(s \o d), s \o d)
<1> DEFINE b == Lleno(z, Len(s), s)
           q == s \o d
           destino == Len(s) .. Len(s) + Len(d) - 1
           t == [k \in DOMAIN b.stream \cup destino |->
                    IF k \in destino THEN d[k - Len(s) + 1] ELSE b.stream[k]]
<1>1. Len(s) \in Nat /\ Len(d) \in Nat
  OBVIOUS
<1>2. /\ q \in Seq(Byte) /\ Len(q) = Len(s) + Len(d)
      /\ \A i \in 1 .. Len(s) + Len(d) : q[i] = IF i <= Len(s) THEN s[i] ELSE d[i - Len(s)]
  BY ConcatProperties
<1>3. /\ b.offset = Len(s) /\ b.size = z /\ DOMAIN b.stream = 0 .. Len(s) - 1
      /\ \A k \in 0 .. Len(s) - 1 : b.stream[k] = s[k + 1]
  BY DEF Lleno, Bloque
<1> HIDE DEF q
<1>4. t = Bloque(q)
  <2>1. DOMAIN b.stream \cup destino = 0 .. Len(q) - 1
    BY <1>1, <1>2, <1>3
  <2>2. \A k \in 0 .. Len(q) - 1 :
           (IF k \in destino THEN d[k - Len(s) + 1] ELSE b.stream[k]) = q[k + 1]
    <3> TAKE k \in 0 .. Len(q) - 1
    <3>1. k + 1 \in 1 .. Len(s) + Len(d)
      BY <1>1, <1>2
    <3>2. CASE k \in destino
      <4>1. ~(k + 1 <= Len(s)) /\ (k + 1) - Len(s) = k - Len(s) + 1
        BY <1>1, <3>2
      <4> QED
        BY <1>2, <3>1, <3>2, <4>1
    <3>3. CASE k \notin destino
      <4>1. k \in 0 .. Len(s) - 1 /\ k + 1 <= Len(s)
        BY <1>1, <1>2, <3>3
      <4> QED
        BY <1>2, <1>3, <3>1, <3>3, <4>1
    <3> QED
      BY <3>2, <3>3
  <2> HIDE DEF b, destino
  <2> QED
    BY <2>1, <2>2 DEF Bloque
<1>5. Copiar(b, d) = [b EXCEPT !.stream = t]
  BY <1>3 DEF Copiar
<1>6. [b EXCEPT !.stream = t] = Lleno(z, Len(s), q)
  <2> HIDE DEF t
  <2> QED
    BY <1>4 DEF Lleno
<1>7. Copiar(b, d) = Lleno(z, Len(s), q)
  BY <1>5, <1>6
<1>8. BufferAdd(b, d) = Lleno(z, Len(q), q)
  <2> HIDE DEF b
  <2> QED
    BY <1>1, <1>2, <1>7 DEF BufferAdd, Lleno
<1> QED
  BY <1>7, <1>8 DEF q

\* A number of one byte and a number of Ancho (protocolo.c:30-41).
LEMMA SumarNumeros ==
    ASSUME NEW z, NEW s \in Seq(Byte), NEW v \in Nat
    PROVE  /\ BufferAddUint32(Lleno(z, Len(s), s), v)
                = Lleno(z, Len(s \o EnBytes(v)), s \o EnBytes(v))
           /\ BufferAddUint8(Lleno(z, Len(s), s), v)
                = Lleno(z, Len(s \o <<v % Base>>), s \o <<v % Base>>)
<1>1. EnBytes(v) \in Seq(Byte)
  BY EnBytesForma
<1>2. v % Base \in Byte
  BY Division, Anchos DEF Byte
<1>3. <<v % Base>> \in Seq(Byte)
  BY <1>2
<1> QED
  BY <1>1, <1>3, CopiarForma DEF BufferAddUint32, BufferAddUint8

\* A string, with its length and its sentinel (protocolo.c:44-54).
LEMMA SumarCadena ==
    ASSUME NEW z, NEW s \in Seq(Byte), NEW t \in Seq(Byte), NEW v \in Nat
    PROVE  BufferAddString(Lleno(z, Len(s), s), v, t)
              = Lleno(z, Len(s \o EnBytes(v)), (s \o EnBytes(v)) \o Append(t, 0))
<1> DEFINE q == s \o EnBytes(v)
           c == Append(t, 0)
<1>1. q \in Seq(Byte)
  BY EnBytesForma, ConcatProperties
<1>2. c \in Seq(Byte)
  <2>1. 0 \in Byte
    BY Anchos DEF Byte
  <2> QED
    BY <2>1
<1>3. BufferAddUint32(Lleno(z, Len(s), s), v) = Lleno(z, Len(q), q)
  BY SumarNumeros
<1> HIDE DEF q, c
<1>4. Copiar(Lleno(z, Len(q), q), c) = Lleno(z, Len(q), q \o c)
  BY <1>1, <1>2, CopiarForma
<1> QED
  BY <1>3, <1>4 DEF BufferAddString, q, c

\* What is among some bytes is among them and more, and what is added at their end.
LEMMA TieneMas ==
    ASSUME NEW s \in Seq(Byte), NEW d \in Seq(Byte)
    PROVE  /\ Tiene(s \o d, Len(s), d)
           /\ \A o \in Nat, p \in Seq(Byte) : Tiene(s, o, p) => Tiene(s \o d, o, p)
<1> DEFINE q == s \o d
<1>1. Len(s) \in Nat /\ Len(d) \in Nat
  OBVIOUS
<1>2. /\ Len(q) = Len(s) + Len(d)
      /\ \A i \in 1 .. Len(s) + Len(d) : q[i] = IF i <= Len(s) THEN s[i] ELSE d[i - Len(s)]
  BY ConcatProperties
<1> HIDE DEF q
<1>3. Tiene(q, Len(s), d)
  <2>1. \A i \in 1 .. Len(d) : q[Len(s) + i] = d[i]
    <3> TAKE i \in 1 .. Len(d)
    <3>1. Len(s) + i \in 1 .. Len(s) + Len(d) /\ ~(Len(s) + i <= Len(s))
          /\ (Len(s) + i) - Len(s) = i
      BY <1>1
    <3> QED
      BY <1>2, <3>1
  <2> QED
    BY <1>1, <1>2, <2>1 DEF Tiene
<1>4. ASSUME NEW o \in Nat, NEW p \in Seq(Byte), Tiene(s, o, p) PROVE Tiene(q, o, p)
  <2>1. Len(p) \in Nat /\ o + Len(p) <= Len(s)
    BY <1>4 DEF Tiene
  <2>2. \A i \in 1 .. Len(p) : q[o + i] = p[i]
    <3> TAKE i \in 1 .. Len(p)
    <3>1. o + i \in 1 .. Len(s) + Len(d) /\ o + i <= Len(s)
      BY <1>1, <2>1
    <3> QED
      BY <1>2, <1>4, <3>1 DEF Tiene
  <2> QED
    BY <1>1, <1>2, <2>1, <2>2 DEF Tiene
<1> QED
  BY <1>3, <1>4 DEF q

\* What is read from a place is what the block has there (protocolo.c:57-61).
LEMMA LeerForma ==
    ASSUME NEW z, NEW o \in Nat, NEW s \in Seq(Byte), NEW p \in Seq(Byte), Tiene(s, o, p)
    PROVE  Leer(Lleno(z, o, s), Len(p)) = p
<1>1. Len(s) \in Nat /\ Len(p) \in Nat /\ o + Len(p) <= Len(s)
  BY DEF Tiene
<1>2. \A i \in 1 .. Len(p) : En(Lleno(z, o, s), o + i - 1) = p[i]
  <2> TAKE i \in 1 .. Len(p)
  <2>1. o + i - 1 \in 0 .. Len(s) - 1 /\ (o + i - 1) + 1 = o + i
    BY <1>1
  <2>2. En(Lleno(z, o, s), o + i - 1) = s[o + i]
    BY <2>1 DEF En, Lleno, Bloque
  <2> QED
    BY <2>2 DEF Tiene
<1>3. Leer(Lleno(z, o, s), Len(p)) = [i \in 1 .. Len(p) |-> En(Lleno(z, o, s), o + i - 1)]
  BY DEF Leer, Lleno
<1>4. p = [i \in 1 .. Len(p) |-> p[i]]
  OBVIOUS
<1> QED
  BY <1>2, <1>3, <1>4

\* A number of Ancho bytes is read as it was written (protocolo.c:72-78).
LEMMA LeerNumero ==
    ASSUME NEW z, NEW o \in Nat, NEW s \in Seq(Byte), NEW v \in 0 .. Limite - 1,
           Tiene(s, o, EnBytes(v))
    PROVE  BufferReadUint32(Lleno(z, o, s)) = v
<1>0. v \in Nat
  BY PesoDef, Anchos DEF Limite
<1>1. EnBytes(v) \in Seq(Byte) /\ Len(EnBytes(v)) = Ancho
  BY <1>0, EnBytesForma
<1>2. Leer(Lleno(z, o, s), Len(EnBytes(v))) = EnBytes(v)
  BY <1>1, LeerForma
<1> QED
  BY <1>1, <1>2, IdaYVueltaDeNumeros DEF BufferReadUint32

\* One byte (protocolo.c:81-95).
LEMMA LeerByte ==
    ASSUME NEW z, NEW o \in Nat, NEW s \in Seq(Byte), NEW v \in Byte, Tiene(s, o, <<v>>)
    PROVE  BufferReadUint8(Lleno(z, o, s)) = v
<1>1. <<v>> \in Seq(Byte) /\ Len(<<v>>) = 1
  OBVIOUS
<1>2. Leer(Lleno(z, o, s), 1) = <<v>>
  BY <1>1, LeerForma
<1>3. Valor(<<v>>) = v
  <2> DEFINE b == <<v>>
  <2>1. 1 \in Nat /\ 1 <= Ancho /\ b \in [1 .. 1 -> Byte] /\ b[1] = v /\ v \in Nat
    BY Anchos DEF Byte
  <2> HIDE DEF b
  <2>2. PICK f \in [0 .. 1 -> Nat] :
          /\ f[0] = 0 /\ \A i \in 1 .. 1 : f[i] = f[i - 1] + b[i] * Peso[i - 1]
          /\ Valor(b) = f[1]
    BY <2>1, ValorDef
  <2>3. f[1] = f[0] + b[1] * Peso[0]
    BY <2>2
  <2>4. f[1] = v
    BY <2>1, <2>2, <2>3, PesoDef
  <2> QED
    BY <2>2, <2>4 DEF b
<1> QED
  BY <1>2, <1>3 DEF BufferReadUint8

\* The string and its length are read as they were written, when no byte of the
\* string is the sentinel (protocolo.c:98-125).
LEMMA LeerCadena ==
    ASSUME NEW o \in Nat, NEW s \in Seq(Byte), NEW t \in Seq(Byte \ {0}), Len(t) < Limite,
           Tiene(s, o, EnBytes(Len(t))), Tiene(s, o + Ancho, Append(t, 0))
    PROVE  BufferReadString(Lleno(Len(s), o, s)) = [longitud |-> Len(t), texto |-> t]
<1> DEFINE n == Len(t)
           p == o + Ancho
           c == Append(t, 0)
           resto == Lleno(Len(s), p, s)
<1>1. /\ n \in Nat /\ p \in Nat /\ Len(s) \in Nat /\ Len(c) = n + 1
      /\ c[n + 1] = 0 /\ \A i \in 1 .. n : c[i] = t[i]
  BY Anchos
<1>2. /\ p + n + 1 <= Len(s) /\ s[p + n + 1] = 0
      /\ \A i \in 1 .. n : s[p + i] = t[i] /\ t[i] \in Byte /\ t[i] # 0
  <2>1. p + (n + 1) <= Len(s) /\ \A i \in 1 .. n + 1 : s[p + i] = c[i]
    BY <1>1 DEF Tiene
  <2>2. n + 1 \in 1 .. n + 1 /\ \A i \in 1 .. n : i \in 1 .. n + 1
    BY <1>1
  <2>3. s[p + (n + 1)] = 0 /\ p + (n + 1) = p + n + 1
    BY <1>1, <2>1, <2>2, SMTT(30)
  <2>4. \A i \in 1 .. n : t[i] \in Byte \ {0}
    OBVIOUS
  <2> HIDE DEF n, p, c
  <2> QED
    BY <1>1, <2>1, <2>2, <2>3, <2>4
<1>3. t \in Seq(Byte)
  OBVIOUS
<1>4. Tiene(s, p, t)
  BY <1>1, <1>2 DEF Tiene
<1>5. BufferReadUint32(Lleno(Len(s), o, s)) = n
  <2>1. n \in 0 .. Limite - 1
    BY <1>1, LimiteForma
  <2> QED
    BY <2>1, LeerNumero
<1>6. Avanzar(Lleno(Len(s), o, s), Ancho) = resto
  BY DEF Avanzar, Lleno
<1>7. Leer(resto, n) = t
  BY <1>1, <1>3, <1>4, LeerForma
<1> HIDE DEF n, p, c
<1>8. resto.offset = p /\ resto.size = Len(s)
  BY DEF Lleno
<1>9. DOMAIN resto.stream = 0 .. Len(s) - 1 /\ \A k \in 0 .. Len(s) - 1 : resto.stream[k] = s[k + 1]
  BY DEF Lleno, Bloque
<1> HIDE DEF resto
<1>10. Cadena(resto, n + 1) = t
  <2> DEFINE ceros == {k \in DOMAIN resto.stream :
                        k \in resto.offset .. resto.offset + (n + 1) - 1 /\ resto.stream[k] = 0}
             fin   == CHOOSE k \in ceros : \A j \in ceros : k <= j
             bytes == Leer(resto, fin - resto.offset)
  <2>1. p + n \in ceros
    BY <1>1, <1>2, <1>8, <1>9
  <2>2. ASSUME NEW k \in ceros PROVE k = p + n
    <3>1. k \in 0 .. Len(s) - 1 /\ k \in p .. p + n /\ s[k + 1] = 0
      BY <1>1, <1>8, <1>9
    <3>2. SUFFICES ASSUME k # p + n PROVE FALSE
      OBVIOUS
    <3>3. PICK i \in 1 .. n : p + i = k + 1
      <4>1. (k + 1) - p \in 1 .. n /\ p + ((k + 1) - p) = k + 1
        BY <1>1, <3>1, <3>2
      <4> QED
        BY <4>1
    <3> QED
      BY <1>2, <3>1, <3>3
  <2>3. fin = p + n
    <3>1. p + n \in ceros /\ \A j \in ceros : p + n <= j
      BY <1>1, <2>1, <2>2
    <3>2. fin \in ceros
      <4> HIDE DEF ceros
      <4> QED
        BY <3>1
    <3> QED
      BY <2>2, <3>2
  <2>4. fin - resto.offset = n
    <3> HIDE DEF fin
    <3> QED
      BY <1>1, <1>8, <2>3
  <2>5. bytes = t
    BY <1>7, <2>4
  <2>6. \A i \in DOMAIN t : t[i] # Basura
    <3>1. \A i \in DOMAIN t : t[i] \in Byte
      BY <1>3
    <3> QED
      BY <3>1, Anchos DEF Byte
  <2>7. Cadena(resto, n + 1) =
          IF ceros = {} \/ \E i \in DOMAIN bytes : bytes[i] = Basura THEN Basura ELSE bytes
    BY Zenon DEF Cadena
  <2>8. ceros # {}
    BY <2>1
  <2> HIDE DEF ceros, fin, bytes
  <2> QED
    BY <2>5, <2>6, <2>7, <2>8
<1>11. n # Basura /\ ~(resto.offset + n >= resto.size)
  BY <1>1, <1>2, <1>8, Anchos
<1>12. BufferReadString(Lleno(Len(s), o, s)) = [longitud |-> n, texto |-> t]
  <2> DEFINE b == Lleno(Len(s), o, s)
             r == Avanzar(b, Ancho)
             m == BufferReadUint32(b)
  <2>1. BufferReadString(b) =
          [longitud |-> m,
           texto    |-> IF m = Basura \/ r.offset + m >= b.size THEN Basura ELSE Cadena(r, m + 1)]
    BY Zenon DEF BufferReadString
  <2>2. b.size = resto.size
    BY <1>8 DEF Lleno
  <2> HIDE DEF b
  <2>3. r = resto /\ m = n
    BY <1>5, <1>6 DEF b
  <2> HIDE DEF r, m
  <2> QED
    BY <1>10, <1>11, <2>1, <2>2, <2>3 DEF b
<1> QED
  BY <1>12 DEF n

-----------------------------------------------------------------------------
(* Blocks being filled *)

\* A string whose block has a size that fits in its field, be it a persona's.
Corta(t) == t \in Seq(Byte \ {0}) /\ 3 * Ancho + Len(t) + 2 < Limite

\* The bytes of a number, of a byte and of a string with its sentinel.
LEMMA Partes ==
    /\ \A v \in Nat : EnBytes(v) \in Seq(Byte) /\ Len(EnBytes(v)) = Ancho
    /\ \A v \in Byte : <<v % Base>> = <<v>> /\ <<v>> \in Seq(Byte) /\ Len(<<v>>) = 1
    /\ \A t \in Seq(Byte \ {0}) :
          /\ t \in Seq(Byte) /\ Len(t) \in Nat
          /\ Append(t, 0) \in Seq(Byte) /\ Len(Append(t, 0)) = Len(t) + 1
<1>1. \A v \in Nat : EnBytes(v) \in Seq(Byte) /\ Len(EnBytes(v)) = Ancho
  BY EnBytesForma
<1>2. ASSUME NEW v \in Byte PROVE <<v % Base>> = <<v>> /\ <<v>> \in Seq(Byte) /\ Len(<<v>>) = 1
  <2>1. \A x, y \in Nat : y > 0 /\ x < y => x % y = x
    OBVIOUS
  <2>2. v \in Nat /\ v < Base
    BY Anchos DEF Byte
  <2>3. v % Base = v
    BY <2>1, <2>2, Anchos
  <2> QED
    BY <2>3
<1>3. ASSUME NEW t \in Seq(Byte \ {0})
      PROVE  /\ t \in Seq(Byte) /\ Len(t) \in Nat
             /\ Append(t, 0) \in Seq(Byte) /\ Len(Append(t, 0)) = Len(t) + 1
  <2>1. 0 \in Byte
    BY Anchos DEF Byte
  <2> QED
    BY <2>1
<1> QED
  BY <1>1, <1>2, <1>3

\* Bytes after others, and a string, with its length and its sentinel, after others.
Tras(s, d)     == s \o d
ConTexto(s, t) == Tras(Tras(s, EnBytes(Len(t))), Append(t, 0))

\* What was in a block is still there.
Conserva(q, s) == \A o \in Nat, p \in Seq(Byte) : Tiene(s, o, p) => Tiene(q, o, p)

\* A block starts with nothing (protocolo.c:7-13).
LEMMA Creado ==
    ASSUME NEW z \in Nat, z < Limite
    PROVE  \E s \in Seq(Byte) : Len(s) = 0 /\ CrearBuffer(z) = Lleno(z, Len(s), s)
<1>1. <<>> \in Seq(Byte) /\ Len(<<>>) = 0
  OBVIOUS
<1> QED
  BY <1>1, CrearForma

\* What is added to a block follows what it has, and leaves it (protocolo.c:23-27).
LEMMA Sumado ==
    ASSUME NEW s \in Seq(Byte), NEW d \in Seq(Byte), NEW z
    PROVE  /\ Tras(s, d) \in Seq(Byte) /\ Len(Tras(s, d)) = Len(s) + Len(d)
           /\ Tiene(Tras(s, d), Len(s), d) /\ Conserva(Tras(s, d), s)
           /\ BufferAdd(Lleno(z, Len(s), s), d) = Lleno(z, Len(Tras(s, d)), Tras(s, d))
BY TieneMas, ConcatProperties, CopiarForma DEF Tras, Conserva

\* A number (protocolo.c:30-34).
LEMMA ConNumero ==
    ASSUME NEW s \in Seq(Byte), NEW v \in Nat, NEW z
    PROVE  /\ Tras(s, EnBytes(v)) \in Seq(Byte) /\ Len(Tras(s, EnBytes(v))) = Len(s) + Ancho
           /\ Tiene(Tras(s, EnBytes(v)), Len(s), EnBytes(v)) /\ Conserva(Tras(s, EnBytes(v)), s)
           /\ BufferAdd(Lleno(z, Len(s), s), EnBytes(v))
                 = Lleno(z, Len(Tras(s, EnBytes(v))), Tras(s, EnBytes(v)))
           /\ BufferAddUint32(Lleno(z, Len(s), s), v)
                 = Lleno(z, Len(Tras(s, EnBytes(v))), Tras(s, EnBytes(v)))
<1> DEFINE d == EnBytes(v)
<1>1. d \in Seq(Byte) /\ Len(d) = Ancho
  BY Partes
<1>2. BufferAddUint32(Lleno(z, Len(s), s), v) = BufferAdd(Lleno(z, Len(s), s), d)
  BY DEF BufferAddUint32
<1> HIDE DEF d
<1>3. /\ Tras(s, d) \in Seq(Byte) /\ Len(Tras(s, d)) = Len(s) + Ancho
      /\ Tiene(Tras(s, d), Len(s), d) /\ Conserva(Tras(s, d), s)
      /\ BufferAdd(Lleno(z, Len(s), s), d) = Lleno(z, Len(Tras(s, d)), Tras(s, d))
  BY <1>1, Sumado
<1> QED
  BY <1>2, <1>3 DEF d

\* A byte (protocolo.c:37-41).
LEMMA ConByte ==
    ASSUME NEW s \in Seq(Byte), NEW v \in Byte, NEW z
    PROVE  /\ Tras(s, <<v>>) \in Seq(Byte) /\ Len(Tras(s, <<v>>)) = Len(s) + 1
           /\ Tiene(Tras(s, <<v>>), Len(s), <<v>>) /\ Conserva(Tras(s, <<v>>), s)
           /\ BufferAddUint8(Lleno(z, Len(s), s), v)
                 = Lleno(z, Len(Tras(s, <<v>>)), Tras(s, <<v>>))
<1> DEFINE d == <<v>>
<1>1. d \in Seq(Byte) /\ Len(d) = 1 /\ <<v % Base>> = d
  BY Partes
<1>2. BufferAddUint8(Lleno(z, Len(s), s), v) = BufferAdd(Lleno(z, Len(s), s), d)
  BY <1>1 DEF BufferAddUint8
<1> HIDE DEF d
<1>3. /\ Tras(s, d) \in Seq(Byte) /\ Len(Tras(s, d)) = Len(s) + 1
      /\ Tiene(Tras(s, d), Len(s), d) /\ Conserva(Tras(s, d), s)
      /\ BufferAdd(Lleno(z, Len(s), s), d) = Lleno(z, Len(Tras(s, d)), Tras(s, d))
  BY <1>1, Sumado
<1> QED
  BY <1>2, <1>3 DEF d

\* A string, which is read back from where its length is (protocolo.c:44-54, 98-125).
LEMMA ConCadena ==
    ASSUME NEW s \in Seq(Byte), NEW t, Corta(t), NEW z
    PROVE  /\ ConTexto(s, t) \in Seq(Byte)
           /\ Len(ConTexto(s, t)) = Len(s) + Ancho + Len(t) + 1
           /\ Conserva(ConTexto(s, t), s)
           /\ BufferAddString(Lleno(z, Len(s), s), Len(t), t)
                 = Lleno(z, Len(s) + Ancho, ConTexto(s, t))
           /\ BufferReadString(Lleno(Len(ConTexto(s, t)), Len(s), ConTexto(s, t))) = MensajeDe(t)
<1> DEFINE n == Len(t)
           e == EnBytes(n)
           c == Append(t, 0)
           r == Tras(s, e)
           q == Tras(r, c)
<1>1. /\ t \in Seq(Byte \ {0}) /\ t \in Seq(Byte) /\ n \in Nat /\ n < Limite
      /\ c \in Seq(Byte) /\ Len(c) = n + 1 /\ Len(s) \in Nat /\ Ancho \in Nat
  BY LimiteForma, Partes DEF Corta
<1>2. e \in Seq(Byte) /\ Len(e) = Ancho
  BY <1>1, Partes
<1>3. q = ConTexto(s, t)
  BY DEF ConTexto
<1>4. BufferAddString(Lleno(z, Len(s), s), n, t) = Lleno(z, Len(r), q)
  BY <1>1, SumarCadena DEF Tras
<1> HIDE DEF n, e, c
<1>5. /\ r \in Seq(Byte) /\ Len(r) = Len(s) + Ancho /\ Tiene(r, Len(s), e) /\ Conserva(r, s)
  BY <1>1, <1>2, Sumado
<1> HIDE DEF r
<1>6. /\ q \in Seq(Byte) /\ Len(q) = Len(r) + Len(c) /\ Tiene(q, Len(r), c) /\ Conserva(q, r)
  BY <1>1, <1>5, Sumado
<1> HIDE DEF q
<1>7. /\ Len(q) = Len(s) + Ancho + n + 1 /\ Tiene(q, Len(s), e) /\ Conserva(q, s)
      /\ Tiene(q, Len(s) + Ancho, c)
  BY <1>1, <1>2, <1>5, <1>6 DEF Conserva
<1>8. BufferReadString(Lleno(Len(q), Len(s), q)) = [longitud |-> n, texto |-> t]
  BY <1>1, <1>6, <1>7, LeerCadena DEF n, e, c
<1>9. BufferReadString(Lleno(Len(q), Len(s), q)) = MensajeDe(t)
  BY <1>8 DEF MensajeDe, n
<1> QED
  BY <1>3, <1>4, <1>5, <1>6, <1>7, <1>9 DEF n

-----------------------------------------------------------------------------
(* Contents and packets *)

\* A string alone: MENSAJE and CREAR_PROCESO (protocolo.c:243-253, 286-298,
\* protocolo_comunicacion_memoria.c).
LEMMA CadenaEscrita ==
    ASSUME NEW t, Corta(t)
    PROVE  \E s \in Seq(Byte), o \in Nat :
              /\ BufferAddString(CrearBuffer(Ancho + Len(t) + 1), Len(t), t) = Lleno(Len(s), o, s)
              /\ Len(s) < Limite
              /\ BufferReadString(Lleno(Len(s), 0, s)) = MensajeDe(t)
<1>0. PICK z : z = Ancho + Len(t) + 1
  OBVIOUS
<1>1. Ancho \in Nat /\ Limite \in Nat /\ Len(t) \in Nat /\ 3 * Ancho + Len(t) + 2 < Limite
  BY LimiteForma DEF Corta
<1>2. z \in Nat /\ z < Limite
  BY <1>0, <1>1
<1>3. PICK v \in Seq(Byte) : Len(v) = 0 /\ CrearBuffer(z) = Lleno(z, Len(v), v)
  BY <1>2, Creado
<1>4. PICK s : s = ConTexto(v, t)
  OBVIOUS
<1>5. /\ s \in Seq(Byte) /\ Len(s) = Len(v) + Ancho + Len(t) + 1
      /\ BufferAddString(Lleno(z, Len(v), v), Len(t), t) = Lleno(z, Len(v) + Ancho, s)
      /\ BufferReadString(Lleno(Len(s), Len(v), s)) = MensajeDe(t)
  BY <1>4, ConCadena
<1>6. Len(s) = z /\ Len(v) + Ancho \in Nat
  BY <1>0, <1>1, <1>3, <1>5
<1>7. BufferAddString(CrearBuffer(z), Len(t), t) = Lleno(Len(s), Len(v) + Ancho, s)
  BY <1>3, <1>5, <1>6
<1> QED
  BY <1>0, <1>2, <1>3, <1>5, <1>6, <1>7

\* A message (protocolo.c:244-253, 287-298).
LEMMA MensajeForma ==
    ASSUME NEW t, Corta(t)
    PROVE  \E s \in Seq(Byte), o \in Nat :
              /\ SerializarMensaje(MensajeDe(t)) = Lleno(Len(s), o, s) /\ Len(s) < Limite
              /\ \A i \in Nat : DeserializarMensaje(Lleno(Len(s), i, s)) = MensajeDe(t)
<1>1. PICK s \in Seq(Byte), o \in Nat :
        /\ BufferAddString(CrearBuffer(Ancho + Len(t) + 1), Len(t), t) = Lleno(Len(s), o, s)
        /\ Len(s) < Limite
        /\ BufferReadString(Lleno(Len(s), 0, s)) = MensajeDe(t)
  BY CadenaEscrita
<1>2. SerializarMensaje(MensajeDe(t)) = Lleno(Len(s), o, s)
  BY <1>1 DEF SerializarMensaje, MensajeDe
<1>3. ASSUME NEW i \in Nat PROVE DeserializarMensaje(Lleno(Len(s), i, s)) = MensajeDe(t)
  <2>1. [Lleno(Len(s), i, s) EXCEPT !.offset = 0] = Lleno(Len(s), 0, s)
    BY DEF Lleno
  <2> QED
    BY <1>1, <2>1 DEF DeserializarMensaje
<1> QED
  BY <1>1, <1>2, <1>3

\* A handshake (protocolo.c:315-328, 331-348).
LEMMA HandshakeForma ==
    ASSUME NEW cod \in Byte, NEW rec \in Nat, rec < Limite, NEW t, Corta(t), NEW valor,
           valor = [codigo |-> cod, recurso |-> rec, nombre |-> MensajeDe(t)]
    PROVE  \E s \in Seq(Byte), o \in Nat :
              /\ SerializarHandshake(valor) = Lleno(Len(s), o, s) /\ Len(s) < Limite
              /\ \A i \in Nat : DeserializarHandshake(Lleno(Len(s), i, s)) = valor
<1>1. Limite \in Nat /\ Ancho \in Nat /\ Byte \subseteq Nat
  BY LimiteForma, Anchos DEF Byte
<1>3. Len(t) \in Nat /\ 3 * Ancho + Len(t) + 2 < Limite
  BY <1>1 DEF Corta
<1>4. PICK z \in Nat : z = 1 + Ancho + Ancho + Len(t) + 1 /\ z < Limite
  <2>1. Ancho > 0
    BY Anchos
  <2> QED
    BY <1>1, <1>3, <2>1
<1>5. PICK s0 \in Seq(Byte) : Len(s0) = 0 /\ CrearBuffer(z) = Lleno(z, Len(s0), s0)
  BY <1>4, Creado
<1>6. PICK s1, s2, s3 : /\ s1 = Tras(s0, <<cod>>) /\ s2 = Tras(s1, EnBytes(rec))
                        /\ s3 = ConTexto(s2, t)
  OBVIOUS
<1>7. /\ s1 \in Seq(Byte) /\ Len(s1) = Len(s0) + 1 /\ Tiene(s1, Len(s0), <<cod>>)
      /\ BufferAddUint8(Lleno(z, Len(s0), s0), cod) = Lleno(z, Len(s1), s1)
  BY <1>6, ConByte
<1>8. /\ s2 \in Seq(Byte) /\ Len(s2) = Len(s1) + Ancho /\ Conserva(s2, s1)
      /\ Tiene(s2, Len(s1), EnBytes(rec))
      /\ BufferAdd(Lleno(z, Len(s1), s1), EnBytes(rec)) = Lleno(z, Len(s2), s2)
  BY <1>6, <1>7, ConNumero
<1>9. /\ s3 \in Seq(Byte) /\ Len(s3) = Len(s2) + Ancho + Len(t) + 1 /\ Conserva(s3, s2)
      /\ BufferAddString(Lleno(z, Len(s2), s2), Len(t), t) = Lleno(z, Len(s2) + Ancho, s3)
      /\ BufferReadString(Lleno(Len(s3), Len(s2), s3)) = MensajeDe(t)
  BY <1>6, <1>8, ConCadena
<1>10. Len(s1) = 1 /\ Len(s2) = 1 + Ancho /\ Len(s3) = z /\ Len(s2) + Ancho \in Nat
  BY <1>1, <1>3, <1>4, <1>5, <1>7, <1>8, <1>9
<1>11. Tiene(s3, 0, <<cod>>) /\ Tiene(s3, 1, EnBytes(rec))
  <2>1. EnBytes(rec) \in Seq(Byte) /\ <<cod>> \in Seq(Byte) /\ 0 \in Nat /\ 1 \in Nat
    BY Partes
  <2>2. Tiene(s2, 0, <<cod>>)
    BY <1>5, <1>7, <1>8, <2>1 DEF Conserva
  <2> QED
    BY <1>8, <1>9, <1>10, <2>1, <2>2 DEF Conserva
<1>12. SerializarHandshake(valor) = Lleno(Len(s3), Len(s2) + Ancho, s3)
  <2>2. SerializarHandshake(valor)
           = BufferAddString(BufferAdd(BufferAddUint8(CrearBuffer(z), cod), EnBytes(rec)),
                             Len(t), t)
    BY <1>4 DEF SerializarHandshake, MensajeDe
  <2> QED
    BY <1>5, <1>7, <1>8, <1>9, <1>10, <2>2
<1>13. ASSUME NEW o \in Nat PROVE DeserializarHandshake(Lleno(Len(s3), o, s3)) = valor
  <2> DEFINE b(i) == Lleno(Len(s3), i, s3)
  <2>2. [b(o) EXCEPT !.offset = 0] = b(0)
    BY DEF Lleno
  <2>3. Avanzar(b(0), 1) = b(1) /\ Avanzar(b(0), 1 + Ancho) = b(1 + Ancho)
    <3>1. 0 + 1 = 1 /\ 0 + (1 + Ancho) = 1 + Ancho
      BY <1>1
    <3> QED
      BY <3>1 DEF Avanzar, Lleno
  <2>4. BufferReadUint8(b(0)) = cod
    BY <1>9, <1>11, LeerByte
  <2>5. BufferReadUint32(b(1)) = rec
    <3>1. rec \in 0 .. Limite - 1 /\ 1 \in Nat
      BY <1>1
    <3> QED
      BY <1>9, <1>11, <3>1, LeerNumero
  <2>6. BufferReadString(b(1 + Ancho)) = MensajeDe(t)
    BY <1>9, <1>10
  <2> HIDE DEF b
  <2>7. DeserializarHandshake(b(o))
           = [codigo  |-> BufferReadUint8(b(0)),
              recurso |-> BufferReadUint32(b(1)),
              nombre  |-> BufferReadString(b(1 + Ancho))]
    BY <2>2, <2>3 DEF DeserializarHandshake
  <2>8. DeserializarHandshake(b(o)) = valor
    BY <2>4, <2>5, <2>6, <2>7
  <2> QED
    BY <2>8 DEF b
<1> QED
  BY <1>4, <1>9, <1>10, <1>12, <1>13

\* The bytes at a place are a subsequence.
LEMMA Trozo ==
    ASSUME NEW p \in Seq(Byte), NEW n \in Nat, NEW d \in Seq(Byte), Tiene(p, n, d)
    PROVE  SubSeq(p, n + 1, n + Len(d)) = d
<1>1. PICK m \in Nat : m = Len(d)
  OBVIOUS
<1>2. PICK q : q = SubSeq(p, n + 1, n + m)
  OBVIOUS
<1>3. /\ n + m <= Len(p) /\ \A i \in 1 .. m : p[n + i] = d[i]
  BY <1>1 DEF Tiene
<1>4. \A i \in n + 1 .. n + m : p[i] \in Byte
  <2>1. \A i \in 1 .. Len(p) : p[i] \in Byte
    OBVIOUS
  <2>2. \A i \in n + 1 .. n + m : i \in 1 .. Len(p)
    BY <1>3
  <2> QED
    BY <2>1, <2>2
<1>5. /\ q \in Seq(Byte)
      /\ Len(q) = IF n + 1 <= n + m THEN (n + m) - (n + 1) + 1 ELSE 0
      /\ \A i \in 1 .. (n + m) - (n + 1) + 1 : q[i] = p[(n + 1) + i - 1]
  <2>1. PICK u \in Int, w \in Int : u = n + 1 /\ w = n + m
    OBVIOUS
  <2>2. \A i \in u .. w : p[i] \in Byte
    BY <1>4, <2>1
  <2>3. /\ SubSeq(p, u, w) \in Seq(Byte)
        /\ Len(SubSeq(p, u, w)) = IF u <= w THEN w - u + 1 ELSE 0
        /\ \A i \in 1 .. w - u + 1 : SubSeq(p, u, w)[i] = p[u + i - 1]
    BY <2>2, SubSeqProperties
  <2> QED
    BY <1>2, <2>1, <2>3
<1>6. Len(q) = m
  BY <1>5
<1>7. ASSUME NEW i \in 1 .. m PROVE q[i] = d[i]
  <2>1. i \in 1 .. (n + m) - (n + 1) + 1 /\ (n + 1) + i - 1 = n + i
    OBVIOUS
  <2> QED
    BY <1>3, <1>5, <2>1
<1>8. q = d
  BY <1>1, <1>5, <1>6, <1>7, SeqEqual
<1> QED
  BY <1>1, <1>2, <1>8

\* Code, size and stream, and where the last two are (protocolo.c:136-151).
EsPaquete(p, codigo, s) ==
    /\ p = Tras(Tras(EnBytes(codigo), EnBytes(Len(s))), s)
    /\ SubSeq(p, Ancho + 1, 2 * Ancho) = EnBytes(Len(s))
    /\ SubSeq(p, 2 * Ancho + 1, Len(p)) = s

\* A packet is the code, the size and what was serialized.
LEMMA PaqueteEscrito ==
    ASSUME NEW codigo \in Nat, NEW s \in Seq(Byte), Len(s) < Limite, NEW o \in Nat, NEW p,
           p = SerializarPaquete(codigo, Lleno(Len(s), o, s))
    PROVE  EsPaquete(p, codigo, s)
<1>1. /\ Len(s) \in Nat /\ Ancho \in Nat /\ Limite \in Nat /\ Len(s) \in 0 .. Limite - 1
  BY LimiteForma
<1>2. PICK a \in Seq(Byte), b \in Seq(Byte) :
        /\ a = EnBytes(codigo) /\ b = EnBytes(Len(s)) /\ Len(a) = Ancho /\ Len(b) = Ancho
  BY <1>1, Partes
<1>3. p = Tras(Tras(a, b), s)
  <2> DEFINE r == [i \in 1 .. Len(s) |-> En(Lleno(Len(s), o, s), i - 1)]
  <2>1. \A i \in 1 .. Len(s) : En(Lleno(Len(s), o, s), i - 1) = s[i]
    <3> TAKE i \in 1 .. Len(s)
    <3>1. i - 1 \in 0 .. Len(s) - 1 /\ (i - 1) + 1 = i
      BY <1>1
    <3> QED
      BY <3>1 DEF En, Lleno, Bloque
  <2>2. s = [i \in 1 .. Len(s) |-> s[i]]
    OBVIOUS
  <2>3. r = s
    BY <2>1, <2>2
  <2>4. Lleno(Len(s), o, s).size = Len(s)
    BY DEF Lleno
  <2>5. p = a \o b \o r
    BY <1>2, <2>4 DEF SerializarPaquete
  <2> HIDE DEF r
  <2> QED
    BY <2>3, <2>5 DEF Tras
<1>4. SubSeq(p, Ancho + 1, Ancho + Ancho) = b /\ SubSeq(p, Ancho + Ancho + 1, Len(p)) = s
  <2>1. PICK q : q = Tras(a, b)
    OBVIOUS
  <2>2. q \in Seq(Byte) /\ Len(q) = Ancho + Ancho /\ Tiene(q, Ancho, b)
    BY <1>2, <2>1, Sumado, SMTT(30)
  <2>3. /\ p \in Seq(Byte) /\ Len(p) = Len(q) + Len(s) /\ Tiene(p, Len(q), s)
        /\ Tiene(p, Ancho, b)
    <3>1. p = Tras(q, s)
      BY <1>3, <2>1
    <3>2. /\ p \in Seq(Byte) /\ Len(p) = Len(q) + Len(s) /\ Tiene(p, Len(q), s) /\ Conserva(p, q)
      BY <2>2, <3>1, Sumado, SMTT(30)
    <3> QED
      BY <1>1, <2>2, <3>2 DEF Conserva
  <2>4. SubSeq(p, Ancho + 1, Ancho + Len(b)) = b
    BY <1>1, <2>3, Trozo
  <2>5. SubSeq(p, Len(q) + 1, Len(q) + Len(s)) = s
    BY <2>2, <2>3, Trozo, SMTT(30)
  <2> QED
    BY <1>2, <2>2, <2>3, <2>4, <2>5
<1>5. Ancho + Ancho = 2 * Ancho
  BY <1>1
<1> QED
  BY <1>2, <1>3, <1>4, <1>5 DEF EsPaquete

\* A stream that is received whole fills the block made for it (socket.c:157-215).
LEMMA BloqueRecibido ==
    ASSUME NEW s \in Seq(Byte), Len(s) < Limite
    PROVE  Copiar(CrearBuffer(Len(s)), s) = Lleno(Len(s), 0, s)
<1>1. Len(s) \in Nat
  OBVIOUS
<1>2. PICK v \in Seq(Byte) : Len(v) = 0 /\ CrearBuffer(Len(s)) = Lleno(Len(s), Len(v), v)
  BY <1>1, Creado
<1>3. Copiar(Lleno(Len(s), Len(v), v), s) = Lleno(Len(s), Len(v), v \o s)
  BY <1>2, CopiarForma
<1>4. v \o s = s
  <2>1. v = <<>>
    BY <1>2
  <2> QED
    BY <2>1
<1> QED
  BY <1>2, <1>3, <1>4

\* What the other end makes of a packet is the block that was serialized
\* (protocolo.c:136-168, socket.c:157-215).
LEMMA Transmitido ==
    ASSUME NEW codigo \in Nat, NEW s \in Seq(Byte), Len(s) < Limite, NEW o \in Nat, NEW p,
           p = SerializarPaquete(codigo, Lleno(Len(s), o, s))
    PROVE  Copiar(CrearBuffer(Valor(SubSeq(p, Ancho + 1, 2 * Ancho))),
                  SubSeq(p, 2 * Ancho + 1, Len(p))) = Lleno(Len(s), 0, s)
<1>1. Len(s) \in 0 .. Limite - 1
  BY LimiteForma
<1>2. Valor(EnBytes(Len(s))) = Len(s)
  BY <1>1, IdaYVueltaDeNumeros
<1>3. /\ SubSeq(p, Ancho + 1, 2 * Ancho) = EnBytes(Len(s))
      /\ SubSeq(p, 2 * Ancho + 1, Len(p)) = s
  <2>1. EsPaquete(p, codigo, s)
    BY PaqueteEscrito
  <2> QED
    BY <2>1 DEF EsPaquete
<1>4. Copiar(CrearBuffer(Len(s)), s) = Lleno(Len(s), 0, s)
  BY BloqueRecibido
<1> QED
  BY <1>2, <1>3, <1>4

=============================================================================
