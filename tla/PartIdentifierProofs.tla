-------------------------- MODULE PartIdentifierProofs --------------------------
(***************************************************************************)
(* Which of the identifiers that the gateway makes it accepts back, that these *)
(* read back, and that ClickHouse can insert what is accepted: for every part *)
(* reference, in whatever digits, every batch, line, date and serial number,   *)
(* and whatever becomes of an identifier in a machine.                        *)
(*                                                                         *)
(* The lemmas are about fixed widths: a field has five digits at most, so that *)
(* the number it writes is that of its digits one by one, without induction.  *)
(***************************************************************************)
EXTENDS PartIdentifier, SequenceTheorems, TLAPS

Digits == Seq(0 .. 9)
Ascii == Seq(0 .. 35)
Chars == Seq(Characters)

-----------------------------------------------------------------------------
(* Numbers and digits *)

\* The number that one digit, or up to five, write.
LEMMA NumberOfDigits ==
    ASSUME NEW s \in Digits
    PROVE  /\ Len(s) = 1 => Number(s) = s[1]
           /\ Len(s) = 2 => Number(s) = 10 * s[1] + s[2]
           /\ Len(s) = 3 => Number(s) = 100 * s[1] + 10 * s[2] + s[3]
           /\ Len(s) = 4 => Number(s) = 1000 * s[1] + 100 * s[2] + 10 * s[3] + s[4]
           /\ Len(s) = 5 =>
                Number(s) = 10000 * s[1] + 1000 * s[2] + 100 * s[3] + 10 * s[4] + s[5]
  <1> DEFINE Is(v) == v = [i \in 0 .. Len(s) |-> IF i = 0 THEN 0 ELSE 10 * v[i - 1] + s[i]]
             value == CHOOSE v : Is(v)
             two == 10 * s[1] + s[2]
             three == 10 * two + s[3]
             four == 10 * three + s[4]
             five == 10 * four + s[5]
             f == [i \in 0 .. Len(s) |->
                     IF i = 0 THEN 0 ELSE IF i = 1 THEN s[1] ELSE IF i = 2 THEN two
                     ELSE IF i = 3 THEN three ELSE IF i = 4 THEN four ELSE five]
  <1>1. Len(s) \in Nat /\ \A i \in 1 .. Len(s) : s[i] \in Int
    BY LenProperties, ElementOfSeq DEF Digits
  <1>2. Len(s) \in 1 .. 5 => Is(f)
    <2> SUFFICES ASSUME Len(s) \in 1 .. 5,
                        NEW i \in 0 .. Len(s)
                 PROVE  f[i] = IF i = 0 THEN 0 ELSE 10 * f[i - 1] + s[i]
      OBVIOUS
    <2>1. two = 10 * s[1] + s[2] /\ three = 10 * two + s[3]
          /\ four = 10 * three + s[4] /\ five = 10 * four + s[5]
      OBVIOUS
    <2> HIDE DEF two, three, four, five
    <2>2. CASE i = 0
      BY <2>2
    <2>3. CASE i = 1
      BY <1>1, <2>3
    <2>4. CASE i = 2
      BY <2>1, <2>4
    <2>5. CASE i = 3
      BY <2>1, <2>5
    <2>6. CASE i = 4
      BY <2>1, <2>6
    <2>7. CASE i = 5
      BY <2>1, <2>7
    <2> QED
      BY <2>2, <2>3, <2>4, <2>5, <2>6, <2>7
  <1>3. Len(s) \in 1 .. 5 => Is(value)
    BY <1>2
  <1>4. Number(s) = value[Len(s)]
    BY DEF Number
  <1> HIDE DEF value, f
  <1>5. ASSUME Len(s) \in 1 .. 5
        PROVE  value[0] = 0 /\ \A i \in 1 .. Len(s) : value[i] = 10 * value[i - 1] + s[i]
    BY <1>1, <1>3, <1>5
  <1>6. Len(s) \in 1 .. 5 => value[1] = s[1]
    BY <1>1, <1>5
  <1>7. Len(s) \in 2 .. 5 => value[2] = 10 * s[1] + s[2]
    <2>1. Len(s) \in 2 .. 5 => value[2] = 10 * value[1] + s[2]
      BY <1>1, <1>5
    <2> QED
      BY <1>1, <1>6, <2>1
  <1>8. Len(s) \in 3 .. 5 => value[3] = 100 * s[1] + 10 * s[2] + s[3]
    <2>1. Len(s) \in 3 .. 5 => value[3] = 10 * value[2] + s[3]
      BY <1>1, <1>5
    <2> QED
      BY <1>1, <1>7, <2>1
  <1>9. Len(s) \in 4 .. 5 => value[4] = 1000 * s[1] + 100 * s[2] + 10 * s[3] + s[4]
    <2>1. Len(s) \in 4 .. 5 => value[4] = 10 * value[3] + s[4]
      BY <1>1, <1>5
    <2>2. \A a, b, c, d \in Int :
            10 * (100 * a + 10 * b + c) + d = 1000 * a + 100 * b + 10 * c + d
      OBVIOUS
    <2>3. Len(s) \in 4 .. 5 => {s[1], s[2], s[3], s[4]} \subseteq Int
      BY <1>1
    <2>4. Len(s) \in 4 .. 5 => value[3] = 100 * s[1] + 10 * s[2] + s[3]
      BY <1>1, <1>8
    <2> QED
      BY <2>1, <2>2, <2>3, <2>4
  <1>10. Len(s) = 5 => value[5] = 10000 * s[1] + 1000 * s[2] + 100 * s[3] + 10 * s[4] + s[5]
    <2>1. Len(s) = 5 => value[5] = 10 * value[4] + s[5]
      BY <1>1, <1>5
    <2> QED
      BY <1>1, <1>9, <2>1
  <1>11. /\ Len(s) = 1 => Number(s) = value[1]
         /\ Len(s) = 2 => Number(s) = value[2]
         /\ Len(s) = 3 => Number(s) = value[3]
         /\ Len(s) = 4 => Number(s) = value[4]
         /\ Len(s) = 5 => Number(s) = value[5]
    BY <1>4
  <1>12. /\ Len(s) = 1 => Number(s) = s[1]
         /\ Len(s) = 2 => Number(s) = 10 * s[1] + s[2]
    BY <1>6, <1>7, <1>11
  <1>13. Len(s) = 3 => Number(s) = 100 * s[1] + 10 * s[2] + s[3]
    BY <1>8, <1>11
  <1>14. Len(s) = 4 => Number(s) = 1000 * s[1] + 100 * s[2] + 10 * s[3] + s[4]
    BY <1>9, <1>11
  <1>15. Len(s) = 5 => Number(s) = 10000 * s[1] + 1000 * s[2] + 100 * s[3] + 10 * s[4] + s[5]
    BY <1>10, <1>11
  <1> QED
    BY <1>12, <1>13, <1>14, <1>15

\* A digit missing in front of a field is a zero, and the number remains.
LEMMA Padded ==
    ASSUME NEW s \in Digits, NEW width \in 2 .. 4, Len(s) \in (width - 1) .. width
    PROVE  /\ Pad(s, width) \in Digits
           /\ Len(Pad(s, width)) = width
           /\ Number(Pad(s, width)) = Number(s)
  <1>1. CASE Len(s) = width
    BY <1>1 DEF Pad
  <1>2. CASE Len(s) = width - 1
    <2> DEFINE zero == [i \in 1 .. 1 |-> 0]
               p == zero \o s
    <2>1. Pad(s, width) = p
      BY <1>2 DEF Pad
    <2>2. zero \in Digits /\ Len(zero) = 1 /\ zero[1] = 0
      BY IsASeq DEF Digits
    <2> HIDE DEF zero
    <2>3. p \in Digits /\ Len(p) = width
      BY <1>2, <2>2, ConcatProperties DEF Digits
    <2>4. \A i \in 1 .. width : p[i] = IF i = 1 THEN 0 ELSE s[i - 1]
      BY <1>2, <2>2, ConcatProperties DEF Digits
    <2> HIDE DEF p
    <2>5. \A i \in 1 .. Len(s) : s[i] \in Int
      BY ElementOfSeq DEF Digits
    <2>6. width = 2 => Number(p) = 10 * p[1] + p[2] /\ Number(s) = s[1]
      BY <1>2, <2>3, NumberOfDigits
    <2>7. width = 3 => Number(p) = 100 * p[1] + 10 * p[2] + p[3] /\ Number(s) = 10 * s[1] + s[2]
      BY <1>2, <2>3, NumberOfDigits
    <2>8. width = 4 => /\ Number(p) = 1000 * p[1] + 100 * p[2] + 10 * p[3] + p[4]
                       /\ Number(s) = 100 * s[1] + 10 * s[2] + s[3]
      BY <1>2, <2>3, NumberOfDigits
    <2>9. Number(p) = Number(s)
      BY <1>2, <2>4, <2>5, <2>6, <2>7, <2>8
    <2> QED
      BY <2>1, <2>3, <2>9
  <1> QED
    BY <1>1, <1>2

\* A number that fits is written with the given width.
LEMMA DecimalWidth ==
    ASSUME NEW n \in Nat, NEW width \in 2 .. 5, n < 10^width
    PROVE  Decimal(n, width) = [i \in 1 .. width |-> (n \div 10^(width - i)) % 10]
  <1> DEFINE Fits(w) == n < 10^w /\ \A v \in width .. w - 1 : n >= 10^v
             digits == CHOOSE w \in width .. width + 5 : Fits(w)
  <1>1. Fits(width)
    OBVIOUS
  <1>2. \A w \in width .. width + 5 : Fits(w) => w = width
    OBVIOUS
  <1>3. digits = width
    BY <1>1, <1>2
  <1>4. Decimal(n, width) = [i \in 1 .. digits |-> (n \div 10^(digits - i)) % 10]
    BY DEF Decimal
  <1> HIDE DEF digits
  <1> QED
    BY <1>3, <1>4

\* The digits of a number are those of its quotients.
LEMMA Quotients ==
    ASSUME NEW n \in Nat
    PROVE  /\ n \div 1 = n
           /\ n \div 100 = (n \div 10) \div 10
           /\ n \div 1000 = (n \div 100) \div 10
           /\ n \div 10000 = (n \div 1000) \div 10
  OBVIOUS

\* A number is ten times its quotient, and its last digit.
LEMMA LastDigit ==
    ASSUME NEW x \in Nat
    PROVE  x = 10 * (x \div 10) + (x % 10)
  OBVIOUS

\* Two, three and five digits write the number that they come from.
LEMMA DecimalOf ==
    ASSUME NEW n \in Nat, NEW width \in {2, 3, 5}, n < 10^width
    PROVE  /\ Decimal(n, width) \in Digits
           /\ Len(Decimal(n, width)) = width
           /\ Number(Decimal(n, width)) = n
  <1> DEFINE s == Decimal(n, width)
  <1>0. width \in 2 .. 5
    OBVIOUS
  <1>1. s = [i \in 1 .. width |-> (n \div 10^(width - i)) % 10]
    BY <1>0, DecimalWidth, Zenon
  <1> HIDE DEF s
  <1>2. \A i \in 1 .. width : (n \div 10^(width - i)) % 10 \in 0 .. 9
    OBVIOUS
  <1>3. s \in Digits /\ Len(s) = width
    BY <1>0, <1>1, <1>2 DEF Digits
  <1>4. PICK a \in Nat, b \in Nat, c \in Nat, d \in Nat :
            a = n \div 10 /\ b = a \div 10 /\ c = b \div 10 /\ d = c \div 10
    OBVIOUS
  <1>5. /\ n \div 10 = a /\ n \div 100 = b /\ n \div 1000 = c /\ n \div 10000 = d
        /\ n \div 1 = n
    BY <1>4, Quotients
  <1>6. /\ n = 10 * a + (n % 10) /\ a = 10 * b + (a % 10) /\ b = 10 * c + (b % 10)
        /\ c = 10 * d + (c % 10)
    BY <1>4, LastDigit
  <1>7. {n % 10, a % 10, b % 10, c % 10, d % 10} \subseteq 0 .. 9
    OBVIOUS
  <1>8. CASE width = 2
    <2>1. s[1] = a % 10 /\ s[2] = n % 10
      BY <1>1, <1>5, <1>8
    <2>2. n < 100
      BY <1>8
    <2>3. a % 10 = a
      BY <1>4, <2>2
    <2>4. Number(s) = 10 * s[1] + s[2]
      BY <1>3, <1>8, NumberOfDigits
    <2>5. n = 10 * (a % 10) + (n % 10)
      BY <1>6, <2>3
    <2>6. Number(s) = n
      BY <2>1, <2>4, <2>5, Zenon
    <2> QED
      BY <1>3, <2>6 DEF s
  <1>9. CASE width = 3
    <2>1. s[1] = b % 10 /\ s[2] = a % 10 /\ s[3] = n % 10
      BY <1>1, <1>5, <1>9
    <2>2. n < 1000
      BY <1>9
    <2>3. b % 10 = b
      BY <1>4, <2>2
    <2>4. Number(s) = 100 * s[1] + 10 * s[2] + s[3]
      BY <1>3, <1>9, NumberOfDigits
    <2>5. n = 100 * (b % 10) + 10 * (a % 10) + (n % 10)
      BY <1>6, <1>7, <2>3
    <2>6. Number(s) = n
      BY <2>1, <2>4, <2>5, Zenon
    <2> QED
      BY <1>3, <2>6 DEF s
  <1>10. CASE width = 5
    <2>1. s[1] = d % 10 /\ s[2] = c % 10 /\ s[3] = b % 10 /\ s[4] = a % 10 /\ s[5] = n % 10
      BY <1>1, <1>5, <1>10
    <2>2. n < 100000
      BY <1>10
    <2>3. d % 10 = d
      BY <1>4, <2>2
    <2>4. Number(s) = 10000 * s[1] + 1000 * s[2] + 100 * s[3] + 10 * s[4] + s[5]
      BY <1>3, <1>10, NumberOfDigits
    <2>5. n = 10000 * (d % 10) + 1000 * (c % 10) + 100 * (b % 10) + 10 * (a % 10) + (n % 10)
      BY <1>6, <1>7, <2>3
    <2>6. Number(s) = n
      BY <2>1, <2>4, <2>5, SMT
    <2> QED
      BY <1>3, <2>6 DEF s
  <1> QED
    BY <1>8, <1>9, <1>10
-----------------------------------------------------------------------------
(* Identifiers *)

\* The texts that AsciiDigitsOrUpper takes are those of ASCII digits and capitals.
LEMMA AsciiTexts ==
    ASSUME NEW s \in Chars, NEW n \in Nat
    PROVE  /\ AsciiDigitsOrUpper(s, n) => s \in Ascii /\ Len(s) = n
           /\ s \in Ascii /\ Len(s) = n => AsciiDigitsOrUpper(s, n)
  <1>1. s \in [1 .. Len(s) -> Characters] /\ Len(s) \in Nat
    BY LenProperties DEF Chars
  <1>2. ASSUME AsciiDigitsOrUpper(s, n)
        PROVE  s \in Ascii /\ Len(s) = n
    <2>1. Len(s) = n /\ \A i \in 1 .. n : s[i] \in 0 .. 35
      BY <1>2 DEF AsciiDigitsOrUpper, IsDigit, IsUpper
    <2>2. s \in [1 .. n -> 0 .. 35]
      BY <1>1, <2>1
    <2> QED
      BY <2>1, <2>2 DEF Ascii
  <1>3. ASSUME s \in Ascii, Len(s) = n
        PROVE  AsciiDigitsOrUpper(s, n)
    <2>1. \A i \in 1 .. n : s[i] \in 0 .. 35
      BY <1>3, ElementOfSeq DEF Ascii
    <2> QED
      BY <1>3, <2>1 DEF AsciiDigitsOrUpper, IsDigit, IsUpper
  <1> QED
    BY <1>2, <1>3

\* Digits are characters, and digits alone are digits.
LEMMA DigitTexts ==
    ASSUME NEW s \in Digits
    PROVE  s \in Ascii /\ s \in Chars /\ AllDigits(s)
  <1>1. s \in Ascii /\ s \in Chars
    BY SeqMonotonic DEF Digits, Ascii, Chars, Characters
  <1>2. \A i \in 1 .. Len(s) : s[i] \in 0 .. 9
    BY ElementOfSeq DEF Digits
  <1> QED
    BY <1>1, <1>2 DEF AllDigits, IsDigit

\* A text all of whose characters are digits is one of digits.
LEMMA DigitsOnly ==
    ASSUME NEW s \in Chars, AllDigits(s)
    PROVE  s \in Digits
  <1>1. s \in [1 .. Len(s) -> Characters] /\ Len(s) \in Nat
    BY LenProperties DEF Chars
  <1>2. \A i \in 1 .. Len(s) : s[i] \in 0 .. 9
    BY DEF AllDigits, IsDigit
  <1>3. s \in [1 .. Len(s) -> 0 .. 9]
    BY <1>1, <1>2
  <1> QED
    BY <1>1, <1>3 DEF Digits

\* Padding adds the characters that miss, whatever the others are, and what is padded has
\* nothing but ASCII digits when the result has nothing else.
LEMMA PaddedText ==
    ASSUME NEW s \in Chars, NEW width \in 2 .. 4, Len(s) \in (width - 1) .. width
    PROVE  /\ Pad(s, width) \in Chars
           /\ Len(Pad(s, width)) = width
           /\ AllDigits(Pad(s, width)) => AllDigits(s)
  <1>1. CASE Len(s) = width
    BY <1>1 DEF Pad
  <1>2. CASE Len(s) = width - 1
    <2> DEFINE zero == [i \in 1 .. 1 |-> 0]
               p == zero \o s
    <2>1. Pad(s, width) = p
      BY <1>2 DEF Pad
    <2>2. zero \in Chars /\ Len(zero) = 1 /\ zero[1] = 0
      <3>1. 0 \in Characters
        BY DEF Characters
      <3> QED
        BY <3>1, IsASeq DEF Chars
    <2> HIDE DEF zero
    <2>3. /\ p \in Chars /\ Len(p) = Len(zero) + Len(s)
          /\ \A k \in 1 .. Len(zero) + Len(s) :
               p[k] = IF k <= Len(zero) THEN zero[k] ELSE s[k - Len(zero)]
      <3>1. zero \in Seq(Characters) /\ s \in Seq(Characters)
        BY <2>2 DEF Chars
      <3> QED
        BY <3>1, ConcatProperties, Zenon DEF Chars
    <2> HIDE DEF p
    <2>4. Len(p) = width /\ \A k \in 1 .. width : k # 1 => p[k] = s[k - 1]
      BY <1>2, <2>2, <2>3
    <2>5. ASSUME AllDigits(p), NEW i \in 1 .. Len(s)
          PROVE  IsDigit(s[i])
      <3>1. i + 1 \in 1 .. width /\ i + 1 # 1 /\ (i + 1) - 1 = i
        BY <1>2
      <3>2. p[i + 1] = s[i]
        BY <2>4, <3>1
      <3> QED
        BY <2>4, <2>5, <3>1, <3>2 DEF AllDigits
    <2> QED
      BY <2>1, <2>3, <2>4, <2>5 DEF AllDigits
  <1> QED
    BY <1>1, <1>2

\* A text begins with another.
Begins(p, s) == \A m, n \in 1 .. Len(s) : SubSeq(p, m, n) = SubSeq(s, m, n)

\* Of two texts put together, the first is where it was, and the second behind it.
LEMMA Joined ==
    ASSUME NEW s \in Chars, NEW t \in Chars, Len(t) > 0
    PROVE  /\ s \o t \in Chars
           /\ Len(s \o t) = Len(s) + Len(t)
           /\ Begins(s \o t, s)
           /\ SubSeq(s \o t, Len(s) + 1, Len(s) + Len(t)) = t
           /\ \A m, n \in 1 .. Len(t) :
                SubSeq(s \o t, Len(s) + m, Len(s) + n) = SubSeq(t, m, n)
  <1> USE DEF Chars
  <1>1. Len(s) \in Nat /\ Len(t) \in Nat
    BY LenProperties
  <1>2. s \o t \in Chars /\ Len(s \o t) = Len(s) + Len(t)
    BY ConcatProperties
  <1>3. Begins(s \o t, s)
    BY SubSeqOfConcat1 DEF Begins
  <1>4. ASSUME NEW m \in 1 .. Len(t), NEW n \in 1 .. Len(t)
        PROVE  SubSeq(s \o t, Len(s) + m, Len(s) + n) = SubSeq(t, m, n)
    <2>1. /\ Len(s) + m \in Len(s) + 1 .. Len(s) + Len(t)
          /\ Len(s) + n \in Len(s) + 1 .. Len(s) + Len(t)
          /\ (Len(s) + m) - Len(s) = m /\ (Len(s) + n) - Len(s) = n
      BY <1>1
    <2>2. SubSeq(s \o t, Len(s) + m, Len(s) + n)
            = SubSeq(t, (Len(s) + m) - Len(s), (Len(s) + n) - Len(s))
      BY <2>1, SubSeqOfConcat2
    <2> QED
      BY <2>1, <2>2
  <1>5. SubSeq(t, 1, Len(t)) = t
    BY SubSeqFull
  <1>6. SubSeq(s \o t, Len(s) + 1, Len(s) + Len(t)) = t
    BY <1>1, <1>4, <1>5
  <1> QED
    BY <1>2, <1>3, <1>4, <1>6

\* What begins with a text is that text as far as it goes.
LEMMA BeginsWith ==
    ASSUME NEW p, NEW s \in Chars, Begins(p, s), NEW m \in Nat, m > 0, Len(s) = m
    PROVE  SubSeq(p, 1, m) = s
  <1>1. SubSeq(s, 1, m) = s
    BY SubSeqFull DEF Chars
  <1>2. SubSeq(p, 1, m) = SubSeq(s, 1, m)
    <2>1. 1 \in 1 .. Len(s) /\ m \in 1 .. Len(s)
      OBVIOUS
    <2> QED
      BY <2>1 DEF Begins
  <1> QED
    BY <1>1, <1>2

\* What begins with a text begins with what that text begins with.
LEMMA BeginsInTurn ==
    ASSUME NEW p, NEW s, NEW r, NEW m \in Nat, NEW k \in Nat, k <= m, Len(s) = m, Len(r) = k,
           Begins(p, s), Begins(s, r)
    PROVE  Begins(p, r)
  <1> SUFFICES ASSUME NEW a \in 1 .. Len(r), NEW c \in 1 .. Len(r)
               PROVE  SubSeq(p, a, c) = SubSeq(r, a, c)
    BY DEF Begins
  <1>1. a \in 1 .. Len(s) /\ c \in 1 .. Len(s)
    OBVIOUS
  <1> QED
    BY <1>1, Zenon DEF Begins

\* Two texts put together.
Cat(s, t) == s \o t

\* The same about texts put together.
LEMMA Appended ==
    ASSUME NEW s \in Chars, NEW t \in Chars, Len(t) > 0
    PROVE  /\ Cat(s, t) \in Chars
           /\ Len(Cat(s, t)) = Len(s) + Len(t)
           /\ Begins(Cat(s, t), s)
           /\ SubSeq(Cat(s, t), Len(s) + 1, Len(s) + Len(t)) = t
           /\ \A a, c \in 1 .. Len(t) :
                SubSeq(Cat(s, t), Len(s) + a, Len(s) + c) = SubSeq(t, a, c)
  BY Joined, Zenon DEF Cat

\* Texts put together have the characters of both.
LEMMA CatOver ==
    ASSUME NEW S, NEW s \in Seq(S), NEW t \in Seq(S)
    PROVE  Cat(s, t) \in Seq(S)
  BY ConcatProperties DEF Cat

\* Digits put together are digits.
LEMMA CatOfDigits ==
    ASSUME NEW s \in Digits, NEW t \in Digits
    PROVE  Cat(s, t) \in Digits
  BY CatOver DEF Digits

\* The eight pieces of an identifier, and the identifier.
Pieces(f, i, z, b, l, y, d, n) ==
    /\ {f, i, z, b, l, y, d, n} \subseteq Chars
    /\ Len(f) = 2 /\ Len(i) = 4 /\ Len(z) = 3 /\ Len(b) = 2
    /\ Len(l) = 2 /\ Len(y) = 2 /\ Len(d) = 3 /\ Len(n) = 5

Whole(f, i, z, b, l, y, d, n) ==
    Cat(Cat(Cat(Cat(Cat(Cat(f, i), z), b), l), Cat(y, d)), n)

\* Where the pieces are.
Located(id, f, i, z, b, l, y, d, n) ==
    /\ id \in Chars
    /\ Len(id) = 23
    /\ SubSeq(id, 1, 9) = Cat(Cat(f, i), z)
    /\ SubSeq(id, 1, 2) = f
    /\ SubSeq(id, 3, 6) = i
    /\ SubSeq(id, 7, 9) = z
    /\ SubSeq(id, 12, 13) = l
    /\ SubSeq(id, 14, 18) = Cat(y, d)
    /\ SubSeq(SubSeq(id, 14, 18), 1, 2) = y
    /\ SubSeq(SubSeq(id, 14, 18), 3, 5) = d
    /\ SubSeq(id, 14, 15) = y
    /\ SubSeq(id, 16, 18) = d
    /\ SubSeq(id, 19, 23) = n

\* Put together in the order of create_part_identifier, the pieces are where they should be.
LEMMA PiecesLocated ==
    ASSUME NEW f, NEW i, NEW z, NEW b, NEW l, NEW y, NEW d, NEW n,
           Pieces(f, i, z, b, l, y, d, n)
    PROVE  Located(Whole(f, i, z, b, l, y, d, n), f, i, z, b, l, y, d, n)
  <1>0. /\ f \in Chars /\ i \in Chars /\ z \in Chars /\ b \in Chars /\ l \in Chars
        /\ y \in Chars /\ d \in Chars /\ n \in Chars
        /\ Len(f) = 2 /\ Len(i) = 4 /\ Len(z) = 3 /\ Len(b) = 2
        /\ Len(l) = 2 /\ Len(y) = 2 /\ Len(d) = 3 /\ Len(n) = 5
    BY DEF Pieces
  <1>2. PICK fi \in Chars : /\ fi = Cat(f, i) /\ Len(fi) = 6
                            /\ Begins(fi, f) /\ SubSeq(fi, 3, 6) = i
    <2>1. f \in Chars /\ i \in Chars /\ Len(f) = 2 /\ Len(i) = 4 /\ Len(i) > 0
      BY <1>0
    <2>2. /\ Cat(f, i) \in Chars /\ Len(Cat(f, i)) = Len(f) + Len(i)
          /\ Begins(Cat(f, i), f)
          /\ SubSeq(Cat(f, i), Len(f) + 1, Len(f) + Len(i)) = i
      BY <2>1, Appended, Zenon
    <2> QED
      BY <2>1, <2>2
  <1>3. PICK fiz \in Chars : /\ fiz = Cat(fi, z) /\ Len(fiz) = 9
                             /\ Begins(fiz, fi) /\ SubSeq(fiz, 7, 9) = z
    <2>1. fi \in Chars /\ z \in Chars /\ Len(fi) = 6 /\ Len(z) = 3 /\ Len(z) > 0
      BY <1>0, <1>2
    <2>2. /\ Cat(fi, z) \in Chars /\ Len(Cat(fi, z)) = Len(fi) + Len(z)
          /\ Begins(Cat(fi, z), fi)
          /\ SubSeq(Cat(fi, z), Len(fi) + 1, Len(fi) + Len(z)) = z
      BY <2>1, Appended, Zenon
    <2> QED
      BY <2>1, <2>2
  <1>5. PICK fb \in Chars : /\ fb = Cat(fiz, b) /\ Len(fb) = 11
                            /\ Begins(fb, fiz)
    <2>1. fiz \in Chars /\ b \in Chars /\ Len(fiz) = 9 /\ Len(b) = 2 /\ Len(b) > 0
      BY <1>0, <1>3
    <2>2. /\ Cat(fiz, b) \in Chars /\ Len(Cat(fiz, b)) = Len(fiz) + Len(b)
          /\ Begins(Cat(fiz, b), fiz)
      BY <2>1, Appended, Zenon
    <2> QED
      BY <2>1, <2>2
  <1>6. PICK fl \in Chars : /\ fl = Cat(fb, l) /\ Len(fl) = 13
                            /\ Begins(fl, fb) /\ SubSeq(fl, 12, 13) = l
    <2>1. fb \in Chars /\ l \in Chars /\ Len(fb) = 11 /\ Len(l) = 2 /\ Len(l) > 0
      BY <1>0, <1>5
    <2>2. /\ Cat(fb, l) \in Chars /\ Len(Cat(fb, l)) = Len(fb) + Len(l)
          /\ Begins(Cat(fb, l), fb)
          /\ SubSeq(Cat(fb, l), Len(fb) + 1, Len(fb) + Len(l)) = l
      BY <2>1, Appended, Zenon
    <2> QED
      BY <2>1, <2>2
  <1>7. PICK yd \in Chars : /\ yd = Cat(y, d) /\ Len(yd) = 5
                            /\ Begins(yd, y) /\ SubSeq(yd, 3, 5) = d
    <2>1. y \in Chars /\ d \in Chars /\ Len(y) = 2 /\ Len(d) = 3 /\ Len(d) > 0
      BY <1>0
    <2>2. /\ Cat(y, d) \in Chars /\ Len(Cat(y, d)) = Len(y) + Len(d)
          /\ Begins(Cat(y, d), y)
          /\ SubSeq(Cat(y, d), Len(y) + 1, Len(y) + Len(d)) = d
      BY <2>1, Appended, Zenon
    <2> QED
      BY <2>1, <2>2
  <1>8. SubSeq(yd, 1, 2) = y
    BY <1>0, <1>7, 2 \in Nat, 2 > 0, BeginsWith, Zenon
  <1>9. PICK fy \in Chars : /\ fy = Cat(fl, yd) /\ Len(fy) = 18 /\ Begins(fy, fl)
                            /\ SubSeq(fy, 14, 18) = yd
                            /\ SubSeq(fy, 14, 15) = y /\ SubSeq(fy, 16, 18) = d
    <2> DEFINE t == Cat(fl, yd)
    <2>1. fl \in Chars /\ yd \in Chars /\ Len(fl) = 13 /\ Len(yd) = 5 /\ Len(yd) > 0
      BY <1>6, <1>7
    <2>2. /\ t \in Chars /\ Len(t) = Len(fl) + Len(yd) /\ Begins(t, fl)
          /\ SubSeq(t, Len(fl) + 1, Len(fl) + Len(yd)) = yd
          /\ \A a, c \in 1 .. Len(yd) :
               SubSeq(t, Len(fl) + a, Len(fl) + c) = SubSeq(yd, a, c)
      BY <2>1, Appended, Zenon
    <2> HIDE DEF t
    <2>3. Len(t) = 18 /\ SubSeq(t, 14, 18) = yd
      BY <2>1, <2>2
    <2>4. /\ SubSeq(t, 13 + 1, 13 + 2) = SubSeq(yd, 1, 2)
          /\ SubSeq(t, 13 + 3, 13 + 5) = SubSeq(yd, 3, 5)
      BY <2>1, <2>2
    <2>5. SubSeq(t, 14, 15) = y /\ SubSeq(t, 16, 18) = d
      BY <1>7, <1>8, <2>4
    <2> QED
      BY <2>2, <2>3, <2>5 DEF t
  <1>10. PICK id \in Chars : /\ id = Cat(fy, n) /\ Len(id) = 23
                             /\ Begins(id, fy) /\ SubSeq(id, 19, 23) = n
    <2>1. fy \in Chars /\ n \in Chars /\ Len(fy) = 18 /\ Len(n) = 5 /\ Len(n) > 0
      BY <1>0, <1>9
    <2>2. /\ Cat(fy, n) \in Chars /\ Len(Cat(fy, n)) = Len(fy) + Len(n)
          /\ Begins(Cat(fy, n), fy)
          /\ SubSeq(Cat(fy, n), Len(fy) + 1, Len(fy) + Len(n)) = n
      BY <2>1, Appended, Zenon
    <2> QED
      BY <2>1, <2>2
  <1>11. Begins(id, fl)
    <2>1. 18 \in Nat /\ 13 \in Nat /\ 13 <= 18 /\ Len(fy) = 18 /\ Len(fl) = 13
      BY <1>6, <1>9, <1>10
    <2> QED
      BY <1>6, <1>9, <1>10, <2>1, BeginsInTurn, Zenon
  <1>12. Begins(id, fb)
    <2>1. 13 \in Nat /\ 11 \in Nat /\ 11 <= 13 /\ Len(fl) = 13 /\ Len(fb) = 11
      BY <1>5, <1>6, <1>11
    <2> QED
      BY <1>5, <1>6, <1>11, <2>1, BeginsInTurn, Zenon
  <1>13. Begins(id, fiz)
    <2>1. 11 \in Nat /\ 9 \in Nat /\ 9 <= 11 /\ Len(fb) = 11 /\ Len(fiz) = 9
      BY <1>3, <1>5, <1>12
    <2> QED
      BY <1>3, <1>5, <1>12, <2>1, BeginsInTurn, Zenon
  <1>14. Begins(id, fi)
    <2>1. 9 \in Nat /\ 6 \in Nat /\ 6 <= 9 /\ Len(fiz) = 9 /\ Len(fi) = 6
      BY <1>2, <1>3, <1>13
    <2> QED
      BY <1>2, <1>3, <1>13, <2>1, BeginsInTurn, Zenon
  <1>15. SubSeq(id, 1, 2) = f /\ SubSeq(id, 3, 6) = i
    <2>1. SubSeq(fi, 1, 2) = f
      BY <1>0, <1>2, 2 \in Nat, 2 > 0, BeginsWith, Zenon
    <2>2. SubSeq(id, 1, 2) = SubSeq(fi, 1, 2) /\ SubSeq(id, 3, 6) = SubSeq(fi, 3, 6)
      BY <1>2, <1>14 DEF Begins
    <2> QED
      BY <1>2, <2>1, <2>2
  <1>16. SubSeq(id, 7, 9) = z
    BY <1>3, <1>13 DEF Begins
  <1>17. SubSeq(id, 1, 9) = fiz
    BY <1>3, <1>13, 9 \in Nat, 9 > 0, BeginsWith, Zenon
  <1>18. SubSeq(id, 12, 13) = l
    BY <1>6, <1>11 DEF Begins
  <1>19. SubSeq(id, 14, 18) = yd /\ SubSeq(id, 14, 15) = y /\ SubSeq(id, 16, 18) = d
    BY <1>9, <1>10 DEF Begins
  <1>20. id = Whole(f, i, z, b, l, y, d, n)
    BY <1>2, <1>3, <1>5, <1>6, <1>7, <1>9, <1>10, Zenon DEF Whole
  <1>21. /\ SubSeq(id, 1, 9) = Cat(Cat(f, i), z)
         /\ SubSeq(id, 14, 18) = Cat(y, d)
         /\ SubSeq(SubSeq(id, 14, 18), 1, 2) = y
         /\ SubSeq(SubSeq(id, 14, 18), 3, 5) = d
    BY <1>2, <1>3, <1>7, <1>8, <1>17, <1>19, Zenon
  <1> QED
    BY <1>10, <1>15, <1>16, <1>18, <1>19, <1>20, <1>21, Zenon DEF Located

\* The digits of the reference are where they were in the identifier.
LEMMA ReferenceDigits ==
    ASSUME NEW id \in Chars, Len(id) = 23, AllDigits(SubSeq(id, 1, 9))
    PROVE  /\ AllDigits(SubSeq(id, 1, 2))
           /\ AllDigits(SubSeq(id, 3, 6))
           /\ AllDigits(SubSeq(id, 7, 9))
  <1>1. \A k \in 1 .. 23 : id[k] \in Characters
    BY ElementOfSeq DEF Chars
  <1>2. \A k \in 1 .. 9 : IsDigit(id[k])
    <2>1. /\ Len(SubSeq(id, 1, 9)) = 9
          /\ \A k \in 1 .. 9 - 1 + 1 : SubSeq(id, 1, 9)[k] = id[1 + k - 1]
      BY <1>1, SubSeqProperties
    <2> QED
      BY <2>1 DEF AllDigits
  <1>3. ASSUME NEW a \in 1 .. 9, NEW c \in 1 .. 9, a <= c
        PROVE  AllDigits(SubSeq(id, a, c))
    <2>1. \A k \in a .. c : id[k] \in Characters
      BY <1>1
    <2>2. /\ Len(SubSeq(id, a, c)) = c - a + 1
          /\ \A k \in 1 .. c - a + 1 : SubSeq(id, a, c)[k] = id[a + k - 1]
      BY <1>3, <2>1, SubSeqProperties
    <2>3. \A k \in 1 .. c - a + 1 : a + k - 1 \in 1 .. 9
      OBVIOUS
    <2> QED
      BY <1>2, <2>2, <2>3 DEF AllDigits
  <1> QED
    BY <1>3

-----------------------------------------------------------------------------
(* What is made from an input *)

Inputs == [reference : References, batch : Batches, line : Lines, date : Dates,
           serial : Serials]

\* An identifier has 23 characters, each field is where the columns of the database look
\* for it, and writes what it was made from: the reference if its digits are ASCII ones, which
\* they are when those of the identifier are.
WellMade(id, x) ==
    /\ id \in Chars /\ Len(id) = 23
    /\ AllDigits(SubSeq(id, 1, 9)) => AsciiReference(x.reference)
    /\ AsciiReference(x.reference) =>
        /\ id \in Ascii
        /\ SubSeq(id, 1, 9) \in Digits
        /\ Number(SubSeq(id, 1, 2)) = Number(x.reference.family)
        /\ Number(SubSeq(id, 3, 6)) = Number(x.reference.incremental)
        /\ Number(SubSeq(id, 7, 9)) = Number(x.reference.size)
    /\ SubSeq(id, 12, 13) = x.line
    /\ SubSeq(id, 14, 18) \in Digits
    /\ Number(SubSeq(SubSeq(id, 14, 18), 1, 2)) = x.date.year % 100
    /\ Number(SubSeq(SubSeq(id, 14, 18), 3, 5)) = x.date.day
    /\ Number(SubSeq(id, 14, 15)) = x.date.year % 100
    /\ Number(SubSeq(id, 16, 18)) = x.date.day
    /\ SubSeq(id, 19, 23) \in Digits
    /\ Number(SubSeq(id, 19, 23)) = x.serial

\* create_part_identifier pads and joins its fields so that all of this holds.
LEMMA MadeFields ==
    ASSUME NEW x \in Inputs, AsciiDigitsOrUpper(x.batch, 2), CanCreate(x)
    PROVE  WellMade(create_part_identifier(x), x)
  <1> DEFINE r == x.reference
             f == Pad(r.family, 2)
             i == Pad(r.incremental, 4)
             z == Pad(r.size, 3)
             y == Decimal(x.date.year % 100, 2)
             d == Decimal(x.date.day, 3)
             n == Decimal(x.serial, 5)
  <1>1. /\ r.family \in Chars /\ r.incremental \in Chars /\ r.size \in Chars
        /\ Len(r.family) \in 1 .. 2 /\ Len(r.incremental) \in 3 .. 4 /\ Len(r.size) \in 2 .. 3
    <2>1. {r.family, r.incremental, r.size} \subseteq Seq({c \in Characters : IsAnyDigit(c)})
      BY PartIdentifierAssumption DEF Inputs
    <2>2. \A s \in Seq({c \in Characters : IsAnyDigit(c)}) : s \in Chars
      BY SeqMonotonic DEF Chars
    <2> QED
      BY <2>1, <2>2 DEF CanCreate, PartReference
  <1>2. /\ f \in Chars /\ Len(f) = 2 /\ (AllDigits(f) => AllDigits(r.family))
        /\ i \in Chars /\ Len(i) = 4 /\ (AllDigits(i) => AllDigits(r.incremental))
        /\ z \in Chars /\ Len(z) = 3 /\ (AllDigits(z) => AllDigits(r.size))
    BY <1>1, PaddedText
  <1>3. AsciiReference(r) => r.family \in Digits /\ r.incremental \in Digits /\ r.size \in Digits
    BY <1>1, DigitsOnly DEF AsciiReference
  <1>4. AsciiReference(r) =>
            /\ f \in Digits /\ Number(f) = Number(r.family)
            /\ i \in Digits /\ Number(i) = Number(r.incremental)
            /\ z \in Digits /\ Number(z) = Number(r.size)
    BY <1>1, <1>3, Padded
  <1>5. /\ x.batch \in Chars /\ x.batch \in Ascii /\ Len(x.batch) = 2
        /\ x.line \in Chars /\ x.line \in Ascii /\ Len(x.line) = 2
    <2>1. /\ x.batch \in Chars /\ x.line \in Chars
          /\ AsciiDigitsOrUpper(x.line, 2)
      BY PartIdentifierAssumption DEF Inputs, Chars
    <2> QED
      BY <2>1, 2 \in Nat, AsciiTexts, Zenon
  <1>6. x.date.year \in Nat /\ x.date.day \in 1 .. 366 /\ x.serial \in Nat /\ x.serial <= 99999
    <2>1. x.date \in [year : Nat, day : 1 .. 366] /\ x.serial \in Nat
      BY PartIdentifierAssumption DEF Inputs
    <2> QED
      BY <2>1 DEF CanCreate, SerialFits
  <1>7. y \in Digits /\ Len(y) = 2 /\ Number(y) = x.date.year % 100
    <2>1. x.date.year % 100 \in Nat /\ x.date.year % 100 < 10^2
      BY <1>6
    <2> QED
      BY <2>1, DecimalOf
  <1>8. d \in Digits /\ Len(d) = 3 /\ Number(d) = x.date.day
    <2>1. x.date.day \in Nat /\ x.date.day < 10^3
      BY <1>6
    <2> QED
      BY <2>1, DecimalOf
  <1>9. n \in Digits /\ Len(n) = 5 /\ Number(n) = x.serial
    <2>1. x.serial < 10^5
      BY <1>6
    <2> QED
      BY <1>6, <2>1, DecimalOf
  <1>10. create_part_identifier(x) = Whole(f, i, z, x.batch, x.line, y, d, n)
    BY Zenon DEF create_part_identifier, FormatReference, YearAndDay, Cat, Whole
  <1> DEFINE id == create_part_identifier(x)
  <1> HIDE DEF f, i, z, y, d, n, id
  <1>11. y \in Chars /\ d \in Chars /\ n \in Chars /\ y \in Ascii /\ d \in Ascii /\ n \in Ascii
    BY <1>7, <1>8, <1>9, DigitTexts
  <1>12. Pieces(f, i, z, x.batch, x.line, y, d, n)
    BY <1>2, <1>5, <1>7, <1>8, <1>9, <1>11 DEF Pieces
  <1>13. id = Whole(f, i, z, x.batch, x.line, y, d, n)
    BY <1>10 DEF id
  <1>14. Located(id, f, i, z, x.batch, x.line, y, d, n)
    BY <1>12, <1>13, PiecesLocated, Zenon
  <1>15. SubSeq(id, 14, 18) \in Digits
    <2>1. Cat(y, d) \in Digits
      BY <1>7, <1>8, CatOfDigits
    <2> QED
      BY <1>14, <2>1 DEF Located
  <1>16. AllDigits(SubSeq(id, 1, 9)) => AsciiReference(r)
    <2> SUFFICES ASSUME AllDigits(SubSeq(id, 1, 9)) PROVE AsciiReference(r)
      OBVIOUS
    <2>1. id \in Chars /\ Len(id) = 23
      BY <1>14 DEF Located
    <2>2. /\ AllDigits(SubSeq(id, 1, 2)) /\ AllDigits(SubSeq(id, 3, 6))
          /\ AllDigits(SubSeq(id, 7, 9))
      BY <2>1, ReferenceDigits, Zenon
    <2>3. AllDigits(f) /\ AllDigits(i) /\ AllDigits(z)
      BY <1>14, <2>2, Zenon DEF Located
    <2> QED
      BY <1>2, <2>3, Zenon DEF AsciiReference
  <1>17. ASSUME AsciiReference(r)
         PROVE  id \in Ascii /\ SubSeq(id, 1, 9) \in Digits
    <2>1. f \in Digits /\ i \in Digits /\ z \in Digits
      BY <1>4, <1>17
    <2>2. Cat(Cat(f, i), z) \in Digits
      BY <2>1, CatOfDigits
    <2>3. f \in Ascii /\ i \in Ascii /\ z \in Ascii
      BY <2>1, DigitTexts
    <2>4. Whole(f, i, z, x.batch, x.line, y, d, n) \in Ascii
      <3>1. \A s, t \in Ascii : Cat(s, t) \in Ascii
        BY CatOver DEF Ascii
      <3> QED
        BY <1>5, <1>11, <2>3, <3>1 DEF Whole
    <2> QED
      BY <1>13, <1>14, <2>2, <2>4 DEF Located
  <1>18. id \in Chars /\ Len(id) = 23 /\ SubSeq(id, 12, 13) = x.line
         /\ SubSeq(id, 1, 2) = f /\ SubSeq(id, 3, 6) = i /\ SubSeq(id, 7, 9) = z
         /\ SubSeq(SubSeq(id, 14, 18), 1, 2) = y /\ SubSeq(SubSeq(id, 14, 18), 3, 5) = d
         /\ SubSeq(id, 14, 15) = y /\ SubSeq(id, 16, 18) = d /\ SubSeq(id, 19, 23) = n
    BY <1>14 DEF Located
  <1>19. WellMade(id, x)
    BY <1>4, <1>7, <1>8, <1>9, <1>15, <1>16, <1>17, <1>18, Zenon DEF WellMade
  <1> QED
    BY <1>19 DEF id

\* The year that %y reads for the two digits of a leap year is a leap year.
Century(y) == IF y >= 69 THEN 1900 + y ELSE 2000 + y
LEMMA LeapYears ==
    ASSUME NEW year \in Nat, IsLeap(year)
    PROVE  IsLeap(Century(year % 100))
  <1> DEFINE y == year % 100
  <1>1. y \in 0 .. 99 /\ year % 4 = 0
    BY DEF IsLeap
  <1>2. y % 4 = 0
    BY <1>1
  <1> HIDE DEF y
  <1>3. CASE y >= 69
    <2>1. (1900 + y) % 4 = 0 /\ (1900 + y) % 100 # 0
      BY <1>1, <1>2, <1>3
    <2> QED
      BY <1>3, <2>1 DEF IsLeap, Century, y
  <1>4. CASE ~ (y >= 69)
    <2>1. (2000 + y) % 4 = 0 /\ ((2000 + y) % 100 # 0 \/ (2000 + y) % 400 = 0)
      BY <1>1, <1>2, <1>4
    <2> QED
      BY <1>4, <2>1 DEF IsLeap, Century, y
  <1> QED
    BY <1>3, <1>4

\* A day of a year is a day of the year that %y reads for it.
LEMMA DayOfCentury ==
    ASSUME NEW year \in Nat, NEW day \in 1 .. 366, day <= DaysIn(year)
    PROVE  day \in 1 .. DaysIn(Century(year % 100))
  BY LeapYears DEF DaysIn

\* A day of the year that %y reads is a day of the same year of the 2000s.
LEMMA DayOfThe2000s ==
    ASSUME NEW y \in 0 .. 99, NEW day \in 1 .. DaysIn(Century(y))
    PROVE  day \in 1 .. DaysIn(2000 + y)
  <1>1. CASE y >= 69
    <2>1. IsLeap(1900 + y) => IsLeap(2000 + y)
      <3>1. (1900 + y) % 4 = (2000 + y) % 4 /\ (2000 + y) % 100 # 0
        BY <1>1
      <3> QED
        BY <3>1 DEF IsLeap
    <2> QED
      BY <1>1, <2>1 DEF DaysIn, Century
  <1>2. CASE ~ (y >= 69)
    BY <1>2 DEF Century
  <1> QED
    BY <1>1, <1>2

\* The validation accepts a well made identifier whose reference has ASCII digits only.
LEMMA WellMadeAccepted ==
    ASSUME NEW x \in Inputs, NEW id, WellMade(id, x), AsciiReference(x.reference)
    PROVE  Accepted(id)
  <1> DEFINE s == SubSeq(id, 14, 18)
  <1>1. /\ id \in Chars /\ id \in Ascii /\ Len(id) = 23 /\ s \in Digits
        /\ SubSeq(id, 1, 9) \in Digits /\ SubSeq(id, 19, 23) \in Digits
        /\ Number(SubSeq(s, 1, 2)) = x.date.year % 100 /\ Number(SubSeq(s, 3, 5)) = x.date.day
    BY Zenon DEF WellMade
  <1>2. x.date \in [year : Nat, day : 1 .. 366] /\ x.date.day <= DaysIn(x.date.year)
    BY PartIdentifierAssumption DEF Inputs
  <1>3. x.date.year \in Nat /\ x.date.day \in 1 .. 366
    BY <1>2
  <1>4. x.date.day \in 1 .. DaysIn(Century(x.date.year % 100))
    BY <1>2, <1>3, DayOfCentury, Zenon
  <1>5. AllDigits(s) /\ AllDigits(SubSeq(id, 1, 9)) /\ AllDigits(SubSeq(id, 19, 23))
    BY <1>1, DigitTexts, Zenon
  <1> HIDE DEF s
  <1>6. ParsesAsDate(s)
    BY <1>1, <1>4, <1>5 DEF ParsesAsDate, Century
  <1>7. AsciiDigitsOrUpper(id, 23)
    BY <1>1, 23 \in Nat, AsciiTexts, Zenon
  <1> QED
    BY <1>5, <1>6, <1>7 DEF Accepted, validate_part_identifier, s

\* It refuses the others: a reference that passes has ASCII digits only.
LEMMA AcceptedIsAscii ==
    ASSUME NEW x \in Inputs, NEW id, WellMade(id, x), Accepted(id)
    PROVE  AsciiReference(x.reference)
  BY DEF WellMade, Accepted, validate_part_identifier

-----------------------------------------------------------------------------
(* The specification *)

\* What the steps keep: an identifier that was made was made from the input, by the guards
\* of create_part_identifier, and what was accepted passed the validation.
Inv ==
    /\ input \in Inputs
    /\ made \in Chars /\ shown \in Chars
    /\ made # <<>> => /\ AsciiDigitsOrUpper(input.batch, 2)
                      /\ CanCreate(input)
                      /\ made = create_part_identifier(input)
    /\ stage = "accepted" => Accepted(shown)

\* In every state, an identifier that was made is well made.
LEMMA MadeIsWellMade ==
    ASSUME Inv, made # <<>>
    PROVE  WellMade(made, input)
  BY MadeFields, Zenon DEF Inv

\* The steps keep it: what is made has 23 characters, whatever happens to it afterwards.
LEMMA Invariance == Spec => []Inv
  <1>1. Init => Inv
    BY EmptySeq DEF Init, Inv, Inputs, Chars
  <1>2. Inv /\ [Next]_vars => Inv'
    <2> SUFFICES ASSUME Inv, [Next]_vars PROVE Inv'
      OBVIOUS
    <2>1. CASE Create
      <3>1. stage' # "accepted" /\ input' = input /\ shown' = made'
        BY <2>1 DEF Create
      <3>2. CASE AsciiDigitsOrUpper(input.batch, 2) /\ CanCreate(input)
        <4>1. made' = create_part_identifier(input)
          BY <2>1, <3>2 DEF Create
        <4>2. made' \in Chars
          <5>1. create_part_identifier(input) \in Chars
            BY <3>2, MadeFields, Zenon DEF Inv, WellMade
          <5> QED
            BY <4>1, <5>1
        <4> QED
          BY <3>1, <3>2, <4>1, <4>2, Zenon DEF Inv
      <3>3. CASE ~ (AsciiDigitsOrUpper(input.batch, 2) /\ CanCreate(input))
        <4>1. made' = <<>>
          BY <2>1, <3>3 DEF Create
        <4>2. made' \in Chars
          BY <4>1 DEF Chars
        <4> QED
          BY <3>1, <4>1, <4>2, Zenon DEF Inv
      <3> QED
        BY <3>2, <3>3
    <2>2. CASE Garble
      <3>1. UNCHANGED <<input, made, stage>> /\ stage = "validate" /\ made # <<>>
        BY <2>2 DEF Garble
      <3>2. PICK g \in Garbles : shown' = [made EXCEPT ![g[1]] = g[2]]
        BY <2>2 DEF Garble
      <3>3. g[1] \in 1 .. 23 /\ g[2] \in Characters
        BY PartIdentifierAssumption
      <3>4. made \in Chars /\ Len(made) = 23
        BY <3>1, MadeIsWellMade, Zenon DEF Inv, WellMade
      <3>5. shown' \in Chars
        <4>1. g[1] \in 1 .. Len(made)
          BY <3>3, <3>4
        <4> QED
          BY <3>2, <3>3, <3>4, <4>1, ExceptSeq, Zenon DEF Chars
      <3> QED
        BY <3>1, <3>5 DEF Inv
    <2>3. CASE Validate
      BY <2>3 DEF Validate, Inv
    <2>4. CASE UNCHANGED vars
      BY <2>4 DEF vars, Inv
    <2> QED
      BY <2>1, <2>2, <2>3, <2>4 DEF Next
  <1> QED
    BY <1>1, <1>2, PTL DEF Spec

\* Whatever the part reference that the regex takes, the batch, the line, the day and the
\* serial number, an identifier that comes back unchanged is accepted if the digits of the
\* reference are ASCII ones, and refused if one of them is not: of every two-digit year that
\* the validation reads, the days are at least those of the year that was written.
THEOREM AlwaysMadeIsAccepted == Spec => []MadeIsAccepted
  <1>1. Inv => MadeIsAccepted
    <2> SUFFICES ASSUME Inv, made # <<>>, shown = made
                 PROVE  Accepted(made) <=> AsciiReference(input.reference)
      BY DEF MadeIsAccepted
    <2>1. WellMade(made, input) /\ input \in Inputs
      BY MadeIsWellMade, Zenon DEF Inv
    <2> QED
      BY <2>1, WellMadeAccepted, AcceptedIsAscii, Zenon
  <1> QED
    BY <1>1, Invariance, PTL

\* What the columns of the database read from an identifier that saves accept is what
\* create_part_identifier was given, for every width and script of the raw fields.
THEOREM AlwaysMadeReadsBack == Spec => []MadeReadsBack
  <1>1. Inv => MadeReadsBack
    <2> SUFFICES ASSUME Inv, made # <<>>, Accepted(made) PROVE MadeReadsBack
      BY DEF MadeReadsBack
    <2>1. WellMade(made, input) /\ input \in Inputs
      BY MadeIsWellMade, Zenon DEF Inv
    <2>2. AsciiReference(input.reference)
      BY <2>1, AcceptedIsAscii, Zenon
    <2> QED
      BY <2>1, <2>2, Zenon DEF MadeReadsBack, WellMade
  <1> QED
    BY <1>1, Invariance, PTL

\* What validate_part_identifier accepts, of all that a machine may show, the conversions
\* of the database accept too: every day of a year of the 1900s is one of the year that the
\* same two digits are in the 2000s.
THEOREM AlwaysAcceptedIsInsertable == Spec => []AcceptedIsInsertable
  <1>1. Inv => AcceptedIsInsertable
    <2> SUFFICES ASSUME Inv, stage = "accepted"
                 PROVE  /\ Len(shown) = 23
                        /\ AllDigits(SubSeq(shown, 14, 18))
                        /\ Number(SubSeq(shown, 16, 18))
                             \in 1 .. DaysIn(2000 + Number(SubSeq(shown, 14, 15)))
      BY DEF AcceptedIsInsertable
    <2> DEFINE s == SubSeq(shown, 14, 18)
               y == SubSeq(s, 1, 2)
               d == SubSeq(s, 3, 5)
    <2>1. shown \in Chars /\ Len(shown) = 23 /\ ParsesAsDate(s)
      BY DEF Inv, Accepted, AsciiDigitsOrUpper, validate_part_identifier
    <2>2. y = SubSeq(shown, 14, 15) /\ d = SubSeq(shown, 16, 18)
      <3>1. y = SubSeq(shown, 14 + 1 - 1, 14 + 2 - 1) /\ d = SubSeq(shown, 14 + 3 - 1, 14 + 5 - 1)
        BY <2>1, SubSeqOfSubSeq
      <3> QED
        BY <3>1
    <2>3. s \in Chars /\ Len(s) = 5
      <3>1. \A k \in 14 .. 18 : shown[k] \in Characters
        <4>1. shown \in [1 .. 23 -> Characters]
          BY <2>1, LenProperties DEF Chars
        <4> QED
          BY <4>1
      <3> QED
        BY <3>1, SubSeqProperties DEF Chars
    <2>4. AllDigits(s) /\ Number(d) \in 1 .. DaysIn(Century(Number(y)))
      BY <2>1 DEF ParsesAsDate, Century
    <2>5. s \in Digits
      BY <2>3, <2>4, DigitsOnly
    <2>6. y \in Digits /\ Len(y) = 2
      BY <2>3, <2>5, SubSeqProperties DEF Digits
    <2> HIDE DEF s, y, d
    <2>7. Number(y) \in 0 .. 99
      <3>1. y[1] \in 0 .. 9 /\ y[2] \in 0 .. 9
        <4>1. 1 \in 1 .. Len(y) /\ 2 \in 1 .. Len(y)
          BY <2>6
        <4> QED
          BY <2>6, <4>1, ElementOfSeq, Zenon DEF Digits
      <3>2. Number(y) = 10 * y[1] + y[2]
        BY <2>6, NumberOfDigits
      <3> QED
        BY <3>1, <3>2
    <2>8. Number(d) \in 1 .. DaysIn(2000 + Number(y))
      BY <2>4, <2>7, DayOfThe2000s
    <2> QED
      BY <2>1, <2>2, <2>4, <2>8 DEF s
  <1> QED
    BY <1>1, Invariance, PTL
=============================================================================
