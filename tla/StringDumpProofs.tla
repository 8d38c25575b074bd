-------------------------- MODULE StringDumpProofs --------------------------
(***************************************************************************)
(* The buffer of a serializer never overflows, and what it gives to the    *)
(* output is whole characters of a JSON string, for strings of any bytes   *)
(* and any length, and buffers of any size that holds the longest escape.  *)
(***************************************************************************)
EXTENDS StringDump, SequenceTheorems, WellFoundedInduction, TLAPS

-----------------------------------------------------------------------------
\* Content: a recursive function, whose equation has one solution

WholeUpTo(f, s, k) == f = [n \in 0 .. k |-> EndsCharacter(s, f, n)]

LEMMA LeastExists ==
  ASSUME NEW T \in SUBSET Nat, T # {}
  PROVE  \E m \in T : \A n \in T : m <= n
<1>1. PICK m \in T : \A n \in T : ~(<<n, m>> \in OpToRel(<, Nat))
  BY NatLessThanWellFounded, WFMin
<1>2. \A x, y \in Nat : x < y => <<x, y>> \in OpToRel(<, Nat)
  BY DEF OpToRel
<1>3. \A n \in T : ~(n < m)
  BY <1>1, <1>2, Zenon
<1> QED
  BY <1>3

\* Whether n is an end depends on what is before it.
LEMMA EndsByEarlier ==
  ASSUME NEW s, NEW n \in Nat, NEW f, NEW g, \A m \in 0 .. n - 1 : f[m] = g[m]
  PROVE  EndsCharacter(s, f, n) <=> EndsCharacter(s, g, n)
<1>1. \A k \in 1 .. 6 : k <= n => n - k \in 0 .. n - 1
  OBVIOUS
<1> QED
  BY <1>1, Zenon DEF EndsCharacter

LEMMA WholeExists ==
  ASSUME NEW s
  PROVE  \A k \in Nat : \E f : WholeUpTo(f, s, k)
<1> DEFINE Missing == {k \in Nat : ~\E f : WholeUpTo(f, s, k)}
<1> SUFFICES ASSUME Missing # {} PROVE FALSE
  OBVIOUS
<1>1. PICK k \in Missing : \A n \in Missing : k <= n
  <2>1. Missing \in SUBSET Nat
    OBVIOUS
  <2> HIDE DEF Missing
  <2> QED
    BY <2>1, LeastExists
<1>2. \E f : \A n \in 0 .. k - 1 : f[n] = EndsCharacter(s, f, n)
  <2>1. CASE k = 0
    BY <2>1
  <2>2. CASE k # 0
    <3>1. k - 1 \in Nat /\ ~(k <= k - 1)
      BY <1>1, <2>2
    <3>2. PICK f : WholeUpTo(f, s, k - 1)
      BY <1>1, <3>1
    <3> QED
      BY <3>2, Zenon DEF WholeUpTo
  <2> QED
    BY <2>1, <2>2
<1>3. PICK f : \A n \in 0 .. k - 1 : f[n] = EndsCharacter(s, f, n)
  BY <1>2
<1> DEFINE g == [n \in 0 .. k |-> IF n = k THEN EndsCharacter(s, f, k) ELSE f[n]]
           h == [n \in 0 .. k |-> EndsCharacter(s, g, n)]
<1>4. k \in Nat /\ \A n \in 0 .. k : n # k => n \in 0 .. k - 1
  BY <1>1
<1>5. \A n \in 0 .. k - 1 : g[n] = f[n]
  BY <1>4
<1>6. ASSUME NEW n \in 0 .. k PROVE EndsCharacter(s, f, n) = EndsCharacter(s, g, n)
  <2>1. n \in Nat /\ \A m \in 0 .. n - 1 : m \in 0 .. k - 1
    BY <1>4
  <2>2. \A m \in 0 .. n - 1 : f[m] = g[m]
    BY <1>5, <2>1
  <2>3. EndsCharacter(s, f, n) \in BOOLEAN /\ EndsCharacter(s, g, n) \in BOOLEAN
    BY Zenon DEF EndsCharacter
  <2> HIDE DEF g
  <2>4. EndsCharacter(s, f, n) <=> EndsCharacter(s, g, n)
    BY <2>1, <2>2, EndsByEarlier
  <2> QED
    BY <2>3, <2>4
<1>7. \A n \in 0 .. k : g[n] = h[n]
  <2> TAKE n \in 0 .. k
  <2>1. h[n] = EndsCharacter(s, g, n)
    BY Zenon
  <2>2. g[n] = EndsCharacter(s, f, n)
    <3>1. CASE n = k
      BY <3>1, Zenon
    <3>2. CASE n # k
      <4>1. n \in 0 .. k - 1
        BY <1>4, <3>2
      <4> HIDE DEF g
      <4> QED
        BY <1>3, <1>5, <4>1, Zenon
    <3> QED
      BY <3>1, <3>2
  <2> QED
    BY <1>6, <2>1, <2>2, Zenon
<1>8. g = h
  BY <1>7, Zenon
<1>9. WholeUpTo(g, s, k)
  BY <1>8, Zenon DEF WholeUpTo
<1> QED
  BY <1>1, <1>9

\* A text that goes on is whole where it was before.
LEMMA WholeAgree ==
  ASSUME NEW s \in Seq(Byte), NEW t \in Seq(Byte), Len(s) <= Len(t), \A i \in 1 .. Len(s) : t[i] = s[i],
         NEW f, WholeUpTo(f, s, Len(s)), NEW g, WholeUpTo(g, t, Len(t))
  PROVE  \A n \in 0 .. Len(s) : f[n] = g[n]
<1> DEFINE Other == {n \in 0 .. Len(s) : f[n] # g[n]}
<1> SUFFICES ASSUME Other # {} PROVE FALSE
  OBVIOUS
<1>0. Len(s) \in Nat /\ Len(t) \in Nat
  OBVIOUS
<1>1. PICK n \in Other : \A m \in Other : n <= m
  <2>1. Other \in SUBSET Nat
    OBVIOUS
  <2> HIDE DEF Other
  <2> QED
    BY <2>1, LeastExists
<1>2. n \in 0 .. Len(s) /\ n \in 0 .. Len(t) /\ n \in Nat
  BY <1>0, <1>1
<1>3. f[n] = EndsCharacter(s, f, n) /\ g[n] = EndsCharacter(t, g, n)
  BY <1>2, Zenon DEF WholeUpTo
<1>4. \A m \in 0 .. n - 1 : f[m] = g[m]
  BY <1>1, <1>2
<1>5. \A k \in 1 .. 6 : k <= n => SubSeq(s, n - k + 1, n) = SubSeq(t, n - k + 1, n)
  <2> TAKE k \in 1 .. 6
  <2> HAVE k <= n
  <2>1. n - k + 1 \in Int /\ n \in Int /\ \A i \in n - k + 1 .. n : i \in 1 .. Len(s) /\ i \in 1 .. Len(t)
    BY <1>2
  <2>2. \A i \in n - k + 1 .. n : s[i] \in Byte /\ t[i] \in Byte
    BY <2>1
  <2>3. SubSeq(s, n - k + 1, n) \in Seq(Byte) /\ Len(SubSeq(s, n - k + 1, n)) = k
        /\ \A i \in 1 .. k : SubSeq(s, n - k + 1, n)[i] = s[n - k + i]
    BY <1>2, <2>1, <2>2, SubSeqProperties
  <2>4. SubSeq(t, n - k + 1, n) \in Seq(Byte) /\ Len(SubSeq(t, n - k + 1, n)) = k
        /\ \A i \in 1 .. k : SubSeq(t, n - k + 1, n)[i] = t[n - k + i]
    BY <1>2, <2>1, <2>2, SubSeqProperties
  <2>5. \A i \in 1 .. k : s[n - k + i] = t[n - k + i]
    BY <1>2
  <2> QED
    BY <2>3, <2>4, <2>5, SeqEqual
<1>6. EndsCharacter(s, f, n) <=> EndsCharacter(t, f, n)
  BY <1>5, Zenon DEF EndsCharacter
<1>7. EndsCharacter(t, f, n) <=> EndsCharacter(t, g, n)
  BY <1>2, <1>4, EndsByEarlier
<1>8. EndsCharacter(s, f, n) \in BOOLEAN /\ EndsCharacter(t, g, n) \in BOOLEAN
  BY Zenon DEF EndsCharacter
<1>9. f[n] = g[n]
  BY <1>3, <1>6, <1>7, <1>8, Zenon
<1> QED
  BY <1>1, <1>9

LEMMA ContentByEnds ==
  ASSUME NEW s, Len(s) \in Nat
  PROVE  \E f : WholeUpTo(f, s, Len(s)) /\ IsContent(s) = f[Len(s)]
<1> DEFINE f == CHOOSE f : WholeUpTo(f, s, Len(s))
<1>1. WholeUpTo(f, s, Len(s))
  BY WholeExists, Zenon
<1>2. IsContent(s) = f[Len(s)]
  BY Zenon DEF IsContent, WholeUpTo
<1> QED
  BY <1>1, <1>2

LEMMA NothingIsContent == IsContent(<<>>)
<1>1. Len(<<>>) = 0
  OBVIOUS
<1>2. PICK f : WholeUpTo(f, <<>>, 0) /\ IsContent(<<>>) = f[0]
  BY <1>1, ContentByEnds
<1>3. f[0] = EndsCharacter(<<>>, f, 0)
  <2>1. 0 \in 0 .. 0
    OBVIOUS
  <2> QED
    BY <1>2, <2>1, Zenon DEF WholeUpTo
<1> QED
  BY <1>2, <1>3 DEF EndsCharacter

LEMMA OneMore ==
  ASSUME NEW s \in Seq(Byte), IsContent(s), NEW c \in Seq(Byte), IsCharacter(c)
  PROVE  IsContent(s \o c)
<1>1. PICK k \in 1 .. 6 : k = Len(c)
  BY DEF IsCharacter
<1>2. PICK n \in Nat : n = Len(s)
  OBVIOUS
<1>3. PICK t \in Seq(Byte) : t = s \o c
  BY ConcatProperties
<1>4. Len(t) = n + k /\ (\A i \in 1 .. n : t[i] = s[i]) /\ (\A i \in 1 .. k : t[n + i] = c[i])
  BY <1>1, <1>2, <1>3
<1>5. PICK f : WholeUpTo(f, s, n) /\ IsContent(s) = f[n]
  BY <1>2, ContentByEnds
<1>6. PICK g : WholeUpTo(g, t, n + k) /\ IsContent(t) = g[n + k]
  BY <1>4, ContentByEnds
<1>7. n <= n + k
  OBVIOUS
<1>8. g[n]
  <2>1. n \in 0 .. n
    OBVIOUS
  <2>2. f[n] = g[n]
    BY <1>2, <1>4, <1>5, <1>6, <1>7, <2>1, WholeAgree
  <2> QED
    BY <1>5, <2>2, Zenon
<1>9. SubSeq(t, n + 1, n + k) = c
  <2>1. \A i \in n + 1 .. n + k : t[i] \in Byte
    BY <1>4
  <2>2. SubSeq(t, n + 1, n + k) \in Seq(Byte) /\ Len(SubSeq(t, n + 1, n + k)) = k
        /\ \A i \in 1 .. k : SubSeq(t, n + 1, n + k)[i] = t[n + i]
    BY <2>1, SubSeqProperties
  <2> QED
    BY <1>1, <1>4, <2>2, SeqEqual
<1>10. EndsCharacter(t, g, n + k)
  <2>1. k <= n + k /\ (n + k) - k + 1 = n + 1 /\ (n + k) - k = n
    OBVIOUS
  <2>2. k <= n + k /\ IsCharacter(SubSeq(t, (n + k) - k + 1, n + k)) /\ g[(n + k) - k]
    BY <1>8, <1>9, <2>1
  <2> QED
    BY <2>2, Zenon DEF EndsCharacter
<1>11. g[n + k]
  <2>1. n + k \in 0 .. n + k
    OBVIOUS
  <2> QED
    BY <1>6, <1>10, <2>1, Zenon DEF WholeUpTo
<1> QED
  BY <1>3, <1>6, <1>11, Zenon

-----------------------------------------------------------------------------
\* What is written

Clean(s, ascii) ==
  s \in Seq(Byte) /\ IsContent(s) /\ (ascii => \A i \in 1 .. Len(s) : s[i] < 127)

LEMMA CleanMore ==
  ASSUME NEW ascii, NEW s, Clean(s, ascii), NEW c \in Seq(Byte), IsCharacter(c),
         ascii => \A i \in 1 .. Len(c) : c[i] < 127
  PROVE  Clean(s \o c, ascii)
<1>1. s \in Seq(Byte) /\ IsContent(s)
  BY DEF Clean
<1>2. s \o c \in Seq(Byte) /\ Len(s \o c) = Len(s) + Len(c)
      /\ \A i \in 1 .. Len(s) + Len(c) : (s \o c)[i] = IF i <= Len(s) THEN s[i] ELSE c[i - Len(s)]
  BY <1>1, ConcatProperties
<1>3. ASSUME ascii, NEW i \in 1 .. Len(s \o c) PROVE (s \o c)[i] < 127
  <2>1. CASE i <= Len(s)
    BY <1>1, <1>2, <1>3, <2>1 DEF Clean
  <2>2. CASE ~(i <= Len(s))
    <3>1. i - Len(s) \in 1 .. Len(c)
      BY <1>1, <1>2, <2>2
    <3> QED
      BY <1>1, <1>2, <1>3, <2>2, <3>1
  <2> QED
    BY <2>1, <2>2
<1>4. IsContent(s \o c)
  BY <1>1, OneMore
<1> QED
  BY <1>2, <1>3, <1>4 DEF Clean

LEMMA HexIsDigit ==
  ASSUME NEW n \in Int
  PROVE  Hex(n % 16) \in HexDigits /\ Hex(n % 16) \in Byte /\ Hex(n % 16) < 127
<1>1. n % 16 \in 0 .. 15
  OBVIOUS
<1> QED
  BY <1>1 DEF Hex, HexDigits, Byte

LEMMA EscapeIsCharacter ==
  ASSUME NEW n \in Int
  PROVE  /\ Escape(n) \in Seq(Byte) /\ Len(Escape(n)) = 6 /\ IsCharacter(Escape(n))
         /\ \A i \in 1 .. 6 : Escape(n)[i] < 127
<1>1. PICK a, b, c, d : /\ a = Hex((n \div 4096) % 16) /\ b = Hex((n \div 256) % 16)
                        /\ c = Hex((n \div 16) % 16) /\ d = Hex(n % 16)
  OBVIOUS
<1>2. n \div 4096 \in Int /\ n \div 256 \in Int /\ n \div 16 \in Int
  OBVIOUS
<1>3. \A x \in {a, b, c, d} : x \in HexDigits /\ x \in Byte /\ x < 127
  BY <1>1, <1>2, HexIsDigit
<1>4. Escape(n) = <<92, 117, a, b, c, d>>
  BY <1>1 DEF Escape, Backslash
<1>5. Escape(n) \in Seq(Byte) /\ Len(Escape(n)) = 6
  BY <1>3, <1>4 DEF Byte
<1>6. Escape(n)[1] = 92 /\ Escape(n)[2] = 117 /\ \A i \in 3 .. 6 : Escape(n)[i] \in {a, b, c, d}
  BY <1>4
<1>7. \A i \in 1 .. 6 : Escape(n)[i] < 127
  BY <1>3, <1>6
<1>8. IsCharacter(Escape(n))
  BY <1>3, <1>5, <1>6 DEF IsCharacter, Backslash
<1> QED
  BY <1>5, <1>7, <1>8

LEMMA ReplacementIsCharacter ==
  ASSUME NEW ascii \in BOOLEAN
  PROVE  /\ Replacement(ascii) \in Seq(Byte) /\ Len(Replacement(ascii)) <= 6 /\ IsCharacter(Replacement(ascii))
         /\ ascii => \A i \in 1 .. Len(Replacement(ascii)) : Replacement(ascii)[i] < 127
<1>1. CASE ascii
  <2>1. PICK e : e = Escape(65533)
    OBVIOUS
  <2>2. e \in Seq(Byte) /\ Len(e) = 6 /\ IsCharacter(e) /\ \A i \in 1 .. 6 : e[i] < 127
    BY <2>1, EscapeIsCharacter
  <2>3. Replacement(ascii) = e
    BY <1>1, <2>1 DEF Replacement
  <2>4. Len(e) <= 6 /\ \A i \in 1 .. Len(e) : e[i] < 127
    BY <2>2
  <2> QED
    BY <2>2, <2>3, <2>4, Zenon
<1>2. CASE ~ascii
  <2>1. Replacement(ascii) = <<239, 191, 189>>
    BY <1>2 DEF Replacement
  <2>2. 239 \in 224 .. 239 /\ 191 \in Second(239) /\ 189 \in Tails
    BY DEF Second, Tails
  <2> QED
    BY <1>2, <2>1, <2>2 DEF IsCharacter, Byte
<1> QED
  BY <1>1, <1>2

\* A code point is escaped, or else its last byte is written.
LEMMA EscapedIsCharacters ==
  ASSUME NEW code \in Nat, NEW byte \in Byte, NEW ascii \in BOOLEAN, NEW s, Clean(s, ascii),
         NEW e, e = Escaped(code, byte, ascii)
  PROVE  \/ e = <<byte>> /\ code >= 32 /\ code \notin {34, 92} /\ (ascii => code < 127)
         \/ /\ e \in Seq(Byte) /\ Clean(s \o e, ascii)
            /\ Len(e) <= 12 /\ (ascii \/ (code < 128 /\ Len(e) <= 6))
<1>0. DOMAIN Letter = {8, 9, 10, 12, 13, 34, 92}
  BY DEF Letter
<1>1. CASE code \in DOMAIN Letter
  <2>1. e = <<92, Letter[code]>>
    BY <1>1 DEF Escaped, Backslash
  <2>2. Letter[code] \in {34, 92, 98, 102, 110, 114, 116} /\ code < 128
    BY <1>0, <1>1 DEF Letter
  <2>3. e \in Seq(Byte) /\ Len(e) = 2 /\ e[1] = 92 /\ e[2] = Letter[code]
    BY <2>1, <2>2 DEF Byte
  <2>4. IsCharacter(e)
    BY <2>2, <2>3 DEF IsCharacter, Backslash
  <2>5. \A i \in 1 .. Len(e) : e[i] < 127
    BY <2>2, <2>3
  <2>6. Clean(s \o e, ascii)
    BY <2>3, <2>4, <2>5, CleanMore
  <2> QED
    BY <2>2, <2>3, <2>6
<1>2. CASE code \notin DOMAIN Letter /\ (code <= 31 \/ (ascii /\ code >= 127))
  <2>1. CASE code <= 65535
    <3>1. e = Escape(code)
      BY <1>2, <2>1 DEF Escaped
    <3>2. e \in Seq(Byte) /\ Len(e) = 6 /\ IsCharacter(e) /\ \A i \in 1 .. 6 : e[i] < 127
      BY <3>1, EscapeIsCharacter
    <3>3. Clean(s \o e, ascii)
      BY <3>2, CleanMore
    <3> QED
      BY <1>2, <3>2, <3>3
  <2>2. CASE ~(code <= 65535)
    <3>1. PICK m \in Int, n \in Int : m = 55232 + code \div 1024 /\ n = 56320 + (code % 1024)
      OBVIOUS
    <3>2. PICK a, b : a = Escape(m) /\ b = Escape(n)
      OBVIOUS
    <3>3. e = a \o b
      <4>1. e = Escape(m) \o Escape(n)
        <5>1. e = Escape(\hD7C0 + code \div 1024) \o Escape(\hDC00 + (code % 1024))
          BY <1>2, <2>2, SMTT(30) DEF Escaped
        <5> QED
          BY <3>1, <5>1, SMTT(30)
      <4> QED
        BY <3>2, <4>1, Zenon
    <3>4. /\ a \in Seq(Byte) /\ Len(a) = 6 /\ IsCharacter(a) /\ \A i \in 1 .. 6 : a[i] < 127
          /\ b \in Seq(Byte) /\ Len(b) = 6 /\ IsCharacter(b) /\ \A i \in 1 .. 6 : b[i] < 127
      BY <3>2, EscapeIsCharacter
    <3>5. Clean((s \o a) \o b, ascii)
      <4>1. Clean(s \o a, ascii)
        BY <3>4, CleanMore
      <4> QED
        BY <3>4, <4>1, CleanMore
    <3>6. (s \o a) \o b = s \o e
      <4>1. s \in Seq(Byte)
        BY DEF Clean
      <4> QED
        BY <3>3, <3>4, <4>1, ConcatAssociative
    <3>7. e \in Seq(Byte) /\ Len(e) = 12
      <4>1. a \o b \in Seq(Byte) /\ Len(a \o b) = Len(a) + Len(b)
        BY <3>4, ConcatProperties
      <4> QED
        BY <3>3, <3>4, <4>1
    <3>8. ascii /\ Len(e) <= 12
      BY <1>2, <2>2, <3>7
    <3>9. Clean(s \o e, ascii)
      BY <3>5, <3>6, Zenon
    <3> QED
      BY <3>7, <3>8, <3>9, Zenon
  <2> QED
    BY <2>1, <2>2
<1>3. CASE code \notin DOMAIN Letter /\ ~(code <= 31 \/ (ascii /\ code >= 127))
  <2>1. e = <<byte>>
    BY <1>3 DEF Escaped
  <2> QED
    BY <1>0, <1>3, <2>1
<1> QED
  BY <1>1, <1>2, <1>3

-----------------------------------------------------------------------------
\* The decoder

States == {0, 2, 3, 4, 5, 6, 7, 8}

\* What a byte of its class is.
LEMMA Classes ==
  ASSUME NEW byte \in Byte, NEW c, c = ByteClass(byte)
  PROVE  /\ c \in 0 .. 11
         /\ c = 0 <=> byte \in 0 .. 127
         /\ c = 1 => byte \in 128 .. 143
         /\ c = 9 => byte \in 144 .. 159
         /\ c = 7 => byte \in 160 .. 191
         /\ c = 2 => byte \in 194 .. 223
         /\ c = 10 => byte = 224
         /\ c = 3 => byte \in (225 .. 239) \ {237}
         /\ c = 4 => byte = 237
         /\ c = 11 => byte = 240
         /\ c = 6 => byte \in 241 .. 243
         /\ c = 5 => byte = 244
<1>1. byte \in 0 .. 255
  BY DEF Byte
<1>2. byte \in 0 .. 127 => c = 0
  BY DEF ByteClass
<1>3. byte \in 128 .. 143 => c = 1
  BY DEF ByteClass
<1>4. byte \in 144 .. 159 => c = 9
  BY DEF ByteClass
<1>5. byte \in 160 .. 191 => c = 7
  BY DEF ByteClass
<1>6. byte \in 192 .. 193 => c = 8
  BY DEF ByteClass
<1>7. byte \in 194 .. 223 => c = 2
  BY DEF ByteClass
<1>8. byte = 224 => c = 10
  BY DEF ByteClass
<1>9. byte \in (225 .. 239) \ {237} => c = 3
  BY DEF ByteClass
<1>10. byte = 237 => c = 4
  BY DEF ByteClass
<1>11. byte = 240 => c = 11
  BY DEF ByteClass
<1>12. byte \in 241 .. 243 => c = 6
  BY DEF ByteClass
<1>13. byte = 244 => c = 5
  BY DEF ByteClass
<1>14. byte \in 245 .. 255 => c = 8
  BY DEF ByteClass
<1> QED
  BY <1>1, <1>2, <1>3, <1>4, <1>5, <1>6, <1>7, <1>8, <1>9, <1>10, <1>11, <1>12, <1>13, <1>14

LEMMA FirstByte ==
  ASSUME NEW byte \in Byte, NEW n, n = Decoded(0, ByteClass(byte)),
         NEW b, b = FirstBits(byte, ByteClass(byte))
  PROVE  /\ b \in Nat
         /\ n \in States \union {1}
         /\ n = 0 => byte \in 0 .. 127 /\ b = byte
         /\ n = 2 => byte \in 194 .. 223 /\ b >= 2
         /\ n = 3 => byte \in (225 .. 239) \ {237} /\ b >= 1
         /\ n = 4 => byte = 224
         /\ n = 5 => byte = 237 /\ b >= 1
         /\ n = 6 => byte = 240
         /\ n = 7 => byte \in 241 .. 243 /\ b >= 1
         /\ n = 8 => byte = 244 /\ b >= 1
<1>1. PICK c : c = ByteClass(byte)
  OBVIOUS
<1>2. n = <<0, 1, 2, 3, 5, 8, 7, 1, 1, 1, 4, 6>>[c + 1] /\ c \in 0 .. 11
  BY <1>1, Classes DEF Decoded, Accept
<1>3. /\ c = 0 => n = 0 /\ b = byte % 256
      /\ c = 2 => n = 2 /\ b = byte % 64
      /\ c = 3 => n = 3 /\ b = byte % 32
      /\ c = 4 => n = 5 /\ b = byte % 16
      /\ c = 5 => n = 8 /\ b = byte % 8
      /\ c = 6 => n = 7 /\ b = byte % 4
      /\ c = 10 => n = 4 /\ b = 0
      /\ c = 11 => n = 6 /\ b = 0
      /\ c \in {1, 7, 8, 9} => n = 1
      /\ c = 1 => b = byte % 128
      /\ c = 7 => b = byte % 2
      /\ c \in {8, 9} => b = 0
  BY <1>1, <1>2 DEF FirstBits
<1>4. byte \in 0 .. 255
  BY DEF Byte
<1> QED
  BY <1>1, <1>2, <1>3, <1>4, Classes DEF States

LEMMA LaterByte ==
  ASSUME NEW state \in States \ {0}, NEW byte \in Byte, NEW n, n = Decoded(state, ByteClass(byte))
  PROVE  /\ state = 2 => n \in {0, 1}
         /\ state \in {3, 4, 5} => n \in {1, 2}
         /\ state \in {6, 7, 8} => n \in {1, 3}
         /\ n # 1 => byte \in 128 .. 191
         /\ n # 1 /\ state = 4 => byte \in 160 .. 191
         /\ n # 1 /\ state = 5 => byte \in 128 .. 159
         /\ n # 1 /\ state = 6 => byte \in 144 .. 191
         /\ n # 1 /\ state = 8 => byte \in 128 .. 143
<1>1. PICK c : c = ByteClass(byte)
  OBVIOUS
<1>2. /\ state = 2 => n = IF c \in {1, 7, 9} THEN 0 ELSE 1
      /\ state = 3 => n = IF c \in {1, 7, 9} THEN 2 ELSE 1
      /\ state = 4 => n = IF c = 7 THEN 2 ELSE 1
      /\ state = 5 => n = IF c \in {1, 9} THEN 2 ELSE 1
      /\ state = 6 => n = IF c \in {7, 9} THEN 3 ELSE 1
      /\ state = 7 => n = IF c \in {1, 7, 9} THEN 3 ELSE 1
      /\ state = 8 => n = IF c = 1 THEN 3 ELSE 1
  BY <1>1 DEF Decoded, Accept, Reject, States
<1>3. n # 1 => c \in {1, 7, 9}
  BY <1>2 DEF States
<1> QED
  BY <1>1, <1>2, <1>3, Classes DEF States

-----------------------------------------------------------------------------
\* A code point that has begun, by the state the decoder is in

OneLeft(t)      == \A x \in Tails : IsCharacter(t \o <<x>>)
TwoLeft(t, S)   == \A x \in S : OneLeft(t \o <<x>>)
ThreeLeft(t, S) == \A x \in S : TwoLeft(t \o <<x>>, 128 .. 191)

Begun(state, t) ==
  /\ state = 0 => t = <<>>
  /\ state = 2 => OneLeft(t)
  /\ state = 3 => TwoLeft(t, 128 .. 191)
  /\ state = 4 => TwoLeft(t, 160 .. 191)
  /\ state = 5 => TwoLeft(t, 128 .. 159)
  /\ state = 6 => ThreeLeft(t, 144 .. 191)
  /\ state = 7 => ThreeLeft(t, 128 .. 191)
  /\ state = 8 => ThreeLeft(t, 128 .. 143)

LEMMA Appended ==
  ASSUME NEW S, NEW t \in Seq(S), NEW x \in S
  PROVE  t \o <<x>> = Append(t, x)
<1>1. <<x>> \in Seq(S) /\ Len(<<x>>) = 1 /\ <<x>>[1] = x
  OBVIOUS
<1>2. t \o <<x>> \in Seq(S) /\ Len(t \o <<x>>) = Len(t) + 1
      /\ \A i \in 1 .. Len(t) + 1 : (t \o <<x>>)[i] = IF i <= Len(t) THEN t[i] ELSE <<x>>[i - Len(t)]
  BY <1>1, ConcatProperties
<1>3. Append(t, x) \in Seq(S) /\ Len(Append(t, x)) = Len(t) + 1
      /\ \A i \in 1 .. Len(t) + 1 : Append(t, x)[i] = IF i <= Len(t) THEN t[i] ELSE x
  OBVIOUS
<1>4. \A i \in 1 .. Len(t) + 1 : IF i <= Len(t) THEN TRUE ELSE i - Len(t) = 1
  OBVIOUS
<1>5. \A i \in 1 .. Len(t \o <<x>>) : (t \o <<x>>)[i] = Append(t, x)[i]
  BY <1>1, <1>2, <1>3, <1>4
<1> QED
  BY <1>2, <1>3, <1>5, SeqEqual

LEMMA Joined ==
  ASSUME NEW a, NEW b, NEW c, NEW d
  PROVE  /\ <<a>> \o <<b>> = <<a, b>>
         /\ (<<a>> \o <<b>>) \o <<c>> = <<a, b, c>>
         /\ ((<<a>> \o <<b>>) \o <<c>>) \o <<d>> = <<a, b, c, d>>
<1> DEFINE S == {a, b, c, d}
<1>1. <<a>> \in Seq(S) /\ <<a, b>> \in Seq(S) /\ <<a, b, c>> \in Seq(S) /\ b \in S /\ c \in S /\ d \in S
  OBVIOUS
<1>0. <<a, b, c, d>> \in Seq(S)
  OBVIOUS
<1> HIDE DEF S
<1>2. <<a>> \o <<b>> = Append(<<a>>, b)
  BY <1>1, Appended
<1>3. <<a, b>> \o <<c>> = Append(<<a, b>>, c)
  BY <1>1, Appended
<1>4. <<a, b, c>> \o <<d>> = Append(<<a, b, c>>, d)
  BY <1>1, Appended
<1>5. Append(<<a>>, b) = <<a, b>>
  <2>1. Append(<<a>>, b) \in Seq(S) /\ Len(Append(<<a>>, b)) = 2
        /\ Append(<<a>>, b)[1] = a /\ Append(<<a>>, b)[2] = b
    BY <1>1
  <2>2. \A i \in 1 .. 2 : Append(<<a>>, b)[i] = <<a, b>>[i]
    BY <2>1
  <2> QED
    BY <1>1, <2>1, <2>2, SeqEqual
<1>6. Append(<<a, b>>, c) = <<a, b, c>>
  <2>1. Append(<<a, b>>, c) \in Seq(S) /\ Len(Append(<<a, b>>, c)) = 3
        /\ Append(<<a, b>>, c)[1] = a /\ Append(<<a, b>>, c)[2] = b /\ Append(<<a, b>>, c)[3] = c
    BY <1>1
  <2>2. \A i \in 1 .. 3 : Append(<<a, b>>, c)[i] = <<a, b, c>>[i]
    BY <2>1
  <2> QED
    BY <1>1, <2>1, <2>2, SeqEqual
<1>7. Append(<<a, b, c>>, d) = <<a, b, c, d>>
  <2>1. Append(<<a, b, c>>, d) \in Seq(S) /\ Len(Append(<<a, b, c>>, d)) = 4
        /\ Append(<<a, b, c>>, d)[1] = a /\ Append(<<a, b, c>>, d)[2] = b
        /\ Append(<<a, b, c>>, d)[3] = c /\ Append(<<a, b, c>>, d)[4] = d
    BY <1>1
  <2>2. \A i \in 1 .. 4 : Append(<<a, b, c>>, d)[i] = <<a, b, c, d>>[i]
    BY <2>1
  <2> QED
    BY <1>0, <1>1, <2>1, <2>2, SeqEqual
<1> QED
  BY <1>2, <1>3, <1>4, <1>5, <1>6, <1>7, Zenon

LEMMA SecondBytes ==
  /\ \A b \in (225 .. 239) \ {237} : Second(b) = 128 .. 191
  /\ \A b \in 241 .. 243 : Second(b) = 128 .. 191
  /\ Second(224) = 160 .. 191 /\ Second(237) = 128 .. 159
  /\ Second(240) = 144 .. 191 /\ Second(244) = 128 .. 143
BY DEF Second, Tails

LEMMA ThreeBytes ==
  ASSUME NEW b \in 224 .. 239, NEW S, S = Second(b)
  PROVE  TwoLeft(<<b>>, S)
<1> SUFFICES ASSUME NEW x \in S, NEW y \in Tails PROVE IsCharacter((<<b>> \o <<x>>) \o <<y>>)
  BY DEF TwoLeft, OneLeft
<1>1. (<<b>> \o <<x>>) \o <<y>> = <<b, x, y>>
  BY Joined
<1>2. IsCharacter(<<b, x, y>>)
  BY DEF IsCharacter
<1> QED
  BY <1>1, <1>2, Zenon

LEMMA FourBytes ==
  ASSUME NEW b \in 240 .. 244, NEW S, S = Second(b)
  PROVE  ThreeLeft(<<b>>, S)
<1> SUFFICES ASSUME NEW x \in S, NEW y \in Tails, NEW z \in Tails
             PROVE  IsCharacter(((<<b>> \o <<x>>) \o <<y>>) \o <<z>>)
  BY DEF ThreeLeft, TwoLeft, OneLeft, Tails
<1>1. ((<<b>> \o <<x>>) \o <<y>>) \o <<z>> = <<b, x, y, z>>
  BY Joined
<1>2. IsCharacter(<<b, x, y, z>>)
  BY DEF IsCharacter
<1> QED
  BY <1>1, <1>2, Zenon

LEMMA FirstBegins ==
  ASSUME NEW byte \in Byte, NEW n, n = Decoded(0, ByteClass(byte)), n \notin {0, 1}
  PROVE  Begun(n, <<byte>>)
<1>1. /\ n \in States
      /\ n = 2 => byte \in 194 .. 223
      /\ n = 3 => byte \in (225 .. 239) \ {237}
      /\ n = 4 => byte = 224
      /\ n = 5 => byte = 237
      /\ n = 6 => byte = 240
      /\ n = 7 => byte \in 241 .. 243
      /\ n = 8 => byte = 244
  BY FirstByte
<1>2. ASSUME n = 2 PROVE OneLeft(<<byte>>)
  <2> SUFFICES ASSUME NEW x \in Tails PROVE IsCharacter(<<byte>> \o <<x>>)
    BY DEF OneLeft
  <2>1. <<byte>> \o <<x>> = <<byte, x>>
    BY Joined
  <2>2. IsCharacter(<<byte, x>>)
    BY <1>1, <1>2 DEF IsCharacter
  <2> QED
    BY <2>1, <2>2, Zenon
<1>3. ASSUME n \in {3, 4, 5} PROVE TwoLeft(<<byte>>, Second(byte))
  <2>1. byte \in 224 .. 239
    BY <1>1, <1>3
  <2> QED
    BY <2>1, ThreeBytes
<1>4. ASSUME n \in {6, 7, 8} PROVE ThreeLeft(<<byte>>, Second(byte))
  <2>1. byte \in 240 .. 244
    BY <1>1, <1>4
  <2> QED
    BY <2>1, FourBytes
<1>5. /\ n \in {3, 7} => Second(byte) = 128 .. 191
      /\ n = 4 => Second(byte) = 160 .. 191
      /\ n = 5 => Second(byte) = 128 .. 159
      /\ n = 6 => Second(byte) = 144 .. 191
      /\ n = 8 => Second(byte) = 128 .. 143
  BY <1>1, SecondBytes
<1> QED
  BY <1>2, <1>3, <1>4, <1>5 DEF Begun

LEMMA LaterBegins ==
  ASSUME NEW state \in States \ {0}, NEW byte \in Byte, NEW n, n = Decoded(state, ByteClass(byte)), n # 1,
         NEW t, Begun(state, t)
  PROVE  IF n = 0 THEN IsCharacter(t \o <<byte>>) ELSE Begun(n, t \o <<byte>>)
<1>1. /\ state = 2 => n = 0
      /\ state \in {3, 4, 5} => n = 2
      /\ state \in {6, 7, 8} => n = 3
      /\ byte \in 128 .. 191
      /\ state = 4 => byte \in 160 .. 191
      /\ state = 5 => byte \in 128 .. 159
      /\ state = 6 => byte \in 144 .. 191
      /\ state = 8 => byte \in 128 .. 143
  BY LaterByte
<1>2. ASSUME state = 2 PROVE IsCharacter(t \o <<byte>>)
  BY <1>1, <1>2 DEF Begun, OneLeft, Tails
<1>3. ASSUME state \in {3, 4, 5} PROVE OneLeft(t \o <<byte>>)
  BY <1>1, <1>3 DEF Begun, TwoLeft
<1>4. ASSUME state \in {6, 7, 8} PROVE TwoLeft(t \o <<byte>>, 128 .. 191)
  BY <1>1, <1>4 DEF Begun, ThreeLeft
<1>5. state = 2 \/ state \in {3, 4, 5} \/ state \in {6, 7, 8}
  BY DEF States
<1> QED
  BY <1>1, <1>2, <1>3, <1>4, <1>5 DEF Begun

-----------------------------------------------------------------------------
\* The invariant of the loop

Dumps ==
  [at : Nat \ {0}, state : States \union {1}, code : Nat, out : Seq(Byte), buffer : Seq(Byte),
   accepted : Nat, undumped : Nat, most : Nat, thrown : BOOLEAN]

Hows == [ascii : BOOLEAN, errors : {"strict", "ignore", "replace"}, room : {Room}]

\* In the buffer are characters, and behind them what has begun, unless it is kept
\* out of the buffer.
Held(d, ascii, kept, tail) ==
  /\ kept \in Seq(Byte) /\ tail \in Seq(Byte)
  /\ d.buffer = kept \o tail
  /\ Len(kept) = d.accepted /\ Len(kept) + Left <= Room
  /\ Clean(d.out \o kept, ascii)
  /\ IF ascii THEN tail = <<>> ELSE Begun(d.state, tail) /\ Len(tail) = d.undumped

\* How many bytes of a code point there can be, and what its first bits are.
Decoding(d) ==
  /\ d.state \in States
  /\ d.state = 0 => d.undumped = 0
  /\ d.state = 2 => d.undumped <= 3 /\ d.code >= 2
  /\ d.state \in {3, 4, 5} => d.undumped <= 2
  /\ d.state \in {6, 7, 8} => d.undumped <= 1
  /\ d.state \in {3, 5, 7, 8} => d.code >= 1

Kept(d, ascii) == Decoding(d) /\ \E kept, tail : Held(d, ascii, kept, tail)

Good(d, ascii) == d \in Dumps /\ d.most <= Room /\ Clean(d.out, ascii)

LEMMA DecodeFields ==
  ASSUME NEW d \in Dumps, NEW byte \in Byte, d.state # 1, NEW c, c = Decode(d, byte)
  PROVE  /\ c \in Dumps
         /\ c.at = d.at + 1 /\ c.state = Decoded(d.state, ByteClass(byte))
         /\ c.code = IF d.state # 0 THEN d.code * 64 + (byte % 64) ELSE FirstBits(byte, ByteClass(byte))
         /\ c.out = d.out /\ c.buffer = d.buffer /\ c.accepted = d.accepted /\ c.undumped = d.undumped
         /\ c.most = d.most /\ c.thrown = d.thrown
<1>1. PICK n, code : n = Decoded(d.state, ByteClass(byte))
                     /\ code = IF d.state # 0 THEN d.code * 64 + (byte % 64) ELSE FirstBits(byte, ByteClass(byte))
  OBVIOUS
<1>2. n \in States \union {1}
  <2>1. CASE d.state = 0
    BY <1>1, <2>1, FirstByte
  <2>2. CASE d.state # 0
    <3>1. d.state \in States \ {0}
      BY <2>2 DEF Dumps
    <3> QED
      BY <1>1, <3>1, LaterByte DEF States
  <2> QED
    BY <2>1, <2>2
<1>3. code \in Nat
  <2>1. CASE d.state = 0
    BY <1>1, <2>1, FirstByte
  <2>2. CASE d.state # 0
    <3>1. byte % 64 \in Nat /\ d.code \in Nat
      BY DEF Dumps, Byte
    <3> QED
      BY <1>1, <2>2, <3>1
  <2> QED
    BY <2>1, <2>2
<1>4. PICK at : at = d.at + 1
  OBVIOUS
<1>5. at \in Nat \ {0}
  BY <1>4 DEF Dumps
<1>6. c = [d EXCEPT !.at = at, !.state = n, !.code = code]
  BY <1>1, <1>4 DEF Decode, Accept, Dumps
<1>7. c \in Dumps
  BY <1>2, <1>3, <1>5, <1>6, Zenon DEF Dumps
<1>8. /\ c.at = at /\ c.state = n /\ c.code = code
      /\ c.out = d.out /\ c.buffer = d.buffer /\ c.accepted = d.accepted /\ c.undumped = d.undumped
      /\ c.most = d.most /\ c.thrown = d.thrown
  BY <1>6 DEF Dumps
<1> QED
  BY <1>1, <1>4, <1>7, <1>8, Zenon

\* s has been written behind what was in the buffer of d.
Longer(d, s, c) ==
  /\ c.at = d.at /\ c.state = d.state /\ c.code = d.code /\ c.out = d.out /\ c.buffer = d.buffer \o s
  /\ c.accepted = d.accepted /\ c.undumped = d.undumped /\ c.thrown = d.thrown

LEMMA AddedFields ==
  ASSUME NEW d \in Dumps, NEW s \in Seq(Byte), NEW zero \in {0, 1}, NEW c, c = Added(d, s, zero)
  PROVE  /\ c \in Dumps /\ Longer(d, s, c)
         /\ d.most <= Room /\ Len(d.buffer) + Len(s) + zero <= Room => c.most <= Room
<1>1. PICK end : end = Len(d.buffer) + Len(s) + zero
  OBVIOUS
<1>2. d.buffer \in Seq(Byte) /\ d.buffer \o s \in Seq(Byte) /\ d.most \in Nat
  BY ConcatProperties DEF Dumps
<1>3. end \in Nat
  BY <1>1, <1>2
<1>4. PICK most, buffer : most = (IF end > d.most THEN end ELSE d.most) /\ buffer = d.buffer \o s
  OBVIOUS
<1>5. c = [d EXCEPT !.buffer = buffer, !.most = most]
  BY <1>1, <1>4 DEF Added, Dumps
<1>6. most \in Nat /\ buffer \in Seq(Byte) /\ (d.most <= Room /\ end <= Room => most <= Room)
  BY <1>2, <1>3, <1>4
<1>7. c \in Dumps
  BY <1>5, <1>6 DEF Dumps
<1> QED
  BY <1>1, <1>4, <1>5, <1>6, <1>7 DEF Dumps, Longer

LEMMA FlushedFields ==
  ASSUME NEW d \in Dumps, NEW room \in Nat, NEW c, c = Marked(Flushed(d, room))
  PROVE  /\ c \in Dumps
         /\ c.at = d.at /\ c.state = d.state /\ c.code = d.code /\ c.thrown = d.thrown /\ c.most = d.most
         /\ c.accepted = Len(c.buffer) /\ c.undumped = 0
         /\ \/ c.out = d.out \o d.buffer /\ c.buffer = <<>>
            \/ c.out = d.out /\ c.buffer = d.buffer /\ Len(c.buffer) + Left <= room
<1>1. PICK e : e = Flushed(d, room)
  OBVIOUS
<1>2. d.buffer \in Seq(Byte) /\ d.out \o d.buffer \in Seq(Byte)
  BY ConcatProperties DEF Dumps
<1>3. /\ e \in Dumps
      /\ e.at = d.at /\ e.state = d.state /\ e.code = d.code /\ e.thrown = d.thrown /\ e.most = d.most
      /\ \/ e.out = d.out \o d.buffer /\ e.buffer = <<>>
         \/ e.out = d.out /\ e.buffer = d.buffer /\ Len(e.buffer) + Left <= room
  <2>1. PICK o : o = d.out \o d.buffer
    OBVIOUS
  <2>2. CASE room - Len(d.buffer) < Left
    <3>1. e = [d EXCEPT !.out = o, !.buffer = <<>>]
      BY <1>1, <2>1, <2>2 DEF Flushed, Dumps
    <3>2. o \in Seq(Byte) /\ <<>> \in Seq(Byte)
      BY <1>2, <2>1
    <3>4. e \in Dumps
      BY <3>1, <3>2, Zenon DEF Dumps
    <3>3. /\ e.at = d.at /\ e.state = d.state /\ e.code = d.code /\ e.thrown = d.thrown /\ e.most = d.most
          /\ e.out = o /\ e.buffer = <<>>
      BY <3>1 DEF Dumps
    <3> QED
      BY <2>1, <3>3, <3>4
  <2>3. CASE ~(room - Len(d.buffer) < Left)
    <3>1. e = d
      BY <1>1, <2>3 DEF Flushed
    <3>2. Len(d.buffer) + Left <= room
      BY <1>2, <2>3 DEF Left
    <3> QED
      BY <3>1, <3>2
  <2> QED
    BY <2>2, <2>3
<1>4. PICK n \in Nat : n = Len(e.buffer)
  BY <1>3 DEF Dumps
<1>5. c = [e EXCEPT !.accepted = n, !.undumped = 0]
  BY <1>1, <1>4 DEF Marked
<1>6. /\ c \in Dumps
      /\ c.at = e.at /\ c.state = e.state /\ c.code = e.code /\ c.thrown = e.thrown /\ c.most = e.most
      /\ c.accepted = n /\ c.undumped = 0 /\ c.out = e.out /\ c.buffer = e.buffer
  <2>1. c \in Dumps
    <3>1. 0 \in Nat /\ e \in Dumps
      BY <1>3
    <3> QED
      BY <1>5, <3>1, Zenon DEF Dumps
  <2>2. /\ c.at = e.at /\ c.state = e.state /\ c.code = e.code /\ c.thrown = e.thrown /\ c.most = e.most
        /\ c.accepted = n /\ c.undumped = 0 /\ c.out = e.out /\ c.buffer = e.buffer
    BY <1>3, <1>5 DEF Dumps
  <2> QED
    BY <2>1, <2>2
<1> QED
  BY <1>3, <1>4, <1>6

\* Characters are written behind characters, and the buffer is flushed or not.
LEMMA Written ==
  ASSUME NEW ascii \in BOOLEAN, NEW d \in Dumps, Good(d, ascii), d.state = 0,
         NEW s \in Seq(Byte), NEW zero \in {0, 1}, Len(d.buffer) + Len(s) + zero <= Room,
         Clean(d.out \o (d.buffer \o s), ascii),
         NEW c, c = Marked(Flushed(Added(d, s, zero), Room))
  PROVE  Good(c, ascii) /\ Kept(c, ascii) /\ c.thrown = d.thrown
<1>0. Room \in Nat /\ Left = 13 /\ 13 <= Room
  BY RoomAssumption DEF Left
<1>1. PICK a : a = Added(d, s, zero)
  OBVIOUS
<1>2. /\ a \in Dumps /\ a.state = 0 /\ a.out = d.out /\ a.buffer = d.buffer \o s
      /\ a.thrown = d.thrown /\ a.most <= Room
  <2>1. a \in Dumps
    BY <1>1, AddedFields, Zenon
  <2>2. Longer(d, s, a)
    BY <1>1, AddedFields, Zenon
  <2>3. a.state = d.state /\ a.out = d.out /\ a.thrown = d.thrown /\ a.buffer = d.buffer \o s
    BY <2>2 DEF Longer
  <2>4. d.most <= Room
    BY Zenon DEF Good
  <2>5. a.most <= Room
    BY <1>1, <2>4, AddedFields, Zenon
  <2> QED
    BY <2>1, <2>3, <2>5
<1>3. /\ c \in Dumps /\ c.state = 0 /\ c.thrown = d.thrown /\ c.most <= Room
      /\ c.accepted = Len(c.buffer) /\ c.undumped = 0
      /\ \/ c.out = d.out \o (d.buffer \o s) /\ c.buffer = <<>>
         \/ c.out = d.out /\ c.buffer = d.buffer \o s /\ Len(c.buffer) + Left <= Room
  <2>1. c = Marked(Flushed(a, Room))
    BY <1>1
  <2>2. /\ c \in Dumps
        /\ c.at = a.at /\ c.state = a.state /\ c.code = a.code /\ c.thrown = a.thrown /\ c.most = a.most
        /\ c.accepted = Len(c.buffer) /\ c.undumped = 0
        /\ \/ c.out = a.out \o a.buffer /\ c.buffer = <<>>
           \/ c.out = a.out /\ c.buffer = a.buffer /\ Len(c.buffer) + Left <= Room
    BY <1>0, <1>2, <2>1, FlushedFields, Zenon
  <2> QED
    BY <1>2, <2>2
<1>4. c.out \in Seq(Byte) /\ c.buffer \in Seq(Byte) /\ <<>> \in Seq(Byte) /\ Len(<<>>) = 0
  BY <1>3 DEF Dumps
<1>5. Clean(c.out, ascii) /\ Clean(c.out \o c.buffer, ascii) /\ Len(c.buffer) + Left <= Room
  <2>1. CASE c.out = d.out \o (d.buffer \o s) /\ c.buffer = <<>>
    <3>1. c.out \o c.buffer = c.out
      BY <1>4, <2>1, ConcatEmptySeq
    <3> QED
      BY <1>0, <1>4, <2>1, <3>1
  <2>2. CASE c.out = d.out /\ c.buffer = d.buffer \o s /\ Len(c.buffer) + Left <= Room
    BY <2>2 DEF Good
  <2> QED
    BY <1>3, <2>1, <2>2
<1>6. c.buffer \o <<>> = c.buffer
  BY <1>4, ConcatEmptySeq
<1>7. Held(c, ascii, c.buffer, <<>>)
  <2>1. ~ascii => Begun(c.state, <<>>) /\ Len(<<>>) = c.undumped
    BY <1>3, <1>4 DEF Begun
  <2> QED
    BY <1>3, <1>4, <1>5, <1>6, <2>1, Zenon DEF Held
<1>8. Decoding(c)
  BY <1>3 DEF Decoding, States
<1> QED
  BY <1>3, <1>5, <1>7, <1>8, Zenon DEF Good, Kept

\* What is known in the middle of a round.
Parts(d, ascii, kept, tail) ==
  /\ kept \in Seq(Byte) /\ tail \in Seq(Byte) /\ d.out \in Seq(Byte) /\ d.buffer \in Seq(Byte)
  /\ Len(d.buffer) = Len(kept) + Len(tail) /\ Len(tail) <= 3 /\ Len(kept) + 13 <= Room
  /\ Len(kept) \in Nat /\ Len(tail) \in Nat
  /\ (d.state = 0 \/ ascii) => tail = <<>> /\ d.buffer = kept
  /\ \A s \in Seq(Byte) : d.buffer \o s = kept \o (tail \o s)
  /\ \A s \in Seq(Byte) : d.out \o (kept \o s) = (d.out \o kept) \o s

LEMMA Middle ==
  ASSUME NEW ascii \in BOOLEAN, NEW d \in Dumps, Decoding(d),
         NEW kept, NEW tail, Held(d, ascii, kept, tail)
  PROVE  Parts(d, ascii, kept, tail)
<1>1. kept \in Seq(Byte) /\ tail \in Seq(Byte) /\ d.out \in Seq(Byte) /\ d.buffer = kept \o tail
      /\ d.buffer \in Seq(Byte) /\ Len(kept) + 13 <= Room
  BY DEF Held, Dumps, Left
<1>2. Len(d.buffer) = Len(kept) + Len(tail) /\ Len(kept) \in Nat /\ Len(tail) \in Nat
  BY <1>1, ConcatProperties
<1>3. Len(tail) <= 3
  <2>1. CASE ascii
    BY <2>1 DEF Held
  <2>2. CASE ~ascii
    <3>1. Len(tail) = d.undumped
      BY <2>2 DEF Held
    <3>2. d.undumped <= 3
      BY DEF Decoding, States, Dumps
    <3> QED
      BY <3>1, <3>2
  <2> QED
    BY <2>1, <2>2
<1>4. d.state = 0 \/ ascii => tail = <<>>
  BY Zenon DEF Held, Begun
<1>5. tail = <<>> => d.buffer = kept
  BY <1>1, ConcatEmptySeq
<1>6. ASSUME NEW s \in Seq(Byte)
      PROVE  d.buffer \o s = kept \o (tail \o s) /\ d.out \o (kept \o s) = (d.out \o kept) \o s
  <2>1. (kept \o tail) \o s = kept \o (tail \o s)
    BY <1>1, ConcatAssociative
  <2>2. (d.out \o kept) \o s = d.out \o (kept \o s)
    <3>1. PICK out \in Seq(Byte) : out = d.out
      BY <1>1
    <3>2. (out \o kept) \o s = out \o (kept \o s)
      BY <1>1, ConcatAssociative
    <3> QED
      BY <3>1, <3>2, Zenon
  <2> QED
    BY <1>1, <2>1, <2>2
<1> QED
  BY <1>1, <1>2, <1>3, <1>4, <1>5, <1>6, Zenon DEF Parts

\* A code point of more than one byte is not ASCII.
LEMMA LastByte ==
  ASSUME NEW d \in Dumps, NEW byte \in Byte, Decoding(d), d.state # 0, NEW c, c = Decode(d, byte), c.state = 0
  PROVE  d.state = 2 /\ c.code >= 128
<1>1. c.state = Decoded(d.state, ByteClass(byte)) /\ c.code = d.code * 64 + (byte % 64)
  <2>1. d.state # 1
    BY DEF Decoding, States
  <2> QED
    BY <2>1, DecodeFields
<1>2. d.state \in States \ {0}
  BY DEF Decoding
<1>3. d.state = 2
  <2>1. /\ d.state \in {3, 4, 5} => c.state \in {1, 2}
        /\ d.state \in {6, 7, 8} => c.state \in {1, 3}
    BY <1>1, <1>2, LaterByte
  <2> QED
    BY <1>2, <2>1 DEF States
<1>4. d.code \in Nat /\ d.code >= 2 /\ byte % 64 \in Nat
  BY <1>3 DEF Decoding, Dumps, Byte
<1>5. c.code >= 128
  BY <1>1, <1>4
<1> QED
  BY <1>3, <1>5

LEMMA FoundKeeps ==
  ASSUME NEW h \in Hows, NEW ascii, ascii = h.ascii, NEW d \in Dumps, Good(d, ascii), Decoding(d),
         NEW kept, NEW tail, Held(d, ascii, kept, tail),
         NEW byte \in Byte, NEW c, c = Decode(d, byte), c.state = 0, NEW e, e = Found(c, byte, h)
  PROVE  Good(e, ascii) /\ Kept(e, ascii)
<1>0. ascii \in BOOLEAN /\ h.room = Room /\ Room \in Nat
  BY RoomAssumption DEF Hows
<1>1. Parts(d, ascii, kept, tail)
  BY <1>0, Middle
<1>2. /\ c \in Dumps /\ c.state = Decoded(d.state, ByteClass(byte))
      /\ c.code = IF d.state # 0 THEN d.code * 64 + (byte % 64) ELSE FirstBits(byte, ByteClass(byte))
      /\ c.out = d.out /\ c.buffer = d.buffer /\ c.most = d.most
  <2>1. d.state # 1
    BY DEF Decoding, States
  <2> QED
    BY <2>1, DecodeFields
<1>3. PICK code \in Nat : code = c.code
  BY <1>2 DEF Dumps
<1>4. PICK s : s = Escaped(code, byte, ascii)
  OBVIOUS
<1>5. PICK whole : whole = d.out \o kept
  OBVIOUS
<1>6. Clean(whole, ascii)
  BY <1>5 DEF Held
<1>7. \/ s = <<byte>> /\ code >= 32 /\ code \notin {34, 92} /\ (ascii => code < 127)
      \/ /\ s \in Seq(Byte) /\ Clean(whole \o s, ascii)
         /\ Len(s) <= 12 /\ (ascii \/ (code < 128 /\ Len(s) <= 6))
  BY <1>0, <1>4, <1>6, EscapedIsCharacters
<1>8. PICK zero \in {0, 1} : zero = IF Len(s) >= 6 THEN 1 ELSE 0
  OBVIOUS
<1>9. d.state # 0 => d.state = 2 /\ code >= 128
  BY <1>3, LastByte
<1>10. d.state = 0 => byte \in 0 .. 127 /\ code = byte
  BY <1>2, <1>3, FirstByte
<1>11. s \in Seq(Byte) /\ Clean(d.out \o (d.buffer \o s), ascii) /\ Len(d.buffer) + Len(s) + zero <= Room
  <2>1. CASE s = <<byte>> /\ code >= 32 /\ code \notin {34, 92} /\ (ascii => code < 127)
    <3>1. s \in Seq(Byte) /\ Len(s) = 1 /\ s[1] = byte
      BY <2>1
    <3>2. Len(d.buffer) + Len(s) + zero <= Room
      BY <1>0, <1>1, <1>8, <3>1 DEF Parts
    <3>3. CASE d.state = 0
      <4>1. byte \in PlainBytes /\ (ascii => byte < 127)
        BY <1>10, <2>1, <3>3 DEF PlainBytes, Backslash
      <4>2. IsCharacter(s)
        BY <3>1, <4>1 DEF IsCharacter
      <4>3. ascii => \A i \in 1 .. Len(s) : s[i] < 127
        BY <3>1, <4>1
      <4>4. Clean(whole \o s, ascii)
        BY <1>6, <3>1, <4>2, <4>3, CleanMore
      <4>5. d.out \o (d.buffer \o s) = whole \o s
        BY <1>1, <1>5, <3>1, <3>3, Zenon DEF Parts
      <4> QED
        BY <3>1, <3>2, <4>4, <4>5, Zenon
    <3>4. CASE d.state # 0
      <4>1. ~ascii
        BY <1>9, <2>1, <3>4
      <4>2. PICK t : t = tail \o s
        OBVIOUS
      <4>3. t \in Seq(Byte)
        BY <1>1, <3>1, <4>2, ConcatProperties DEF Parts
      <4>4. IsCharacter(t)
        <5>1. Begun(d.state, tail)
          BY <4>1 DEF Held
        <5>2. d.state \in States \ {0}
          BY <3>4 DEF Decoding
        <5>3. IsCharacter(tail \o <<byte>>)
          BY <1>2, <5>1, <5>2, LaterBegins
        <5> QED
          BY <2>1, <4>2, <5>3
      <4>5. Clean(whole \o t, ascii)
        BY <1>6, <4>1, <4>3, <4>4, CleanMore
      <4>6. d.out \o (d.buffer \o s) = whole \o t
        BY <1>1, <1>5, <3>1, <4>2, <4>3, Zenon DEF Parts
      <4> QED
        BY <3>1, <3>2, <4>5, <4>6, Zenon
    <3> QED
      BY <3>3, <3>4
  <2>2. CASE /\ s \in Seq(Byte) /\ Clean(whole \o s, ascii)
             /\ Len(s) <= 12 /\ (ascii \/ (code < 128 /\ Len(s) <= 6))
    <3>1. tail = <<>> /\ d.buffer = kept
      <4>1. d.state = 0 \/ ascii
        BY <1>9, <2>2
      <4> QED
        BY <1>1, <4>1, Zenon DEF Parts
    <3>2. d.out \o (d.buffer \o s) = whole \o s
      BY <1>1, <1>5, <2>2, <3>1, Zenon DEF Parts
    <3>3. Len(tail) = 0 /\ Len(s) \in Nat
      BY <2>2, <3>1
    <3>4. Len(d.buffer) + Len(s) + zero <= Room
      BY <1>0, <1>1, <1>8, <2>2, <3>3 DEF Parts
    <3> QED
      BY <2>2, <3>2, <3>4, Zenon
  <2> QED
    BY <1>7, <2>1, <2>2
<1>12. Good(c, ascii)
  BY <1>2, Zenon DEF Good
<1>13. e = Marked(Flushed(Added(c, s, zero), Room))
  BY <1>0, <1>3, <1>4, <1>8 DEF Found
<1>14. Len(c.buffer) + Len(s) + zero <= Room /\ Clean(c.out \o (c.buffer \o s), ascii)
  BY <1>2, <1>11, Zenon
<1> QED
  BY <1>0, <1>2, <1>11, <1>12, <1>13, <1>14, Written, Zenon

\* What has begun is taken back.
LEMMA BackToKept ==
  ASSUME NEW ascii \in BOOLEAN, NEW d \in Dumps, Decoding(d), NEW kept, NEW tail, Held(d, ascii, kept, tail)
  PROVE  TakenBack(d) = kept
<1>1. Parts(d, ascii, kept, tail)
  BY Middle
<1>2. kept \in Seq(Byte) /\ tail \in Seq(Byte) /\ Len(kept) \in Nat
  BY <1>1 DEF Parts
<1>3. PICK n \in Nat : n = Len(kept)
  BY <1>2
<1>4. PICK b \in Seq(Byte) : b = kept \o tail
  BY <1>2, ConcatProperties
<1>5. TakenBack(d) = SubSeq(b, 1, n)
  BY <1>3, <1>4 DEF TakenBack, Held
<1>6. \A i \in 1 .. n : b[i] = kept[i]
  BY <1>2, <1>3, <1>4
<1>7. \A i \in 1 .. n : b[i] \in Byte
  BY <1>2, <1>3, <1>6
<1>8. SubSeq(b, 1, n) \in Seq(Byte) /\ Len(SubSeq(b, 1, n)) = n /\ \A i \in 1 .. n : SubSeq(b, 1, n)[i] = b[i]
  <2>1. 1 \in Int /\ n \in Int
    OBVIOUS
  <2> QED
    BY <1>7, <2>1, SubSeqProperties
<1>9. SubSeq(b, 1, n) = kept
  BY <1>2, <1>3, <1>6, <1>8, SeqEqual
<1> QED
  BY <1>5, <1>9, Zenon

LEMMA InvalidKeeps ==
  ASSUME NEW h \in Hows, NEW ascii, ascii = h.ascii, NEW d \in Dumps, Good(d, ascii), Decoding(d),
         NEW kept, NEW tail, Held(d, ascii, kept, tail),
         NEW byte \in Byte, NEW c, c = Decode(d, byte), NEW e, e = Invalid(c, h)
  PROVE  Good(e, ascii) /\ (e.thrown \/ Kept(e, ascii))
<1>0. ascii \in BOOLEAN /\ h.room = Room /\ Room \in Nat /\ h.errors \in {"strict", "ignore", "replace"}
  BY RoomAssumption DEF Hows
<1>1. Parts(d, ascii, kept, tail)
  BY <1>0, Middle
<1>2. /\ c \in Dumps /\ c.at = d.at + 1 /\ c.out = d.out /\ c.buffer = d.buffer /\ c.accepted = d.accepted
      /\ c.most = d.most /\ c.thrown = d.thrown
  <2>1. d.state # 1
    BY DEF Decoding, States
  <2> QED
    BY <2>1, DecodeFields
<1>3. c.most <= Room /\ Clean(c.out, ascii) /\ c.most \in Nat
  BY <1>2 DEF Good, Dumps
<1>4. CASE h.errors = "strict"
  <2>1. e = [c EXCEPT !.thrown = TRUE]
    BY <1>4 DEF Invalid
  <2>2. e \in Dumps
    BY <1>2, <2>1, Zenon DEF Dumps
  <2>3. e.thrown = TRUE /\ e.most = c.most /\ e.out = c.out
    BY <1>2, <2>1 DEF Dumps
  <2> QED
    BY <1>3, <2>2, <2>3 DEF Good
<1>5. CASE h.errors # "strict"
  <2>1. TakenBack(c) = kept
    <3>1. TakenBack(d) = kept
      BY <1>0, BackToKept
    <3>2. TakenBack(c) = TakenBack(d)
      BY <1>2, Zenon DEF TakenBack
    <3> QED
      BY <3>1, <3>2
  <2>2. PICK at \in Nat \ {0} : at = IF c.undumped > 0 THEN c.at - 1 ELSE c.at
    BY <1>2 DEF Dumps
  <2>3. PICK back : back = [c EXCEPT !.state = 0, !.buffer = kept, !.undumped = 0, !.at = at]
    OBVIOUS
  <2>4. e = IF h.errors = "ignore" THEN back ELSE Marked(Flushed(Added(back, Replacement(ascii), 0), Room))
    <3>1. back = [c EXCEPT !.state = Accept, !.buffer = TakenBack(c), !.undumped = 0,
                           !.at = IF c.undumped > 0 THEN c.at - 1 ELSE c.at]
      BY <2>1, <2>2, <2>3, Zenon DEF Accept
    <3> QED
      BY <1>0, <1>5, <3>1 DEF Invalid
  <2>5. kept \in Seq(Byte) /\ 0 \in Nat /\ 0 \in States \union {1}
    BY <1>1 DEF Parts, States
  <2>6. back \in Dumps
    BY <1>2, <2>2, <2>3, <2>5, Zenon DEF Dumps
  <2>7. /\ back.state = 0 /\ back.buffer = kept /\ back.undumped = 0 /\ back.out = d.out
        /\ back.accepted = d.accepted /\ back.most = c.most
    BY <1>2, <2>3 DEF Dumps
  <2>8. Good(back, ascii)
    BY <1>2, <1>3, <2>6, <2>7, Zenon DEF Good
  <2>9. Held(back, ascii, kept, <<>>)
    <3>1. <<>> \in Seq(Byte) /\ Len(<<>>) = 0 /\ Begun(0, <<>>)
      BY DEF Begun
    <3>2. kept \o <<>> = kept
      BY <2>5, ConcatEmptySeq
    <3>3. Len(kept) = d.accepted /\ Len(kept) + Left <= Room /\ Clean(d.out \o kept, ascii)
      BY Zenon DEF Held
    <3> QED
      BY <2>5, <2>7, <3>1, <3>2, <3>3, Zenon DEF Held
  <2>10. Decoding(back)
    BY <2>7 DEF Decoding, States
  <2>11. CASE h.errors = "ignore"
    BY <2>4, <2>8, <2>9, <2>10, <2>11, Zenon DEF Kept
  <2>12. CASE h.errors = "replace"
    <3>1. PICK r : r = Replacement(ascii)
      OBVIOUS
    <3>2. /\ r \in Seq(Byte) /\ Len(r) <= 6 /\ IsCharacter(r)
          /\ ascii => \A i \in 1 .. Len(r) : r[i] < 127
      BY <1>0, <3>1, ReplacementIsCharacter
    <3>3. Len(kept) + Len(r) + 0 <= Room
      <4>1. Len(kept) \in Nat /\ Len(kept) + 13 <= Room
        BY <1>1 DEF Parts
      <4> QED
        BY <1>0, <3>2, <4>1
    <3>4. Clean(d.out \o (kept \o r), ascii)
      <4>1. Clean(d.out \o kept, ascii)
        BY DEF Held
      <4>2. PICK whole : whole = d.out \o kept
        OBVIOUS
      <4>3. Clean(whole \o r, ascii)
        BY <3>2, <4>1, <4>2, CleanMore
      <4>4. d.out \o (kept \o r) = whole \o r
        BY <1>1, <3>2, <4>2, Zenon DEF Parts
      <4> QED
        BY <4>3, <4>4, Zenon
    <3>5. e = Marked(Flushed(Added(back, r, 0), Room))
      BY <2>4, <2>12, <3>1
    <3>6. Len(back.buffer) + Len(r) + 0 <= Room /\ Clean(back.out \o (back.buffer \o r), ascii) /\ 0 \in {0, 1}
      BY <2>7, <3>3, <3>4, Zenon
    <3> QED
      BY <1>0, <2>6, <2>7, <2>8, <3>2, <3>5, <3>6, Written, Zenon
  <2> QED
    BY <1>0, <1>5, <2>11, <2>12
<1> QED
  BY <1>4, <1>5

\* A code point that goes on has room in the buffer for the rest of it.
LEMMA GoesOn ==
  ASSUME NEW d \in Dumps, Decoding(d), NEW byte \in Byte, NEW c, c = Decode(d, byte), c.state \notin {0, 1}
  PROVE  /\ c.state \in States \ {0}
         /\ c.state = 2 => d.undumped <= 2 /\ c.code >= 2
         /\ c.state = 3 => d.undumped <= 1
         /\ c.state \in {4, 5, 6, 7, 8} => d.undumped = 0
         /\ c.state \in {3, 5, 7, 8} => c.code >= 1
<1>0. c.code \in Nat
  <2>1. d.state # 1
    BY DEF Decoding, States
  <2>2. c \in Dumps
    BY <2>1, DecodeFields, Zenon
  <2> QED
    BY <2>2 DEF Dumps
<1>1. PICK n, code : n = c.state /\ code = c.code /\ code \in Nat
  BY <1>0
<1>2. /\ n = Decoded(d.state, ByteClass(byte))
      /\ code = IF d.state # 0 THEN d.code * 64 + (byte % 64) ELSE FirstBits(byte, ByteClass(byte))
  <2>1. d.state # 1
    BY DEF Decoding, States
  <2> QED
    BY <1>1, <2>1, DecodeFields
<1>3. CASE d.state = 0
  <2>1. /\ n \in States \union {1}
        /\ n = 2 => code >= 2
        /\ n \in {3, 5, 7, 8} => code >= 1
    BY <1>2, <1>3, FirstByte
  <2>2. d.undumped = 0
    BY <1>3 DEF Decoding
  <2> QED
    BY <1>1, <2>1, <2>2 DEF States
<1>4. CASE d.state # 0
  <2>1. d.state \in States \ {0}
    BY <1>4 DEF Decoding
  <2>2. /\ d.state = 2 => n \in {0, 1}
        /\ d.state \in {3, 4, 5} => n \in {1, 2}
        /\ d.state \in {6, 7, 8} => n \in {1, 3}
        /\ n # 1 /\ d.state = 4 => byte \in 160 .. 191
        /\ n # 1 /\ d.state = 6 => byte \in 144 .. 191
    BY <1>2, <2>1, LaterByte
  <2>3. d.code \in Nat /\ d.undumped \in Nat /\ byte \in 0 .. 255
    BY DEF Dumps, Byte
  <2>4. d.state \in {3, 4, 5} => n = 2 /\ d.undumped <= 2
    BY <1>1, <2>2 DEF Decoding
  <2>5. d.state \in {6, 7, 8} => n = 3 /\ d.undumped <= 1
    BY <1>1, <2>2 DEF Decoding
  <2>6. code >= 2
    <3>1. CASE d.state \in {3, 5, 7, 8}
      <4>1. d.code >= 1
        BY <3>1 DEF Decoding
      <4>2. byte % 64 >= 0
        BY <2>3
      <4> QED
        BY <1>2, <1>4, <2>3, <4>1, <4>2
    <3>2. CASE d.state \in {4, 6}
      <4>1. byte \in 144 .. 191
        BY <1>1, <2>2, <3>2
      <4>2. byte % 64 >= 2
        BY <4>1
      <4>3. d.code * 64 >= 0
        BY <2>3
      <4> QED
        BY <1>2, <1>4, <2>3, <4>2, <4>3
    <3> QED
      BY <1>1, <2>1, <2>2, <3>1, <3>2 DEF States
  <2> QED
    BY <1>1, <2>1, <2>2, <2>4, <2>5, <2>6 DEF States
<1> QED
  BY <1>3, <1>4

LEMMA IncompleteKeeps ==
  ASSUME NEW h \in Hows, NEW ascii, ascii = h.ascii, NEW d \in Dumps, Good(d, ascii), Decoding(d),
         NEW kept, NEW tail, Held(d, ascii, kept, tail),
         NEW byte \in Byte, NEW c, c = Decode(d, byte), c.state \notin {0, 1}, NEW e, e = Incomplete(c, byte, h)
  PROVE  Good(e, ascii) /\ Kept(e, ascii)
<1>0. ascii \in BOOLEAN /\ Room \in Nat
  BY RoomAssumption DEF Hows
<1>1. Parts(d, ascii, kept, tail)
  BY <1>0, Middle
<1>2. /\ c \in Dumps /\ c.state = Decoded(d.state, ByteClass(byte)) /\ c.out = d.out /\ c.buffer = d.buffer
      /\ c.accepted = d.accepted /\ c.undumped = d.undumped /\ c.most = d.most
  <2>1. d.state # 1
    BY DEF Decoding, States
  <2> QED
    BY <2>1, DecodeFields
<1>3. c.most <= Room /\ Clean(c.out, ascii) /\ c.most \in Nat
  BY <1>2 DEF Good, Dumps
<1>4. PICK a : a = IF ascii THEN c ELSE Added(c, <<byte>>, 0)
  OBVIOUS
<1>5. <<byte>> \in Seq(Byte) /\ Len(<<byte>>) = 1 /\ 0 \in {0, 1}
  OBVIOUS
<1>6. /\ a \in Dumps /\ a.state = c.state /\ a.code = c.code /\ a.out = d.out /\ a.accepted = d.accepted
      /\ a.undumped = d.undumped /\ a.most <= Room
      /\ a.buffer = IF ascii THEN d.buffer ELSE d.buffer \o <<byte>>
  <2>1. CASE ascii
    BY <1>2, <1>3, <1>4, <2>1
  <2>2. CASE ~ascii
    <3>1. a = Added(c, <<byte>>, 0)
      BY <1>4, <2>2
    <3>2. Len(c.buffer) + Len(<<byte>>) + 0 <= Room
      BY <1>0, <1>1, <1>2, <1>5 DEF Parts
    <3>3. a \in Dumps /\ Longer(c, <<byte>>, a)
      BY <1>2, <1>5, <3>1, AddedFields, Zenon
    <3>4. a.most <= Room
      BY <1>2, <1>3, <1>5, <3>1, <3>2, AddedFields, Zenon
    <3> QED
      BY <1>2, <2>2, <3>3, <3>4 DEF Longer
  <2> QED
    BY <2>1, <2>2
<1>7. PICK more \in Nat : more = d.undumped + 1
  BY DEF Dumps
<1>8. e = [a EXCEPT !.undumped = more]
  <2>1. e = [a EXCEPT !.undumped = a.undumped + 1]
    BY <1>4 DEF Incomplete
  <2> QED
    BY <1>6, <1>7, <2>1
<1>9. e \in Dumps
  BY <1>6, <1>7, <1>8, Zenon DEF Dumps
<1>10. /\ e.state = a.state /\ e.code = a.code /\ e.out = a.out /\ e.buffer = a.buffer
       /\ e.accepted = a.accepted /\ e.undumped = more /\ e.most = a.most
  BY <1>6, <1>8 DEF Dumps
<1>11. Good(e, ascii)
  BY <1>2, <1>3, <1>6, <1>9, <1>10, Zenon DEF Good
<1>12. Decoding(e)
  <2>1. /\ c.state \in States \ {0}
        /\ c.state = 2 => d.undumped <= 2 /\ c.code >= 2
        /\ c.state = 3 => d.undumped <= 1
        /\ c.state \in {4, 5, 6, 7, 8} => d.undumped = 0
        /\ c.state \in {3, 5, 7, 8} => c.code >= 1
    BY GoesOn
  <2>2. e.state = c.state /\ e.code = c.code /\ e.undumped = d.undumped + 1 /\ d.undumped \in Nat
    BY <1>6, <1>7, <1>10 DEF Dumps
  <2> QED
    BY <2>1, <2>2 DEF Decoding, States
<1>13. /\ kept \in Seq(Byte) /\ Len(kept) = d.accepted /\ Len(kept) + Left <= Room
       /\ Clean(d.out \o kept, ascii) /\ tail \in Seq(Byte) /\ d.buffer = kept \o tail
  BY Zenon DEF Held
<1>14. CASE ascii
  <2>1. Held(e, ascii, kept, tail)
    <3>1. tail = <<>>
      BY <1>14 DEF Held
    <3> QED
      BY <1>6, <1>10, <1>13, <1>14, <3>1, Zenon DEF Held
  <2> QED
    BY <1>11, <1>12, <2>1, Zenon DEF Kept
<1>15. CASE ~ascii
  <2>1. PICK t : t = tail \o <<byte>>
    OBVIOUS
  <2>2. t \in Seq(Byte) /\ Len(t) = Len(tail) + 1
    BY <1>5, <1>13, <2>1, ConcatProperties
  <2>3. e.buffer = kept \o t
    <3>1. d.buffer \o <<byte>> = kept \o t
      BY <1>1, <1>5, <2>1, Zenon DEF Parts
    <3> QED
      BY <1>6, <1>10, <1>15, <3>1
  <2>4. Len(t) = e.undumped
    <3>1. Len(tail) = d.undumped
      BY <1>15 DEF Held
    <3> QED
      BY <1>7, <1>10, <2>2, <3>1
  <2>5. Begun(c.state, t)
    <3>1. CASE d.state = 0
      <4>1. t = <<byte>>
        <5>1. tail = <<>>
          BY <1>1, <3>1 DEF Parts
        <5> QED
          BY <1>5, <2>1, <5>1, ConcatEmptySeq
      <4>2. Begun(c.state, <<byte>>)
        BY <1>2, <3>1, FirstBegins
      <4> QED
        BY <4>1, <4>2
    <3>2. CASE d.state # 0
      <4>1. Begun(d.state, tail)
        BY <1>15 DEF Held
      <4>2. d.state \in States \ {0}
        BY <3>2 DEF Decoding
      <4>3. c.state # 1 /\ c.state # 0
        OBVIOUS
      <4>4. IF c.state = 0 THEN IsCharacter(tail \o <<byte>>) ELSE Begun(c.state, tail \o <<byte>>)
        BY <1>2, <4>1, <4>2, <4>3, LaterBegins
      <4> QED
        BY <2>1, <4>3, <4>4
    <3> QED
      BY <3>1, <3>2
  <2>6. e.state = c.state /\ e.accepted = d.accepted /\ e.out = d.out
    BY <1>6, <1>10
  <2>7. Held(e, ascii, kept, t)
    BY <1>13, <1>15, <2>2, <2>3, <2>4, <2>5, <2>6, Zenon DEF Held
  <2> QED
    BY <1>11, <1>12, <2>7, Zenon DEF Kept
<1> QED
  BY <1>14, <1>15

LEMMA RoundKeeps ==
  ASSUME NEW h \in Hows, NEW d \in Dumps, Good(d, h.ascii), Kept(d, h.ascii),
         NEW byte \in Byte, NEW e, e = Round(d, byte, h)
  PROVE  Good(e, h.ascii) /\ (e.thrown \/ Kept(e, h.ascii))
<1>1. Decoding(d) /\ \E kept, tail : Held(d, h.ascii, kept, tail)
  BY Zenon DEF Kept
<1>2. PICK kept, tail : Held(d, h.ascii, kept, tail)
  BY <1>1
<1>3. PICK c : c = Decode(d, byte)
  OBVIOUS
<1>4. PICK ascii : ascii = h.ascii
  OBVIOUS
<1>5. Good(d, ascii) /\ Held(d, ascii, kept, tail)
  BY <1>2, <1>4
<1>6. CASE c.state = 0
  <2>1. e = Found(c, byte, h)
    BY <1>3, <1>6 DEF Round, Accept, Reject
  <2> QED
    BY <1>1, <1>3, <1>4, <1>5, <1>6, <2>1, FoundKeeps
<1>7. CASE c.state = 1
  <2>1. e = Invalid(c, h)
    BY <1>3, <1>7 DEF Round, Accept, Reject
  <2> QED
    BY <1>1, <1>3, <1>4, <1>5, <2>1, InvalidKeeps
<1>8. CASE c.state \notin {0, 1}
  <2>1. e = Incomplete(c, byte, h)
    BY <1>3, <1>8 DEF Round, Accept, Reject
  <2> QED
    BY <1>1, <1>3, <1>4, <1>5, <1>8, <2>1, IncompleteKeeps
<1> QED
  BY <1>6, <1>7, <1>8

\* What is left in the buffer at the end is characters, but for what has begun.
LEMMA EndedIsGood ==
  ASSUME NEW h \in Hows, NEW d \in Dumps, Good(d, h.ascii), Kept(d, h.ascii), NEW e, e = Ended(d, h)
  PROVE  Good(e, h.ascii)
<1>0. PICK ascii \in BOOLEAN : ascii = h.ascii
  BY DEF Hows
<1>1. Decoding(d) /\ \E kept, tail : Held(d, ascii, kept, tail)
  BY <1>0, Zenon DEF Kept
<1>2. PICK kept, tail : Held(d, ascii, kept, tail)
  BY <1>1
<1>3. Parts(d, ascii, kept, tail)
  BY <1>1, <1>2, Middle
<1>4. Clean(d.out \o kept, ascii)
  BY <1>2 DEF Held
<1>5. d.most <= Room /\ Clean(d.out, ascii)
  BY <1>0 DEF Good
<1>6. ASSUME NEW o, Clean(o, ascii), e = [d EXCEPT !.out = o] PROVE Good(e, ascii)
  <2>1. o \in Seq(Byte)
    BY <1>6 DEF Clean
  <2>2. e \in Dumps
    BY <1>6, <2>1, Zenon DEF Dumps
  <2>3. e.out = o /\ e.most = d.most
    BY <1>6 DEF Dumps
  <2> QED
    BY <1>5, <1>6, <2>2, <2>3 DEF Good
<1>7. TakenBack(d) = kept
  BY <1>1, <1>2, BackToKept
<1>8. CASE d.state = 0
  <2>1. e = [d EXCEPT !.out = d.out \o d.buffer]
    BY <1>8 DEF Ended, Accept, Dumps
  <2>2. d.buffer = kept
    BY <1>3, <1>8, Zenon DEF Parts
  <2> QED
    BY <1>0, <1>4, <1>6, <2>1, <2>2
<1>9. CASE d.state # 0 /\ h.errors = "strict"
  <2>1. e = [d EXCEPT !.thrown = TRUE]
    BY <1>9 DEF Ended, Accept
  <2>2. e \in Dumps
    BY <2>1, Zenon DEF Dumps
  <2>3. e.out = d.out /\ e.most = d.most
    BY <2>1 DEF Dumps
  <2> QED
    BY <1>0, <1>5, <2>2, <2>3 DEF Good
<1>10. CASE d.state # 0 /\ h.errors = "ignore"
  <2>1. e = [d EXCEPT !.out = d.out \o TakenBack(d)]
    BY <1>10 DEF Ended, Accept, Dumps
  <2> QED
    BY <1>0, <1>4, <1>6, <1>7, <2>1
<1>11. CASE d.state # 0 /\ h.errors = "replace"
  <2>1. PICK r : r = Replacement(ascii)
    OBVIOUS
  <2>2. e = [d EXCEPT !.out = d.out \o TakenBack(d) \o r]
    BY <1>0, <1>11, <2>1 DEF Ended, Accept, Dumps
  <2>3. PICK whole : whole = d.out \o kept
    OBVIOUS
  <2>4. r \in Seq(Byte) /\ IsCharacter(r) /\ (ascii => \A i \in 1 .. Len(r) : r[i] < 127)
    BY <2>1, ReplacementIsCharacter
  <2>5. Clean(whole \o r, ascii)
    BY <1>4, <2>3, <2>4, CleanMore
  <2> QED
    BY <1>0, <1>6, <1>7, <2>2, <2>3, <2>5
<1> QED
  BY <1>8, <1>9, <1>10, <1>11 DEF Hows

-----------------------------------------------------------------------------
\* The inductive invariant

Inv ==
  /\ text \in Seq(Byte) /\ how \in Hows
  /\ dump \in Dumps /\ Good(dump, how.ascii)
  /\ pc = "loop" /\ ~dump.thrown => Kept(dump, how.ascii)

LEMMA InitInv == DumpInit => Inv
<1> SUFFICES ASSUME DumpInit PROVE Inv
  OBVIOUS
<1>1. text \in Seq(Byte) /\ how \in Hows
  BY TextsAssumption DEF DumpInit, Hows
<1>2. PICK ascii \in BOOLEAN : ascii = how.ascii
  BY <1>1 DEF Hows
<1>3. Room \in Nat /\ 13 <= Room
  BY RoomAssumption DEF Left
<1>4. <<>> \in Seq(Byte) /\ Len(<<>>) = 0
  OBVIOUS
<1>5. dump \in Dumps
  <2>1. 1 \in Nat \ {0} /\ 0 \in Nat /\ 0 \in States \union {1} /\ FALSE \in BOOLEAN
    BY DEF States
  <2>2. dump = [at |-> 1, state |-> 0, code |-> 0, out |-> <<>>, buffer |-> <<>>, accepted |-> 0,
                undumped |-> 0, most |-> 0, thrown |-> FALSE]
    BY DEF DumpInit, NewDump, Accept
  <2> QED
    BY <1>4, <2>1, <2>2, Zenon DEF Dumps
<1>6. /\ dump.state = 0 /\ dump.out = <<>> /\ dump.buffer = <<>> /\ dump.accepted = 0 /\ dump.undumped = 0
      /\ dump.most = 0
  BY DEF DumpInit, NewDump, Accept
<1>7. Clean(<<>>, ascii)
  BY <1>4, NothingIsContent DEF Clean
<1>8. Good(dump, ascii)
  BY <1>3, <1>5, <1>6, <1>7 DEF Good
<1>9. Held(dump, ascii, <<>>, <<>>)
  <2>1. <<>> \o <<>> = <<>>
    BY <1>4, ConcatEmptySeq
  <2>2. Begun(0, <<>>)
    BY DEF Begun
  <2>3. Len(<<>>) + Left <= Room
    BY <1>3, <1>4 DEF Left
  <2> QED
    BY <1>4, <1>6, <1>7, <2>1, <2>2, <2>3, Zenon DEF Held
<1>10. Decoding(dump)
  BY <1>6 DEF Decoding, States
<1> QED
  BY <1>1, <1>2, <1>5, <1>8, <1>9, <1>10, Zenon DEF Inv, Kept

LEMMA NextInv == Inv /\ [DumpNext]_dumpVars => Inv'
<1> SUFFICES ASSUME Inv, [DumpNext]_dumpVars PROVE Inv'
  OBVIOUS
<1>1. text \in Seq(Byte) /\ how \in Hows /\ dump \in Dumps /\ Good(dump, how.ascii)
      /\ (pc = "loop" /\ ~dump.thrown => Kept(dump, how.ascii))
  BY Zenon DEF Inv
<1>2. CASE ReadByte
  <2>1. /\ pc = "loop" /\ ~dump.thrown /\ dump.at <= Len(text) /\ dump' = Round(dump, text[dump.at], how)
        /\ text' = text /\ how' = how
    BY <1>2 DEF ReadByte
  <2>2. PICK byte \in Byte : byte = text[dump.at]
    <3>1. dump.at \in Nat \ {0}
      BY <1>1 DEF Dumps
    <3>2. text[dump.at] \in Byte
      BY <1>1, <2>1, <3>1
    <3> QED
      BY <3>2
  <2>3. Good(dump', how.ascii) /\ (dump'.thrown \/ Kept(dump', how.ascii))
    BY <1>1, <2>1, <2>2, RoundKeeps
  <2>4. dump' \in Dumps
    BY <2>3 DEF Good
  <2> QED
    BY <1>1, <2>1, <2>3, <2>4 DEF Inv, Good, Kept, Clean
<1>3. CASE Finish
  <2>1. /\ pc = "loop" /\ ~dump.thrown /\ dump' = Ended(dump, how) /\ pc' = "end"
        /\ text' = text /\ how' = how
    BY <1>3 DEF Finish
  <2>2. Good(dump', how.ascii)
    BY <1>1, <2>1, EndedIsGood
  <2>3. dump' \in Dumps
    BY <2>2 DEF Good
  <2> QED
    BY <1>1, <2>1, <2>2, <2>3 DEF Inv
<1>4. CASE UNCHANGED dumpVars
  BY <1>1, <1>4 DEF Inv, dumpVars
<1> QED
  BY <1>2, <1>3, <1>4 DEF DumpNext

LEMMA InvAlways == DumpSpec => []Inv
BY InitInv, NextInv, PTL DEF DumpSpec

\* Nothing is written past the end of string_buffer, whatever bytes a string is of,
\* however long it is and whatever size from thirteen bytes on the buffer has.
THEOREM BufferAlwaysHolds == DumpSpec => []BufferHolds
<1>1. Inv => BufferHolds
  BY DEF Inv, Good, BufferHolds
<1> QED
  BY <1>1, InvAlways, PTL

\* What dump_escaped gives to the output is always whole characters of a JSON string,
\* and ASCII if ensure_ascii says so.
THEOREM AlwaysWellFormed == DumpSpec => []WellFormed
<1>1. Inv => WellFormed
  BY DEF Inv, Good, Clean, WellFormed
<1> QED
  BY <1>1, InvAlways, PTL
=============================================================================
