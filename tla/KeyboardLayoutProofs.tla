------------------------ MODULE KeyboardLayoutProofs ------------------------
(***************************************************************************)
(* Proof that every text, of any length, is typed faithfully under either   *)
(* layout.                                                                  *)
(***************************************************************************)
EXTENDS KeyboardLayout, FiniteSetTheorems, SequenceTheorems, TLAPS

-----------------------------------------------------------------------------
\* The host's keyboard.

\* Every key is in one row only, at one place.
LEMMA RowPlaces ==
  /\ DOMAIN DigitRow = 1 .. 11 /\ DOMAIN UpperRow = 1 .. 10
  /\ DOMAIN HomeRow = 1 .. 10 /\ DOMAIN LowerRow = 1 .. 11
  BY DEF DigitRow, UpperRow, HomeRow, LowerRow

LEMMA DigitCodes == Elements(DigitRow) = (30 .. 39) \union {45}
  BY RowPlaces DEF DigitRow, Elements

LEMMA UpperCodes == Elements(UpperRow) = {20, 26, 8, 21, 23, 28, 24, 12, 18, 19}
  BY RowPlaces DEF UpperRow, Elements

LEMMA HomeCodes == Elements(HomeRow) = {4, 22, 7, 9, 10, 11, 13, 14, 15, 51}
  BY RowPlaces DEF HomeRow, Elements

LEMMA LowerCodes == Elements(LowerRow) = {29, 27, 6, 25, 5, 17, 16, 54, 55, 56, 44}
  BY RowPlaces DEF LowerRow, Elements

LEMMA PlacesDiffer ==
  /\ \A i, j \in 1 .. 11 : DigitRow[i] = DigitRow[j] => i = j
  /\ \A i, j \in 1 .. 10 : UpperRow[i] = UpperRow[j] => i = j
  /\ \A i, j \in 1 .. 10 : HomeRow[i] = HomeRow[j] => i = j
  /\ \A i, j \in 1 .. 11 : LowerRow[i] = LowerRow[j] => i = j
  BY DEF DigitRow, UpperRow, HomeRow, LowerRow

LEMMA RowCodes ==
  ASSUME NEW l
  PROVE  /\ DigitKeys(l).codes = DigitRow /\ UpperKeys(l).codes = UpperRow
         /\ HomeKeys(l).codes = HomeRow /\ LowerKeys(l).codes = LowerRow
  BY DEF DigitKeys, UpperKeys, HomeKeys, LowerKeys, Row

\* The legend the host finds for the i-th key of a row.
LEMMA LegendFound ==
  ASSUME NEW l, NEW row \in Keycaps(l), NEW i \in DOMAIN row.codes, NEW s,
         s.keycode = row.codes[i]
  PROVE  HostChar(l, s) = IF s.shift THEN row.shifted[i] ELSE row.plain[i]
<1> DEFINE k == row.codes[i]
<1>1. k \in Elements(row.codes)
  BY DEF Elements
<1>2. \A r \in Keycaps(l) : k \in Elements(r.codes) => r = row
  <2>1. \A r \in Keycaps(l) : k \in Elements(r.codes) => r.codes = row.codes
    BY <1>1, RowCodes, DigitCodes, UpperCodes, HomeCodes, LowerCodes DEF Keycaps
  <2>2. /\ DigitRow # UpperRow /\ DigitRow # HomeRow /\ DigitRow # LowerRow
        /\ UpperRow # HomeRow /\ UpperRow # LowerRow /\ HomeRow # LowerRow
    BY DigitCodes, UpperCodes, HomeCodes, LowerCodes DEF Elements
  <2> HIDE DEF k
  <2>3. \A r \in Keycaps(l) : r.codes = row.codes => r = row
    BY <2>2, RowCodes DEF Keycaps
  <2> QED
    BY <2>1, <2>3
<1> DEFINE found == CHOOSE r \in Keycaps(l) : s.keycode \in Elements(r.codes)
<1>3. found = row
  BY <1>1, <1>2
<1>4. \A j \in DOMAIN row.codes : row.codes[j] = k => j = i
  BY PlacesDiffer, RowPlaces, RowCodes DEF Keycaps
<1>5. IndexOf(s.keycode, row.codes) = i
  BY <1>4 DEF IndexOf
<1>6. HostChar(l, s) = IF s.shift THEN found.shifted[IndexOf(s.keycode, found.codes)]
                                  ELSE found.plain[IndexOf(s.keycode, found.codes)]
  BY DEF HostChar
<1> QED
  BY <1>3, <1>5, <1>6

-----------------------------------------------------------------------------
\* The component's tables.

LEMMA LetterCodes ==
  /\ LetterCode("a") = 4  /\ LetterCode("b") = 5  /\ LetterCode("c") = 6
  /\ LetterCode("d") = 7  /\ LetterCode("e") = 8  /\ LetterCode("f") = 9
  /\ LetterCode("g") = 10 /\ LetterCode("h") = 11 /\ LetterCode("i") = 12
  /\ LetterCode("j") = 13 /\ LetterCode("k") = 14 /\ LetterCode("l") = 15
  /\ LetterCode("m") = 16 /\ LetterCode("n") = 17 /\ LetterCode("o") = 18
  /\ LetterCode("p") = 19 /\ LetterCode("q") = 20 /\ LetterCode("r") = 21
  /\ LetterCode("s") = 22 /\ LetterCode("t") = 23 /\ LetterCode("u") = 24
  /\ LetterCode("v") = 25 /\ LetterCode("w") = 26 /\ LetterCode("x") = 27
  /\ LetterCode("y") = 28 /\ LetterCode("z") = 29
<1>1. DOMAIN Letters = 1 .. 26
  BY DEF Letters
<1>2. \A i, j \in 1 .. 26 : Letters[i] = Letters[j] => i = j
  BY DEF Letters
<1>3. \A i \in 1 .. 26 : LetterCode(Letters[i]) = 3 + i
  <2> SUFFICES ASSUME NEW i \in 1 .. 26 PROVE LetterCode(Letters[i]) = 3 + i
    OBVIOUS
  <2>1. IndexOf(Letters[i], Letters) = i
    BY <1>1, <1>2 DEF IndexOf
  <2> QED
    BY <2>1 DEF LetterCode, KeyA
<1>4. /\ Letters[1] = "a" /\ Letters[2] = "b" /\ Letters[3] = "c" /\ Letters[4] = "d"
      /\ Letters[5] = "e" /\ Letters[6] = "f" /\ Letters[7] = "g" /\ Letters[8] = "h"
      /\ Letters[9] = "i" /\ Letters[10] = "j" /\ Letters[11] = "k" /\ Letters[12] = "l"
      /\ Letters[13] = "m" /\ Letters[14] = "n" /\ Letters[15] = "o" /\ Letters[16] = "p"
      /\ Letters[17] = "q" /\ Letters[18] = "r" /\ Letters[19] = "s" /\ Letters[20] = "t"
      /\ Letters[21] = "u" /\ Letters[22] = "v" /\ Letters[23] = "w" /\ Letters[24] = "x"
      /\ Letters[25] = "y" /\ Letters[26] = "z"
  BY DEF Letters
<1> QED
  BY <1>3, <1>4

LEMMA DigitKeycodes ==
  /\ DigitCode("1") = 30 /\ DigitCode("2") = 31 /\ DigitCode("3") = 32
  /\ DigitCode("4") = 33 /\ DigitCode("5") = 34 /\ DigitCode("6") = 35
  /\ DigitCode("7") = 36 /\ DigitCode("8") = 37 /\ DigitCode("9") = 38
  /\ DigitCode("0") = 39
<1>1. DOMAIN Digits = 1 .. 10
  BY DEF Digits
<1>2. \A i, j \in 1 .. 10 : Digits[i] = Digits[j] => i = j
  BY DEF Digits
<1>3. \A i \in 1 .. 10 : DigitCode(Digits[i]) = 29 + i
  <2> SUFFICES ASSUME NEW i \in 1 .. 10 PROVE DigitCode(Digits[i]) = 29 + i
    OBVIOUS
  <2>1. IndexOf(Digits[i], Digits) = i
    BY <1>1, <1>2 DEF IndexOf
  <2> QED
    BY <2>1 DEF DigitCode, Key1
<1>4. /\ Digits[1] = "1" /\ Digits[2] = "2" /\ Digits[3] = "3" /\ Digits[4] = "4"
      /\ Digits[5] = "5" /\ Digits[6] = "6" /\ Digits[7] = "7" /\ Digits[8] = "8"
      /\ Digits[9] = "9" /\ Digits[10] = "0"
  BY DEF Digits
<1> QED
  BY <1>3, <1>4

\* Each character, as the host's keyboard has it: the row and the place in it.
HasKey(l, c, row, i) ==
    /\ i \in DOMAIN row.codes
    /\ LET s == CharToKeycode(l, c)
       IN  /\ s.keycode = row.codes[i]
           /\ c = IF s.shift THEN row.shifted[i] ELSE row.plain[i]

LEMMA MappedLetters ==
  Elements(Letters) = {"a","b","c","d","e","f","g","h","i","j","k","l","m",
                       "n","o","p","q","r","s","t","u","v","w","x","y","z"}
  BY DEF Letters, Elements

LEMMA MappedDigits == Elements(Digits) = {"1","2","3","4","5","6","7","8","9","0"}
  BY DEF Digits, Elements

LEMMA ClassesDiffer ==
  ASSUME NEW c
  PROVE  /\ c \in Elements(Letters) => c \notin Elements(Digits) /\ c \notin Signs
         /\ c \in Elements(Digits) => c \notin Signs
  BY MappedLetters, MappedDigits DEF Signs

LEMMA KeycodeByClass ==
  ASSUME NEW l, NEW c
  PROVE  /\ c \in Elements(Letters) =>
              CharToKeycode(l, c) = Plain(IF l = "azerty" THEN AzertyLetter(c) ELSE LetterCode(c))
         /\ c \in Elements(Digits) =>
              CharToKeycode(l, c) = IF l = "azerty" THEN Shifted(DigitCode(c)) ELSE Plain(DigitCode(c))
         /\ c \in Signs =>
              CharToKeycode(l, c) = IF l = "azerty" THEN AzertySign(c) ELSE UsSign(c)
  BY ClassesDiffer DEF CharToKeycode

\* The rows of letters.
LEMMA LetterRow ==
  ASSUME NEW l, NEW row, NEW n \in 1 .. 11, DOMAIN row.codes \in {1 .. 10, 1 .. 11},
         n \in DOMAIN row.codes,
         \A i \in 1 .. n : /\ row.plain[i] \in Elements(Letters)
                           /\ row.codes[i] = IF l = "azerty" THEN AzertyLetter(row.plain[i])
                                             ELSE LetterCode(row.plain[i])
  PROVE  \A i \in 1 .. n : HasKey(l, row.plain[i], row, i)
  BY KeycodeByClass DEF HasKey, Plain

LEMMA AzertyCodes ==
  /\ AzertyLetter("a") = 20 /\ AzertyLetter("z") = 26 /\ AzertyLetter("q") = 4
  /\ AzertyLetter("w") = 29 /\ AzertyLetter("m") = 51
  /\ \A c \in Elements(Letters) \ {"a", "z", "q", "w", "m"} : AzertyLetter(c) = LetterCode(c)
  BY DEF AzertyLetter, KeyQ, KeyA, KeyW, KeyZ, KeySemicolon

LEMMA AzertyLetters ==
  /\ \A i \in 1 .. 10 : HasKey("azerty", UpperKeys("azerty").plain[i], UpperKeys("azerty"), i)
  /\ \A i \in 1 .. 10 : HasKey("azerty", HomeKeys("azerty").plain[i], HomeKeys("azerty"), i)
  /\ \A i \in 1 .. 6 : HasKey("azerty", LowerKeys("azerty").plain[i], LowerKeys("azerty"), i)
<1> DEFINE upper == UpperKeys("azerty")
           home == HomeKeys("azerty")
           lower == LowerKeys("azerty")
<1>1. /\ \A i \in 1 .. 10 : upper.plain[i] = <<"a","z","e","r","t","y","u","i","o","p">>[i]
      /\ \A i \in 1 .. 10 : home.plain[i] = <<"q","s","d","f","g","h","j","k","l","m">>[i]
      /\ \A i \in 1 .. 6 : lower.plain[i] = <<"w","x","c","v","b","n",",",";",":","!"," ">>[i]
  BY DEF UpperKeys, HomeKeys, LowerKeys, Row
<1>2. upper.codes = UpperRow /\ home.codes = HomeRow /\ lower.codes = LowerRow
  BY RowCodes
<1> HIDE DEF upper, home, lower
<1>3. \A i \in 1 .. 10 : /\ upper.plain[i] \in Elements(Letters)
                         /\ upper.codes[i] = AzertyLetter(upper.plain[i])
  BY <1>1, <1>2, MappedLetters, LetterCodes, AzertyCodes DEF UpperRow
<1>4. \A i \in 1 .. 10 : /\ home.plain[i] \in Elements(Letters)
                         /\ home.codes[i] = AzertyLetter(home.plain[i])
  BY <1>1, <1>2, MappedLetters, LetterCodes, AzertyCodes DEF HomeRow
<1>5. \A i \in 1 .. 6 : /\ lower.plain[i] \in Elements(Letters)
                        /\ lower.codes[i] = AzertyLetter(lower.plain[i])
  BY <1>1, <1>2, MappedLetters, LetterCodes, AzertyCodes DEF LowerRow
<1>6. \A i \in 1 .. 10 : HasKey("azerty", upper.plain[i], upper, i)
  BY <1>2, <1>3, LetterRow, RowPlaces
<1>7. \A i \in 1 .. 10 : HasKey("azerty", home.plain[i], home, i)
  BY <1>2, <1>4, LetterRow, RowPlaces
<1>8. \A i \in 1 .. 6 : HasKey("azerty", lower.plain[i], lower, i)
  BY <1>2, <1>5, LetterRow, RowPlaces
<1> QED
  BY <1>6, <1>7, <1>8 DEF upper, home, lower

LEMMA UsLetters ==
  ASSUME NEW l, l # "azerty"
  PROVE  /\ \A i \in 1 .. 10 : HasKey(l, UpperKeys(l).plain[i], UpperKeys(l), i)
         /\ \A i \in 1 .. 9 : HasKey(l, HomeKeys(l).plain[i], HomeKeys(l), i)
         /\ \A i \in 1 .. 7 : HasKey(l, LowerKeys(l).plain[i], LowerKeys(l), i)
<1> DEFINE upper == UpperKeys(l)
           home == HomeKeys(l)
           lower == LowerKeys(l)
<1>1. /\ \A i \in 1 .. 10 : upper.plain[i] = <<"q","w","e","r","t","y","u","i","o","p">>[i]
      /\ \A i \in 1 .. 9 : home.plain[i] = <<"a","s","d","f","g","h","j","k","l",";">>[i]
      /\ \A i \in 1 .. 7 : lower.plain[i] = <<"z","x","c","v","b","n","m",",",".","/"," ">>[i]
  BY DEF UpperKeys, HomeKeys, LowerKeys, Row
<1>2. upper.codes = UpperRow /\ home.codes = HomeRow /\ lower.codes = LowerRow
  BY RowCodes
<1> HIDE DEF upper, home, lower
<1>3. \A i \in 1 .. 10 : /\ upper.plain[i] \in Elements(Letters)
                         /\ upper.codes[i] = LetterCode(upper.plain[i])
  BY <1>1, <1>2, MappedLetters, LetterCodes DEF UpperRow
<1>4. \A i \in 1 .. 9 : /\ home.plain[i] \in Elements(Letters)
                        /\ home.codes[i] = LetterCode(home.plain[i])
  BY <1>1, <1>2, MappedLetters, LetterCodes DEF HomeRow
<1>5. \A i \in 1 .. 7 : /\ lower.plain[i] \in Elements(Letters)
                        /\ lower.codes[i] = LetterCode(lower.plain[i])
  BY <1>1, <1>2, MappedLetters, LetterCodes DEF LowerRow
<1>6. \A i \in 1 .. 10 : HasKey(l, upper.plain[i], upper, i)
  BY <1>2, <1>3, LetterRow, RowPlaces
<1>7. \A i \in 1 .. 9 : HasKey(l, home.plain[i], home, i)
  BY <1>2, <1>4, LetterRow, RowPlaces
<1>8. \A i \in 1 .. 7 : HasKey(l, lower.plain[i], lower, i)
  BY <1>2, <1>5, LetterRow, RowPlaces
<1> QED
  BY <1>6, <1>7, <1>8 DEF upper, home, lower

\* The row of digits, which AZERTY types with Shift.
LEMMA DigitsOnRow ==
  ASSUME NEW l
  PROVE  \A i \in 1 .. 10 : HasKey(l, Digits[i], DigitKeys(l), i)
<1>1. \A i \in 1 .. 10 : /\ Digits[i] = IF l = "azerty" THEN DigitKeys(l).shifted[i]
                                        ELSE DigitKeys(l).plain[i]
  BY DEF DigitKeys, Row, Digits
<1>2. \A i \in 1 .. 10 : Digits[i] \in Elements(Digits) /\ DigitCode(Digits[i]) = DigitRow[i]
  BY DigitKeycodes, MappedDigits DEF DigitRow, Digits
<1>3. \A i \in 1 .. 10 : CharToKeycode(l, Digits[i]) =
          IF l = "azerty" THEN Shifted(DigitRow[i]) ELSE Plain(DigitRow[i])
  BY <1>2, KeycodeByClass
<1>4. DigitKeys(l).codes = DigitRow
  BY RowCodes
<1> QED
  BY <1>1, <1>3, <1>4, RowPlaces DEF HasKey, Plain, Shifted

\* A key found by its legend, plain or with Shift.
LEMMA KeyOfLegend ==
  ASSUME NEW l, NEW c, NEW row, NEW i \in DOMAIN row.codes,
         \/ CharToKeycode(l, c) = Plain(row.codes[i]) /\ row.plain[i] = c
         \/ CharToKeycode(l, c) = Shifted(row.codes[i]) /\ row.shifted[i] = c
  PROVE  HasKey(l, c, row, i)
  BY DEF HasKey, Plain, Shifted

\* The four signs.
LEMMA SignsOnKeys ==
  /\ HasKey("azerty", " ", LowerKeys("azerty"), 11)
  /\ HasKey("azerty", "/", LowerKeys("azerty"), 9)
  /\ HasKey("azerty", "-", DigitKeys("azerty"), 6)
  /\ HasKey("azerty", ".", LowerKeys("azerty"), 8)
  /\ \A l : l # "azerty" => /\ HasKey(l, " ", LowerKeys(l), 11)
                            /\ HasKey(l, "/", LowerKeys(l), 10)
                            /\ HasKey(l, "-", DigitKeys(l), 11)
                            /\ HasKey(l, ".", LowerKeys(l), 9)
<1>1. /\ AzertySign(" ") = Plain(44) /\ AzertySign("/") = Shifted(55)
      /\ AzertySign("-") = Plain(35) /\ AzertySign(".") = Shifted(54)
      /\ UsSign(" ") = Plain(44) /\ UsSign("/") = Plain(56)
      /\ UsSign("-") = Plain(45) /\ UsSign(".") = Plain(55)
  BY DEF AzertySign, UsSign, KeySpace, KeySlash, KeyPeriod, KeyMinus, KeyComma, Key6
<1>2. {" ", "/", "-", "."} = Signs
  BY DEF Signs
<1>3. /\ DigitRow[6] = 35 /\ DigitRow[11] = 45 /\ LowerRow[8] = 54 /\ LowerRow[9] = 55
      /\ LowerRow[10] = 56 /\ LowerRow[11] = 44
  BY DEF DigitRow, LowerRow
<1>4. /\ LowerKeys("azerty").plain[11] = " " /\ LowerKeys("azerty").shifted[9] = "/"
      /\ DigitKeys("azerty").plain[6] = "-" /\ LowerKeys("azerty").shifted[8] = "."
  BY DEF LowerKeys, DigitKeys, Row
<1>5. ASSUME NEW l, l # "azerty"
      PROVE  /\ LowerKeys(l).plain[11] = " " /\ LowerKeys(l).plain[10] = "/"
             /\ DigitKeys(l).plain[11] = "-" /\ LowerKeys(l).plain[9] = "."
  BY <1>5 DEF LowerKeys, DigitKeys, Row
<1>6. /\ CharToKeycode("azerty", " ") = Plain(44) /\ CharToKeycode("azerty", "/") = Shifted(55)
      /\ CharToKeycode("azerty", "-") = Plain(35) /\ CharToKeycode("azerty", ".") = Shifted(54)
  BY <1>1, <1>2, KeycodeByClass
<1>7. ASSUME NEW l, l # "azerty"
      PROVE  /\ CharToKeycode(l, " ") = Plain(44) /\ CharToKeycode(l, "/") = Plain(56)
             /\ CharToKeycode(l, "-") = Plain(45) /\ CharToKeycode(l, ".") = Plain(55)
  BY <1>1, <1>2, <1>7, KeycodeByClass
<1>8. ASSUME NEW l
      PROVE  /\ DigitKeys(l).codes[6] = 35 /\ DigitKeys(l).codes[11] = 45
             /\ LowerKeys(l).codes[8] = 54 /\ LowerKeys(l).codes[9] = 55
             /\ LowerKeys(l).codes[10] = 56 /\ LowerKeys(l).codes[11] = 44
             /\ {6, 11} \subseteq DOMAIN DigitKeys(l).codes
             /\ {8, 9, 10, 11} \subseteq DOMAIN LowerKeys(l).codes
  BY <1>3, RowCodes, RowPlaces
<1>9. HasKey("azerty", " ", LowerKeys("azerty"), 11)
  <2>1. 11 \in DOMAIN LowerKeys("azerty").codes
    BY <1>8
  <2>2. CharToKeycode("azerty", " ") = Plain(LowerKeys("azerty").codes[11])
    BY <1>6, <1>8
  <2>3. LowerKeys("azerty").plain[11] = " "
    BY <1>4
  <2> QED
    BY <2>1, <2>2, <2>3, KeyOfLegend, Zenon
<1>10. HasKey("azerty", "/", LowerKeys("azerty"), 9)
  <2>1. 9 \in DOMAIN LowerKeys("azerty").codes
    BY <1>8
  <2>2. CharToKeycode("azerty", "/") = Shifted(LowerKeys("azerty").codes[9])
    BY <1>6, <1>8
  <2>3. LowerKeys("azerty").shifted[9] = "/"
    BY <1>4
  <2> QED
    BY <2>1, <2>2, <2>3, KeyOfLegend, Zenon
<1>11. HasKey("azerty", "-", DigitKeys("azerty"), 6)
  <2>1. 6 \in DOMAIN DigitKeys("azerty").codes
    BY <1>8
  <2>2. CharToKeycode("azerty", "-") = Plain(DigitKeys("azerty").codes[6])
    BY <1>6, <1>8
  <2>3. DigitKeys("azerty").plain[6] = "-"
    BY <1>4
  <2> QED
    BY <2>1, <2>2, <2>3, KeyOfLegend, Zenon
<1>12. HasKey("azerty", ".", LowerKeys("azerty"), 8)
  <2>1. 8 \in DOMAIN LowerKeys("azerty").codes
    BY <1>8
  <2>2. CharToKeycode("azerty", ".") = Shifted(LowerKeys("azerty").codes[8])
    BY <1>6, <1>8
  <2>3. LowerKeys("azerty").shifted[8] = "."
    BY <1>4
  <2> QED
    BY <2>1, <2>2, <2>3, KeyOfLegend, Zenon
<1>13. ASSUME NEW l, l # "azerty"
       PROVE  /\ HasKey(l, " ", LowerKeys(l), 11) /\ HasKey(l, "/", LowerKeys(l), 10)
              /\ HasKey(l, "-", DigitKeys(l), 11) /\ HasKey(l, ".", LowerKeys(l), 9)
  <2>1. /\ LowerKeys(l).plain[11] = " " /\ LowerKeys(l).plain[10] = "/"
        /\ DigitKeys(l).plain[11] = "-" /\ LowerKeys(l).plain[9] = "."
    BY <1>5, <1>13
  <2>2. /\ CharToKeycode(l, " ") = Plain(44) /\ CharToKeycode(l, "/") = Plain(56)
        /\ CharToKeycode(l, "-") = Plain(45) /\ CharToKeycode(l, ".") = Plain(55)
    BY <1>7, <1>13
  <2>3. HasKey(l, " ", LowerKeys(l), 11)
    <3>1. 11 \in DOMAIN LowerKeys(l).codes
      BY <1>8
    <3>2. CharToKeycode(l, " ") = Plain(LowerKeys(l).codes[11])
      BY <1>8, <2>2
    <3>3. LowerKeys(l).plain[11] = " "
      BY <2>1
    <3> QED
      BY <3>1, <3>2, <3>3, KeyOfLegend, Zenon
  <2>4. HasKey(l, "/", LowerKeys(l), 10)
    <3>1. 10 \in DOMAIN LowerKeys(l).codes
      BY <1>8
    <3>2. CharToKeycode(l, "/") = Plain(LowerKeys(l).codes[10])
      BY <1>8, <2>2
    <3>3. LowerKeys(l).plain[10] = "/"
      BY <2>1
    <3> QED
      BY <3>1, <3>2, <3>3, KeyOfLegend, Zenon
  <2>5. HasKey(l, "-", DigitKeys(l), 11)
    <3>1. 11 \in DOMAIN DigitKeys(l).codes
      BY <1>8
    <3>2. CharToKeycode(l, "-") = Plain(DigitKeys(l).codes[11])
      BY <1>8, <2>2
    <3>3. DigitKeys(l).plain[11] = "-"
      BY <2>1
    <3> QED
      BY <3>1, <3>2, <3>3, KeyOfLegend, Zenon
  <2>6. HasKey(l, ".", LowerKeys(l), 9)
    <3>1. 9 \in DOMAIN LowerKeys(l).codes
      BY <1>8
    <3>2. CharToKeycode(l, ".") = Plain(LowerKeys(l).codes[9])
      BY <1>8, <2>2
    <3>3. LowerKeys(l).plain[9] = "."
      BY <2>1
    <3> QED
      BY <3>1, <3>2, <3>3, KeyOfLegend, Zenon
  <2> QED
    BY <2>3, <2>4, <2>5, <2>6
<1> QED
  BY <1>9, <1>10, <1>11, <1>12, <1>13

\* Every letter is on a key.
LEMMA AzertyLegends ==
  ASSUME NEW c \in Elements(Letters)
  PROVE  \/ \E i \in 1 .. 10 : UpperKeys("azerty").plain[i] = c
         \/ \E i \in 1 .. 10 : HomeKeys("azerty").plain[i] = c
         \/ \E i \in 1 .. 6 : LowerKeys("azerty").plain[i] = c
<1> DEFINE upper == UpperKeys("azerty").plain
           home == HomeKeys("azerty").plain
           lower == LowerKeys("azerty").plain
<1>1. /\ upper[1] = "a" /\ upper[2] = "z" /\ upper[3] = "e" /\ upper[4] = "r" /\ upper[5] = "t"
      /\ upper[6] = "y" /\ upper[7] = "u" /\ upper[8] = "i" /\ upper[9] = "o" /\ upper[10] = "p"
  BY DEF UpperKeys, Row
<1>2. /\ home[1] = "q" /\ home[2] = "s" /\ home[3] = "d" /\ home[4] = "f" /\ home[5] = "g"
      /\ home[6] = "h" /\ home[7] = "j" /\ home[8] = "k" /\ home[9] = "l" /\ home[10] = "m"
  BY DEF HomeKeys, Row
<1>3. /\ lower[1] = "w" /\ lower[2] = "x" /\ lower[3] = "c" /\ lower[4] = "v" /\ lower[5] = "b"
      /\ lower[6] = "n"
  BY DEF LowerKeys, Row
<1> HIDE DEF upper, home, lower
<1>4. \/ \E i \in 1 .. 10 : upper[i] = c
      \/ \E i \in 1 .. 10 : home[i] = c
      \/ \E i \in 1 .. 6 : lower[i] = c
  BY <1>1, <1>2, <1>3, MappedLetters
<1> QED
  BY <1>4 DEF upper, home, lower

LEMMA UsLegends ==
  ASSUME NEW l, l # "azerty", NEW c \in Elements(Letters)
  PROVE  \/ \E i \in 1 .. 10 : UpperKeys(l).plain[i] = c
         \/ \E i \in 1 .. 9 : HomeKeys(l).plain[i] = c
         \/ \E i \in 1 .. 7 : LowerKeys(l).plain[i] = c
<1> DEFINE upper == UpperKeys(l).plain
           home == HomeKeys(l).plain
           lower == LowerKeys(l).plain
<1>1. /\ upper[1] = "q" /\ upper[2] = "w" /\ upper[3] = "e" /\ upper[4] = "r" /\ upper[5] = "t"
      /\ upper[6] = "y" /\ upper[7] = "u" /\ upper[8] = "i" /\ upper[9] = "o" /\ upper[10] = "p"
  BY DEF UpperKeys, Row
<1>2. /\ home[1] = "a" /\ home[2] = "s" /\ home[3] = "d" /\ home[4] = "f" /\ home[5] = "g"
      /\ home[6] = "h" /\ home[7] = "j" /\ home[8] = "k" /\ home[9] = "l"
  BY DEF HomeKeys, Row
<1>3. /\ lower[1] = "z" /\ lower[2] = "x" /\ lower[3] = "c" /\ lower[4] = "v" /\ lower[5] = "b"
      /\ lower[6] = "n" /\ lower[7] = "m"
  BY DEF LowerKeys, Row
<1> HIDE DEF upper, home, lower
<1>4. \/ \E i \in 1 .. 10 : upper[i] = c
      \/ \E i \in 1 .. 9 : home[i] = c
      \/ \E i \in 1 .. 7 : lower[i] = c
  BY <1>1, <1>2, <1>3, MappedLetters
<1> QED
  BY <1>4 DEF upper, home, lower

\* Under either layout, every mapped character is typed as itself.
LEMMA TypedAsItself ==
  ASSUME NEW l, NEW c \in Mapped
  PROVE  HostChar(l, CharToKeycode(l, c)) = c
<1>1. ASSUME NEW row \in Keycaps(l), NEW i, HasKey(l, c, row, i)
      PROVE  HostChar(l, CharToKeycode(l, c)) = c
  BY <1>1, LegendFound DEF HasKey
<1>2. /\ UpperKeys(l) \in Keycaps(l) /\ HomeKeys(l) \in Keycaps(l)
      /\ LowerKeys(l) \in Keycaps(l) /\ DigitKeys(l) \in Keycaps(l)
  BY DEF Keycaps
<1>3. CASE c \in Elements(Letters) /\ l = "azerty"
  BY <1>1, <1>2, <1>3, AzertyLegends, AzertyLetters
<1>4. CASE c \in Elements(Letters) /\ l # "azerty"
  BY <1>1, <1>2, <1>4, UsLegends, UsLetters
<1>5. CASE c \in Elements(Digits)
  BY <1>1, <1>2, <1>5, DigitsOnRow DEF Elements, Digits
<1>6. CASE c \in Signs /\ l = "azerty"
  BY <1>1, <1>2, <1>6, SignsOnKeys DEF Signs
<1>7. CASE c \in Signs /\ l # "azerty"
  BY <1>1, <1>2, <1>7, SignsOnKeys DEF Signs
<1> QED
  BY <1>3, <1>4, <1>5, <1>6, <1>7 DEF Mapped

-----------------------------------------------------------------------------
\* Counting the characters with a key.

LEMMA KeyedFinite ==
  ASSUME NEW n \in Nat
  PROVE  IsFiniteSet(Keyed(n)) /\ Cardinality(Keyed(n)) \in Nat
<1>1. Keyed(n) \subseteq 1 .. n
  BY DEF Keyed
<1>2. IsFiniteSet(1 .. n)
  BY FS_Interval
<1> QED
  BY <1>1, <1>2, FS_Subset, FS_CardinalityType

LEMMA KeyedNext ==
  ASSUME NEW n \in Nat
  PROVE  /\ text[n + 1] \in Mapped =>
              /\ Keyed(n + 1) = Keyed(n) \union {n + 1}
              /\ Cardinality(Keyed(n + 1)) = Cardinality(Keyed(n)) + 1
         /\ text[n + 1] \notin Mapped => Keyed(n + 1) = Keyed(n)
<1>1. n + 1 \notin Keyed(n)
  BY DEF Keyed
<1>2. text[n + 1] \in Mapped => Keyed(n + 1) = Keyed(n) \union {n + 1}
  BY DEF Keyed
<1>3. text[n + 1] \notin Mapped => Keyed(n + 1) = Keyed(n)
  BY DEF Keyed
<1> QED
  BY <1>1, <1>2, <1>3, KeyedFinite, FS_AddElement

\* The rank of a character among those with a key.
LEMMA KeyedRank ==
  ASSUME NEW n \in Nat, NEW i \in Keyed(n)
  PROVE  Cardinality(Keyed(i)) \in 1 .. Cardinality(Keyed(n))
<1>1. i \in 1 .. n /\ i \in Nat /\ i \in Keyed(i) /\ Keyed(i) \subseteq Keyed(n)
  BY DEF Keyed
<1>2. /\ IsFiniteSet(Keyed(i)) /\ Cardinality(Keyed(i)) \in Nat
      /\ IsFiniteSet(Keyed(n)) /\ Cardinality(Keyed(n)) \in Nat
  BY <1>1, KeyedFinite
<1>3. Cardinality(Keyed(i)) <= Cardinality(Keyed(n))
  BY <1>1, <1>2, FS_Subset
<1>4. Cardinality(Keyed(i)) # 0
  BY <1>1, <1>2, FS_EmptySet
<1> QED
  BY <1>2, <1>3, <1>4

-----------------------------------------------------------------------------
\* The loop of type_string_.

LEMMA InitTyped == Init => TypedSoFar
<1> SUFFICES ASSUME Init PROVE TypedSoFar
  OBVIOUS
<1>1. text \in Seq(STRING)
  BY TextAssumption DEF Init
<1>2. Keyed(0) = {}
  BY DEF Keyed
<1>3. OnScreen(0)
  BY <1>2, FS_EmptySet DEF OnScreen, Init
<1> QED
  BY <1>1, <1>3 DEF Init, TypedSoFar

LEMMA TypeCharTyped == TypedSoFar /\ TypeChar => TypedSoFar'
<1> SUFFICES ASSUME TypedSoFar, TypeChar PROVE TypedSoFar'
  OBVIOUS
<1> DEFINE n == next - 1
           c == text[next]
<1>1. text \in Seq(STRING) /\ text' = text /\ text' \in Texts
  BY TextAssumption DEF TypedSoFar, TypeChar
<1>2. /\ next \in 1 .. Len(text) /\ n \in Nat /\ next = n + 1 /\ next' = next + 1
      /\ c \in Mapped /\ c \in STRING
  BY <1>1 DEF TypedSoFar, TypeChar
<1>3. screen' = Append(screen, c)
  BY <1>2, TypedAsItself DEF TypeChar
<1>4. /\ screen \in Seq(STRING) /\ screen' \in Seq(STRING)
      /\ Len(screen') = Len(screen) + 1
      /\ screen'[Len(screen) + 1] = c
      /\ \A k \in 1 .. Len(screen) : screen'[k] = screen[k]
  BY <1>2, <1>3, AppendProperties DEF TypedSoFar
<1>5. OnScreen(n)
  BY DEF TypedSoFar
<1>6. \A m : Keyed(m)' = Keyed(m)
  BY <1>1 DEF Keyed
<1>7. OnScreen(next - 1)'
  <2>1. /\ Keyed(next) = Keyed(n) \union {next}
        /\ Cardinality(Keyed(next)) = Cardinality(Keyed(n)) + 1
    BY <1>2, KeyedNext
  <2>2. Len(screen) = Cardinality(Keyed(n))
    BY <1>5 DEF OnScreen
  <2>3. \A i \in Keyed(n) : screen'[Cardinality(Keyed(i))] = text[i]
    BY <1>2, <1>4, <1>5, <2>2, KeyedRank DEF OnScreen
  <2>4. screen'[Cardinality(Keyed(next))] = text[next]
    BY <1>4, <2>1, <2>2
  <2>5. \A i \in Keyed(next) : screen'[Cardinality(Keyed(i))] = text[i]
    BY <2>1, <2>3, <2>4
  <2>6. Len(screen') = Cardinality(Keyed(next))
    BY <1>4, <2>1, <2>2
  <2> QED
    BY <1>1, <1>2, <1>6, <2>5, <2>6 DEF OnScreen
<1> QED
  BY <1>1, <1>2, <1>4, <1>7 DEF TypedSoFar

LEMMA SkipCharTyped == TypedSoFar /\ SkipChar => TypedSoFar'
<1> SUFFICES ASSUME TypedSoFar, SkipChar PROVE TypedSoFar'
  OBVIOUS
<1>1. text \in Seq(STRING) /\ UNCHANGED <<text, screen>>
  BY TextAssumption DEF TypedSoFar, SkipChar
<1>2. next \in 1 .. Len(text) /\ next - 1 \in Nat /\ next' = next + 1
  BY <1>1 DEF TypedSoFar, SkipChar, SkipTo
<1>3. Keyed(next) = Keyed(next - 1)
  BY <1>2, KeyedNext DEF SkipChar
<1>4. \A m : Keyed(m)' = Keyed(m)
  BY <1>1 DEF Keyed
<1>5. OnScreen(next - 1)'
  <2>1. next' - 1 = next
    BY <1>2
  <2> QED
    BY <1>1, <1>3, <1>4, <2>1 DEF TypedSoFar, OnScreen
<1> QED
  BY <1>1, <1>2, <1>5 DEF TypedSoFar

\* Whatever the text, and under either layout, the host ends up with its mapped
\* characters, each once and in order, and with nothing else.
THEOREM EveryTextTyped == Spec => []TypedFaithfully
<1>1. TypedSoFar /\ [Next]_vars => TypedSoFar'
  <2>1. TypedSoFar /\ UNCHANGED vars => TypedSoFar'
    BY DEF TypedSoFar, OnScreen, Keyed, vars
  <2> QED
    BY <2>1, TypeCharTyped, SkipCharTyped DEF Next
<1>2. TypedSoFar => TypedFaithfully
  <2> SUFFICES ASSUME TypedSoFar, next > Len(text) PROVE OnScreen(Len(text))
    BY DEF TypedFaithfully
  <2>1. Len(text) \in Nat
    BY TextAssumption DEF TypedSoFar
  <2>2. next - 1 = Len(text)
    BY <2>1 DEF TypedSoFar
  <2> QED
    BY <2>2 DEF TypedSoFar
<1> QED
  BY <1>1, <1>2, InitTyped, PTL DEF Spec
=============================================================================
