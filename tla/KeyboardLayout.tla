--------------------------- MODULE KeyboardLayout ---------------------------
(***************************************************************************)
(* char_to_keycode_ and the character loop of type_string_                  *)
(* (src/esphome/components/usb_hid_wakeup/usb_hid_wakeup.cpp): which key,   *)
(* with or without Shift, is pressed for a character under the configured   *)
(* keyboard layout.  HID keycodes are positional; the character that        *)
(* appears is decided by the layout of the host.  The host's side is the    *)
(* pair of legends on each keycap, plain and with Shift, written down here  *)
(* independently of the component's table.                                  *)
(*                                                                         *)
(* The state machine types one text, character by character, into a host    *)
(* whose layout is the configured one.  A text is a sequence of             *)
(* one-character strings.                                                   *)
(***************************************************************************)
EXTENDS Naturals, Sequences, FiniteSets

CONSTANTS Layouts,      \* the layouts of the component's schema
          Texts         \* the texts typed: sequences of characters

ASSUME TextAssumption == Texts \subseteq Seq(STRING)

VARIABLES layout,       \* layout_: the configured layout
          text,         \* the argument of type_string_
          next,         \* the index of the next character
          screen        \* what the host has written

vars == <<layout, text, next, screen>>

Letters == <<"a","b","c","d","e","f","g","h","i","j","k","l","m",
             "n","o","p","q","r","s","t","u","v","w","x","y","z">>
Digits == <<"1","2","3","4","5","6","7","8","9","0">>

Elements(s) == {s[i] : i \in DOMAIN s}
IndexOf(c, s) == CHOOSE i \in DOMAIN s : s[i] = c

\* HID usage codes: A..Z are 4..29; 1..9 and then 0 are 30..39.
KeyA == 4
KeyQ == 20
KeyW == 26
KeyZ == 29
Key1 == 30
Key6 == 35
KeySpace == 44
KeyMinus == 45
KeySemicolon == 51
KeyComma == 54
KeyPeriod == 55
KeySlash == 56

Plain(k) == [keycode |-> k, shift |-> FALSE]
Shifted(k) == [keycode |-> k, shift |-> TRUE]

-----------------------------------------------------------------------------
\* The component's tables.

LetterCode(c) == KeyA + IndexOf(c, Letters) - 1
DigitCode(c) == Key1 + IndexOf(c, Digits) - 1

\* Mutant: the A/Q and W/Z swaps are forgotten.
AzertyLetter_NoSwap(c) == IF c = "m" THEN KeySemicolon ELSE LetterCode(c)

AzertyLetter(c) == CASE c = "a" -> KeyQ
                     [] c = "q" -> KeyA
                     [] c = "z" -> KeyW
                     [] c = "w" -> KeyZ
                     [] c = "m" -> KeySemicolon
                     [] OTHER   -> LetterCode(c)

AzertySign(c) == CASE c = " " -> Plain(KeySpace)
                   [] c = "/" -> Shifted(KeyPeriod)
                   [] c = "-" -> Plain(Key6)
                   [] c = "." -> Shifted(KeyComma)

UsSign(c) == CASE c = " " -> Plain(KeySpace)
               [] c = "/" -> Plain(KeySlash)
               [] c = "-" -> Plain(KeyMinus)
               [] c = "." -> Plain(KeyPeriod)

Signs == {" ", "/", "-", "."}

\* The characters char_to_keycode_ returns TRUE for, in either layout.
Mapped == Elements(Letters) \union Elements(Digits) \union Signs

\* keycode and shift, the out-parameters of char_to_keycode_, for c \in Mapped.
CharToKeycode(l, c) ==
    IF l = "azerty"
    THEN CASE c \in Elements(Letters) -> Plain(AzertyLetter(c))
           [] c \in Elements(Digits)  -> Shifted(DigitCode(c))
           [] c \in Signs             -> AzertySign(c)
    ELSE CASE c \in Elements(Letters) -> Plain(LetterCode(c))
           [] c \in Elements(Digits)  -> Plain(DigitCode(c))
           [] c \in Signs             -> UsSign(c)

-----------------------------------------------------------------------------
\* The host: the keycap legends of the two layouts, by rows of the keyboard,
\* each row as the keycodes of its keys and their plain and shifted legends.
\* Legends no command uses are written "?".

Row(codes, plain, shifted) == [codes |-> codes, plain |-> plain, shifted |-> shifted]

DigitRow == <<30, 31, 32, 33, 34, 35, 36, 37, 38, 39, 45>>
UpperRow == <<20, 26, 8, 21, 23, 28, 24, 12, 18, 19>>
HomeRow  == <<4, 22, 7, 9, 10, 11, 13, 14, 15, 51>>
LowerRow == <<29, 27, 6, 25, 5, 17, 16, 54, 55, 56, 44>>

Blank(codes) == [i \in DOMAIN codes |-> "?"]

DigitKeys(l) ==
    IF l = "azerty" THEN Row(DigitRow, <<"&","?","?","'","(","-","?","_","?","?",")">>,
                                       <<"1","2","3","4","5","6","7","8","9","0","?">>)
    ELSE Row(DigitRow, <<"1","2","3","4","5","6","7","8","9","0","-">>,
                       <<"!","@","#","$","%","^","&","*","(",")","_">>)

UpperKeys(l) ==
    IF l = "azerty" THEN Row(UpperRow, <<"a","z","e","r","t","y","u","i","o","p">>, Blank(UpperRow))
    ELSE Row(UpperRow, <<"q","w","e","r","t","y","u","i","o","p">>, Blank(UpperRow))

HomeKeys(l) ==
    IF l = "azerty" THEN Row(HomeRow, <<"q","s","d","f","g","h","j","k","l","m">>, Blank(HomeRow))
    ELSE Row(HomeRow, <<"a","s","d","f","g","h","j","k","l",";">>, Blank(HomeRow))

LowerKeys(l) ==
    IF l = "azerty" THEN Row(LowerRow, <<"w","x","c","v","b","n",",",";",":","!"," ">>,
                                       <<"W","X","C","V","B","N","?",".","/","?"," ">>)
    ELSE Row(LowerRow, <<"z","x","c","v","b","n","m",",",".","/"," ">>,
                       <<"Z","X","C","V","B","N","M","<",">","?"," ">>)

Keycaps(l) == {DigitKeys(l), UpperKeys(l), HomeKeys(l), LowerKeys(l)}

\* The character the host writes for a key press.
HostChar(l, stroke) ==
    LET row == CHOOSE r \in Keycaps(l) : stroke.keycode \in Elements(r.codes)
        i == IndexOf(stroke.keycode, row.codes)
    IN  IF stroke.shift THEN row.shifted[i] ELSE row.plain[i]

-----------------------------------------------------------------------------
Init == /\ layout \in Layouts
        /\ text \in Texts
        /\ next = 1
        /\ screen = <<>>

\* Mutant: a character without a keycode ends the text instead of being skipped.
SkipTo_Stop == Len(text) + 1

\* Where the loop goes on after a character without a keycode.
SkipTo == next + 1

\* type_string_: a character with a keycode is pressed and released ...
TypeChar ==
    /\ next \in DOMAIN text
    /\ text[next] \in Mapped
    /\ screen' = Append(screen, HostChar(layout, CharToKeycode(layout, text[next])))
    /\ next' = next + 1
    /\ UNCHANGED <<layout, text>>

\* ... and one without is logged and skipped.
SkipChar ==
    /\ next \in DOMAIN text
    /\ text[next] \notin Mapped
    /\ next' = SkipTo
    /\ UNCHANGED <<layout, text, screen>>

Next == TypeChar \/ SkipChar

Spec == Init /\ [][Next]_vars

-----------------------------------------------------------------------------
\* The places of the first n characters that a key is known for.
Keyed(n) == {i \in 1 .. n : text[i] \in Mapped}

\* The characters of Keyed(n), in order, are what is on the screen.
OnScreen(n) == /\ Len(screen) = Cardinality(Keyed(n))
               /\ \A i \in Keyed(n) : screen[Cardinality(Keyed(i))] = text[i]

\* The host ends up with exactly the text, less the characters no key is known
\* for: under either layout no mapped character is typed as another one, and
\* an unmapped one neither stops the text nor leaves a keystroke behind.
TypedFaithfully == next > Len(text) => OnScreen(Len(text))

\* The inductive invariant: so far, the same.
TypedSoFar == /\ text \in Texts
              /\ next \in 1 .. Len(text) + 1
              /\ screen \in Seq(STRING)
              /\ OnScreen(next - 1)
=============================================================================
