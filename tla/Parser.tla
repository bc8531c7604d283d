------------------------------- MODULE Parser -------------------------------
(* The parser of the terminal emulator (ansi.c): what WriteString makes of  *)
(* the bytes of a program, one batch at a time.  Control sequences change   *)
(* modes, character sets and rendition; strings set titles and messages;    *)
(* what a program prints goes to the printer of a display.                  *)
(*                                                                          *)
(* A byte is a name: a character, "esc", "bel", ..., "c1[" for the control  *)
(* character 0x80 + '[' - '@', "h" for a byte from 0xa0 on, "u1" and "u2"   *)
(* for the two bytes of a UTF-8 character.  What the screen does with       *)
(* characters and motions is module Screen.  Left out: the title that is    *)
(* searched in a line (a window named with a "|", autoaka), dynamictitle,   *)
(* the bell, the SJIS arithmetic, the command in a string (OSC 83), the     *)
(* flow mode, and the input of a pseudo window.                             *)
EXTENDS Integers, FiniteSets, FiniteSetsExt, SequencesExt, TLC

CONSTANTS
  Displays,  \* ids of displays; a smaller one stands earlier in the list
  Capable,   \* those whose terminal can print (PO)
  Hard,      \* those that show messages in a hardware status line
  MaxArgs,   \* MAXARGS
  MaxStr,    \* MAXSTR
  MaxArg,    \* 100000000: a parameter takes no more digits from here on
  InSize,    \* size of w_inbuf
  Alphabet,  \* the bytes there are
  Batches    \* bound: what a program may write at once

None == 0
\* Code points that do not fit the char of a string or of the print buffer.
Points == {"uni", "repl"}

ASSUME ParserAssumption ==
  /\ Displays \subseteq Nat \ {None} /\ Capable \subseteq Displays /\ Hard \subseteq Displays
  /\ MaxArgs \in Nat \ {0} /\ MaxStr \in Nat \ {0} /\ MaxArg \in Nat \ {0} /\ InSize \in Nat
  /\ Alphabet \cap Points = {} /\ Batches \subseteq Seq(Alphabet)

VARIABLES
  win,       \* the parser's part of struct win
  dis,       \* what the displays have to do with it
  raw,       \* history: the bytes since the sequence, string or print job began
  printed,   \* history: what has reached the printer since the print job began
  job        \* history: of the last print job: none, on, done, or lost with its display or printer

vars == <<win, dis, raw, printed, job>>
Now == [win |-> win, dis |-> dis, raw |-> raw, printed |-> printed, job |-> job]
Become(r) == win' = r.win /\ dis' = r.dis /\ raw' = r.raw /\ printed' = r.printed /\ job' = r.job

Digit == "0" :> 0 @@ "1" :> 1 @@ "2" :> 2 @@ "3" :> 3 @@ "4" :> 4 @@ "5" :> 5 @@ "6" :> 6 @@ "7" :> 7 @@ "8" :> 8 @@ "9" :> 9
Digits == {"0", "1", "2", "3", "4", "5", "6", "7", "8", "9"}
Intermediates == {" ", "!", "\"", "#", "$", "(", ")", "*", "+", "/"}
Private == {"<", "=", ">", "?"}
Separators == {";", ":"}
Specials == {"bs", "cr", "lf", "bel", "ht", "so", "si"}
Controls == Specials \cup {"nul", "can", "^e", "esc"}
C1 == [c \in {"c1D", "c1N", "c1O", "c1[", "c1P", "c1\\"} |->
  CASE c = "c1D" -> "D" [] c = "c1N" -> "N" [] c = "c1O" -> "O" [] c = "c1[" -> "[" [] c = "c1P" -> "P" [] OTHER -> "\\"]
Byte(c) == IF c \in Points THEN "cut" ELSE c
Finals == {"@", "A", "B", "E", "H", "P", "M", "N", "O", "Z", "[", "\\", "]", "^", "_",
           "a", "c", "h", "i", "k", "l", "m", "n", "o", "p", "q", "s", "t", "u", "x", "}", "|", "~"}

-----------------------------------------------------------------------------
(* Character sets.  A font is the name of a set; "ascii", and fonts of two   *)
(* bytes a character.                                                        *)
DoubleFonts == {"kanji", "dw"}
Usual == [i \in 0..3 |-> "ascii"]

\* Both fonts as the sets that are locked say.
SetFonts(w) == [w EXCEPT !.fontL = w.sets[w.L], !.fontR = w.sets[w.R]]
ResetCharsets(w) ==
  SetFonts([w EXCEPT !.gr = 0, !.sets = Usual, !.L = 0, !.R = 2, !.ss = 0])

DesignateCharset(w, f, n) ==
  IF w.sets[n] = f THEN [w EXCEPT !.ss = 0]
  ELSE [w EXCEPT !.ss = 0, !.sets[n] = f, !.fontL = IF w.L = n THEN f ELSE @, !.fontR = IF w.R = n THEN f ELSE @]
MapCharset(w, n) ==
  IF w.L = n THEN [w EXCEPT !.ss = 0] ELSE [w EXCEPT !.ss = 0, !.L = n, !.fontL = w.sets[n]]
MapCharsetR(w, n) ==
  [w EXCEPT !.ss = 0, !.gr = 1, !.R = n, !.fontR = IF w.R = n THEN @ ELSE w.sets[n]]
SingleShift(w, n) ==
  IF w.sets[w.L] = w.sets[n] /\ w.sets[w.R] = w.sets[n] THEN [w EXCEPT !.ss = 0]
  ELSE [w EXCEPT !.ss = n, !.fontL = w.sets[n], !.fontR = w.sets[n]]
\* After a character that was shown.
EndShift(w) == IF w.ss = 0 THEN w ELSE [SetFonts(w) EXCEPT !.ss = 0]

SaveCursor(w) == [w EXCEPT !.saved = [on |-> TRUE, sets |-> w.sets, L |-> w.L, R |-> w.R, rend |-> w.rend]]
RestoreCursor(w) ==
  IF ~w.saved.on THEN w
  ELSE SetFonts([w EXCEPT !.sets = w.saved.sets, !.L = w.saved.L, !.R = w.saved.R, !.rend = w.saved.rend, !.ss = 0])

\* The set an escape sequence designates, by its intermediates: which of the
\* four, and whether characters of it have two bytes.
Designates == <<"(">> :> <<0, FALSE>> @@ <<")">> :> <<1, FALSE>> @@ <<"*">> :> <<2, FALSE>> @@ <<"+">> :> <<3, FALSE>>
  @@ <<"$">> :> <<0, TRUE>> @@ <<"$", "(">> :> <<0, TRUE>> @@ <<"$", ")">> :> <<1, TRUE>>
  @@ <<"$", "*">> :> <<2, TRUE>> @@ <<"$", "+">> :> <<3, TRUE>>
FontOf(c, double) ==
  CASE double /\ c \in {"@", "B"} -> "kanji" [] double /\ c \notin {"@", "B"} -> "dw"
    [] ~double /\ c = "B" -> "ascii" [] OTHER -> c

-----------------------------------------------------------------------------
(* Rendition: attributes, and colours <<>>, <<index>> or <<red, green, blue>>.*)
NoRend == [attr |-> {}, fg |-> <<>>, bg |-> <<>>]
Sets == 1 :> "bold" @@ 2 :> "dim" @@ 3 :> "italic" @@ 4 :> "underline" @@ 5 :> "blink" @@ 7 :> "reverse"
Unsets == 0 :> {"bold", "dim", "italic", "underline", "blink", "reverse"} @@ 22 :> {"bold", "dim"}
  @@ 23 :> {"italic"} @@ 24 :> {"underline"} @@ 25 :> {"blink"} @@ 27 :> {"reverse"}

Ground(rend, bg, colour) == IF bg THEN [rend EXCEPT !.bg = colour] ELSE [rend EXCEPT !.fg = colour]
Rendered(rend, j) ==
  CASE j \in DOMAIN Sets -> [rend EXCEPT !.attr = @ \cup {Sets[j]}]
    [] j = 0 -> NoRend
    [] j \in DOMAIN Unsets \ {0} -> [rend EXCEPT !.attr = @ \ Unsets[j]]
    [] j \in (30..37) \cup (40..47) -> Ground(rend, j >= 40, <<j % 10>>)
    [] j \in {39, 49} -> Ground(rend, j = 49, <<>>)
    [] j \in (90..97) \cup (100..107) -> Ground(rend, j >= 100, <<8 + (j % 10)>>)
    [] OTHER -> rend
\* One parameter; acc.skip parameters belong to a colour that came before.
Parameter(w, acc, i) ==
  LET a(k) == w.args[i + k] IN
  IF acc.skip > 0 THEN [acc EXCEPT !.skip = @ - 1]
  ELSE IF a(0) \in {38, 48} /\ i + 2 < w.num /\ a(1) = 5
  THEN [rend |-> IF a(2) > 255 THEN acc.rend ELSE Ground(acc.rend, a(0) = 48, <<a(2)>>), skip |-> 2]
  ELSE IF a(0) \in {38, 48} /\ i + 4 < w.num /\ a(1) = 2
  THEN [rend |-> Ground(acc.rend, a(0) = 48, <<a(2) % 256, a(3) % 256, a(4) % 256>>), skip |-> 4]
  ELSE [acc EXCEPT !.rend = Rendered(@, a(0))]
SelectRendition(w) ==
  [w EXCEPT !.rend = FoldLeft(LAMBDA acc, i : Parameter(w, acc, i - 1), [rend |-> w.rend, skip |-> 0],
                              [i \in 1..w.num |-> i]).rend]

-----------------------------------------------------------------------------
(* Modes, and the value of each the terminal in front of the window was told.*)
NoModes == [keypad |-> 0, cursorkeys |-> 0, revvid |-> 0, mouse |-> 0, extmouse |-> 0, bracketed |-> 0,
            curinv |-> 0, curvvis |-> 0, style |-> 0, insert |-> 0, autolf |-> 0]
\* autolf is the window's own business; the rest is told at once (LKeypadMode, ...).
SetMode(w, name, v) ==
  [w EXCEPT !.modes[name] = v, !.told[name] = IF name = "autolf" THEN @ ELSE v]

PrivateModes == 1 :> "cursorkeys" @@ 5 :> "revvid" @@ 25 :> "curinv" @@ 2004 :> "bracketed"
MouseModes == {9, 1000, 1001, 1002, 1003}
AnsiMode(w, a, on) ==
  CASE a = 4 -> SetMode(w, "insert", on) [] a = 20 -> SetMode(w, "autolf", on)
    [] a = 34 -> SetMode(w, "curvvis", 1 - on) [] OTHER -> w
PrivateMode(w, a, on) ==
  CASE a \in DOMAIN PrivateModes -> SetMode(w, PrivateModes[a], IF a = 25 THEN 1 - on ELSE on)
    [] a \in MouseModes -> SetMode(w, "mouse", on * a)
    [] a = 1006 -> SetMode(w, "extmouse", on * a)
    [] a = 2 -> IF on = 0 \/ w.utf8 THEN w ELSE [ResetCharsets(w) EXCEPT !.gr = w.gr]
    [] a = 1048 -> IF on = 1 THEN SaveCursor(w) ELSE RestoreCursor(w)
    [] OTHER -> w
OneMode(w, private, a, on) == IF private THEN PrivateMode(w, a, on) ELSE AnsiMode(w, a, on)
EachMode(w, private, on) ==
  LET set[n \in 0..w.num] == IF n = 0 THEN w ELSE OneMode(set[n - 1], private, w.args[n - 1], on)
  IN set[w.num]

\* ESC c.  The mouse's coding is kept, and of the modes that were on, the
\* terminal is told of two (LKeypadMode, LCursorkeysMode in DoESC).
ResetWindow(w) ==
  [ResetCharsets(w) EXCEPT !.modes = [NoModes EXCEPT !.extmouse = w.modes.extmouse], !.saved.on = FALSE,
                           !.state = "LIT", !.kind = "NONE", !.rend = NoRend]
FullReset(w) == LET v == ResetWindow(w) IN [v EXCEPT !.told.keypad = 0, !.told.cursorkeys = 0]

\* Answers are put into the input buffer whole or not at all.
Report(w, len) == IF w.inlen + len <= InSize THEN [w EXCEPT !.inlen = @ + len] ELSE w

-----------------------------------------------------------------------------
(* Printing.                                                                 *)
Prints == {"PRIN", "PRINESC", "PRINCSI", "PRIN4"}
Shown(r) == {d \in r.dis.on : r.dis.shows[d] # "away"}
CanPrint(r) == {d \in r.dis.on : r.dis.printcmd \/ d \in Capable}
PrintDisplay(r) ==
  LET fore == {d \in CanPrint(r) : r.dis.shows[d] = "fore"}
      near == CanPrint(r) \cap Shown(r) IN
  IF r.dis.last \in fore THEN r.dis.last
  ELSE IF fore # {} THEN Min(fore)
  ELSE IF near # {} THEN Min(near)
  ELSE IF Cardinality(r.dis.on) = 1 /\ CanPrint(r) # {} THEN Min(CanPrint(r)) ELSE None
PrintStart(r) ==
  LET d == PrintDisplay(r) IN
  IF d = None THEN [r EXCEPT !.win.pdisplay = None]
  ELSE [r EXCEPT !.win.pdisplay = d, !.win.str = <<>>, !.win.state = "PRIN", !.raw = <<>>, !.printed = <<>>,
                 !.job = IF r.dis.printcmd /\ d \notin r.dis.pipes /\ ~r.dis.printer THEN "lost" ELSE "on",
                 !.dis.pipes = IF r.dis.printcmd /\ r.dis.printer THEN @ \cup {d} ELSE @]
PrintFlush(r) ==
  LET d == r.win.pdisplay
      gone == r.win.str # <<>> /\ (d = None \/ (r.dis.printcmd /\ (d \notin r.dis.pipes \/ ~r.dis.printer))) IN
  [r EXCEPT !.win.str = <<>>, !.printed = IF gone THEN @ ELSE @ \o r.win.str,
            !.job = IF gone THEN "lost" ELSE @,
            !.dis.pipes = IF gone /\ r.dis.printcmd THEN @ \ {d} ELSE @]
\* mutant: the buffer is emptied only after the byte that found it full is left out.
PrintChar_full(r, c) ==
  IF Len(r.win.str) >= MaxStr - 1 THEN PrintFlush(r) ELSE [r EXCEPT !.win.str = Append(@, Byte(c))]
PrintChar(r, c) ==
  LET q == IF Len(r.win.str) >= MaxStr - 1 THEN PrintFlush(r) ELSE r IN
  [q EXCEPT !.win.str = Append(@, Byte(c))]
PrintChars(r, s) ==
  LET put[n \in 0..Len(s)] == IF n = 0 THEN r ELSE PrintChar(put[n - 1], s[n])
  IN put[Len(s)]
PrintEnd(r) ==
  LET q == PrintFlush(r) IN
  [q EXCEPT !.win.state = "LIT", !.win.pdisplay = None, !.dis.pipes = @ \ {r.win.pdisplay},
            !.job = IF @ = "on" THEN "done" ELSE @]

\* What a printing state has taken in and not yet printed.
Held(state) == CASE state = "PRINESC" -> <<"esc">> [] state = "PRINCSI" -> <<"esc", "[">>
                 [] state = "PRIN4" -> <<"esc", "[", "4">> [] state = "STRESC" -> <<"esc">> [] OTHER -> <<>>
PrinterByte(r, c) ==
  LET s == r.win.state
      next == CASE s = "PRIN" /\ c = "esc" -> "PRINESC" [] s = "PRINESC" /\ c = "[" -> "PRINCSI"
                [] s = "PRINCSI" /\ c = "4" -> "PRIN4" [] OTHER -> "PRIN" IN
  IF s = "PRIN4" /\ c = "i" THEN PrintEnd(r)
  ELSE IF next = "PRIN" THEN [PrintChars(r, Append(Held(s), c)) EXCEPT !.win.state = "PRIN"]
  ELSE [r EXCEPT !.win.state = next]

-----------------------------------------------------------------------------
(* Strings.                                                                  *)
StringStart(r, kind) ==
  [r EXCEPT !.win.kind = kind, !.win.str = <<>>, !.win.state = "ASTR", !.raw = <<>>]
\* A string that is too long ends, and its rest is text.
StringChar(r, c) ==
  IF Len(r.win.str) >= MaxStr - 1 THEN [r EXCEPT !.win.state = "LIT"] ELSE [r EXCEPT !.win.str = Append(@, Byte(c))]

Message(r, S) ==
  [r EXCEPT !.dis.status = IF SelectSeq(r.win.str, LAMBDA c : c \notin Controls) = <<>> THEN @ ELSE @ \cup (S \ Hard)]
Printable(s) == SelectSeq(s, LAMBDA c : c \notin Controls)
\* Up to the first semicolon an OSC string says what it sets: 0 and 2 the
\* hardstatus line; other numbers concern the terminal alone.
OscValue(s) ==
  IF Len(s) >= 2 /\ s[1] \in {"0", "2"} /\ s[2] = ";" THEN <<SubSeq(s, 3, Len(s))>> ELSE <<>>
StringEnd(r) ==
  LET q == [r EXCEPT !.win.state = "LIT"]
      s == r.win.str IN
  CASE r.win.kind = "OSC" -> IF OscValue(s) = <<>> THEN q ELSE [q EXCEPT !.win.hstatus = OscValue(s)[1]]
    [] r.win.kind = "APC" -> [q EXCEPT !.win.hstatus = s]
    [] r.win.kind = "PM" -> Message(q, Shown(r))
    [] r.win.kind = "GM" -> Message(q, r.dis.on)
    [] r.win.kind = "AKA" -> IF s = <<>> THEN q ELSE [q EXCEPT !.win.title = Printable(s)]
    [] r.win.kind = "DCS" -> q
\* A message of the window's own holds up what follows until it is gone.
Stops(r, kind) == kind \in {"PM", "GM"} /\ Shown(r) \cap r.dis.status # {}
EndString(r) == LET q == StringEnd(r) IN IF Stops(q, r.win.kind) THEN [q EXCEPT !.win.stop = TRUE] ELSE q

\* mutant: an escape that ends no string is dropped.
EscapedByte_drop(r, c) ==
  IF c = "\\" THEN EndString(r) ELSE StringChar([r EXCEPT !.win.state = IF c = "esc" THEN @ ELSE "ASTR"], c)
EscapedByte(r, c) ==
  CASE c = "\\" -> EndString(r)
    [] c = "esc" -> StringChar(r, "esc")
    [] OTHER -> StringChar(StringChar([r EXCEPT !.win.state = "ASTR"], "esc"), c)
StringByte(r, c) ==
  CASE c = "nul" -> r
    [] c = "esc" -> [r EXCEPT !.win.state = "STRESC"]
    [] \/ (r.win.kind = "OSC" /\ c \in Controls \ {"nul", "esc", "^e"})
       \/ (c = "c1\\" /\ r.win.c1) -> EndString(r)
    [] OTHER -> StringChar(r, c)

-----------------------------------------------------------------------------
(* Escape and control sequences.                                             *)
NoArgs == [i \in 0..(MaxArgs - 1) |-> 0]
StartCSI(r) ==
  [r EXCEPT !.win.num = 0, !.win.im = <<>>, !.win.args = NoArgs, !.win.state = "CSI", !.raw = <<>>]

Special(w, c) == CASE c = "si" -> MapCharset(w, 0) [] c = "so" -> MapCharset(w, 1) [] OTHER -> w

DoESC(w, c, im) ==
  IF im = <<>> THEN
    CASE c = "Z" -> Report(w, 7) [] c = "7" -> SaveCursor(w) [] c = "8" -> RestoreCursor(w) [] c = "c" -> FullReset(w)
      [] c = "=" -> SetMode(w, "keypad", 1) [] c = ">" -> SetMode(w, "keypad", 0)
      [] c = "n" -> MapCharset(w, 2) [] c = "o" -> MapCharset(w, 3)
      [] c = "~" -> MapCharsetR(w, 1) [] c = "}" -> MapCharsetR(w, 2) [] c = "|" -> MapCharsetR(w, 3)
      [] c = "N" -> SingleShift(w, 2) [] c = "O" -> SingleShift(w, 3) [] OTHER -> w
  ELSE IF im \in DOMAIN Designates
  THEN DesignateCharset(w, FontOf(c, Designates[im][2]), Designates[im][1])
  ELSE w

WindowCSI(w, c) ==
  LET a1 == w.args[0] IN
  CASE w.im = <<>> ->
        (CASE c = "m" -> SelectRendition(w)
           [] c = "h" -> EachMode(w, FALSE, 1) [] c = "l" -> EachMode(w, FALSE, 0)
           [] c = "n" -> (CASE a1 = 5 -> Report(w, 4) [] a1 = 6 -> Report(w, 6) [] OTHER -> w)
           [] c = "c" -> (IF a1 = 0 THEN Report(w, 7) ELSE w)
           [] c = "x" -> (IF a1 \in {0, 1} THEN Report(w, 20) ELSE w)
           [] c = "p" -> (IF a1 \in {6, 7} THEN SetMode(w, "curinv", 7 - a1) ELSE w)
           [] c = "t" -> (CASE a1 = 11 -> Report(w, 4) [] a1 = 18 -> Report(w, 9)
                            [] a1 = 21 -> Report(w, 5 + Len(w.title)) [] OTHER -> w)
           [] c = "s" -> SaveCursor(w) [] c = "u" -> RestoreCursor(w)
           [] OTHER -> w)
    [] w.im = <<" ">> /\ c = "q" -> SetMode(w, "style", a1)
    [] w.im = <<"?">> /\ c \in {"h", "l"} -> EachMode(w, TRUE, IF c = "h" THEN 1 ELSE 0)
    [] w.im = <<">">> /\ c = "c" -> (IF a1 = 0 THEN Report(w, 12) ELSE w)
    [] OTHER -> w
DoCSI(r, c) ==
  IF r.win.im = <<>> /\ c = "i" /\ r.win.args[0] = 5 THEN PrintStart(r) ELSE [r EXCEPT !.win = WindowCSI(@, c)]

\* Another parameter: past the last one there is room for, all are ignored.
NextArg(w) == [w EXCEPT !.num = IF @ < MaxArgs THEN @ + 1 ELSE @]
\* mutant: digits after the last parameter change the last parameter.
ArgDigit_last(w, d) ==
  IF w.num = MaxArgs THEN [w EXCEPT !.args[MaxArgs - 1] = IF @ < MaxArg THEN 10 * @ + d ELSE @]
  ELSE IF w.args[w.num] < MaxArg THEN [w EXCEPT !.args[w.num] = 10 * @ + d] ELSE w
ArgDigit(w, d) ==
  IF w.num < MaxArgs /\ w.args[w.num] < MaxArg THEN [w EXCEPT !.args[w.num] = 10 * @ + d] ELSE w
EndCSI(r, c) ==
  LET q == DoCSI([r EXCEPT !.win = NextArg(@)], c) IN
  IF q.win.state = "PRIN" THEN q ELSE [q EXCEPT !.win.state = "LIT"]

\* What is shown: the font a byte is shown in, two bytes for a double font.
ShownFont(w, c) ==
  IF c \notin {"h"} \/ w.gr = 0 THEN w.fontL ELSE w.fontR
Literal(w, c) ==
  LET font == IF w.mbcs = <<>> THEN ShownFont(w, c) ELSE w.mbcs[2] IN
  IF w.utf8 THEN EndShift(w)
  ELSE IF w.mbcs = <<>> /\ font \in DoubleFonts /\ c # " " THEN [w EXCEPT !.mbcs = <<c, font>>]
  ELSE EndShift([w EXCEPT !.mbcs = <<>>])

LiteralByte(r, c) ==
  LET cut == c \in Controls \cup {" "} \/ (c \in DOMAIN C1 /\ r.win.c1)
      q == IF cut THEN [r EXCEPT !.win.mbcs = <<>>] ELSE r IN
  CASE c = "esc" -> [q EXCEPT !.win.im = <<>>, !.win.state = "ESC"]
    [] c \in Controls \ {"esc"} -> [q EXCEPT !.win = Special(@, c)]
    [] c \in DOMAIN C1 /\ q.win.c1 ->
        (CASE c = "c1[" -> StartCSI(q) [] c = "c1P" -> StringStart(q, "DCS") [] c = "c1\\" -> q
           [] OTHER -> [q EXCEPT !.win = DoESC(@, C1[c], <<>>)])
    [] OTHER -> [q EXCEPT !.win = Literal(@, c)]

StringKind == [c \in {"]", "_", "P", "^", "!", "k", "\""} |->
  CASE c = "]" -> "OSC" [] c = "_" -> "APC" [] c = "P" -> "DCS" [] c = "^" -> "PM" [] c = "!" -> "GM" [] OTHER -> "AKA"]
\* A byte that fits nowhere ends the sequence and is read again as text.
EscapeByte(r, c) ==
  LET im == r.win.im IN
  CASE c = "[" -> StartCSI(r)
    [] c \in DOMAIN StringKind -> StringStart(r, StringKind[c])
    [] c \in Specials -> [r EXCEPT !.win = [Special(@, c) EXCEPT !.state = "LIT"]]
    [] c \in Intermediates \ {"!", "\""} ->
        [r EXCEPT !.win.im = IF im = <<>> THEN <<c>> ELSE IF im = <<"$">> THEN <<"$", c>> ELSE <<"bad">>]
    [] c \in (Finals \ {"[", "]", "_", "P", "^", "k"}) \cup Digits \cup Private \cup Separators ->
        [r EXCEPT !.win = [DoESC(@, c, im) EXCEPT !.state = "LIT"]]
    [] OTHER -> LiteralByte([r EXCEPT !.win.state = "LIT"], c)
ControlByte(r, c) ==
  CASE c \in Digits -> [r EXCEPT !.win = ArgDigit(@, Digit[c])]
    [] c \in Separators -> [r EXCEPT !.win = NextArg(@)]
    [] c \in Specials -> [r EXCEPT !.win = Special(@, c)]
    [] c \in Finals -> EndCSI(r, c)
    [] c \in Intermediates \cup Private -> [r EXCEPT !.win.im = IF @ = <<>> THEN <<c>> ELSE <<"bad">>]
    [] OTHER -> LiteralByte([r EXCEPT !.win.state = "LIT"], c)

-----------------------------------------------------------------------------
(* WriteString.                                                              *)
Taken(r, c) ==
  LET q == [r EXCEPT !.raw = IF r.win.state \in {"LIT", "ESC"} THEN <<>> ELSE Append(@, c),
                     !.job = IF r.win.state \in Prints THEN @ ELSE "none"] IN
  CASE r.win.state \in Prints -> PrinterByte(q, c)
    [] r.win.state = "ASTR" -> StringByte(q, c)
    [] r.win.state = "STRESC" -> EscapedByte(q, c)
    [] r.win.state = "ESC" -> EscapeByte(q, c)
    [] r.win.state = "CSI" -> ControlByte(q, c)
    [] r.win.state = "LIT" -> LiteralByte(q, c)
\* What an ended sequence leaves behind, nobody reads; the model forgets it.
Forget(r) ==
  IF r.win.state # "LIT" THEN r
  ELSE [r EXCEPT !.win.str = <<>>, !.win.args = NoArgs, !.win.num = 0, !.win.im = <<>>,
                 !.raw = IF r.job = "done" THEN @ ELSE <<>>, !.printed = IF r.job = "done" THEN @ ELSE <<>>,
                 !.job = IF r.job = "lost" THEN "none" ELSE @]
Character(r, c) == Forget(Taken(r, c))

\* What comes out of the decoder at a byte: nothing before the last byte of a
\* character, and a replacement and the byte itself where a character breaks off.
Decoded(w, c) ==
  IF ~w.utf8 THEN <<c>>
  ELSE CASE c = "u2" -> IF w.pending THEN <<"uni">> ELSE <<"repl">>
         [] c = "u1" -> IF w.pending THEN <<"repl">> ELSE <<>>
         [] OTHER -> IF w.pending THEN <<"repl", c>> ELSE <<c>>
\* The one or two of them, one after the other.
Characters(r, s) ==
  CASE s = <<>> -> r [] Len(s) = 1 -> Character(r, s[1]) [] Len(s) = 2 -> Character(Character(r, s[1]), s[2])
\* Behind a message that is shown, bytes are put aside.
ReadByte(r, c) ==
  IF r.win.stop THEN [r EXCEPT !.win.outbuf = Append(@, c)]
  ELSE Characters([r EXCEPT !.win.pending = r.win.utf8 /\ c = "u1"], Decoded(r.win, c))
WriteString(r, buf) ==
  LET read[n \in 0..Len(buf)] == IF n = 0 THEN r ELSE ReadByte(read[n - 1], buf[n])
      q == [read[Len(buf)] EXCEPT !.win.stop = FALSE] IN
  IF q.win.state = "PRIN" /\ ~q.dis.printcmd THEN PrintFlush(q) ELSE q

-----------------------------------------------------------------------------
NewWindow(utf8, c1) ==
  ResetCharsets([state |-> "LIT", kind |-> "NONE", im |-> <<>>, args |-> NoArgs, num |-> 0,
    str |-> <<>>, stop |-> FALSE, outbuf |-> <<>>, inlen |-> 0, pdisplay |-> None,
    utf8 |-> utf8, pending |-> FALSE, c1 |-> c1, mbcs |-> <<>>, gr |-> 0, sets |-> Usual, L |-> 0, R |-> 2, ss |-> 0,
    fontL |-> "ascii", fontR |-> "ascii", rend |-> NoRend, modes |-> NoModes, told |-> NoModes,
    saved |-> [on |-> FALSE, sets |-> Usual, L |-> 0, R |-> 2, rend |-> NoRend], title |-> <<>>, hstatus |-> <<>>])

Init ==
  /\ \E utf8, c1 \in BOOLEAN : win = NewWindow(utf8, c1)
  /\ \E printcmd \in BOOLEAN :
       dis = [on |-> {}, shows |-> [d \in Displays |-> "away"], status |-> {}, last |-> None,
              printcmd |-> printcmd, printer |-> TRUE, pipes |-> {}]
  /\ raw = <<>> /\ printed = <<>> /\ job = "none"

\* The window's reader (win_readev_fn): it waits for messages on the window,
\* and what was put aside behind one comes before anything new.
Free == Shown(Now) \cap dis.status = {}
Read(buf) == Free /\ win.outbuf = <<>> /\ Become(WriteString(Now, buf))
Resume == Free /\ win.outbuf # <<>> /\ Become(WriteString([Now EXCEPT !.win.outbuf = <<>>], win.outbuf))

StatusGone(d) == d \in dis.status /\ dis' = [dis EXCEPT !.status = @ \ {d}] /\ UNCHANGED <<win, raw, printed, job>>

\* The user shows the window in front, in another region, or not at all.  A
\* display that comes to show it is told the window's modes.
Show(d, how) ==
  /\ d \in dis.on /\ how \in {"fore", "region", "away"} \ {dis.shows[d]}
  /\ dis' = [dis EXCEPT !.shows[d] = how]
  /\ win' = [win EXCEPT !.told = IF how = "fore" THEN win.modes ELSE @]
  /\ UNCHANGED <<raw, printed, job>>

\* A key at a display in front (disp_readev_fn); the program reads its input.
Key(d) ==
  /\ d \in dis.on /\ dis.shows[d] = "fore" /\ dis.last # d
  /\ dis' = [dis EXCEPT !.last = d] /\ UNCHANGED <<win, raw, printed, job>>
Consume == win.inlen > 0 /\ win' = [win EXCEPT !.inlen = 0] /\ UNCHANGED <<dis, raw, printed, job>>

Attach(d) == d \notin dis.on /\ dis' = [dis EXCEPT !.on = @ \cup {d}] /\ UNCHANGED <<win, raw, printed, job>>
FreeDisplay(d) ==
  /\ d \in dis.on
  /\ dis' = [dis EXCEPT !.on = @ \ {d}, !.shows[d] = "away", !.status = @ \ {d}, !.pipes = @ \ {d},
                        !.last = IF @ = d THEN None ELSE @]
  /\ win' = [win EXCEPT !.pdisplay = IF @ = d THEN None ELSE @]
  /\ job' = IF win.pdisplay = d /\ job = "on" THEN "lost" ELSE job
  /\ UNCHANGED <<raw, printed>>

\* The command behind the printer's pipe goes away.
PrinterDies ==
  dis.printcmd /\ dis.printer /\ dis' = [dis EXCEPT !.printer = FALSE] /\ UNCHANGED <<win, raw, printed, job>>

\* The program dies and its window stays (zombie): WindowDied resets it, and
\* with it a print job in the making.
Died ==
  /\ Become(Forget([Now EXCEPT !.win = ResetWindow(@), !.job = IF @ = "on" THEN "lost" ELSE @]))

Next ==
  \/ \E buf \in Batches : Read(buf)
  \/ Resume \/ Consume \/ PrinterDies \/ Died
  \/ \E d \in Displays : StatusGone(d) \/ Key(d) \/ Attach(d) \/ FreeDisplay(d)
  \/ \E d \in Displays, how \in {"fore", "region", "away"} : Show(d, how)

Spec == Init /\ [][Next]_vars

-----------------------------------------------------------------------------
\* The buffers stay inside their arrays, and the window points at displays
\* that are there (StringChar, PrintChar, Report, FreeDisplay).
TypeOK ==
  /\ win.state \in Prints \cup {"LIT", "ESC", "CSI", "ASTR", "STRESC"}
  /\ Len(win.str) < MaxStr /\ win.inlen <= InSize /\ win.num \in 0..MaxArgs
  /\ \A i \in 0..(MaxArgs - 1) : win.args[i] \in 0..(10 * MaxArg)
  /\ {win.pdisplay, dis.last} \subseteq dis.on \cup {None} /\ dis.pipes \cup dis.status \subseteq dis.on

\* ESC \ among the bytes of a print job.
Ended(bytes) == \E k \in 1..(Len(bytes) - 1) : SubSeq(bytes, k, k + 1) = <<"esc", "\\">>

\* While its display and its printer last, a print job is printed as it was
\* sent, in order: the bytes that began like the end of the job and were not
\* are printed too, and those that end it, ESC [ 4 i, are not (PrintChar,
\* PrintFlush, the PRIN states of WriteString).  The exception is a job with
\* ESC \ in it: "The ansi sequence ESC \ ends printing and closes the pipe"
\* (screen.texinfo:5348), but the code prints it and goes on (ansi.c:266), so
\* nothing is claimed of such a job from there on.  In a UTF-8 window characters
\* are cut to bytes.
PrintWhole ==
  ~win.utf8 /\ ~Ended(raw) =>
    /\ win.state \in Prints /\ job = "on" => printed \o win.str \o Held(win.state) = raw
    /\ job = "done" => printed \o <<"esc", "[", "4", "i">> = raw

\* A string is what was sent, escapes in it included (ASTR, STRESC).
WithoutNul(s) ==
  LET text[n \in 0..Len(s)] ==
        IF n = 0 THEN <<>> ELSE IF s[n] = "nul" THEN text[n - 1] ELSE Append(text[n - 1], s[n])
  IN text[Len(s)]
StringsRight ==
  ~win.utf8 /\ win.state \in {"ASTR", "STRESC"} =>
    WithoutNul(win.str \o Held(win.state)) = WithoutNul(raw)

\* Parameter k is written by the digits behind the k-th separator, up to the
\* size it is cut at; parameters there is no room for are dropped (CSI).
Before(s, i) == Cardinality({j \in 1..(i - 1) : s[j] \in Separators})
Value(s, k) ==
  LET value[n \in 0..Len(s)] ==
        IF n = 0 THEN 0
        ELSE IF s[n] \in Digits /\ Before(s, n) = k /\ value[n - 1] < MaxArg
        THEN 10 * value[n - 1] + Digit[s[n]] ELSE value[n - 1]
  IN value[Len(s)]
ParametersRight ==
  win.state = "CSI" =>
    /\ win.num = Min({MaxArgs, Before(raw, Len(raw) + 1)})
    /\ \A k \in 0..(MaxArgs - 1) : win.args[k] = Value(raw, k)

\* Both of these: what stands inside an escape sequence is collected as it is
\* sent, however it is cut into batches.
Collected == StringsRight /\ ParametersRight

=============================================================================
