------------------------------ MODULE MCParser ------------------------------
(* An instance of Parser in six scopes: printing on two displays, strings   *)
(* and messages, parameters, renditions and modes, and character sets; and  *)
(* two of the UTF-8 code it reads with, the decoder and the table.          *)
EXTENDS Parser

CONSTANTS Bytes, Narrow, Broad, Accents, Ids, BroadIds
VARIABLES scope, state, seq, out, comb, ring

Utf8 == INSTANCE Utf8
utf8 == <<state, seq, out, comb, ring>>

Text(S) == {<<c>> : c \in S}
Introduced(S) == {<<"esc", c>> : c \in S}
Csi(s) == <<"esc", "[">> \o s

BatchesOf ==
  "print" :> Text({"a", "esc", "[", "4"}) \cup {Csi(<<"5", "i">>), <<"esc", "[", "4", "i">>, <<"esc", "\\">>} @@
  "strings" :> Text({"a", "esc", "\\", "c1\\"}) \cup Introduced({"]", "k"}) \cup {<<"esc", "]", "2", ";">>, <<"c1P">>, <<"bel">>, <<"nul">>} @@
  "messages" :> Text({"u1", "u2", "a"}) \cup Introduced({"_", "!", "^", "\\"})
     \cup {<<"esc", "^", "a", "esc", "\\", "a", "esc", "k", "b", "esc", "\\", "esc", "!">>} @@
  "args" :> Text({"3", "8", ";", "?", "so", "h"}) \cup {<<"esc", "[">>, <<"c1[">>, <<"can">>, <<";", "3", ";", ";", ";", ";", "8">>} @@
  "modes" :> {Csi(<<"3", "8", ";", "5", ";", "1", "m">>), Csi(<<"m">>), Csi(<<"3", "1", ";", "2", "2", "m">>),
              Csi(<<"4", "8", ";", "2", ";", "1", ";", "2", ";", "3", "m">>), Csi(<<"?", "1", "0", "0", "0", "h">>), Csi(<<"?", "9", "l">>),
              Csi(<<"4", ";", "2", "0", "h">>), Csi(<<"2", " ", "q">>), Csi(<<"6", "p">>), Csi(<<"?", "1", "0", "4", "8", "h">>),
              Csi(<<"?", "1", "0", "4", "8", "l">>), Csi(<<"6", "n">>), Csi(<<"x">>), Csi(<<">", "c">>), Csi(<<"2", "1", "t">>),
              <<"esc", "c">>, <<"esc", "=">>, <<"esc", "#", "(", "a">>} @@
  "charsets" :> Text({"a", "h", "so", " ", "c1N"}) \cup Introduced({"n", "~", "O", "7", "8", "c"})
     \cup {<<"esc", "*", "A">>, <<"esc", "$", "+", "B">>, Csi(<<"?", "2", "h">>)}

MCBatches == UNION {BatchesOf[s] : s \in DOMAIN BatchesOf}
MCAlphabet == Digits \cup Intermediates \cup Private \cup Separators \cup Controls \cup DOMAIN C1 \cup Finals
              \cup {"b", "h", "7", "8", "u1", "u2"}

Bounded ==
  /\ Len(win.title) <= 1 /\ Len(win.hstatus) <= 1 /\ Len(win.outbuf) <= 9
  /\ IF scope = "print" THEN dis.last # 1 /\ dis.shows[2] # "region" ELSE ~dis.printcmd
  /\ scope \in {"args", "modes", "charsets", "strings", "decoder", "table"} => dis.on = {}
  /\ scope = "messages" => Cardinality(dis.on) <= 1 /\ dis.last = None /\ win.utf8
  /\ scope \in {"print", "charsets", "strings", "decoder", "table"} => ~win.utf8
  /\ scope \in {"print", "modes", "messages", "decoder", "table"} => ~win.c1

MCInit == Init /\ Utf8!Init /\ scope \in DOMAIN BatchesOf \cup {"decoder", "table"} /\ Bounded
Environment == \E d \in Displays : Attach(d) \/ FreeDisplay(d) \/ StatusGone(d) \/ Key(d) \/ \E how \in {"fore", "region", "away"} : Show(d, how)
ParserNext ==
  /\ \/ Len(raw) < (IF scope = "strings" THEN 4 ELSE 5) /\ \E buf \in BatchesOf[scope] : Read(buf)
     \/ Resume \/ Consume \/ PrinterDies \/ Died
     \/ ((raw = <<>> /\ win.state = "LIT") \/ scope # "print") /\ Environment
     \/ \E d \in {win.pdisplay} \ {None} : FreeDisplay(d)
MCNext ==
  /\ UNCHANGED scope
  /\ \/ scope \in DOMAIN BatchesOf /\ ParserNext /\ Bounded' /\ UNCHANGED utf8
     \/ scope = "decoder" /\ Utf8!Decode /\ UNCHANGED vars
     \/ scope = "table" /\ Utf8!Combine /\ UNCHANGED vars
MCSpec == MCInit /\ [][MCNext]_<<vars, utf8, scope>>

Transcodes == Utf8!Transcodes
Meaning == Utf8!Meaning

=============================================================================
