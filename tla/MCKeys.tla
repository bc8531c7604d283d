------------------------------- MODULE MCKeys -------------------------------
(* An instance of Keys in scopes: any one to three sequences of a and b and  *)
(* keys cut into reads anyhow (offsets are so short that some do not fit);   *)
(* keys of the terminal, the escape character and its commands; mouse        *)
(* reports cut anyhow; and bindkey, while keys wait, too.                    *)
EXTENDS Keys

VARIABLE scope

a == 97
b == 98
O == 79
KeyO == -1
KeyDel == -2
Keyboard == [k \in {KeyO, KeyDel} |-> IF k = KeyO THEN <<ESC, O>> ELSE <<127>>]
Bindable == {<<a>>, <<a, b>>, <<a, b, a>>, <<b, a>>}

Short == UNION {[1..n -> {a, b}] : n \in 1..3}
Sets == {S \in SUBSET Short : Cardinality(S) \in 1..3}
Slotted(S, waiting) ==
  [i \in 1..Cardinality(S) |-> [str |-> SetToSeq(S)[i], wait |-> waiting /\ i = 1, um |-> TRUE, dm |-> FALSE, mm |-> FALSE]]

ReadsOf ==
  [keys |-> {<<a>>, <<b>>, <<a, b>>, <<b, a, a>>},
   commands |-> {<<a>>, <<b>>, <<Prefix>>, <<Prefix, NotNext>>, <<a, Prefix, Default>>, <<Default, Detach>>, <<ESC>>, <<O, 127>>, <<a, 127>>},
   mouse |-> {<<a>>, <<a, ESC>>, <<CSI>>, <<Vt>>, <<a, ESC, CSI, Vt, a, a>>, <<b, ESC, CSI, Vt, a, a, a, b>>, <<Sgr, 48, Semi>>, <<a, ESC, CSI, Sgr, 48, Semi>>, <<48, Semi, 48, Release, a>>},
   table |-> {<<a>>, <<b>>}, unbind |-> {<<a>>, <<a, b>>}]
MaxTyped == [keys |-> 5, commands |-> 5, mouse |-> 8, table |-> 1, unbind |-> 0]

MCInit ==
  /\ heard = <<>> /\ typed = <<>>
  /\ \/ scope = "keys" /\ acts = [tab \in Tables |-> {}] /\ \E S \in Sets : \E waiting \in {FALSE, Cardinality(S) = 2} : exts = Slotted(S, waiting)
     \/ scope = "commands" /\ exts = Slotted({<<a, b>>}, FALSE) /\ \E A, M \in SUBSET {KeyO, KeyDel} : acts = [um |-> A, dm |-> {}, mm |-> M]
     \/ scope = "mouse" /\ exts = Slotted({<<ESC, CSI, a>>}, FALSE) /\ acts = [tab \in Tables |-> {}]
     \/ scope \in {"table", "unbind"} /\ exts = <<>> /\ acts = [tab \in Tables |-> {}]
  /\ dis = Display(exts)
KeysInit == MCInit /\ scope # "unbind"
UnbindInit == MCInit /\ scope = "unbind"

\* The sequence behind seq in the table begins otherwise (README: what does
\* not hold when it does not, and seq is unbound).
Alone(seq) == \A p \in {findseq_ge(dis.kmaps, seq)} : p < Len(dis.kmaps) => Head(dis.kmaps[p + 1].seq) # Head(seq)
\* Binding it again finds its own slot and no free one before that.
OwnSlot(seq) == \A i \in Slot(seq, TRUE) : exts[i].str = seq => i = Min(Slot(seq, TRUE))
Binds(seq, bind) == \E tab \in {"um", "mm"} : Bindkey(tab, seq, bind, seq = <<b, a>>)
MCNext ==
  /\ UNCHANGED scope
  /\ \/ /\ AtRest(dis) \/ Len(typed) < MaxTyped[scope]
        /\ \E buf \in ReadsOf[scope], inside \in IF scope = "mouse" THEN BOOLEAN ELSE {FALSE} : Read(buf, inside)
     \/ MapTimeout
     \/ scope = "mouse" /\ MouseTimeout
     \/ scope = "mouse" /\ dis.ms = "no" /\ MouseMode
     \/ scope = "commands" /\ CopyMode
     \/ scope = "table" /\ \E seq \in Strings : (OwnSlot(seq) /\ Binds(seq, TRUE)) \/ (Alone(seq) /\ Binds(seq, FALSE))
     \/ scope = "table" /\ \E bind \in BOOLEAN : BindTermKey("um", KeyO, bind)

\* bindkey with any sequences, and one read.
UnbindNext ==
  /\ UNCHANGED scope
  /\ \/ AtRest(dis) /\ \E buf \in ReadsOf[scope] : Read(buf, FALSE)
     \/ \E seq \in Strings, bind \in BOOLEAN : Binds(seq, bind)
UnbindSpec == UnbindInit /\ [][UnbindNext]_<<vars, scope>>
MCSpec == KeysInit /\ [][MCNext]_<<vars, scope>>

=============================================================================
