-------------------------------- MODULE Keys --------------------------------
(* What a user types on one display: disp_readev_fn, which holds back what   *)
(* may be the beginning of a mouse report, ProcessInput, which looks for     *)
(* bound sequences of keys, and ProcessInput2, which finds the commands      *)
(* behind the escape character; with the two timers that end the waiting,    *)
(* and the table of sequences as bindkey keeps it.                           *)
EXTENDS Integers, Sequences, FiniteSets, FiniteSetsExt, SequencesExt

CONSTANTS
  Reads,     \* bound: what may come at once
  Strings,   \* sequences keys are bound to
  Slots,     \* bound: entries of kmap_exts
  Term,      \* keys of the terminal, by number: what they send
  EscKeys,   \* those among them bound behind the escape character
  Far        \* 256: offsets are bytes

ASSUME KeysAssumption ==
  /\ Slots \in Nat /\ Far \in Nat /\ \A k \in DOMAIN Term : k < 0 /\ Term[k] # <<>> /\ Len(Term[k]) < Far
  /\ \A s \in Strings : s # <<>> /\ Len(s) < Far

VARIABLES
  dis,     \* the display: table of sequences, what has been matched, the mouse parser;
           \* history in out: the keys and bytes found, and the changes of the table
  exts,    \* kmap_exts
  acts,    \* umtab and dmtab for the terminal's keys
  heard,   \* history: what was read, mouse reports put in their translated form
  typed    \* history: what went on to ProcessInput since it had nothing left or the table
           \* was changed, and where time ran out

vars == <<dis, exts, acts, heard, typed>>

ESC == 27
CSI == 91     \* [
Vt == 77      \* M
Sgr == 60     \* <
Semi == 59    \* ;
Release == 109 \* m
Prefix == 1   \* the user's escape character, ^A
NotNext == 110 \* bound to mapnotnext
Default == 100 \* bound to mapdefault
Detach == 68   \* bound to detach
Report == 256 \* a mouse report in the window's coordinates
Mark == 257   \* in typed: the time was up
Change == 258 \* in out: the table was changed, and the keys that waited were dropped

-----------------------------------------------------------------------------
(* D_kmaps: the sequences in order, each with an offset for every byte that  *)
(* leads to the next sequence with another byte there.  An entry takes       *)
(* 2 * length + 4 bytes and offsets count pairs of them.                     *)
Half(t, e) == FoldLeft(LAMBDA sum, x : sum + Len(x.seq) + 2, 0, SubSeq(t, 1, e - 1))
Distance(t, e, f) == Half(t, f) - Half(t, e)
Target(t, e, i) == t[e].off[i] + 2 + Half(t, e)
Landing(t, e, i) == CHOOSE f \in DOMAIN t : Half(t, f) = Target(t, e, i)
Common(a, b) == Max({n \in 0..Min({Len(a), Len(b)}) : SubSeq(a, 1, n) = SubSeq(b, 1, n)})
Before(a, b) ==
  \E n \in {Common(a, b)} : n < Len(b) /\ (n = Len(a) \/ (n < Len(a) /\ a[n + 1] < b[n + 1]))

findseq_ge(t, seq) == Min({e \in DOMAIN t : ~Before(t[e].seq, seq)} \cup {Len(t) + 1})

\* An offset too large for a byte leads as far as a byte can.
setseqoff(t, e, i, o) ==
  [t EXCEPT ![e].off[i] =
    IF o < Far THEN o
    ELSE Distance(t, e, Min({q \in (e + 1)..Len(t) : Distance(t, e, q) + Len(t[q].seq) >= Far})) - 2]

\* The offsets of a new entry are those of the one behind it.
OwnOffsets(t, p) ==
  LET k == Len(t[p].seq) IN
  IF p = Len(t) THEN t
  ELSE FoldLeft(LAMBDA u, i :
         IF i > Common(u[p].seq, u[p + 1].seq) + 1 THEN u
         ELSE IF i = Common(u[p].seq, u[p + 1].seq) + 1 THEN [u EXCEPT ![p].off[i] = k]
         ELSE setseqoff(u, p, i, IF u[p + 1].off[i] # 0 THEN u[p + 1].off[i] + k + 2 ELSE 0),
       t, [i \in 1..k |-> i])
\* Those before it lead to it or past it.
\* mutant: the entry that gave way to the new one is not followed.
Passing_loose(t, p, q, i, same) ==
  LET k == Len(t[p].seq) IN
  IF t[q].off[i] = 0 THEN IF i = same + 1 THEN setseqoff(t, q, i, Distance(t, q, p) - 2) ELSE t
  ELSE IF Target(t, q, i) > Half(t, p) THEN setseqoff(t, q, i, t[q].off[i] + k + 2) ELSE t
Passing(t, p, q, i, same) ==
  LET k == Len(t[p].seq) IN
  IF t[q].off[i] = 0 THEN IF i = same + 1 THEN setseqoff(t, q, i, Distance(t, q, p) - 2) ELSE t
  ELSE IF Target(t, q, i) > Half(t, p) \/ (Target(t, q, i) = Half(t, p) /\ i <= same)
  THEN setseqoff(t, q, i, t[q].off[i] + k + 2) ELSE t
Places(t, p) == FoldLeft(LAMBDA s, q : s \o [i \in 1..Len(t[q].seq) |-> <<q, i>>], <<>>, [q \in 1..(p - 1) |-> q])
Added(t, p) ==
  FoldLeft(LAMBDA u, qi : Passing(u, p, qi[1], qi[2], Common(u[qi[1]].seq, u[p].seq)), OwnOffsets(t, p), Places(t, p))

addmapseq(t, seq, key) ==
  LET p == findseq_ge(t, seq) IN
  IF p <= Len(t) /\ t[p].seq = seq THEN [t EXCEPT ![p].n = key.n, ![p].wait = key.wait]
  ELSE Added(InsertAt(t, p, [n |-> key.n, wait |-> key.wait, seq |-> seq, off |-> <<>> \o [i \in 1..Len(seq) |-> 0]]), p)

Passed(t, p, q, i) ==
  LET k == Len(t[p].seq) IN
  IF Target(t, q, i) = Half(t, p) THEN setseqoff(t, q, i, IF t[p].off[i] # 0 THEN t[q].off[i] + t[p].off[i] - k ELSE 0)
  ELSE IF Target(t, q, i) > Half(t, p) THEN [t EXCEPT ![q].off[i] = @ - (k + 2)] ELSE t
remmapseq(t, seq) ==
  LET p == findseq_ge(t, seq) IN
  IF p > Len(t) \/ t[p].seq # seq THEN t
  ELSE RemoveAt(FoldLeft(LAMBDA u, qi : Passed(u, p, qi[1], qi[2]), t, Places(t, p)), p)

\* What disp_readev_fn has not passed on yet.
HeldBack(d) == CASE d.ms = "esc" -> <<ESC>> [] d.ms = "csi" -> <<ESC, CSI>> [] OTHER -> <<>>

-----------------------------------------------------------------------------
(* bindkey.  A key is a number: that of the terminal's key, which is always  *)
(* looked for, or the slot of the sequence in kmap_exts.                     *)
Tables == {"um", "dm", "mm"}
Free == [str |-> <<>>, wait |-> FALSE, um |-> FALSE, dm |-> FALSE, mm |-> FALSE]
IsBound(x) == \E tab \in Tables : x[tab]
remap(t, x, i, map) ==
  CASE map /\ IsBound(x[i]) -> addmapseq(t, x[i].str, [n |-> i, wait |-> x[i].wait])
    [] ~map /\ ~IsBound(x[i]) -> remmapseq(t, x[i].str)
    [] OTHER -> t
\* What a new display starts with.
InitTermcap(x) ==
  FoldLeft(LAMBDA t, i : remap(t, x, i, TRUE),
    FoldLeft(LAMBDA t, k : addmapseq(t, Term[k], [n |-> k, wait |-> FALSE]), <<>>, SetToSeq(DOMAIN Term)),
    [i \in DOMAIN x |-> i])
\* What has been matched so far.
Pending(r) == IF r.l = 0 THEN <<>> ELSE SubSeq(r.kmaps[r.e].seq, 1, r.l)

\* When no key waits and no command is begun the history starts anew.
AtRest(d) == d.up /\ d.l = 0 /\ ~d.dontmap /\ ~d.esc
Forgotten(d) == IF AtRest(d) THEN [d EXCEPT !.out = <<>>] ELSE d
Before1(v) == IF AtRest(dis) THEN <<>> ELSE v

\* The history notes a change of the table with the keys it drops; one that
\* drops none, before any key or after another change, says nothing new.
Changed(out, dropped) ==
  IF dropped = <<>> /\ (out = <<>> \/ Last(out)[1] = Change) THEN out ELSE Append(out, <<Change, dropped>>)
\* The search starts anew when the table has another length: keys that wait to
\* be matched are dropped.
Reset(d) == [d EXCEPT !.e = 1, !.l = 0, !.held = 0, !.mapev = FALSE, !.out = Changed(@, Pending(d))]
Remapped(d, t) ==
  IF Len(t) = Len(d.kmaps) THEN [d EXCEPT !.kmaps = t, !.out = Changed(@, <<>>)] ELSE [Reset(d) EXCEPT !.kmaps = t]
Rebound(d) == dis' = d /\ typed' = Pending(d) /\ heard' = IF AtRest(dis) THEN HeldBack(dis) ELSE heard

Slot(seq, bind) == {i \in DOMAIN exts : exts[i].str = seq \/ (bind /\ exts[i].str = <<>>)}
Bindkey(tab, seq, bind, wait) ==
  LET found == Slot(seq, bind)
      i == IF found = {} THEN Len(exts) + 1 ELSE Min(found)
      old == IF found = {} THEN Free ELSE exts[i]
      used == \E other \in Tables \ {tab} : old[other]
      new == IF bind THEN [old EXCEPT ![tab] = TRUE, !.str = seq, !.wait = wait] ELSE [old EXCEPT ![tab] = FALSE]
      x == IF found = {} THEN Append(exts, new) ELSE [exts EXCEPT ![i] = new]
  IN /\ bind \/ found # {}
     /\ i <= Slots
     /\ exts' = IF bind \/ used THEN x ELSE [x EXCEPT ![i].str = <<>>, ![i].wait = FALSE]
     /\ Rebound(Remapped(Forgotten(dis), remap(dis.kmaps, x, i, bind)))
     /\ UNCHANGED acts
BindTermKey(tab, k, bind) ==
  /\ acts' = [acts EXCEPT ![tab] = IF bind THEN @ \cup {k} ELSE @ \ {k}]
  /\ Rebound(Remapped(Forgotten(dis), IF bind THEN addmapseq(dis.kmaps, Term[k], [n |-> k, wait |-> FALSE]) ELSE dis.kmaps))
  /\ UNCHANGED exts

-----------------------------------------------------------------------------
(* What comes of the keys: r is the display with what has come out.          *)
Emit(r, n, bytes) == [r EXCEPT !.out = Append(@, <<n, bytes>>)]
DoAction(r, c) ==
  CASE c = NotNext -> [r EXCEPT !.dontmap = TRUE]
    [] c = Default -> [r EXCEPT !.mapdefault = TRUE]
    [] c = Detach -> [r EXCEPT !.up = FALSE]
    [] OTHER -> r
Typed1(r, c) ==
  IF ~r.up THEN r
  ELSE IF r.esc THEN DoAction([r EXCEPT !.esc = FALSE], c) ELSE [r EXCEPT !.esc = (c = Prefix)]
ProcessInput2(r, bytes) == FoldLeft(Typed1, r, bytes)
Plain(r, bytes) == ProcessInput2(FoldLeft(LAMBDA q, c : Emit(q, 0, <<c>>), r, bytes), bytes)

\* The action of a key: TRUE if there is one.
Bound(r, tab, n) == IF n \in DOMAIN Term THEN n \in acts[tab] ELSE exts[n][tab]
Acts(r, n) == (r.edit /\ Bound(r, "mm", n)) \/ (~r.mapdefault /\ Bound(r, "um", n)) \/ Bound(r, "dm", n)
StuffKey(r, n, bytes) ==
  CASE n \in DOMAIN Term /\ r.esc /\ (n \in EscKeys \/ Len(bytes) > 1) -> [r EXCEPT !.esc = FALSE]
    [] n \in DOMAIN Term /\ r.esc /\ n \notin EscKeys /\ Len(bytes) = 1 -> ProcessInput2(r, bytes)
    [] OTHER -> IF Acts(r, n) THEN [r EXCEPT !.mapdefault = FALSE] ELSE ProcessInput2([r EXCEPT !.mapdefault = FALSE], bytes)
KeyFound(r, n, bytes) == StuffKey(Emit(r, n, bytes), n, bytes)

\* A sequence found may be the beginning of the next one in the table.
Longer(t, e) ==
  /\ t[e].off[Len(t[e].seq)] # Len(t[e].seq)
  /\ e < Len(t) /\ IsStrictPrefix(t[e].seq, t[e + 1].seq)

\* The timer runs unless a key at hand goes without.
RECURSIVE Timed(_, _, _)
Timed(t, e, i) ==
  /\ ~t[e].wait
  /\ t[e].off[i] # 0 => Timed(t, Landing(t, e, i), i)
\* mutant: not when a shorter sequence has been found.
Waiting_held(r) == IF r.l > 0 /\ r.held = 0 /\ Timed(r.kmaps, r.e, r.l + 1) THEN [r EXCEPT !.mapev = TRUE] ELSE r
Waiting(r) == IF r.l > 0 /\ Timed(r.kmaps, r.e, r.l + 1) THEN [r EXCEPT !.mapev = TRUE] ELSE r


Start(r) == [r EXCEPT !.e = 1, !.l = 0, !.held = 0]
Matched(r) ==
  LET x == r.kmaps[r.e] IN
  CASE r.l + 1 < Len(x.seq) -> [r EXCEPT !.l = @ + 1]
    [] r.l + 1 = Len(x.seq) /\ Longer(r.kmaps, r.e) -> [r EXCEPT !.l = @ + 1, !.held = r.e, !.e = @ + 1]
    [] r.l + 1 = Len(x.seq) /\ ~Longer(r.kmaps, r.e) -> KeyFound(Start(r), x.n, x.seq)

RECURSIVE ProcessInput(_, _), Examine(_, _, _), Compare(_, _, _, _)
\* When no sequence goes on as the keys do, or the time is up, the longest
\* sequence found so far is taken, or else one byte that is none; what was
\* typed behind it is looked at again.
\* mutant: what was typed behind the sequence found is forgotten.
GiveUp_all(r) ==
  IF r.held # 0 THEN KeyFound(Start(r), r.kmaps[r.held].n, r.kmaps[r.held].seq)
  ELSE ProcessInput([Start(r) EXCEPT !.dontmap = TRUE], Pending(r))
GiveUp(r) ==
  LET t == r.kmaps IN
  IF r.held # 0
  THEN ProcessInput(KeyFound(Start(r), t[r.held].n, t[r.held].seq), SubSeq(Pending(r), Len(t[r.held].seq) + 1, r.l))
  ELSE ProcessInput([Start(r) EXCEPT !.dontmap = TRUE], Pending(r))

\* pend are the bytes before the sequence at hand, not passed on yet.
ProcessInput(r, s) ==
  IF ~r.up \/ s = <<>> THEN r
  ELSE Examine(IF r.l > 0 THEN [r EXCEPT !.mapev = FALSE] ELSE r, <<>>, s)
Examine(r, pend, s) ==
  IF ~r.up THEN r
  ELSE IF s = <<>> THEN Plain(Waiting(r), pend)
  ELSE IF r.dontmap \/ r.kmaps = <<>> THEN Examine([r EXCEPT !.dontmap = FALSE], Append(pend, Head(s)), Tail(s))
  ELSE Compare(r, pend, Head(s), Tail(s))
Compare(r, pend, c, s) ==
  IF ~r.up THEN r
  ELSE LET x == r.kmaps[r.e] IN
  CASE x.seq[r.l + 1] = c /\ r.l = 0 ->
         IF Plain(r, pend).up THEN Examine(Matched(Plain(r, pend)), <<>>, s) ELSE Plain(r, pend)
    [] x.seq[r.l + 1] = c /\ r.l > 0 -> Examine(Matched(r), <<>>, s)
    [] x.seq[r.l + 1] # c /\ x.off[r.l + 1] # 0 -> Compare([r EXCEPT !.e = Landing(r.kmaps, r.e, r.l + 1)], pend, c, s)
    [] x.seq[r.l + 1] # c /\ x.off[r.l + 1] = 0 /\ r.l = 0 -> Examine([Start(r) EXCEPT !.mapdefault = FALSE], Append(pend, c), s)
    [] x.seq[r.l + 1] # c /\ x.off[r.l + 1] = 0 /\ r.l > 0 ->
         Compare([GiveUp([r EXCEPT !.mapdefault = FALSE]) EXCEPT !.mapev = FALSE], pend, c, s)

-----------------------------------------------------------------------------
(* The mouse reports.  A read is looked through with the bytes held back     *)
(* put in front again; f.r is the display, f.data the buffer, f.b where what *)
(* has not been passed on begins, f.i the byte at hand, f.mark the ESC last  *)
(* seen (0: none in this read).                                              *)
Digit(c) == c \in 48..57
\* The state after the byte c; "done" and "invalid" end a report.
MouseState(ms, sgr, c) ==
  CASE ms = "no" -> IF c = ESC THEN "esc" ELSE "no"
    [] ms = "esc" -> IF c = CSI THEN "csi" ELSE "no"
    [] ms = "csi" -> IF c \in {Vt, Sgr} THEN "button" ELSE "no"
    [] ms \in {"button", "x", "y"} /\ sgr /\ Digit(c) -> ms
    [] ms \in {"button", "x"} /\ (IF sgr THEN c = Semi ELSE TRUE) -> IF ms = "button" THEN "x" ELSE "y"
    [] ms = "y" /\ (IF sgr THEN c \in {Vt, Release} ELSE TRUE) -> "done"
    [] OTHER -> "invalid"
Parsed(d, c) ==
  LET to == MouseState(d.ms, d.sgr, c) IN
  [d EXCEPT !.ms = to,
            !.sgr = IF d.ms = "csi" THEN c = Sgr ELSE @,
            !.mouseev = CASE d.ms = "no" /\ to = "esc" -> TRUE [] d.ms = "esc" /\ to = "csi" -> TRUE [] d.ms = "csi" -> FALSE [] OTHER -> @]

\* What came before a report is passed on; the display may be gone then, and
\* the parser goes on with it all the same.
Pass(f, upto) == [f EXCEPT !.r = ProcessInput(@, SubSeq(f.data, f.b, upto)), !.typed = @ \o SubSeq(f.data, f.b, upto)]
\* mutant: what came before the report in the same read goes with it.
Ended_alone(f, inside) ==
  LET clean == [f EXCEPT !.r.ms = "no"] IN
  IF f.r.ms = "done" /\ inside THEN [clean EXCEPT !.b = f.i, !.data[f.i] = Report] ELSE [clean EXCEPT !.b = f.i + 1]
Ended(f, inside) ==
  LET passed == Pass(f, f.mark - 1)
      clean == [passed EXCEPT !.r.ms = "no", !.r.crashed = ~passed.r.up] IN
  IF f.r.ms = "done" /\ inside THEN [clean EXCEPT !.b = f.i, !.data[f.i] = Report] ELSE [clean EXCEPT !.b = f.i + 1]
MouseByte(f, i, inside) ==
  LET seen == [f EXCEPT !.i = i, !.r = Parsed(@, f.data[i]), !.mark = IF f.r.ms = "no" /\ f.data[i] = ESC THEN i ELSE @] IN
  IF f.r.crashed THEN f ELSE IF seen.r.ms \in {"done", "invalid"} THEN Ended(seen, inside) ELSE seen
Scanned(f, inside) == FoldLeft(LAMBDA g, i : MouseByte(g, i, inside), f, [k \in 1..(Len(f.data) - f.i) |-> f.i + k])
\* The beginning of a report at the end is held back.
Rest(f) == IF f.r.crashed THEN f ELSE Pass(f, IF f.r.ms = "no" THEN Len(f.data) ELSE f.mark - 1)

Looked(buf) ==
  [r |-> Forgotten(dis), data |-> IF dis.mouse THEN HeldBack(dis) \o buf ELSE buf, b |-> 1,
   mark |-> 0, i |-> IF dis.mouse THEN Len(HeldBack(dis)) ELSE 0, typed |-> Before1(typed)]
Become(f) == dis' = f.r /\ typed' = f.typed

\* What the user has said, reports put in their place.
Listen(p, c, inside) ==
  LET d == Parsed(p.d, c) IN
  CASE d.ms = "done" -> [d |-> [d EXCEPT !.ms = "no"], h |-> IF inside THEN Append(p.h, Report) ELSE p.h]
    [] d.ms = "invalid" -> [d |-> [d EXCEPT !.ms = "no"], h |-> p.h]
    [] d.ms = "button" /\ p.d.ms = "csi" -> [d |-> d, h |-> SubSeq(p.h, 1, Len(p.h) - 2)]
    [] d.ms \in {"x", "y"} \/ (d.ms = "button" /\ p.d.ms = "button") -> [d |-> d, h |-> p.h]
    [] OTHER -> [d |-> d, h |-> Append(p.h, c)]
Listened(buf, inside) ==
  IF dis.mouse
  THEN FoldLeft(LAMBDA p, c : Listen(p, c, inside), [d |-> dis, h |-> IF AtRest(dis) THEN HeldBack(dis) ELSE heard], buf).h
  ELSE Before1(heard) \o buf

\* disp_readev_fn; inside says whether a report lies in a window that wants it.
Read(buf, inside) ==
  /\ dis.up
  /\ Become(IF dis.mouse THEN Rest(Scanned(Looked(buf), inside)) ELSE Pass(Looked(buf), Len(buf)))
  /\ heard' = Listened(buf, inside)
  /\ UNCHANGED <<exts, acts>>
\* disp_map_fn
MapTimeout ==
  /\ dis.up /\ dis.mapev
  /\ dis' = IF dis.l = 0 THEN [dis EXCEPT !.mapev = FALSE] ELSE GiveUp([dis EXCEPT !.mapev = FALSE])
  /\ typed' = Append(typed, Mark)
  /\ UNCHANGED <<exts, acts, heard>>
\* disp_mousetimeout_fn; its event outlives the display.
MouseTimeout ==
  /\ dis.mouseev
  /\ IF dis.up
     THEN Become([Pass([Looked(<<>>) EXCEPT !.data = HeldBack(dis), !.r.mouseev = FALSE], Len(HeldBack(dis))) EXCEPT !.r.ms = "no"])
     ELSE dis' = [dis EXCEPT !.mouseev = FALSE, !.crashed = TRUE] /\ UNCHANGED typed
  /\ heard' = IF AtRest(dis) THEN HeldBack(dis) ELSE heard
  /\ UNCHANGED <<exts, acts>>
MouseMode == /\ dis' = [dis EXCEPT !.mouse = ~@] /\ UNCHANGED <<exts, acts, heard, typed>>
CopyMode == /\ dis' = [dis EXCEPT !.edit = ~@] /\ UNCHANGED <<exts, acts, heard, typed>>

Display(x) ==
  [kmaps |-> InitTermcap(x), e |-> 1, l |-> 0, held |-> 0, dontmap |-> FALSE, mapdefault |-> FALSE, esc |-> FALSE, mapev |-> FALSE,
   edit |-> FALSE, mouse |-> FALSE, ms |-> "no", sgr |-> FALSE, mouseev |-> FALSE, up |-> TRUE, crashed |-> FALSE, out |-> <<>>]
Init == exts = <<>> /\ acts = [tab \in Tables |-> {}] /\ dis = Display(exts) /\ heard = <<>> /\ typed = <<>>

Typing == (\E buf \in Reads, inside \in BOOLEAN : Read(buf, inside)) \/ MapTimeout \/ MouseTimeout \/ MouseMode \/ CopyMode
Binding ==
  /\ dis.up
  /\ \E tab \in Tables, bind, wait \in BOOLEAN :
       (\E seq \in Strings : Bindkey(tab, seq, bind, wait)) \/ (\E k \in DOMAIN Term : BindTermKey(tab, k, bind))
Next == Typing \/ Binding

Spec == Init /\ [][Next]_vars

-----------------------------------------------------------------------------
Bytes(s) == FoldLeft(LAMBDA b, x : b \o x[2], <<>>, s)

\* Every byte typed comes out once and in order, as itself or in a key, or is
\* still being matched, or is held back as the beginning of a mouse report,
\* however the bytes are cut into reads, and whichever timer ends first; with
\* one exception, the entries Change in out: what was being matched when bindkey
\* changed the length of the table is dropped (README, What does not hold).
InputKept == dis.up => heard = Bytes(dis.out) \o Pending(dis) \o HeldBack(dis)

\* What has been found since the table was changed.
SinceChange(out) == SubSeq(out, Max({0} \cup {i \in DOMAIN out : out[i][1] = Change}) + 1, Len(out))

\* The keys that should have been found: at every place the longest sequence
\* that matches, or else one byte.  Bytes wait while they may become a longer
\* one, until time runs out.
Sequences == {x.seq : x \in Range(dis.kmaps)}
NumberOf(seq) == (CHOOSE x \in Range(dis.kmaps) : x.seq = seq).n
UpToMark(s) == SubSeq(s, 1, Min({i \in DOMAIN s : s[i] = Mark} \cup {Len(s) + 1}) - 1)
Without(s, n, mark) == SubSeq(s, n + 1, mark - 1) \o SubSeq(s, mark + 1, Len(s))
EscAfter(esc, n, bytes) ==
  IF n = 0 \/ (n \in DOMAIN Term /\ esc /\ n \notin EscKeys /\ Len(bytes) = 1) THEN ~esc /\ Head(bytes) = Prefix
  ELSE IF n \in DOMAIN Term THEN FALSE ELSE esc
Longest(S) == CHOOSE q \in S : \A o \in S : Len(o) <= Len(q)
RECURSIVE Tokens(_, _, _, _)
Token(s, esc, skip, done, bytes, n, open) ==
  Tokens(IF open THEN Without(s, Len(bytes), Len(UpToMark(s)) + 1) ELSE SubSeq(s, Len(bytes) + 1, Len(s)),
         EscAfter(esc, n, bytes), n = 0 /\ esc /\ bytes = <<NotNext>>, Append(done, <<n, bytes>>))
Tokens(s, esc, skip, done) ==
  LET u == UpToMark(s)
      full == IF skip THEN {} ELSE {q \in Sequences : IsPrefix(q, u)}
      open == ~skip /\ \E q \in Sequences : IsStrictPrefix(u, q) IN
  IF u = <<>> \/ (open /\ Len(u) = Len(s)) THEN [done |-> done, rest |-> u]
  ELSE IF full # {} THEN Token(s, esc, skip, done, Longest(full), NumberOf(Longest(full)), open)
  ELSE Token(s, esc, skip, done, <<Head(u)>>, 0, open)
LongestMatch ==
  dis.up => \E t \in {Tokens(typed, FALSE, FALSE, <<>>)} : t.done = SinceChange(dis.out) /\ t.rest = Pending(dis)

\* While keys wait the timer runs, unless they may become a sequence bound with
\* -t; and while the beginning of a report is held back, its own.
NeverStuck ==
  dis.up =>
    /\ dis.l > 0 => dis.mapev \/ \E x \in Range(dis.kmaps) : x.wait /\ IsStrictPrefix(Pending(dis), x.seq)
    /\ HeldBack(dis) # <<>> => dis.mouseev

\* In the table every sequence is found: from the first one that begins like
\* the keys so far, the offsets lead to every byte that may follow (the skips
\* that addmapseq and remmapseq keep); and what is looked for is what a new
\* display would look for.
RECURSIVE Chain(_, _, _)
Chain(t, e, i) == {t[e].seq[i]} \cup (IF t[e].off[i] = 0 THEN {} ELSE Chain(t, Landing(t, e, i), i))
Found(t) ==
  \A e \in DOMAIN t : \A i \in 1..Len(t[e].seq) :
    LET group == {f \in DOMAIN t : Len(t[f].seq) >= i /\ SubSeq(t[f].seq, 1, i - 1) = SubSeq(t[e].seq, 1, i - 1)} IN
    e = Min(group) => Chain(t, e, i) = {t[f].seq[i] : f \in group}
TableRight == Found(dis.kmaps) /\ dis.kmaps = InitTermcap(exts)

\* Every entry of the tables tells how to react to a sequence (the manual of
\* bindkey): typed at once and nothing else, it is found; no passing run checks
\* it (README, What does not hold).
EveryEntryReacts ==
  \A i \in DOMAIN exts : IsBound(exts[i]) /\ typed = exts[i].str /\ dis.l = 0 => SinceChange(dis.out) = << <<i, typed>> >>

=============================================================================
