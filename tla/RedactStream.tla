---------------------------- MODULE RedactStream -----------------------------
(***************************************************************************)
(* The output of a child or of a remote gonf on its way through a          *)
(* RedactingWriter (internal/logger/redact.go) with the registry of        *)
(* resolved secrets (secret/values.go) as its redactor: lines are          *)
(* redacted whole, a line longer than the guard is flushed up to a point   *)
(* no secret crosses, and secrets are added while the output runs, also    *)
(* between two looks of one flush at the registry.                         *)
(*                                                                         *)
(* A secret is a sequence of characters, NL its line break.  The escapings *)
(* of a form are further forms and not modelled.                           *)
(***************************************************************************)
EXTENDS Naturals, Sequences, FiniteSets, FiniteSetsExt, SequencesExt

CONSTANTS
    Characters, NL,
    Families,           \* sets of secrets, one of which the recipe resolves
    MinContainedLen, MinStrongLen, MaxSplitGuard,
    MaxWrite            \* the longest write

VARIABLES
    family,     \* the secrets the recipe resolves
    forms,      \* values.forms: form -> is it searched inside a payload
    pending,    \* RedactingWriter.pending
    relay,      \* "open", "closed" or "cat", which took the pipe over
    begun,      \* history: [form, len, shown]: the len characters that went out
                \* last begin a form known then, some of them shown
    leaked      \* history: the forms that went out with a character shown

vars == <<family, forms, pending, relay, begun, leaked>>

flushStallCap == 4 * MaxSplitGuard

-----------------------------------------------------------------------------
(* Values: the forms of a secret.                                          *)

TrimSpace(s) ==
    LET text == {i \in DOMAIN s : s[i] # NL}
    IN  IF text = {} THEN <<>> ELSE SubSeq(s, Min(text), Max(text))

TrimRight(s) ==
    LET text == {i \in DOMAIN s : s[i] # NL}
    IN  IF text = {} THEN <<>> ELSE SubSeq(s, 1, Max(text))

\* The strong lines of a secret of several lines, forms of their own.
strongLines(s) ==
    LET breaks == {0, Len(s) + 1} \cup {i \in DOMAIN s : s[i] = NL}
        lines == {SubSeq(s, b[1] + 1, b[2] - 1) : b \in
                     {p \in breaks \X breaks : p[1] < p[2] /\ ~\E k \in breaks : p[1] < k /\ k < p[2]}}
    IN  IF NL \in Range(s) THEN {l \in lines : Len(l) >= MinStrongLen} ELSE {}

\* Values.Add: the mode is the trimmed secret's; a form that two secrets
\* share is searched for if it is for one.
Added(old, data) ==
    LET trimmed == TrimSpace(data)
        contained == Len(trimmed) >= MinContainedLen
        whole == ({trimmed, TrimRight(data)} \cup (IF contained THEN {} ELSE {data})) \ {<<>>}
        lines == strongLines(trimmed)
    IN  [f \in DOMAIN old \cup whole \cup lines |->
            \/ f \in DOMAIN old /\ old[f]
            \/ f \in whole /\ contained
            \/ f \in lines]

\* What a snapshot of the forms holds.
Contained(known) == {f \in DOMAIN known : known[f]}
Guarded(known) == {f \in DOMAIN known : Len(f) <= MaxSplitGuard}

-----------------------------------------------------------------------------
(* Values: matching.  A span <<a, b>> is the characters a + 1 to b.        *)

formOccurrences(f, s) ==
    {<<a, a + Len(f)>> : a \in {i \in 0..Len(s) : i + Len(f) <= Len(s) /\ SubSeq(s, i + 1, i + Len(f)) = f}}

matchSpans(s, known) == UNION {formOccurrences(f, s) : f \in Contained(known)}
protectedSpans(s, known) ==
    UNION {formOccurrences(f, s) : f \in Contained(known) \cap Guarded(known)}

Covered(spans) == UNION {sp[1] + 1 .. sp[2] : sp \in spans}

\* redact: the characters of s that are hidden.
Redact(s, known) ==
    IF s \in DOMAIN known /\ ~known[s] THEN DOMAIN s ELSE Covered(matchSpans(s, known))

-----------------------------------------------------------------------------
(* Values: the point up to which a line that goes on may be flushed.  The  *)
(* registry is not locked meanwhile: looks[1] to looks[4] are the          *)
(* snapshots taken on the way, one for the longest form, one for the       *)
(* matches, one for the redaction or the escape hatch, one for a forced    *)
(* cut.                                                                    *)

\* protectedCrossing: the last point up to cut no span crosses.
protectedCrossing(spans, cut) ==
    Max({p \in 0..cut : \A sp \in spans : ~(sp[1] < p /\ p < sp[2])})

\* What a form that is not complete yet may need of the end of s.
longestKeepBackForForcedFlush(s, known) ==
    Max({0} \cup {k \in 1..Len(s) : \E f \in Guarded(known) : k < Len(f)
                                     /\ SubSeq(f, 1, k) = SubSeq(s, Len(s) - k + 1, Len(s))})

Straddlers(spans, c) == {sp \in spans : sp[1] < c /\ c < sp[2]}

\* The rest of every occurrence that c splits is covered by whole ones.
LeakFree(spans, c) ==
    \A sp \in Straddlers(spans, c) : c + 1 .. sp[2] \subseteq Covered({o \in spans : o[1] >= c})

\* Mutant: the cut is not moved back from the keep-back.
KeepBackOnly(s, spans, known) == Len(s) - longestKeepBackForForcedFlush(s, known)

resolveForcedFlushCut(s, spans, known) ==
    LET farthest(c) == Max({sp[2] : sp \in Straddlers(spans, c)})
        from(c) == Max({sp[1] : sp \in {o \in Straddlers(spans, c) : o[2] = farthest(c)}})
        retreat[c \in 0..Len(s)] == IF LeakFree(spans, c) THEN c ELSE retreat[from(c)]
    IN  retreat[Len(s) - longestKeepBackForForcedFlush(s, known)]

NoFlush == [consumed |-> 0, hidden |-> {}]
Opaque(cut) == [consumed |-> cut, hidden |-> 1..cut]

\* Mutant: with no point that is safe it waits for one.
StallForever(s, cut, looks) ==
    LET snap == protectedCrossing(protectedSpans(s, looks[3]), cut)
    IN  IF snap > 0 THEN Opaque(snap) ELSE NoFlush

\* A run of matches from the start of s on crosses the cut.
escapeHatchFlush(s, cut, looks) ==
    LET spans == protectedSpans(s, looks[3])
        snap == protectedCrossing(spans, cut)
    IN  CASE snap > 0 -> Opaque(snap)
          [] snap = 0 /\ Len(s) < flushStallCap -> NoFlush
          [] OTHER -> Opaque(resolveForcedFlushCut(s, spans, looks[4]))

FlushPoint(s, looks) ==
    LET longest == Max({1} \cup {Len(f) : f \in Guarded(looks[1])})
        cut == Len(s) + 1 - longest
        covered == Covered(matchSpans(s, looks[2]))
        crossed == {cut, cut + 1} \subseteq covered
        start == Max({0} \cup {p \in 1..cut : p \notin covered})
        end == IF crossed THEN start ELSE cut
    IN  IF Len(s) < longest THEN NoFlush
        ELSE IF crossed /\ start = 0 /\ Len(s) > MaxSplitGuard THEN escapeHatchFlush(s, cut, looks)
        ELSE [consumed |-> end, hidden |-> Redact(SubSeq(s, 1, end), looks[3])]

-----------------------------------------------------------------------------
(* RedactingWriter.                                                        *)

\* The history of what goes out: text, but for the characters hidden.
Begins(char) == {f \in Contained(forms) \cap Guarded(forms) : f[1] = char}
Step(h, char, shown) ==
    LET more == {o \in h.begun : o.form[o.len + 1] = char}
        all == {[o EXCEPT !.len = @ + 1, !.shown = @ \/ shown] : o \in more}
                 \cup {[form |-> f, len |-> 1, shown |-> shown] : f \in Begins(char)}
    IN  [begun |-> {o \in all : o.len < Len(o.form)},
         leaked |-> h.leaked \cup {o.form : o \in {q \in all : q.shown /\ q.len = Len(q.form)}}]

Out(text, hidden) ==
    LET after[i \in 0..Len(text)] ==
            IF i = 0 THEN [begun |-> begun, leaked |-> leaked]
            ELSE Step(after[i - 1], text[i], i \notin hidden)
        h == after[Len(text)]
    IN  begun' = h.begun /\ leaked' = h.leaked

\* A line goes out with its line break.
Lines(text) == {i \in DOMAIN text : text[i] = NL}

\* Write: the completed lines, then the flush of a line that is too long.
Forward(p, looks) ==
    LET text == pending \o p
        ends == {0} \cup Lines(text)
        rest == SubSeq(text, Max(ends) + 1, Len(text))
        flush == IF Len(rest) > MaxSplitGuard THEN FlushPoint(rest, looks) ELSE NoFlush
        before(e) == Max({d \in ends : d < e})
        hidden == UNION {{before(e) + i : i \in Redact(SubSeq(text, before(e) + 1, e), forms)} : e \in ends \ {0}}
                    \cup {Max(ends) + i : i \in flush.hidden}
        gone == Max(ends) + flush.consumed
    IN  /\ relay = "open"
        /\ pending' = SubSeq(rest, flush.consumed + 1, Len(rest))
        /\ Out(SubSeq(text, 1, gone), hidden)
        /\ UNCHANGED <<family, relay>>

Write(p) == Forward(p, [look \in 1..4 |-> forms]) /\ UNCHANGED forms

\* A secret is added while a write that flushes runs: the looks from the
\* second, third or fourth one on find it (before the first one it is as if
\* added before the write).  It counts as known to the writes that come after.
WriteDuringAdd(p, data, from) ==
    /\ data \in family /\ Added(forms, data) # forms
    /\ Len(pending) + Len(p) > MaxSplitGuard
    /\ Forward(p, [look \in 1..4 |-> IF look < from THEN forms ELSE Added(forms, data)])
    /\ forms' = Added(forms, data)

\* Values.Add of a secret the recipe resolves while the output runs.
Add(data) ==
    /\ relay = "open" /\ data \in family /\ Added(forms, data) # forms
    /\ forms' = Added(forms, data)
    /\ UNCHANGED <<family, pending, relay, begun, leaked>>

\* The end of the output.
Close ==
    /\ relay = "open" /\ relay' = "closed"
    /\ Out(pending, Redact(pending, forms)) /\ pending' = <<>>
    /\ UNCHANGED <<family, forms>>

\* releaseOrphan without a cat goes on with what is pending, a stutter.
\* handOff: the tail goes out ahead of what cat copies unredacted; when cat
\* does not start after all, the relay goes on and a secret in two parts is
\* not hidden (its documentation says so).
handOff ==
    /\ relay = "open" /\ pending' = <<>> /\ begun' = {} /\ UNCHANGED leaked
    /\ relay' \in {"cat", "open"}
    /\ UNCHANGED <<family, forms>>

Writes == UNION {[1..n -> Characters \cup {NL}] : n \in 1..MaxWrite}

Init ==
    /\ family \in Families
    /\ forms \in {FoldSet(LAMBDA d, old : Added(old, d), <<>>, S) : S \in SUBSET family}
    /\ pending = <<>> /\ relay = "open" /\ begun = {} /\ leaked = {}

Next ==
    \/ \E p \in Writes : Write(p)
    \/ \E p \in Writes, d \in family, from \in 2..4 : WriteDuringAdd(p, d, from)
    \/ \E d \in family : Add(d)
    \/ Close \/ handOff

Spec == Init /\ [][Next]_vars

-----------------------------------------------------------------------------
(* Properties.                                                             *)

\* Nothing of a secret goes out: however the output is cut into writes, and
\* whatever else is resolved meanwhile, an occurrence of a secret that was
\* searched for before the write that sends out its first character goes out
\* with none shown.
\* A secret that spans lines or is longer than the guard is promised no more
\* than its strong lines.
SecretsHidden ==
    \A f \in leaked : NL \in Range(f)

\* The line that is held back stays bounded, whatever is written.
PendingBounded == Len(pending) < flushStallCap
=============================================================================
