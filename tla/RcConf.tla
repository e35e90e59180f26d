------------------------------- MODULE RcConf --------------------------------
(***************************************************************************)
(* WithFlags on NetBSD (resource/service/netbsd_flags.go, rcconf.go,       *)
(* rcconf_lex.go): the value of NAME_flags is read from rc.conf.d/NAME,    *)
(* rc.conf and the defaults, and set by an edit of rc.conf that either     *)
(* refuses or takes effect.                                                *)
(*                                                                         *)
(* A file is a sequence of statements, each one of the shapes of sh(1) the *)
(* parser tells apart; the parser sees the tokens of the statements and    *)
(* not their shapes, sh (Eval) the shapes and not the tokens.              *)
(***************************************************************************)
EXTENDS Naturals, Sequences, FiniteSets, SequencesExt

CONSTANTS
    Cases,      \* [rcConf, override, defaults: statements, sep, want, enabled]
    Values      \* what NAME_flags may be set to

VARIABLES rcConf, override, defaults, sep, want, enabled, pc, before

vars == <<rcConf, override, defaults, sep, want, enabled, pc, before>>

-----------------------------------------------------------------------------
(* Text.  A statement is [form, val, multi]; val "expand" is one that the  *)
(* parser does not evaluate, multi a word that spans lines.                *)

W(t) == [t |-> t, at |-> 0, st |-> [form |-> "", val |-> "", multi |-> FALSE]]

\* The tokens of a statement at place i; "A=" assigns NAME_flags, "A" names
\* it, "$A" reads it, "A:=" is a word with an assignment inside, "B=" assigns
\* another variable, "open" cannot be bounded.
Tokens(i, s) ==
    LET a == [t |-> "A=", at |-> i, st |-> s]
        line(ts) == [k \in DOMAIN ts |-> IF ts[k] = "A=" THEN a ELSE W(ts[k])]
    IN  CASE s.form = "set"      -> line(<<"A=">>)
          [] s.form = "set2"     -> line(<<"B=", "A=">>)
          [] s.form = "export"   -> line(<<"export", "A=">>)
          [] s.form = "prefix"   -> line(<<"A=", "cmd">>)
          [] s.form = "redirect" -> line(<<"cmd", ">", "A=">>)
          [] s.form = "if"       -> line(<<"if", "cmd", "nl", "then", "A=", "nl", "fi">>)
          [] s.form = "brace"    -> line(<<"{", "A=", ";", "}">>)
          [] s.form = "and"      -> line(<<"cmd", "&&", "A=">>)
          [] s.form = "andnl"    -> line(<<"cmd", "||", "nl", "A=">>)
          [] s.form = "then"     -> line(<<"A=", "&&", "cmd">>)
          [] s.form = "pipe"     -> line(<<"A=", "|", "cmd">>)
          [] s.form = "sub"      -> line(<<"(", "A=", ")">>)
          [] s.form = "func"     -> line(<<"f", "(", ")", "{", "nl", "A=", "nl", "}">>)
          [] s.form = "case"     -> line(<<"case", "x", "in", "x", ")", "A=", ";;", "esac">>)
          [] s.form = "mention"  -> line(<<"cmd", "A:=">>)
          [] s.form = "inner"    -> line(<<"B=A:=">>)
          [] s.form = "for"      -> line(<<"for", "A", "in", "x", ";", "do", "cmd", ";", "done">>)
          [] s.form = "not"      -> line(<<"!", "cmd">>)
          [] s.form = "dot"      -> line(<<".", "file">>)
          [] s.form = "command"  -> line(<<"command", "-p", ".", "file">>)
          [] s.form = "defaults" -> line(<<".", "defaults">>)
          [] s.form = "eval"     -> line(<<"eval", "x">>)
          [] s.form = "unset"    -> line(<<"unset", "A">>)
          [] s.form = "read"     -> line(<<"cmd", "$A">>)
          [] s.form = "copy"     -> line(<<"B=$A">>)
          [] s.form = "other"    -> line(<<"B=">>)
          [] s.form = "open"     -> line(<<"open">>)

Text(file) ==
    FlattenSeq([i \in DOMAIN file |-> Tokens(i, file[i]) \o <<W(sep)>>])

-----------------------------------------------------------------------------
(* The parser.                                                             *)

\* lexRc: a quote, a substitution or a here-document that does not end is an
\* error, and so is what the lexer does not model.
lexRc(text) == \A i \in DOMAIN text : text[i].t # "open"

Operators == {";", "&&", "||", "|", "&", "(", ")", ";;", ">"}
isRcListOperator(op) == op \in {"&&", "||", "|", "&"}
endsInListOperator(line) == line # <<>> /\ Last(line).t \in {"&&", "||", "|"}

LogicalLines(text) ==
    LET add(acc, t) == IF t.t # "nl" THEN [acc EXCEPT ![Len(acc)] = Append(@, t)]
                       ELSE IF endsInListOperator(Last(acc)) THEN acc ELSE Append(acc, <<>>)
    IN  FoldLeft(add, <<<<>>>>, text)

\* The simple commands of a logical line: their words, the operators around
\* them, and whether the line is one word.
Commands(line) ==
    LET cmd(acc, next) == [words |-> acc.words, prev |-> acc.prev, next |-> next, alone |-> Len(line) = 1]
        add(acc, t) ==
            IF t.t \notin Operators /\ acc.redirect THEN [acc EXCEPT !.redirect = FALSE]
              ELSE IF t.t \notin Operators THEN [acc EXCEPT !.words = Append(@, t)]
              ELSE IF t.t = ">" THEN [acc EXCEPT !.redirect = TRUE]
              ELSE [acc EXCEPT !.done = Append(@, cmd(acc, t.t)), !.words = <<>>, !.prev = t.t]
        closed(all) == Append(all.done, cmd(all, ""))
    IN  closed(FoldLeft(add, [done |-> <<>>, words |-> <<>>, prev |-> "", redirect |-> FALSE], line))

Assigns == {"A=", "B=", "B=$A", "B=A:="}
Mentions(w) == w.t \in {"A:=", "B=A:="}
Opens == {"if", "while", "until", "{"}
Closes == {"fi", "done", "}"}
Opaque == {"esac", "!"}
Reserved == Opens \cup Closes \cup Opaque \cup {"then", "do", "else", "elif"}

LeadIn(words, S) ==
    CHOOSE n \in 0..Len(words) : /\ \A k \in 1..n : words[k].t \in S
                                 /\ n < Len(words) => words[n + 1].t \notin S
Rest(words, n) == SubSeq(words, n + 1, Len(words))

\* The walker: nesting depth, opaque constructs, what it found (places of
\* assignments in order, alone on their line or not), the hazards as the
\* number of assignments found before each, and the flags of rcScan.
Walker == [depth |-> 0, opaque |-> FALSE, found |-> <<>>, hazards |-> {}, other |-> FALSE,
           named |-> FALSE, defaults |-> FALSE, bad |-> FALSE]
Bad(w) == [w EXCEPT !.bad = TRUE]
Hazard(w) == [w EXCEPT !.hazards = @ \cup {Len(w.found)}]

\* The walker past the lead-in words; rest starts at the first other word.
Led(w, lead, rest) ==
    LET step(d, x) == IF x.t \in Opens THEN d + 1
                      ELSE IF x.t \in Closes /\ d > 0 THEN d - 1 ELSE d
    IN  [w EXCEPT !.depth = FoldLeft(step, @, lead),
                  !.opaque = \/ @
                             \/ \E k \in DOMAIN lead : lead[k].t \in Opaque
                             \/ rest # <<>> /\ rest[1].t = "case"]

LoopHead(w, loops) ==
    [(IF loops THEN Hazard(w) ELSE w) EXCEPT !.depth = @ + 1, !.named = @ \/ loops]

reservedWords(w, words) ==
    LET past(lead, rest) ==
            LET next == IF rest = <<>> THEN "" ELSE rest[1].t
                keyword == next \in {"for", "case"}
            IN  [w |-> IF next # "for" THEN Led(w, lead, rest)
                       ELSE LoopHead(Led(w, lead, rest), Len(rest) > 1 /\ rest[2].t = "A"),
                 rest |-> IF keyword THEN Tail(rest) ELSE rest,
                 done |-> keyword]
        at(n) == past(SubSeq(words, 1, n), Rest(words, n))
    IN  at(LeadIn(words, Reserved))

noteCommand(w, command) ==
    LET named(c) ==
            IF c[1].t = "." /\ Len(c) = 2 /\ c[2].t = "defaults" THEN [Hazard(w) EXCEPT !.defaults = TRUE]
              ELSE IF c[1].t \in {".", "source", "eval"} THEN [Hazard(w) EXCEPT !.other = TRUE]
              ELSE IF c[1].t \in {"unset", "read", "getopts"} /\ (\E k \in 2..Len(c) : c[k].t = "A")
                    THEN [Hazard(w) EXCEPT !.named = TRUE]
              ELSE w
        at(n) == named(IF n = 0 \/ n = Len(command) THEN command ELSE Rest(command, n))
    IN  at(LeadIn(command, {"command", "-p"}))

assignment(w, word, at) ==
    IF word.t # "A=" THEN w
    ELSE IF w.depth > 0 \/ w.opaque \/ at.listed THEN Bad(w)
    ELSE [w EXCEPT !.found = Append(@, [i |-> word.at, st |-> word.st, alone |-> at.alone])]

assignments(w, words, at) ==
    FoldLeft(LAMBDA acc, word : IF Mentions(word) THEN Bad(acc) ELSE assignment(acc, word, at), w, words)

refuseMentions(w, words) == IF \E k \in DOMAIN words : Mentions(words[k]) THEN Bad(w) ELSE w

\* A command's own words: the assignments set before it and the rest.
simpleCommand(w, set, rest, at) ==
    LET exported == SelectSeq(Rest(rest, 1), LAMBDA x : x.t \in Assigns)
        others == SelectSeq(Rest(rest, 1), LAMBDA x : x.t \notin Assigns)
    IN  IF rest = <<>> THEN assignments(w, set, at)
        ELSE IF rest[1].t \in {"export", "readonly"}
          THEN refuseMentions(assignments(w, set \o exported, [at EXCEPT !.alone = FALSE]), others)
        \* the assignments before a command are the command's
        ELSE IF \E k \in DOMAIN set : set[k].t = "A=" \/ Mentions(set[k]) THEN Bad(w)
        ELSE refuseMentions(noteCommand(w, rest), rest)

command(w, c) ==
    LET listed == isRcListOperator(c.prev) \/ isRcListOperator(c.next)
        split(r, n) == simpleCommand(r.w, SubSeq(r.rest, 1, n), Rest(r.rest, n),
                                     [listed |-> listed, alone |-> c.alone /\ n = 1])
        past(r) == IF r.done THEN refuseMentions(r.w, r.rest)
                   ELSE split(r, LeadIn(r.rest, Assigns))
    IN  [past(reservedWords(w, c.words)) EXCEPT !.opaque = @ \/ c.next \in {"(", ")", ";;"}]

\* Mutant: what comes after the last assignment is not looked at.
HazardsIgnored(w) == TRUE

checkHazards(w) == w.found = <<>> \/ Len(w.found) \notin w.hazards

scanRcAssignments(file) ==
    LET line(w, l) == FoldLeft(command, w, Commands(l))
        checked(w, text) == [w EXCEPT !.bad = @ \/ ~lexRc(text) \/ ~checkHazards(w)]
        scan(text) == checked(FoldLeft(line, Walker, LogicalLines(text)), text)
    IN  scan(Text(file))

unseen(scan) == scan.other \/ scan.named
parsed(st) == st.val # "expand"

\* readRcAssignment: the last assignment counts.
Reads(scan, v) == scan.found # <<>> /\ parsed(Last(scan.found).st) /\ Last(scan.found).st.val = v

\* "yes", "no" or "error".
InRcConf(scan, dflt) ==
    IF scan.bad THEN "error"
      ELSE IF scan.found # <<>> THEN IF Reads(scan, want) THEN "yes" ELSE "no"
      ELSE IF unseen(scan) THEN "no"
      ELSE IF ~scan.defaults THEN IF want = "" THEN "yes" ELSE "no"
      ELSE IF dflt.bad THEN "error"
      ELSE IF dflt.found # <<>> THEN IF Reads(dflt, want) THEN "yes" ELSE "no"
      ELSE IF unseen(dflt) THEN "no"
      ELSE IF want = "" THEN "yes" ELSE "no"

flagsMatch ==
    LET under(over) ==
            IF over.bad THEN "error"
              ELSE IF Reads(over, want) THEN "yes"
              ELSE IF over.found # <<>> \/ unseen(over) THEN "error"
              ELSE InRcConf(scanRcAssignments(rcConf), scanRcAssignments(defaults))
    IN  under(scanRcAssignments(override))

-----------------------------------------------------------------------------
(* The edit.                                                               *)

\* Between the first and the last assignment nothing but those reads it.
refuseIntermediateReads(file, found) ==
    \E k \in found[1].i..Last(found).i :
       k \notin {found[n].i : n \in DOMAIN found} /\ file[k].form \in {"read", "copy", "mention", "inner"}

Wanted(st) == [st EXCEPT !.val = want, !.multi = FALSE]

\* The first assignment is rewritten in place, a later one too unless it is
\* alone on its line, which goes.
Edited(file, found) ==
    LET drop == {found[n].i : n \in {m \in DOMAIN found : m > 1 /\ found[m].alone}}
        set == {found[n].i : n \in DOMAIN found} \ drop
        new == [i \in DOMAIN file |-> IF i \in set THEN Wanted(file[i]) ELSE file[i]]
        keep == SetToSortSeq(DOMAIN file \ drop, <)
    IN  [k \in DOMAIN keep |-> new[keep[k]]]

Plain == [form |-> "set", val |-> want, multi |-> FALSE]

rcAssignmentEdits(file, found) ==
    \A n \in DOMAIN found : parsed(found[n].st) \/ ~found[n].st.multi

checkRcRewrite(file) ==
    \A scan \in {scanRcAssignments(file)} :
        /\ ~scan.bad /\ scan.found # <<>>
        /\ \A n \in DOMAIN scan.found : parsed(scan.found[n].st) /\ scan.found[n].st.val = want

\* replaceRcAssignment: the new file, or <<>> when it is refused.
Rewrite(file) ==
    LET refused(scan) ==
            \/ scan.bad
            \/ /\ scan.found # <<>>
               /\ refuseIntermediateReads(file, scan.found) \/ ~rcAssignmentEdits(file, scan.found)
        checked(updated) == IF checkRcRewrite(updated) THEN updated ELSE <<>>
        edit(scan) == IF refused(scan) THEN <<>>
                      ELSE checked(IF scan.found = <<>> THEN Append(file, Plain)
                                   ELSE Edited(file, scan.found))
    IN  edit(scanRcAssignments(file))

-----------------------------------------------------------------------------
Init ==
    /\ \E c \in Cases :
          /\ rcConf = c.rcConf /\ override = c.override /\ defaults = c.defaults
          /\ sep = c.sep /\ want = c.want /\ enabled = c.enabled
    /\ pc = "probe" /\ before = rcConf

\* flagsUpdate: a service that is not enabled gets its flags set without a
\* probe, after the enable.
Probe ==
    /\ pc = "probe"
    /\ pc' = IF ~enabled THEN "enable"
             ELSE [yes |-> "match", no |-> "set", error |-> "refused"][flagsMatch]
    /\ UNCHANGED <<rcConf, override, defaults, sep, want, enabled, before>>

\* setEnabled replaces the whole of rc.conf.d/NAME.
Enable ==
    /\ pc = "enable" /\ pc' = "set"
    /\ override' = <<[form |-> "other", val |-> "", multi |-> FALSE]>>
    /\ UNCHANGED <<rcConf, defaults, sep, want, enabled, before>>

SetFlags ==
    /\ pc = "set"
    /\ \E new \in {Rewrite(rcConf)} :
          IF new = <<>> THEN pc' = "refused" /\ UNCHANGED rcConf
          ELSE pc' = "done" /\ rcConf' = new
    /\ UNCHANGED <<override, defaults, sep, want, enabled, before>>

Next == Probe \/ Enable \/ SetFlags

Spec == Init /\ [][Next]_vars

-----------------------------------------------------------------------------
(* What sh(1) does.                                                        *)

AnyFlags == Values \cup {""}

\* What a statement leaves in NAME_flags ("" when unset), of the values vals
\* it may have before.  A file that is sourced may do anything; the flags a
\* default gives are those of the defaults file.
Sets(s) == IF s.val = "expand" THEN AnyFlags ELSE {s.val}
Effect(s, vals, dflt) ==
    CASE s.form \in {"set", "set2", "export", "brace", "then"} -> Sets(s)
      [] s.form \in {"if", "and", "andnl", "func", "case"} -> vals \cup Sets(s)
      [] s.form \in {"mention", "inner", "dot", "command", "eval", "for"} -> AnyFlags
      [] s.form = "unset" -> {""}
      [] s.form = "defaults" -> dflt
      [] OTHER -> vals

EvalFrom(file, vals, dflt) == FoldLeft(LAMBDA v, s : Effect(s, v, dflt), vals, file)
Sourced(file) == EvalFrom(file, EvalFrom(rcConf, {""}, EvalFrom(defaults, {""}, {""})),
                          EvalFrom(defaults, {""}, {""}))

\* The value a start of the daemon sees: rc.conf, then rc.conf.d/NAME.
Effective == Sourced(override)

\* Flags that were reported as matching, or set, take effect: whatever the
\* files hold and whichever branches sh takes, the daemon gets exactly the
\* flags that were declared.
FlagsTakeEffect == pc \in {"match", "done"} => Effective = {want}

ReadForms == {"read", "copy"}
Others(file) == SelectSeq(file, LAMBDA s : s.form # "set")
Blank(file) == [i \in DOMAIN file |-> [file[i] EXCEPT !.val = "", !.multi = FALSE]]
SeenBy(file, n) ==
    LET at == {i \in DOMAIN file : file[i].form \in ReadForms
                                     /\ Cardinality({j \in 1..i : file[j].form \in ReadForms}) = n}
    IN  UNION {EvalFrom(SubSeq(file, 1, i - 1), {""}, EvalFrom(defaults, {""}, {""})) : i \in at}
LastSet(file) == {i \in DOMAIN file : file[i].form \in {"set", "set2", "export"}}

\* The edit touches nothing else: every other statement is still there, in
\* its order, and one that read the flags before the last assignment of them
\* reads what it read before.
ForeignTextKept ==
    pc = "done" =>
        /\ Blank(Others(rcConf)) = Blank(Others(before))
        /\ \A n \in 1..Len(before) :
             (\E i \in DOMAIN before, j \in LastSet(before) :
                 /\ i < j /\ before[i].form \in ReadForms
                 /\ Cardinality({k \in 1..i : before[k].form \in ReadForms}) = n)
             => SeenBy(rcConf, n) = SeenBy(before, n)
=============================================================================
