------------------------------ MODULE FileEdit ------------------------------
(***************************************************************************)
(* Line edits of the file resource (resource/file): WithBlock,             *)
(* WithoutLine, WithKeyedLine and WithLine on a file other writers share.  *)
(* A recipe's option calls are collected and checked at declaration; an    *)
(* apply reads the file, edits its lines and writes it back.               *)
(*                                                                         *)
(* A line is [ind, tag, who, val]: ind says it starts with white space,    *)
(* "begin" and "end" are the markers of block who, every other tag is      *)
(* text.  Owns[key] is the set of <<tag, who, val>> that start with the    *)
(* key, Overlap the pairs of keys of which one starts with the other.      *)
(* A file is [lines, crlf, cut]: how many of its lines end in CRLF, and    *)
(* whether the last one has no terminator.                                 *)
(***************************************************************************)
EXTENDS Naturals, Sequences, SequencesExt

CONSTANTS
    Files,      \* files to start from
    Calls,      \* option calls
    MaxCalls,   \* bound on the calls of one declaration
    Owns, Overlap

VARIABLES
    calls,      \* the option calls of the recipe
    edits,      \* what they collected: [blocks, remove, keyed, add]
    disk,       \* the file, or Missing
    read,       \* the file the last apply read
    at          \* "building", "declared", "refused", "found", "applied" or "failed"

vars == <<calls, edits, disk, read, at>>

Missing == [lines |-> <<>>, crlf |-> 0, cut |-> FALSE, missing |-> TRUE]
IsMissing(f) == "missing" \in DOMAIN f

Text(line) == <<line.tag, line.who, line.val>>
Marker(tag, name) == <<tag, name, "">>
BeginLine(name) == [ind |-> FALSE, tag |-> "begin", who |-> name, val |-> ""]
EndLine(name) == [ind |-> FALSE, tag |-> "end", who |-> name, val |-> ""]

(***************************************************************************)
(* Collecting the options                                                  *)
(***************************************************************************)
NoEdits == [blocks |-> <<>>, remove |-> <<>>, keyed |-> <<>>, add |-> <<>>]

AppendUnique(s, x) == IF Contains(s, x) THEN s ELSE Append(s, x)

Collect(e, call) == [e EXCEPT ![call.opt] = AppendUnique(@, call.arg)]

lineEdit(e) == e # NoEdits

ValidKeyedLine(edit) == Text(edit.line) \in Owns[edit.key] /\ ~edit.line.ind

validateKeyedLines(e) ==
    /\ \A i \in DOMAIN e.keyed : ValidKeyedLine(e.keyed[i])
    /\ \A i, j \in DOMAIN e.keyed : i < j => <<e.keyed[i].key, e.keyed[j].key>> \notin Overlap
    /\ \A k \in Range(e.keyed), line \in Range(e.add \o e.remove) : Text(line) \notin Owns[k.key]

Markers(e) == {Marker(tag, b.name) : tag \in {"begin", "end"}, b \in Range(e.blocks)}

\* The other edits leave the lines and markers of the blocks alone.
validateBlockOverlap(e) ==
    LET lines == UNION {Range(b.lines) : b \in Range(e.blocks)}
        owned == Markers(e) \cup {Text(line) : line \in lines}
    IN /\ \A line \in Range(e.add \o e.remove) : line \notin lines /\ Text(line) \notin Markers(e)
       /\ \A k \in Range(e.keyed) : Owns[k.key] \cap owned = {}

validateBlocks(e) ==
    /\ \A i, j \in DOMAIN e.blocks : i < j => e.blocks[i].name # e.blocks[j].name
    /\ \A b \in Range(e.blocks), line \in UNION {Range(c.lines) : c \in Range(e.blocks)} :
           Text(line) \notin Markers(e)
    /\ validateBlockOverlap(e)

(***************************************************************************)
(* Applying them                                                           *)
(***************************************************************************)
Positions(lines, text) == {i \in DOMAIN lines : Text(lines[i]) = text}

\* One BEGIN followed by one END: the block's region.
HasRegion(lines, name) ==
    \E b, e \in DOMAIN lines :
        /\ Positions(lines, Marker("begin", name)) = {b}
        /\ Positions(lines, Marker("end", name)) = {e}
        /\ b < e

Begin(lines, name) == CHOOSE i \in DOMAIN lines : Text(lines[i]) = Marker("begin", name)
End(lines, name) == CHOOSE i \in DOMAIN lines : Text(lines[i]) = Marker("end", name)

Nested(lines, blocks) ==
    \E outer, inner \in Range(blocks) :
        /\ outer.name # inner.name
        /\ HasRegion(lines, outer.name)
        /\ \E i \in Begin(lines, outer.name)..End(lines, outer.name) :
               Text(lines[i]) \in {Marker("begin", inner.name), Marker("end", inner.name)}

Unmarked(lines, name) ==
    Positions(lines, Marker("begin", name)) \cup Positions(lines, Marker("end", name)) = {}

applyBlock(lines, block) ==
    IF Unmarked(lines, block.name)
    THEN lines \o <<BeginLine(block.name)>> \o block.lines \o <<EndLine(block.name)>>
    ELSE SubSeq(lines, 1, Begin(lines, block.name)) \o block.lines
             \o SubSeq(lines, End(lines, block.name), Len(lines))

\* Mutant: the last of several BEGIN or END lines is taken for the block's.
RefusesNestedOnly(lines, blocks) ==
    \/ Nested(lines, blocks)
    \/ \E b \in Range(blocks) :
           (Positions(lines, Marker("begin", b.name)) = {}) # (Positions(lines, Marker("end", b.name)) = {})

Refuses(lines, blocks) ==
    \/ Nested(lines, blocks)
    \/ \E b \in Range(blocks) : ~Unmarked(lines, b.name) /\ ~HasRegion(lines, b.name)

\* The first line with the key becomes the declared one, the others go.
applyKeyedLine(lines, edit) ==
    LET owned == {i \in DOMAIN lines : Text(lines[i]) \in Owns[edit.key]}
        first == CHOOSE i \in owned : \A j \in owned : i <= j
        kept == SelectSeq([i \in DOMAIN lines |-> i], LAMBDA i : i \notin owned \/ i = first)
    IN IF owned = {} THEN Append(lines, edit.line)
       ELSE [k \in DOMAIN kept |-> IF kept[k] = first THEN edit.line ELSE lines[kept[k]]]

\* Blocks, removals, keyed lines, additions.
resolveLine(lines, e) ==
    LET blocked == FoldLeft(applyBlock, lines, e.blocks)
        kept == SelectSeq(blocked, LAMBDA line : ~Contains(e.remove, line))
        keyed == FoldLeft(applyKeyedLine, kept, e.keyed)
    IN FoldLeft(AppendUnique, keyed, e.add)

dominantTerminator(f) ==
    IF f.crlf > Len(f.lines) - f.crlf - (IF f.cut THEN 1 ELSE 0) THEN "crlf" ELSE "lf"

\* The lines are written back with one terminator.
Written(lines, term) ==
    [lines |-> lines, crlf |-> IF term = "crlf" THEN Len(lines) ELSE 0, cut |-> FALSE]

\* Only removals, and nothing to remove them from.
Noop(f, e) == IsMissing(f) /\ e.blocks = <<>> /\ e.keyed = <<>> /\ e.add = <<>>

Result(f, e) == Written(resolveLine(f.lines, e), dominantTerminator(f))

(***************************************************************************)
(* The specification                                                       *)
(***************************************************************************)
Init ==
    /\ calls = <<>>
    /\ edits = NoEdits
    /\ disk = Missing
    /\ read = Missing
    /\ at = "building"

Call(call) ==
    /\ at = "building" /\ Len(calls) < MaxCalls
    /\ calls' = Append(calls, call)
    /\ edits' = Collect(edits, call)
    /\ UNCHANGED <<disk, read, at>>

build ==
    /\ at = "building" /\ lineEdit(edits)
    /\ at' = IF validateKeyedLines(edits) /\ validateBlocks(edits) THEN "declared" ELSE "refused"
    /\ UNCHANGED <<calls, edits, disk, read>>

\* The file the first apply finds.
Find ==
    /\ at = "declared"
    /\ disk' \in Files \cup {Missing}
    /\ at' = "found"
    /\ UNCHANGED <<calls, edits, read>>

apply ==
    /\ at \in {"found", "applied"}
    /\ read' = disk
    /\ IF ~Noop(disk, edits) /\ Refuses(disk.lines, edits.blocks)
       THEN at' = "failed" /\ UNCHANGED disk
       ELSE at' = "applied" /\ disk' = IF Noop(disk, edits) THEN disk ELSE Result(disk, edits)
    /\ UNCHANGED <<calls, edits>>

Next == (\E call \in Calls : Call(call)) \/ build \/ Find \/ apply

Spec == Init /\ [][Next]_vars

(***************************************************************************)
(* Properties                                                              *)
(***************************************************************************)
Owned(line, e) ==
    \/ line \in Range(e.add \o e.remove)
    \/ \E k \in Range(e.keyed) : Text(line) \in Owns[k.key]

\* The lines nobody declared: outside every region, not a declared line,
\* not under a declared key.
Foreign(f, e) ==
    LET inside == UNION {Begin(f.lines, b.name)..End(f.lines, b.name) :
                            b \in {c \in Range(e.blocks) : HasRegion(f.lines, c.name)}}
        at_ == SelectSeq([i \in DOMAIN f.lines |-> i],
                         LAMBDA i : i \notin inside /\ ~Owned(f.lines[i], e))
    IN [k \in DOMAIN at_ |-> f.lines[at_[k]]]

\* What was declared holds after one apply and a second apply has nothing to
\* do (the declaration checks of validateKeyedLines and validateBlocks are
\* what makes one pass of resolveLine converge): every block holds its
\* lines, no removed line is left, one line has each key, every added line
\* is there.
EditsSettle ==
    at = "applied" =>
        \/ Noop(disk, edits)
        \/ /\ \A b \in Range(edits.blocks) :
                  /\ HasRegion(disk.lines, b.name)
                  /\ SubSeq(disk.lines, Begin(disk.lines, b.name) + 1, End(disk.lines, b.name) - 1)
                         = b.lines
           /\ Range(edits.remove) \cap Range(disk.lines) \subseteq Range(edits.add)
           /\ \A k \in Range(edits.keyed) :
                  {i \in DOMAIN disk.lines : Text(disk.lines[i]) \in Owns[k.key]}
                      = {i \in DOMAIN disk.lines : disk.lines[i] = k.line}
           /\ \A k \in Range(edits.keyed) : Contains(disk.lines, k.line)
           /\ Range(edits.add) \subseteq Range(disk.lines)
           /\ ~Refuses(disk.lines, edits.blocks)
           /\ disk = Result(disk, edits)

\* An apply keeps every line nobody declared, in order, with its terminator
\* when the file uses one ("every other line of the file left alone",
\* resource/file/lineedit.go), and a refused apply writes nothing.
OthersLinesKept ==
    /\ at = "failed" => disk = read
    /\ at = "applied" =>
           /\ Foreign(disk, edits) = Foreign(read, edits)
           /\ (read.crlf = Len(read.lines) /\ read.lines # <<>>) => disk.crlf = Len(disk.lines)
           /\ read.crlf = 0 => disk.crlf = 0
=============================================================================
