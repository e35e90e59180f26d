-------------------------- MODULE PlanApplyProofs --------------------------
(***************************************************************************)
(* For every set of plans, hosts and failures: an op is passed after what  *)
(* it depends on (DepsBefore), a change gate fires exactly when what it    *)
(* watches changed or its chunk noted a change its watches cover           *)
(* (GateFires), the sort of a run keeps watched ops and parent directories *)
(* first (RunOrder), and the plan is applied as recorded (PlanKept): with  *)
(* its privileges, its blocks, all of its lines once, and its requirements *)
(* first.                                                                  *)
(*                                                                         *)
(* RunOrder needs what the sort computes: that the split makes typed       *)
(* chunks, that Reaches is reachability, that the inferred edges close no  *)
(* cycle, and that a stuck sort has found one.  PlanKept needs what the    *)
(* split computes.  Blocks are counted as depth: it is zero where the split*)
(* cuts a balanced plan and around each hoisted stub, so a line is in a    *)
(* chunk inside the blocks it is inside in the plan.  A control line keeps *)
(* its place in the sort, so the stack holds the open blocks of the plan.  *)
(***************************************************************************)
EXTENDS PlanApply, FiniteSetTheorems, SequenceTheorems, TLAPS

\* The inductive invariant of the dependencies and the gates.
Inv ==
    /\ ChunksInv
    /\ SortInv
    /\ LogIsSeq
    /\ LogInv
    /\ NotesInv
    /\ DepsBefore
    /\ GateFires

(***************************************************************************)
(* The chunks                                                              *)
(***************************************************************************)
\* Hoisting keeps the lines of a chunk indexed by integers.
LEMMA HoistIndexed ==
    ASSUME NEW parts
    PROVE  \A c \in DOMAIN hoistRequirements(parts) :
              DOMAIN hoistRequirements(parts)[c].lines \subseteq Int
<1> SUFFICES ASSUME NEW c \in DOMAIN parts
             PROVE  DOMAIN (Pending(parts, c) \o parts[c].lines) \subseteq Int
    BY DEF hoistRequirements
<1>1. DOMAIN (Pending(parts, c) \o parts[c].lines) = 1..(Len(Pending(parts, c)) + Len(parts[c].lines))
    OBVIOUS
<1>2. QED  BY <1>1

\* So does the split.
LEMMA SplitIndexed ==
    ASSUME NEW b
    PROVE  \A c \in DOMAIN SplitPrivilegeChunks(b) :
              DOMAIN SplitPrivilegeChunks(b)[c].lines \subseteq Int
<1>1. CASE b = <<>>
    BY <1>1 DEF SplitPrivilegeChunks
<1>2. CASE b # <<>>
    BY <1>2, HoistIndexed DEF SplitPrivilegeChunks
<1>3. QED  BY <1>1, <1>2

\* What the pre-flight accepts has the shape the apply relies on.
LEMMA AcceptedChunks ==
    ASSUME NEW cs, ValidateChunks(cs),
           \A c \in DOMAIN cs : DOMAIN cs[c].lines \subseteq Int,
           chunks' = cs, entry' = "chunks"
    PROVE  ChunksInv'
<1> SUFFICES ASSUME NEW c \in DOMAIN cs, NEW i \in DOMAIN cs[c].lines
             PROVE  /\ \A dep \in cs[c].lines[i].op.deps :
                         \E d \in 1..c : Carries(cs[d].lines, dep)
                    /\ \A w \in cs[c].lines[i].op.watch : \A d \in 1..(c - 1) :
                         cs[c].lines[i].op.gated => ~Carries(cs[d].lines, w)
    BY DEF ChunksInv
<1>1. \A dep \in cs[c].lines[i].op.deps : \E d \in 1..c : Carries(cs[d].lines, dep)
    BY DEF ValidateChunks, ValidateChunkDeps
<1>2. \A w \in cs[c].lines[i].op.watch : \A d \in 1..(c - 1) :
         cs[c].lines[i].op.gated => ~Carries(cs[d].lines, w)
    BY DEF ValidateChunks, ValidateChangeGates
<1>3. QED  BY <1>1, <1>2

\* A plan applied as one body is one chunk.
LEMMA UnsplitChunks ==
    ASSUME body \in Seq(Op), chunks' = Unsplit(body), entry' = "plan"
    PROVE  ChunksInv'
<1>1. DOMAIN chunks' = {1} /\ DOMAIN chunks'[1].lines = 1..Len(body)
    BY DEF Unsplit
<1> SUFFICES ASSUME NEW c \in DOMAIN chunks', NEW i \in DOMAIN chunks'[c].lines
             PROVE  /\ \A dep \in chunks'[c].lines[i].op.deps :
                         (\E d \in DOMAIN chunks' : Carries(chunks'[d].lines, dep))
                         => \E d \in 1..c : Carries(chunks'[d].lines, dep)
                    /\ \A w \in chunks'[c].lines[i].op.watch : \A d \in 1..(c - 1) :
                         chunks'[c].lines[i].op.gated => ~Carries(chunks'[d].lines, w)
    BY <1>1 DEF ChunksInv
<1>2. c = 1 /\ 1..c = {1} /\ 1..(c - 1) = {}
    BY <1>1
<1>3. QED  BY <1>1, <1>2

\* A line that an op depends on, in its own chunk, is one of its predecessors.
LEMMA DepIsPred ==
    ASSUME SortInv, phase = "body", DOMAIN Lines \subseteq Int,
           NEW i \in DOMAIN Lines, Lines[i].op.kind = "op",
           NEW dep \in Lines[i].op.deps, Carries(Lines, dep)
    PROVE  \E j \in DOMAIN Lines : Lines[j].op.id = dep /\ j \in preds[i]
<1>1. ~IsControlKind(Lines[i].op)
    BY DEF IsControlKind
<1>2. PICK j \in DOMAIN Lines :
         Lines[j].op.id = dep /\ ~(j > i /\ j \notin RunOf(Lines, i))
    <2>1. ~HasLaterDep(Lines)
        BY DEF SortInv
    <2>2. QED  BY <1>1, <2>1 DEF HasLaterDep
<1>3. \A n : n \in i..j \cup j..i <=> n \in j..i \cup i..j
    OBVIOUS
<1>4. CASE j \in RunOf(Lines, i)
    <2>1. SameRun(Lines, j, i)
        BY <1>3, <1>4 DEF RunOf, SameRun
    <2>2. <<j, i>> \in DepEdges(Lines)
        BY <1>2, <2>1 DEF DepEdges
    <2>3. QED  BY <1>2, <2>2 DEF SortInv
<1>5. CASE j \notin RunOf(Lines, i)
    <2>1. j \in Int /\ i \in Int /\ ~(j > i)
        BY <1>2, <1>5
    <2>2. j # i
        <3>1. SUFFICES ASSUME j = i PROVE FALSE
            OBVIOUS
        <3>2. \A n \in i..i \cup i..i : n = i
            BY <2>1
        <3>3. QED  BY <1>1, <1>5, <3>1, <3>2 DEF RunOf, SameRun
    <2>3. ~SameRun(Lines, j, i)
        BY <1>3, <1>5 DEF RunOf, SameRun
    <2>4. Barrier(Lines, i, j)
        BY <2>1, <2>2, <2>3 DEF Barrier
    <2>5. QED  BY <1>2, <2>4 DEF SortInv
<1>6. QED  BY <1>4, <1>5

(***************************************************************************)
(* Steps that pass no line                                                 *)
(***************************************************************************)
\* A returning apply leaves the chunks and the log behind as they are.
LEMMA ReturnKeeps ==
    ASSUME Inv, phase' = "done", UNCHANGED <<entry, chunks, k, log>>
    PROVE  Inv'
<1>1. ChunksInv' /\ SortInv' /\ LogIsSeq' /\ NotesInv'
    BY DEF Inv, ChunksInv, SortInv, LogIsSeq, NotesInv
<1>2. LogInv'
    BY DEF Inv, LogInv, OpOf
<1>3. DepsBefore' /\ GateFires'
    BY DEF Inv, DepsBefore, GateFires, SeenChange, OpOf, WasApplied
<1>4. QED  BY <1>1, <1>2, <1>3 DEF Inv

\* Nothing the invariant is about changes.
LEMMA QuietKeeps ==
    ASSUME Inv,
           UNCHANGED <<entry, phase, chunks, k, preds, order, at, notes, log>>
    PROVE  Inv'
<1>1. ChunksInv' /\ LogIsSeq'
    BY DEF Inv, ChunksInv, LogIsSeq
<1>2. SortInv'
    BY DEF Inv, SortInv, Lines
<1>3. NotesInv'
    BY DEF Inv, NotesInv
<1>4. LogInv'
    BY DEF Inv, LogInv, OpOf, Lines, Placed
<1>5. DepsBefore' /\ GateFires'
    BY DEF Inv, DepsBefore, GateFires, SeenChange, OpOf, WasApplied
<1>6. QED  BY <1>1, <1>2, <1>3, <1>4, <1>5 DEF Inv

\* DepsBefore and GateFires read the log and the chunks only.
LEMMA HistoryKeeps ==
    ASSUME Inv, UNCHANGED <<entry, chunks, log>>
    PROVE  ChunksInv' /\ LogIsSeq' /\ DepsBefore' /\ GateFires'
BY SMTT(30) DEF Inv, ChunksInv, LogIsSeq, DepsBefore, GateFires, SeenChange, OpOf, WasApplied

\* The first step, through either entry point.
LEMMA BeginKeeps ==
    ASSUME Inv, body \in Seq(Op), Begin
    PROVE  Inv'
<1>1. log = <<>> /\ k = 1 /\ k' = 1 /\ log' = <<>>
    BY DEF Begin, ApplyChunks, ApplyPlan, Inv, LogInv, world
<1>2. DOMAIN log' = {}
    BY <1>1
<1>3. DepsBefore' /\ GateFires' /\ LogIsSeq'
    BY <1>1, <1>2 DEF DepsBefore, GateFires, Inv, LogIsSeq
<1>4. CASE phase' = "next"
    <2>1. ChunksInv'
        <3>1. CASE ApplyChunks
            BY <1>4, <3>1, SplitIndexed, AcceptedChunks DEF ApplyChunks, Return, inputs
        <3>2. CASE ApplyPlan
            BY <3>2, UnsplitChunks DEF ApplyPlan, inputs
        <3>3. QED  BY <3>1, <3>2 DEF Begin
    <2>2. SortInv' /\ NotesInv'
        BY <1>4 DEF SortInv, NotesInv
    <2>3. LogInv'
        BY <1>1, <1>2, <1>4 DEF LogInv
    <2>4. QED  BY <1>3, <2>1, <2>2, <2>3 DEF Inv
<1>5. CASE phase' # "next"
    BY <1>5, ReturnKeeps DEF Begin, ApplyChunks, ApplyPlan, Return, inputs, world
<1>6. QED  BY <1>4, <1>5

\* Starting a chunk: an empty report and the predecessors of its lines.
LEMMA StartChunkKeeps ==
    ASSUME Inv, StartChunk
    PROVE  Inv'
<1>1. CASE phase' = "sort"
    <2>1. /\ phase = "next" /\ k \in DOMAIN chunks /\ ~HasLaterDep(Lines)
          /\ order' = <<>> /\ notes' = {}
          /\ UNCHANGED <<entry, chunks, k, log>>
        BY <1>1 DEF StartChunk, Return, inputs
    <2>2. PICK deps, dirs : deps = DepEdges(Lines) /\ preds' = Preds(Lines, deps \cup dirs)
        BY <1>1 DEF StartChunk, Return
    <2>3. Lines' = Lines
        BY <2>1 DEF Lines
    <2>4. DOMAIN preds' = DOMAIN Lines
        BY <2>2 DEF Preds
    <2>5. \A i, j \in DOMAIN Lines :
            Barrier(Lines, i, j) \/ <<j, i>> \in DepEdges(Lines) => j \in preds'[i]
        BY <2>2 DEF Preds
    <2>6. SortInv'
        <3>1. order' \in Seq(DOMAIN Lines) /\ DOMAIN order' = {}
            BY <2>1
        <3>2. QED  BY <2>1, <2>3, <2>4, <2>5, <3>1 DEF SortInv
    <2>7. LogInv'
        BY <1>1, <2>1 DEF Inv, LogInv, OpOf
    <2>8. NotesInv'
        BY <1>1, <2>1 DEF Inv, LogInv, NotesInv
    <2>9. QED  BY <2>1, <2>6, <2>7, <2>8, HistoryKeeps DEF Inv
<1>2. CASE phase' # "sort"
    BY <1>2, ReturnKeeps DEF StartChunk, Return, inputs
<1>3. QED  BY <1>1, <1>2

\* Placing the next line keeps every line behind its predecessors.
LEMMA SortNextKeeps ==
    ASSUME Inv, SortNext
    PROVE  Inv'
<1>1. PICK i \in Ready : order' = Append(order, i)
    BY DEF SortNext
<1>2. /\ phase = "sort" /\ phase' = "sort"
      /\ UNCHANGED <<entry, chunks, k, preds, notes, log>>
    BY DEF SortNext, inputs, world
<1>3. Lines' = Lines
    BY <1>2 DEF Lines
<1>4. /\ k \in DOMAIN chunks /\ ~HasLaterDep(Lines)
      /\ DOMAIN preds = DOMAIN Lines
      /\ order \in Seq(DOMAIN Lines)
      /\ \A n \in DOMAIN order : preds[order[n]] \subseteq {order[m] : m \in 1..(n - 1)}
      /\ \A a, b \in DOMAIN Lines :
             Barrier(Lines, a, b) \/ <<b, a>> \in DepEdges(Lines) => b \in preds[a]
    BY <1>2 DEF Inv, SortInv
<1>5. i \in DOMAIN Lines /\ preds[i] \subseteq {order[m] : m \in 1..Len(order)}
    BY <1>1, <1>4 DEF Ready, Placed
<1>6. order' \in Seq(DOMAIN Lines)
    BY <1>1, <1>4, <1>5
<1>7. \A n \in DOMAIN order' : preds[order'[n]] \subseteq {order'[m] : m \in 1..(n - 1)}
    <2> SUFFICES ASSUME NEW n \in DOMAIN order', NEW j \in preds[order'[n]]
                 PROVE  \E m \in 1..(n - 1) : order'[m] = j
        OBVIOUS
    <2>1. CASE n \in DOMAIN order
        <3>1. order'[n] = order[n]
            BY <1>1, <1>4, <1>5, <2>1
        <3>2. PICK m \in 1..(n - 1) : order[m] = j
            BY <1>4, <2>1, <3>1
        <3>3. order'[m] = order[m]
            BY <1>1, <1>4, <1>5, <2>1, <3>2
        <3>4. QED  BY <3>2, <3>3
    <2>2. CASE n \notin DOMAIN order
        <3>1. n = Len(order) + 1 /\ order'[n] = i
            BY <1>1, <1>4, <1>5, <2>2
        <3>2. PICK m \in 1..Len(order) : order[m] = j
            BY <1>5, <3>1
        <3>3. order'[m] = order[m] /\ m \in 1..(n - 1)
            BY <1>1, <1>4, <1>5, <3>1, <3>2
        <3>4. QED  BY <3>2, <3>3
    <2>3. QED  BY <2>1, <2>2
<1>8. SortInv'
    BY <1>2, <1>3, <1>4, <1>6, <1>7 DEF SortInv
<1>9. LogInv' /\ NotesInv'
    BY <1>2 DEF Inv, LogInv, NotesInv, OpOf
<1>10. QED  BY <1>2, <1>8, <1>9, HistoryKeeps DEF Inv

\* From the sort to the requirement check, and from there to the body.
LEMMA PreparedKeeps ==
    ASSUME Inv, SortEnd \/ checkRequirements
    PROVE  Inv'
<1>1. CASE SortEnd
    <2>1. /\ phase = "sort" /\ phase' = "require" /\ DOMAIN preds \ Placed = {}
          /\ UNCHANGED <<entry, chunks, k, preds, order, notes, log>>
        BY <1>1 DEF SortEnd, inputs, world, sorting
    <2>2. SortInv' /\ NotesInv'
        BY <2>1 DEF Inv, SortInv, NotesInv, Lines
    <2>3. DOMAIN Lines \subseteq Placed
        BY <2>1 DEF Inv, SortInv
    <2>4. LogInv'
        BY <2>1, <2>3 DEF Inv, LogInv, OpOf, Lines, Placed
    <2>5. QED  BY <2>1, <2>2, <2>4, HistoryKeeps DEF Inv
<1>2. CASE checkRequirements /\ phase' = "body"
    <2>1. /\ phase = "require" /\ at' = 1
          /\ UNCHANGED <<entry, chunks, k, preds, order, notes, log>>
        BY <1>2 DEF checkRequirements, inputs, world, sorting
    <2>2. SortInv' /\ NotesInv'
        BY <1>2, <2>1 DEF Inv, SortInv, NotesInv, Lines
    <2>3. Len(order) \in Nat
        BY <2>1 DEF Inv, SortInv
    <2>4. LogInv'
        BY <1>2, <2>1, <2>3 DEF Inv, LogInv, OpOf, Lines, Placed
    <2>5. QED  BY <2>1, <2>2, <2>4, HistoryKeeps DEF Inv
<1>3. CASE checkRequirements /\ phase' # "body"
    BY <1>3, ReturnKeeps DEF checkRequirements, Return, inputs, world
<1>4. QED  BY <1>1, <1>2, <1>3

\* The end of a chunk: all its lines are in the log.
LEMMA EndChunkKeeps ==
    ASSUME Inv, EndChunk
    PROVE  Inv'
<1>1. CASE phase' = "next"
    <2>1. /\ phase = "body" /\ at > Len(order) /\ k' = k + 1
          /\ UNCHANGED <<entry, chunks, log>>
        BY <1>1 DEF EndChunk, Return, inputs, world
    <2>2. k \in Nat /\ order \in Seq(DOMAIN Lines) /\ DOMAIN Lines \subseteq Placed
        BY <2>1 DEF Inv, SortInv, LogInv
    <2>3. \A i \in DOMAIN Lines : \E n \in DOMAIN log : log[n].chunk = k /\ log[n].line = i
        <3> TAKE i \in DOMAIN Lines
        <3>1. PICK m \in 1..Len(order) : order[m] = i
            BY <2>2 DEF Placed
        <3>2. m \in 1..(at - 1)
            BY <2>1, <2>2, <3>1 DEF Inv, LogInv
        <3>3. QED  BY <2>1, <3>1, <3>2 DEF Inv, LogInv
    <2>4. \A c \in 1..k : \A i \in DOMAIN chunks[c].lines :
             \E n \in DOMAIN log : log[n].chunk = c /\ log[n].line = i
        BY <2>2, <2>3 DEF Inv, LogInv, Lines
    <2>5. LogInv'
        <3>1. k' \in Nat \ {0} /\ k' - 1 = k
            BY <2>1, <2>2
        <3>2. \A n \in DOMAIN log' :
                 /\ log'[n].chunk \in 1..k' /\ log'[n].chunk < k'
                 /\ log'[n].chunk \in DOMAIN chunks'
                 /\ log'[n].line \in DOMAIN chunks'[log'[n].chunk].lines
                 /\ log'[n].id = chunks'[log'[n].chunk].lines[log'[n].line].op.id
                 /\ IF log'[n].how = "changed" THEN log'[n].noted \cap Fires[log'[n].id] # {}
                                               ELSE log'[n].noted = {}
            BY <2>1, <2>2 DEF Inv, LogInv, OpOf
        <3>3. phase' = "next" /\ k' \in Nat
            BY <1>1, <3>1
        <3>4. QED  BY <2>1, <2>4, <3>1, <3>2, <3>3 DEF LogInv, OpOf
    <2>6. SortInv' /\ NotesInv'
        BY <1>1 DEF SortInv, NotesInv
    <2>7. QED  BY <2>1, <2>5, <2>6, HistoryKeeps DEF Inv
<1>2. CASE phase' # "next"
    BY <1>2, ReturnKeeps DEF EndChunk, Return, inputs, world
<1>3. QED  BY <1>1, <1>2

(***************************************************************************)
(* Passing a line                                                          *)
(***************************************************************************)
\* The line passed next is a line of the current chunk, and everything that
\* precedes it was passed.
LEMMA CurrentLine ==
    ASSUME Inv, InBody
    PROVE  /\ k \in Nat /\ k \in DOMAIN chunks /\ at \in Nat
           /\ order \in Seq(DOMAIN Lines) /\ at \in DOMAIN order
           /\ order[at] \in DOMAIN Lines
           /\ \A j \in preds[order[at]] :
                \E n \in DOMAIN log : log[n].chunk = k /\ log[n].line = j
<1>1. /\ phase = "body" /\ k \in DOMAIN chunks /\ k \in Nat
      /\ order \in Seq(DOMAIN Lines) /\ at \in 1..(Len(order) + 1) /\ at <= Len(order)
    BY DEF InBody, Inv, SortInv, LogInv
<1>2. at \in DOMAIN order /\ order[at] \in DOMAIN Lines /\ at \in Nat
    BY <1>1
<1>3. ASSUME NEW j \in preds[order[at]]
      PROVE  \E n \in DOMAIN log : log[n].chunk = k /\ log[n].line = j
    <2>1. PICK m \in 1..(at - 1) : order[m] = j
        BY <1>1, <1>2 DEF Inv, SortInv
    <2>2. QED  BY <1>1, <2>1 DEF Inv, LogInv
<1>4. QED  BY <1>1, <1>2, <1>3

\* One line is appended to the log.
LEMMA Appended ==
    ASSUME LogIsSeq, NEW e, log' = Append(log, e)
    PROVE  /\ LogIsSeq'
           /\ Len(log) \in Nat /\ DOMAIN log = 1..Len(log)
           /\ DOMAIN log' = 1..(Len(log) + 1)
           /\ log'[Len(log) + 1] = e
           /\ \A n \in DOMAIN log : log'[n] = log[n]
<1>1. PICK S : log \in Seq(S)
    BY DEF LogIsSeq
<1>2. log' \in Seq(S \cup {e})
    BY <1>1
<1>3. LogIsSeq'
    BY <1>2 DEF LogIsSeq
<1>4. QED  BY <1>1, <1>3

\* Passing a line keeps the invariant when the report takes the ids a change
\* was noted under and a held op did nothing or only converged.
LEMMA PassKeeps ==
    ASSUME Inv, InBody, NEW how, NEW noted, Pass(how, noted),
           notes' = notes \cup noted,
           IF how = "changed" THEN noted \cap Fires[Cur.op.id] # {} ELSE noted = {},
           Cur.op.gated => /\ how = "idle" => Held(Cur.op)
                           /\ how \in {"same", "changed"} => Acts
    PROVE  Inv'
<1> DEFINE e == [line |-> order[at], at |-> Cur.at, id |-> Cur.op.id,
                 chunk |-> k, how |-> how, noted |-> noted,
                 fired |-> how \in {"same", "changed"} /\ ~Held(Cur.op)]
           N == Len(log) + 1
           opOf(n) == chunks[log'[n].chunk].lines[log'[n].line].op
<1>1. /\ phase = "body" /\ phase' = "body" /\ at' = at + 1
      /\ log' = Append(log, e)
      /\ UNCHANGED <<entry, chunks, k, preds, order>>
    BY DEF InBody, Pass, inputs, sorting
<1>2. Lines' = Lines /\ Cur = Lines[order[at]]
    BY <1>1 DEF Lines, Cur
<1>3. /\ LogIsSeq'
      /\ Len(log) \in Nat /\ DOMAIN log = 1..Len(log)
      /\ DOMAIN log' = 1..N /\ log'[N] = e
      /\ \A n \in DOMAIN log : log'[n] = log[n]
    BY <1>1, Appended DEF Inv
<1>4. /\ k \in Nat /\ k \in DOMAIN chunks /\ at \in Nat
      /\ order \in Seq(DOMAIN Lines) /\ at \in DOMAIN order
      /\ order[at] \in DOMAIN Lines
      /\ \A j \in preds[order[at]] :
           \E n \in DOMAIN log : log[n].chunk = k /\ log[n].line = j
    BY CurrentLine
<1>5. /\ e.line = order[at] /\ e.id = Lines[order[at]].op.id
      /\ e.chunk = k /\ e.how = how /\ e.noted = noted
      /\ e.fired <=> how \in {"same", "changed"} /\ ~Held(Cur.op)
    BY <1>2
<1> HIDE DEF e
<1>6. \A n \in DOMAIN log' : n \in DOMAIN log \/ n = N
    BY <1>3
<1>7. DOMAIN log \subseteq DOMAIN log' /\ N \in DOMAIN log' /\ N \notin DOMAIN log
    BY <1>3
<1>8. ChunksInv' /\ SortInv'
    <2>1. ChunksInv'
        BY <1>1 DEF Inv, ChunksInv
    <2>2. SortInv'
        BY <1>1, <1>2 DEF Inv, SortInv
    <2>3. QED  BY <2>1, <2>2
<1>9. LogInv'
    <2>0. k >= 1
        BY DEF Inv, LogInv
    <2>1. \A n \in DOMAIN log' :
             /\ log'[n].chunk \in 1..k
             /\ log'[n].chunk \in DOMAIN chunks
             /\ log'[n].line \in DOMAIN chunks[log'[n].chunk].lines
             /\ log'[n].id = chunks[log'[n].chunk].lines[log'[n].line].op.id
             /\ IF log'[n].how = "changed" THEN log'[n].noted \cap Fires[log'[n].id] # {}
                                           ELSE log'[n].noted = {}
        <3> TAKE n \in DOMAIN log'
        <3>1. CASE n \in DOMAIN log
            BY <1>3, <3>1 DEF Inv, LogInv, OpOf
        <3>2. CASE n = N
            <4>1. log'[n].chunk = k /\ log'[n].line = order[at]
                  /\ log'[n].id = Lines[order[at]].op.id
                  /\ log'[n].how = how /\ log'[n].noted = noted
                BY <1>3, <1>5, <3>2
            <4>2. k \in 1..k
                BY <1>4, <2>0
            <4>3. QED  BY <1>2, <1>4, <4>1, <4>2 DEF Lines
        <3>3. QED  BY <1>6, <3>1, <3>2
    <2>2. \A c \in 1..(k - 1) : \A i \in DOMAIN chunks[c].lines :
             \E n \in DOMAIN log' : log'[n].chunk = c /\ log'[n].line = i
        BY <1>3, <1>7 DEF Inv, LogInv
    <2>3. DOMAIN Lines \subseteq Placed
        BY <1>1 DEF Inv, LogInv
    <2>4. at' \in 1..(Len(order) + 1)
        BY <1>1, <1>4
    <2>5. \A m \in 1..(at' - 1) :
             \E n \in DOMAIN log' : log'[n].chunk = k /\ log'[n].line = order[m]
        <3> TAKE m \in 1..(at' - 1)
        <3>1. CASE m = at
            BY <1>3, <1>5, <1>7, <3>1
        <3>2. CASE m # at
            <4>1. m \in 1..(at - 1)
                BY <1>1, <1>4, <3>2
            <4>2. PICK n \in DOMAIN log : log[n].chunk = k /\ log[n].line = order[m]
                BY <1>1, <4>1 DEF Inv, LogInv
            <4>3. QED  BY <1>3, <1>7, <4>2
        <3>3. QED  BY <3>1, <3>2
    <2>6. k' \in Nat \ {0}
        BY <1>1, <1>4, <2>0
    <2>7. /\ chunks' = chunks /\ k' = k /\ order' = order /\ phase' = "body"
          /\ Lines' = Lines /\ Placed' = Placed
        BY <1>1, <1>2 DEF Lines, Placed
    <2>8. \A m \in 1..(at' - 1) :
             \E n \in DOMAIN log' : log'[n].chunk = k' /\ log'[n].line = order'[m]
        BY <2>5, <2>7
    <2>9. \A c \in 1..(k' - 1) : \A i \in DOMAIN chunks'[c].lines :
             \E n \in DOMAIN log' : log'[n].chunk = c /\ log'[n].line = i
        BY <2>2, <2>7
    <2>10. QED
        BY <2>1, <2>3, <2>4, <2>6, <2>7, <2>8, <2>9 DEF LogInv, OpOf
<1>10. \A id : id \in notes <=> \E n \in DOMAIN log : log[n].chunk = k /\ id \in log[n].noted
    BY <1>1 DEF Inv, NotesInv
<1>11. NotesInv'
    <2>1. \A id : id \in notes' <=>
             \E n \in DOMAIN log' : log'[n].chunk = k /\ id \in log'[n].noted
        <3> TAKE id
        <3>1. ASSUME id \in notes
              PROVE  \E n \in DOMAIN log' : log'[n].chunk = k /\ id \in log'[n].noted
            BY <1>3, <1>7, <1>10, <3>1
        <3>2. ASSUME id \in noted
              PROVE  \E n \in DOMAIN log' : log'[n].chunk = k /\ id \in log'[n].noted
            BY <1>3, <1>5, <1>7, <3>2
        <3>3. ASSUME NEW n \in DOMAIN log', log'[n].chunk = k, id \in log'[n].noted
              PROVE  id \in notes \/ id \in noted
            BY <1>3, <1>5, <1>6, <1>10, <3>3
        <3>4. QED  BY <3>1, <3>2, <3>3
    <2>2. QED  BY <1>1, <2>1 DEF NotesInv
<1>12. DepsBefore'
    <2> SUFFICES ASSUME NEW i \in DOMAIN log', NEW dep \in opOf(i).deps,
                        opOf(i).kind = "op",
                        \/ entry = "chunks"
                        \/ \E c \in DOMAIN chunks : Carries(chunks[c].lines, dep)
                 PROVE  \E j \in 1..(i - 1) : log'[j].id = dep
        BY <1>1 DEF DepsBefore, OpOf
    <2>1. CASE i \in DOMAIN log
        <3>1. opOf(i) = OpOf(log[i])
            BY <1>1, <1>3, <2>1 DEF OpOf
        <3>2. PICK j \in 1..(i - 1) : log[j].id = dep
            BY <2>1, <3>1 DEF Inv, DepsBefore
        <3>3. j \in DOMAIN log
            BY <1>3, <2>1, <3>2
        <3>4. QED  BY <1>3, <3>2, <3>3
    <2>2. CASE i = N
        <3>1. opOf(i) = Lines[order[at]].op
            BY <1>1, <1>3, <1>5, <2>2 DEF OpOf, Lines
        <3>2. PICK d \in 1..k : Carries(chunks[d].lines, dep)
            BY <1>4, <3>1 DEF Inv, ChunksInv, Lines
        <3>3. \E n \in DOMAIN log : log[n].id = dep
            <4>1. CASE d = k
                <5>1. DOMAIN Lines \subseteq Int
                    BY <1>4 DEF Inv, ChunksInv, Lines
                <5>2. Carries(Lines, dep)
                    BY <3>2, <4>1 DEF Lines
                <5>3. PICK j \in DOMAIN Lines :
                         Lines[j].op.id = dep /\ j \in preds[order[at]]
                    BY <1>1, <1>4, <3>1, <5>1, <5>2, DepIsPred DEF Inv
                <5>4. PICK n \in DOMAIN log : log[n].chunk = k /\ log[n].line = j
                    BY <1>4, <5>3
                <5>5. QED  BY <5>3, <5>4 DEF Inv, LogInv, OpOf, Lines
            <4>2. CASE d # k
                <5>1. d \in 1..(k - 1)
                    BY <1>4, <4>2
                <5>2. PICK j \in DOMAIN chunks[d].lines : chunks[d].lines[j].op.id = dep
                    BY <3>2 DEF Carries
                <5>3. PICK n \in DOMAIN log : log[n].chunk = d /\ log[n].line = j
                    BY <5>1, <5>2 DEF Inv, LogInv
                <5>4. QED  BY <5>2, <5>3 DEF Inv, LogInv, OpOf
            <4>3. QED  BY <4>1, <4>2
        <3>4. QED  BY <1>3, <2>2, <3>3
    <2>3. QED  BY <1>6, <2>1, <2>2
<1>13. GateFires'
    <2> SUFFICES ASSUME NEW i \in DOMAIN log', opOf(i).gated,
                        log'[i].how \in {"idle", "same", "changed"}
                 PROVE  /\ log'[i].fired <=> SeenChange(i)'
                        /\ \/ opOf(i).converges
                           \/ log'[i].how \in {"same", "changed"} <=> SeenChange(i)'
        BY <1>1 DEF GateFires, WasApplied, OpOf
    <2>1. CASE i \in DOMAIN log
        <3>1. opOf(i) = OpOf(log[i]) /\ OpOf(log[i])' = OpOf(log[i]) /\ log'[i] = log[i]
            BY <1>1, <1>3, <2>1 DEF OpOf
        <3>2. \A j \in 1..(i - 1) : log'[j] = log[j]
            BY <1>3, <2>1
        <3>3. SeenChange(i)' <=> SeenChange(i)
            BY <3>1, <3>2 DEF SeenChange
        <3>4. QED  BY <2>1, <3>1, <3>3 DEF Inv, GateFires, WasApplied
    <2>2. CASE i = N
        <3> DEFINE op == Lines[order[at]].op
        <3>1. /\ opOf(i) = op /\ OpOf(log[i])' = op /\ Cur.op = op
              /\ log'[i].how = how /\ log'[i].chunk = k
              /\ log'[i].fired <=> how \in {"same", "changed"} /\ ~Held(op)
            BY <1>1, <1>2, <1>3, <1>5, <2>2 DEF OpOf, Lines
        <3>2. \A j \in 1..(i - 1) : j \in DOMAIN log /\ log'[j] = log[j]
            BY <1>3, <2>2
        <3>3. DOMAIN log = 1..(i - 1)
            BY <1>3, <2>2
        <3>5. ASSUME NEW n \in DOMAIN log, log[n].how = "changed", log[n].id \in op.watch
              PROVE  AnyChanged(op.watch)
            <4>1. /\ log[n].chunk \in 1..k
                  /\ log[n].line \in DOMAIN chunks[log[n].chunk].lines
                  /\ chunks[log[n].chunk].lines[log[n].line].op.id = log[n].id
                  /\ log[n].noted \cap Fires[log[n].id] # {}
                BY <3>5 DEF Inv, LogInv, OpOf
            <4>2. Carries(chunks[log[n].chunk].lines, log[n].id)
                BY <4>1 DEF Carries
            <4>3. op.gated
                BY <3>1
            <4>4. \A d \in 1..(k - 1) : ~Carries(chunks[d].lines, log[n].id)
                BY <1>4, <3>5, <4>3 DEF Inv, ChunksInv, Lines
            <4>5. log[n].chunk = k
                BY <1>4, <4>1, <4>2, <4>4
            <4>6. log[n].noted \subseteq notes
                BY <1>10, <4>5
            <4>7. QED  BY <3>5, <4>1, <4>6 DEF AnyChanged
        <3>6. ASSUME NEW n \in DOMAIN log, log[n].chunk = k, NEW w \in op.watch,
                     log[n].noted \cap Fires[w] # {}
              PROVE  AnyChanged(op.watch)
            BY <1>10, <3>6 DEF AnyChanged
        <3>7. ASSUME AnyChanged(op.watch)
              PROVE  \E n \in DOMAIN log : /\ log[n].how = "changed" /\ log[n].chunk = k
                                           /\ \E w \in op.watch : log[n].noted \cap Fires[w] # {}
            <4>1. PICK w \in op.watch : Fires[w] \cap notes # {}
                BY <3>7 DEF AnyChanged
            <4>2. PICK id \in Fires[w] : id \in notes
                BY <4>1
            <4>3. PICK n \in DOMAIN log : log[n].chunk = k /\ id \in log[n].noted
                BY <1>10, <4>2
            <4>4. log[n].how = "changed"
                BY <4>3 DEF Inv, LogInv
            <4>5. QED  BY <4>2, <4>3, <4>4
        <3> HIDE DEF op
        <3>8. SeenChange(i)' <=>
                 \E j \in DOMAIN log :
                    /\ log[j].how = "changed"
                    /\ \/ log[j].id \in op.watch
                       \/ log[j].chunk = k /\ \E w \in op.watch : log[j].noted \cap Fires[w] # {}
            BY <3>1, <3>2, <3>3 DEF SeenChange
        <3>9. SeenChange(i)' <=> AnyChanged(op.watch)
            BY <3>5, <3>6, <3>7, <3>8
        <3>10. op.gated /\ how \in {"idle", "same", "changed"}
            BY <3>1
        <3>11. Held(op) <=> ~SeenChange(i)'
            BY <3>9, <3>10 DEF Held
        <3>12. (how = "idle" => Held(op)) /\ (how \in {"same", "changed"} /\ Held(op) => op.converges)
            BY <3>1, <3>10 DEF Acts
        <3>13. QED  BY <3>1, <3>10, <3>11, <3>12
    <2>3. QED  BY <1>6, <2>1, <2>2
<1>14. QED  BY <1>3, <1>8, <1>9, <1>11, <1>12, <1>13 DEF Inv

(***************************************************************************)
(* The theorems                                                            *)
(***************************************************************************)
\* The invariant holds before the apply starts.
LEMMA InitInv == Init => Inv
<1> SUFFICES ASSUME Init PROVE Inv
    OBVIOUS
<1>1. /\ phase = "start" /\ k = 1 /\ log = <<>> /\ chunks = <<>>
    BY DEF Init
<1>2. DOMAIN log = {} /\ DOMAIN chunks = {} /\ 1..(k - 1) = {}
    BY <1>1
<1>3. LogIsSeq
    <2>1. log \in Seq({})
        BY <1>1
    <2>2. QED  BY <2>1 DEF LogIsSeq
<1>4. LogInv
    BY <1>1, <1>2 DEF LogInv
<1>5. ChunksInv /\ SortInv /\ NotesInv /\ DepsBefore /\ GateFires
    BY <1>1, <1>2 DEF ChunksInv, SortInv, NotesInv, DepsBefore, GateFires
<1>6. QED  BY <1>3, <1>4, <1>5 DEF Inv

\* A step of applyBody.
LEMMA BodyKeeps ==
    ASSUME Inv, WhenBegin \/ WhenEndLine \/ SkipInactive \/ GateIdle \/ ApplyOp
    PROVE  Inv'
<1>1. CASE WhenBegin
    <2>1. CASE phase' = "done"
        BY <1>1, <2>1, ReturnKeeps DEF WhenBegin, Return, Pass, InBody, inputs
    <2>2. CASE phase' # "done"
        <3>1. PICK how \in {"on", "off"} : Pass(how, {})
            BY <1>1, <2>2 DEF WhenBegin, Return
        <3>2. InBody /\ notes' = notes \cup {}
            BY <1>1 DEF WhenBegin
        <3>3. QED  BY <3>1, <3>2, PassKeeps
    <2>3. QED  BY <2>1, <2>2
<1>2. CASE WhenEndLine
    <2>1. InBody /\ notes' = notes \cup {} /\ Pass("end", {})
        BY <1>2 DEF WhenEndLine
    <2>2. QED  BY <2>1, PassKeeps
<1>3. CASE SkipInactive
    <2>1. InBody /\ notes' = notes \cup {} /\ Pass("inactive", {})
        BY <1>3 DEF SkipInactive
    <2>2. QED  BY <2>1, PassKeeps
<1>4. CASE GateIdle
    <2>1. InBody /\ notes' = notes \cup {} /\ Pass("idle", {})
        BY <1>4 DEF GateIdle
    <2>2. Held(Cur.op)
        BY <1>4 DEF GateIdle
    <2>3. QED  BY <2>1, <2>2, PassKeeps
<1>5. CASE ApplyOp
    <2>1. PICK how \in {"same", "changed"}, noted \in SUBSET Cur.op.notes :
             /\ Pass(how, noted) /\ notes' = notes \cup noted
             /\ IF how = "changed" THEN noted \cap Fires[Cur.op.id] # {} ELSE noted = {}
        <3>1. CASE Pass("same", {}) /\ UNCHANGED notes
            BY <3>1
        <3>2. CASE \E n \in SUBSET Cur.op.notes :
                      /\ n \cap Fires[Cur.op.id] # {}
                      /\ Pass("changed", n)
                      /\ notes' = notes \cup n
            BY <3>2
        <3>3. QED  BY <1>5, <3>1, <3>2 DEF ApplyOp
    <2>2. InBody /\ Acts
        BY <1>5 DEF ApplyOp
    <2>3. QED  BY <2>1, <2>2, PassKeeps
<1>6. QED  BY <1>1, <1>2, <1>3, <1>4, <1>5

\* Every step keeps the invariant.
LEMMA StepInv ==
    ASSUME Inv, body \in Seq(Op), [Next]_vars
    PROVE  Inv'
<1>1. CASE Begin
    BY <1>1, BeginKeeps
<1>2. CASE NextChunk
    <2>1. CASE StartChunk
        BY <2>1, StartChunkKeeps
    <2>2. CASE StartChunkCanceled
        BY <2>2, ReturnKeeps DEF StartChunkCanceled, Return, inputs, world
    <2>3. CASE ApplyReturns
        BY <2>3, ReturnKeeps DEF ApplyReturns, Return, inputs, world
    <2>4. QED  BY <1>2, <2>1, <2>2, <2>3 DEF NextChunk
<1>3. CASE Work
    <2>1. CASE SortNext
        BY <2>1, SortNextKeeps
    <2>2. CASE SortCircular
        BY <2>2, ReturnKeeps DEF SortCircular, Return, inputs, world
    <2>3. CASE SortEnd \/ checkRequirements
        BY <2>3, PreparedKeeps
    <2>4. CASE checkRequirementsFails
        BY <2>4, ReturnKeeps DEF checkRequirementsFails, Return, inputs, world
    <2>5. CASE StopBeforeLine
        BY <2>5, ReturnKeeps DEF StopBeforeLine, Return, inputs, world
    <2>6. CASE WhenBeginFails
        BY <2>6, ReturnKeeps DEF WhenBeginFails, Return, inputs, world
    <2>7. CASE WhenEndUnmatched
        BY <2>7, ReturnKeeps DEF WhenEndUnmatched, Return, inputs, world
    <2>8. CASE WhenBegin \/ WhenEndLine \/ SkipInactive \/ GateIdle \/ ApplyOp
        BY <2>8, BodyKeeps
    <2>9. CASE ApplyOpFails
        BY <2>9, ReturnKeeps DEF ApplyOpFails, Return, inputs
    <2>10. CASE EndChunk
        BY <2>10, EndChunkKeeps
    <2>11. QED
        BY <1>3, <2>1, <2>2, <2>3, <2>4, <2>5, <2>6, <2>7, <2>8, <2>9, <2>10 DEF Work
<1>4. CASE Environment
    <2>1. CASE Cancel
        BY <2>1, QuietKeeps DEF Cancel, inputs, world, sorting
    <2>2. CASE CancelReachesChild
        BY <2>2, QuietKeeps DEF CancelReachesChild, inputs, world, sorting
    <2>3. CASE CancelStopsOp
        BY <2>3, ReturnKeeps DEF CancelStopsOp, Return, inputs
    <2>4. CASE ChildKilled
        BY <2>4, ReturnKeeps DEF ChildKilled, Return, inputs, world
    <2>5. QED  BY <1>4, <2>1, <2>2, <2>3, <2>4 DEF Environment
<1>5. CASE UNCHANGED vars
    BY <1>5, QuietKeeps DEF vars
<1>6. QED  BY <1>1, <1>2, <1>3, <1>4, <1>5 DEF Next

\* No step changes the plan, the entry point or the host facts.
LEMMA InputsFixed ==
    ASSUME [Next]_vars
    PROVE  body' = body /\ entry' = entry /\ host' = host
<1>1. CASE Next
    BY <1>1 DEF Next, Begin, NextChunk, Work, Environment, ApplyChunks, ApplyPlan,
        StartChunk, StartChunkCanceled, ApplyReturns, SortNext, SortCircular, SortEnd,
        checkRequirements, checkRequirementsFails, StopBeforeLine, WhenBegin,
        WhenBeginFails, WhenEndLine, WhenEndUnmatched, SkipInactive, GateIdle, ApplyOp,
        ApplyOpFails, EndChunk, Cancel, CancelReachesChild, CancelStopsOp, ChildKilled,
        Pass, inputs
<1>2. QED  BY <1>1 DEF vars

\* The inductive invariant, with the plan it is about.
THEOREM Invariance == Spec => [](body \in Bodies /\ Inv)
<1>1. Init => body \in Bodies /\ Inv
    BY InitInv DEF Init
<1>2. body \in Bodies /\ Inv /\ [Next]_vars => (body \in Bodies /\ Inv)'
    BY StepInv, InputsFixed, BodiesAssumption
<1>3. QED  BY <1>1, <1>2, PTL DEF Spec

\* For every plan, host and failure: an op is passed only after a line with
\* each id it depends on, across privilege chunks, through kahnStable's
\* order and the pre-flight that refuses a dependency in a later chunk.
THEOREM DependenciesFirst == Spec => []DepsBefore
<1>1. Inv => DepsBefore
    BY DEF Inv
<1>2. QED  BY <1>1, Invariance, PTL

\* For every plan, host, failure and covering of ids: the gate of an op is open
\* exactly when a watched op changed earlier in the apply, or its own chunk
\* noted a change that a watched id covers (a File under a watched Directory),
\* although every chunk starts with an empty report (resetReport):
\* ValidateChangeGates refuses a watch across chunks by its id.  A command runs
\* exactly then; a service or timer converges also while its gate holds.
THEOREM GatesFire == Spec => []GateFires
<1>1. Inv => GateFires
    BY DEF Inv
<1>2. QED  BY <1>1, Invariance, PTL

(***************************************************************************)
(* Naturals                                                                *)
(***************************************************************************)
\* A nonempty set of naturals has a least member.
LEMMA LeastExists ==
    ASSUME NEW T, T \subseteq Nat, T # {}
    PROVE  \E x \in T : \A y \in T : x <= y
<1>1. PICK x \in T : \A y \in T : ~(<<y, x>> \in OpToRel(<, Nat))
    BY NatLessThanWellFounded, WFMin
<1>2. ASSUME NEW y \in T PROVE x <= y
    <2>1. SUFFICES ASSUME y < x PROVE FALSE
        OBVIOUS
    <2>2. <<y, x>> \in OpToRel(<, Nat)
        BY <2>1 DEF OpToRel
    <2>3. QED  BY <1>1, <2>2
<1>3. QED  BY <1>2

\* Induction up to n, for a set instead of a predicate.
LEMMA UpTo ==
    ASSUME NEW n \in Nat, NEW S, 0 \in S, \A i \in 0..(n - 1) : i \in S => i + 1 \in S
    PROVE  0..n \subseteq S
<1> SUFFICES ASSUME NEW m \in 0..n, m \notin S PROVE FALSE
    OBVIOUS
<1> DEFINE T == {i \in 0..n : i \notin S}
<1>1. PICK i \in T : \A j \in T : i <= j
    <2>1. T \subseteq Nat /\ T # {}
        OBVIOUS
    <2> HIDE DEF T
    <2>2. QED  BY <2>1, LeastExists
<1>2. i # 0 /\ i - 1 \in 0..(n - 1) /\ (i - 1) + 1 = i /\ i - 1 \in 0..n
    BY <1>1
<1>3. i - 1 \in S
    BY <1>1, <1>2
<1>4. QED  BY <1>1, <1>2, <1>3

\* g starts with x0 and goes on by step.
Recurs(g, n, x0, step) == g[0] = x0 /\ \A i \in 1..n : g[i] = step[i][g[i - 1]]

\* A recursion up to n is satisfied by some function.
LEMMA RecursionExists ==
    ASSUME NEW n \in Nat, NEW X, NEW x0 \in X, NEW step \in [1..n -> [X -> X]]
    PROVE  \E g \in [0..n -> X] : Recurs(g, n, x0, step)
<1> DEFINE Part(m) == {f \in [0..m -> X] : f[0] = x0 /\ \A i \in 1..m : f[i] = step[i][f[i - 1]]}
           S == {m \in 0..n : Part(m) # {}}
<1>1. 0 \in S
    <2>1. [i \in 0..0 |-> x0] \in Part(0)
        OBVIOUS
    <2>2. QED  BY <2>1
<1>2. ASSUME NEW m \in 0..(n - 1), m \in S PROVE m + 1 \in S
    <2>1. PICK f \in [0..m -> X] : f[0] = x0 /\ \A i \in 1..m : f[i] = step[i][f[i - 1]]
        BY <1>2
    <2> DEFINE h == [i \in 0..(m + 1) |-> IF i = m + 1 THEN step[m + 1][f[m]] ELSE f[i]]
    <2>2. m + 1 \in 1..n /\ m \in 0..m
        OBVIOUS
    <2>3. step[m + 1][f[m]] \in X
        BY <2>1, <2>2
    <2>4. h \in [0..(m + 1) -> X] /\ h[0] = x0
        BY <2>1, <2>3
    <2>5. ASSUME NEW i \in 1..(m + 1) PROVE h[i] = step[i][h[i - 1]]
        <3>1. CASE i = m + 1
            BY <3>1
        <3>2. CASE i # m + 1
            <4>1. i \in 1..m /\ i - 1 \in 0..m /\ i \in 0..m /\ i - 1 # m + 1
                BY <3>2
            <4>2. i \in 0..(m + 1) /\ i - 1 \in 0..(m + 1)
                BY <4>1
            <4>3. h[i] = f[i]
                BY <3>2, <4>2
            <4>4. h[i - 1] = f[i - 1]
                BY <4>1, <4>2
            <4>5. f[i] = step[i][f[i - 1]]
                BY <2>1, <4>1
            <4> HIDE DEF h
            <4>6. QED  BY <4>3, <4>4, <4>5
        <3>3. QED  BY <3>1, <3>2
    <2>6. h \in Part(m + 1)
        BY <2>4, <2>5
    <2>7. Part(m + 1) # {} /\ m + 1 \in 0..n
        <3> HIDE DEF h, Part
        <3>1. QED  BY <2>2, <2>6
    <2> HIDE DEF Part
    <2>8. QED  BY <2>7
<1>3. n \in S
    <2>1. 0..n \subseteq S
        <3> HIDE DEF S
        <3>1. QED  BY <1>1, <1>2, UpTo
    <2>2. QED  BY <2>1
<1>4. QED  BY <1>3 DEF Recurs

(***************************************************************************)
(* Ascending                                                               *)
(***************************************************************************)
\* Ascending lists the members of a finite set of integers, each once, in
\* ascending order.
LEMMA AscendingLists ==
    ASSUME NEW S, IsFiniteSet(S), S \subseteq Int
    PROVE  /\ Cardinality(S) \in Nat
           /\ Ascending(S) \in [1..Cardinality(S) -> S]
           /\ \A x \in S : \E i \in 1..Cardinality(S) : Ascending(S)[i] = x
           /\ \A i, j \in 1..Cardinality(S) : i < j => Ascending(S)[i] < Ascending(S)[j]
<1> DEFINE n == Cardinality(S)
           Below(x) == {y \in S : y < x}
           rank == [x \in S |-> Cardinality(Below(x))]
<1>1. n \in Nat
    BY FS_CardinalityType
<1>2. ASSUME NEW x \in S
      PROVE  IsFiniteSet(Below(x)) /\ Cardinality(Below(x)) \in 0..(n - 1)
    <2>1. IsFiniteSet(S \ {x}) /\ Cardinality(S \ {x}) = n - 1
        BY FS_RemoveElement
    <2>2. Below(x) \in SUBSET (S \ {x})
        OBVIOUS
    <2>3. IsFiniteSet(Below(x)) /\ Cardinality(Below(x)) <= n - 1
        BY <2>1, <2>2, FS_Subset
    <2>4. Cardinality(Below(x)) \in Nat
        BY <2>3, FS_CardinalityType
    <2>5. QED  BY <1>1, <2>3, <2>4
<1>3. ASSUME NEW x \in S, NEW y \in S, x < y PROVE rank[x] < rank[y]
    <2>0. x \in Int /\ y \in Int /\ \A z \in S : z \in Int /\ (z < x => z < y)
        BY <1>3
    <2>1. Below(x) \in SUBSET Below(y)
        BY <2>0
    <2>2. x \in Below(y) /\ x \notin Below(x)
        BY <1>3, <2>0
    <2>3. /\ Cardinality(Below(x)) <= Cardinality(Below(y))
          /\ Cardinality(Below(x)) # Cardinality(Below(y))
        BY <1>2, <2>1, <2>2, FS_Subset
    <2>4. QED  BY <1>1, <1>2, <2>3
<1> HIDE DEF Below
<1>4. rank \in [S -> 0..(n - 1)]
    BY <1>2
<1>5. \A x, y \in S : rank[x] = rank[y] => x = y
    <2> HIDE DEF rank
    <2> TAKE x, y \in S
    <2>1. x \in Int /\ y \in Int /\ rank[x] \in Int /\ rank[y] \in Int
        BY <1>1, <1>4
    <2>2. x < y \/ y < x \/ x = y
        BY <2>1
    <2>3. QED  BY <1>3, <2>1, <2>2
<1>6. rank \in Injection(S, 0..(n - 1))
    BY <1>4, <1>5 DEF Injection, IsInjective
<1>7. IsFiniteSet(0..(n - 1)) /\ Cardinality(0..(n - 1)) = n
    BY <1>1, FS_Interval
<1>8. rank \in Surjection(S, 0..(n - 1))
    BY <1>6, <1>7, FS_Injection
<1>9. \A i \in 1..n : \E x \in S : rank[x] = i - 1
    <2>1. \A i \in 1..n : i - 1 \in 0..(n - 1)
        BY <1>1
    <2>2. QED  BY <1>8, <2>1 DEF Surjection
<1>10. \A i \in 1..n : Ascending(S)[i] = CHOOSE x \in S : rank[x] = i - 1
    BY DEF Ascending, Below
<1> HIDE DEF rank
<1>11. \A i \in 1..n : Ascending(S)[i] \in S /\ rank[Ascending(S)[i]] = i - 1
    BY <1>9, <1>10
<1>12. Ascending(S) \in [1..n -> S]
    <2> DEFINE c(i) == CHOOSE x \in S : Cardinality({y \in S : y < x}) = i - 1
               g == [i \in 1..n |-> c(i)]
    <2>1. Ascending(S) = g
        BY DEF Ascending
    <2> HIDE DEF c
    <2>2. g = [i \in 1..n |-> g[i]]
        OBVIOUS
    <2> HIDE DEF g
    <2>3. \A i \in 1..n : g[i] \in S
        BY <1>11, <2>1
    <2>4. [i \in 1..n |-> g[i]] \in [1..n -> S]
        BY <2>3
    <2>5. QED  BY <2>1, <2>2, <2>4
<1>13. ASSUME NEW x \in S PROVE \E i \in 1..n : Ascending(S)[i] = x
    <2>1. rank[x] + 1 \in 1..n /\ (rank[x] + 1) - 1 = rank[x]
        BY <1>1, <1>4
    <2>2. QED  BY <1>5, <1>11, <2>1
<1>14. ASSUME NEW i \in 1..n, NEW j \in 1..n, i < j PROVE Ascending(S)[i] < Ascending(S)[j]
    <2> DEFINE x == Ascending(S)[i]
               y == Ascending(S)[j]
    <2>1. x \in Int /\ y \in Int /\ x \in S /\ y \in S /\ rank[x] = i - 1 /\ rank[y] = j - 1
        BY <1>11
    <2> HIDE DEF x, y
    <2>2. x # y
        BY <1>1, <1>14, <2>1
    <2>3. ~(y < x)
        <3>1. SUFFICES ASSUME y < x PROVE FALSE
            OBVIOUS
        <3>2. rank[y] < rank[x]
            BY <1>3, <2>1, <3>1
        <3>3. QED  BY <1>1, <1>14, <2>1, <3>2
    <2>4. x < y
        BY <2>1, <2>2, <2>3
    <2>5. QED  BY <2>4 DEF x, y
<1>15. QED  BY <1>1, <1>12, <1>13, <1>14

(***************************************************************************)
(* The types of chunks                                                     *)
(***************************************************************************)
\* A line of a chunk.
LineType == [op : Op, at : Nat]

\* A chunk.
ChunkType == [elevate : BOOLEAN, lines : Seq(LineType)]

\* A line that hoistRequirements makes is at no position of the body.
StubLine == [op : Op, at : {0}]

\* A function on 1..n is a sequence of length n.
LEMMA SeqOfFunction ==
    ASSUME NEW S, NEW n \in Nat, NEW f \in [1..n -> S]
    PROVE  f \in Seq(S) /\ Len(f) = n /\ DOMAIN f = 1..n
OBVIOUS

\* G adds one sequence of ss after the other.
Concats(G, ss) == G[0] = <<>> /\ \A i \in 1..Len(ss) : G[i] = G[i - 1] \o ss[i]

\* FlattenSeq concatenates one sequence after the other.
LEMMA FlattenSteps ==
    ASSUME NEW S, NEW ss \in Seq(Seq(S))
    PROVE  \E G \in [0..Len(ss) -> Seq(S)] : Concats(G, ss) /\ FlattenSeq(ss) = G[Len(ss)]
<1>1. CASE Len(ss) = 0
    <2> DEFINE G == [i \in 0..0 |-> <<>>]
    <2>1. G \in [0..Len(ss) -> Seq(S)] /\ G[0] = <<>> /\ G[Len(ss)] = <<>>
        BY <1>1
    <2>2. FlattenSeq(ss) = <<>>
        BY <1>1 DEF FlattenSeq
    <2>3. \A i \in 1..Len(ss) : G[i] = G[i - 1] \o ss[i]
        BY <1>1
    <2> HIDE DEF G
    <2>4. QED  BY <2>1, <2>2, <2>3 DEF Concats
<1>2. CASE Len(ss) # 0
    <2> DEFINE n == Len(ss)
               X == Seq(S)
               step == [i \in 1..n |-> [s \in X |-> s \o ss[i]]]
               eqn(f) == [i \in 1..n |-> IF i = 1 THEN ss[i] ELSE f[i - 1] \o ss[i]]
    <2>1. n \in Nat /\ n \in 1..n /\ \A i \in 1..n : ss[i] \in X
        BY <1>2
    <2>2. step \in [1..n -> [X -> X]] /\ <<>> \in X
        BY <2>1
    <2>3. PICK g \in [0..n -> X] : g[0] = <<>> /\ \A i \in 1..n : g[i] = step[i][g[i - 1]]
        <3> DEFINE x0 == <<>>
        <3>1. x0 \in X /\ n \in Nat /\ step \in [1..n -> [X -> X]]
            BY <2>1, <2>2
        <3> HIDE DEF n, X, step, x0
        <3>2. PICK g \in [0..n -> X] : Recurs(g, n, x0, step)
            BY <3>1, RecursionExists
        <3>3. g[0] = x0 /\ \A i \in 1..n : g[i] = step[i][g[i - 1]]
            BY <3>2 DEF Recurs
        <3>4. QED  BY <3>3 DEF x0
    <2>4. ASSUME NEW i \in 1..n PROVE g[i - 1] \in X /\ g[i] = g[i - 1] \o ss[i]
        <3>1. i - 1 \in 0..n
            BY <2>1
        <3>2. QED  BY <2>3, <3>1
    <2> DEFINE f == [i \in 1..n |-> g[i]]
    <2>5. f = eqn(f)
        <3>1. ASSUME NEW i \in 1..n PROVE f[i] = IF i = 1 THEN ss[i] ELSE f[i - 1] \o ss[i]
            <4>1. CASE i = 1
                <5>0. i - 1 = 0 /\ i \in 1..n
                    BY <4>1
                <5>1. g[i] = g[0] \o ss[i] /\ ss[i] \in Seq(S)
                    <6> HIDE DEF n, step
                    <6>1. QED  BY <2>1, <2>4, <5>0
                <5>2. g[i] = ss[i]
                    BY <2>3, <5>1
                <5>3. QED  BY <4>1, <5>2
            <4>2. CASE i # 1
                <5>1. i - 1 \in 1..n
                    BY <2>1, <4>2
                <5>2. QED  BY <2>4, <4>2, <5>1
            <4>3. QED  BY <4>1, <4>2
        <3>2. QED  BY <3>1
    <2> DEFINE h == CHOOSE h : h = eqn(h)
    <2>6. FlattenSeq(ss) = h[n]
        BY <1>2 DEF FlattenSeq
    <2>7. h = eqn(h)
        <3> HIDE DEF eqn, f
        <3>1. QED  BY <2>5
    <2> HIDE DEF h
    <2> DEFINE T == {i \in 0..n : i = 0 \/ h[i] \in X}
    <2>8. 0 \in T
        OBVIOUS
    <2>9. ASSUME NEW i \in 0..(n - 1), i \in T PROVE i + 1 \in T
        <3>1. i + 1 \in 1..n /\ (i + 1) - 1 = i /\ i + 1 \in 0..n
            BY <2>1
        <3>2. h[i + 1] = IF i + 1 = 1 THEN ss[i + 1] ELSE h[i] \o ss[i + 1]
            BY <2>7, <3>1
        <3>3. ss[i + 1] \in X
            BY <2>1, <3>1
        <3>4. CASE i = 0
            BY <3>1, <3>2, <3>3, <3>4
        <3>5. CASE i # 0
            <4>1. h[i] \in X
                BY <2>9, <3>5
            <4>2. h[i] \o ss[i + 1] \in X
                BY <3>3, <4>1
            <4>3. i + 1 # 1 /\ i + 1 # 0
                BY <3>5
            <4>4. h[i + 1] \in X
                BY <3>2, <4>2, <4>3
            <4>5. QED  BY <3>1, <4>4
        <3>6. QED  BY <3>4, <3>5
    <2>10. 0..n \subseteq T
        <3> HIDE DEF T, n
        <3>1. QED  BY <2>1, <2>8, <2>9, UpTo
    <2> DEFINE G == [i \in 0..n |-> IF i = 0 THEN <<>> ELSE h[i]]
    <2>11. G \in [0..n -> X] /\ G[0] = <<>> /\ \A i \in 1..n : G[i] = h[i]
        <3>1. \A i \in 0..n : i # 0 => h[i] \in X
            BY <2>10
        <3>2. <<>> \in X /\ 0 \in 0..n
            BY <2>1
        <3>3. \A i \in 1..n : i \in 0..n /\ i # 0
            OBVIOUS
        <3> HIDE DEF X, n
        <3>4. QED  BY <3>1, <3>2, <3>3
    <2>12. ASSUME NEW i \in 1..n PROVE G[i] = G[i - 1] \o ss[i]
        <3>1. h[i] = IF i = 1 THEN ss[i] ELSE h[i - 1] \o ss[i]
            BY <2>7
        <3>2. CASE i = 1
            <4>1. G[i] = ss[i] /\ G[i - 1] = <<>> /\ ss[i] \in Seq(S)
                <5>1. i - 1 = 0 /\ ss[i] \in Seq(S)
                    BY <2>1, <3>2
                <5> HIDE DEF G, n
                <5>2. QED  BY <2>11, <3>1, <3>2, <5>1
            <4> HIDE DEF G, n, X
            <4>2. QED  BY <4>1
        <3>3. CASE i # 1
            <4>1. i - 1 \in 1..n
                BY <2>1, <3>3
            <4> HIDE DEF G, n, X
            <4>2. QED  BY <2>11, <3>1, <3>3, <4>1
        <3>4. QED  BY <3>2, <3>3
    <2>13. FlattenSeq(ss) = G[n]
        <3>1. n \in 1..n
            BY <2>1
        <3> HIDE DEF G, n, X
        <3>2. QED  BY <2>6, <2>11, <3>1
    <2> HIDE DEF G, h
    <2>14. QED  BY <2>11, <2>12, <2>13 DEF Concats
<1>3. QED  BY <1>1, <1>2

\* So it is a sequence over S.
LEMMA FlattenType ==
    ASSUME NEW S, NEW ss \in Seq(Seq(S))
    PROVE  FlattenSeq(ss) \in Seq(S)
<1>1. PICK G \in [0..Len(ss) -> Seq(S)] : FlattenSeq(ss) = G[Len(ss)]
    BY FlattenSteps
<1>2. Len(ss) \in 0..Len(ss)
    OBVIOUS
<1>3. QED  BY <1>1, <1>2

\* A stub is made of stub lines.
LEMMA StubType ==
    ASSUME NEW b \in Seq(Op), NEW r \in DOMAIN b
    PROVE  Stub(b, r) \in Seq(StubLine)
<1> DEFINE S == OpenAt(b, r) \cup {r}
           chain == Ascending(S)
           depth == Len(chain)
           lines == [i \in 1..(2 * depth) |->
                        [op |-> IF i <= depth THEN b[chain[i]]
                                ELSE WhenEnd(b[chain[2 * depth + 1 - i]]),
                         at |-> 0]]
<1>1. S \subseteq 1..r /\ 1..r \subseteq DOMAIN b /\ S \subseteq Int
    BY DEF OpenAt
<1>2. IsFiniteSet(S)
    <2>1. IsFiniteSet(1..r)
        BY FS_Interval
    <2>2. QED  BY <1>1, <2>1, FS_Subset
<1>3. Cardinality(S) \in Nat /\ chain \in [1..Cardinality(S) -> S]
    BY <1>1, <1>2, AscendingLists
<1> HIDE DEF S, chain
<1>4. depth \in Nat /\ \A i \in 1..depth : chain[i] \in DOMAIN b
    BY <1>1, <1>3, SeqOfFunction
<1> HIDE DEF depth
<1>5. \A o \in Op : WhenEnd(o) \in Op
    BY DEF Op, WhenEnd
<1>6. ASSUME NEW i \in 1..(2 * depth)
      PROVE  (IF i <= depth THEN b[chain[i]] ELSE WhenEnd(b[chain[2 * depth + 1 - i]])) \in Op
    <2>1. CASE i <= depth
        <3>1. i \in 1..depth
            BY <1>4, <2>1
        <3>2. b[chain[i]] \in Op
            BY <1>4, <3>1
        <3>3. QED  BY <2>1, <3>2
    <2>2. CASE ~(i <= depth)
        <3>1. 2 * depth + 1 - i \in 1..depth
            BY <1>4, <2>2
        <3>2. b[chain[2 * depth + 1 - i]] \in Op
            BY <1>4, <3>1
        <3>3. QED  BY <1>5, <2>2, <3>2
    <2>3. QED  BY <2>1, <2>2
<1>7. lines \in [1..(2 * depth) -> StubLine]
    BY <1>6 DEF StubLine
<1>8. Stub(b, r) = lines
    BY DEF Stub, depth, chain, S
<1>9. 2 * depth \in Nat
    BY <1>4
<1> HIDE DEF lines
<1>10. QED  BY <1>7, <1>8, <1>9, SeqOfFunction

\* So are the stubs of a body.
LEMMA StubsType ==
    ASSUME NEW b \in Seq(Op)
    PROVE  requirementStubs(b) \in Seq(StubLine)
<1> DEFINE S == {r \in RequirementsOf(b) : ScopeIsHostFact(b, r)}
           rs == Ascending(S)
           ss == [i \in DOMAIN rs |-> Stub(b, rs[i])]
<1>1. S \subseteq DOMAIN b /\ S \subseteq Int /\ IsFiniteSet(DOMAIN b)
    BY FS_Interval DEF RequirementsOf
<1>2. Cardinality(S) \in Nat /\ rs \in [1..Cardinality(S) -> S]
    <2>1. IsFiniteSet(S)
        BY <1>1, FS_Subset
    <2> HIDE DEF S
    <2>2. QED  BY <1>1, <2>1, AscendingLists
<1> HIDE DEF S, rs
<1>3. ss \in [1..Cardinality(S) -> Seq(StubLine)]
    <2>1. \A i \in 1..Cardinality(S) : Stub(b, rs[i]) \in Seq(StubLine)
        BY <1>1, <1>2, StubType
    <2>2. QED  BY <1>2, <2>1
<1>4. ss \in Seq(Seq(StubLine))
    <2> HIDE DEF ss
    <2>1. QED  BY <1>2, <1>3, SeqOfFunction
<1>5. FlattenSeq(ss) \in Seq(StubLine)
    <2> HIDE DEF ss
    <2>1. QED  BY <1>4, FlattenType
<1>6. requirementStubs(b) = FlattenSeq(ss)
    BY DEF requirementStubs, rs, S
<1>7. QED  BY <1>5, <1>6

\* The parts of a body are chunks.
LEMMA PartsType ==
    ASSUME NEW b \in Seq(Op)
    PROVE  PrivilegeParts(b) \in Seq(ChunkType)
<1> DEFINE eff == effectiveElevate(b)
           S == {i \in DOMAIN b : i > 1 => eff[i] # eff[i - 1]}
           starts == Ascending(S)
           stop(c) == IF c = Len(starts) THEN Len(b) ELSE starts[c + 1] - 1
           part(c) == [elevate |-> eff[starts[c]],
                       lines |-> [j \in 1..(stop(c) + 1 - starts[c]) |->
                                     Line(b, starts[c] + j - 1)]]
           n == Cardinality(S)
<1>1. S \subseteq DOMAIN b /\ S \subseteq Int /\ IsFiniteSet(DOMAIN b)
    BY FS_Interval
<1>2. n \in Nat /\ starts \in [1..n -> S] /\ \A i, j \in 1..n : i < j => starts[i] < starts[j]
    <2>1. IsFiniteSet(S)
        BY <1>1, FS_Subset
    <2> HIDE DEF S
    <2>2. QED  BY <1>1, <2>1, AscendingLists
<1>3. Len(starts) = n /\ DOMAIN starts = 1..n
    <2> HIDE DEF S, starts, n
    <2>1. QED  BY <1>2, SeqOfFunction
<1>4. \A i \in DOMAIN b : eff[i] \in BOOLEAN
    BY DEF effectiveElevate
<1>5. PrivilegeParts(b) = [c \in DOMAIN starts |-> part(c)]
    BY DEF PrivilegeParts
<1> HIDE DEF S, starts, n, eff
<1>6. ASSUME NEW c \in 1..n PROVE part(c) \in ChunkType
    <2>1. starts[c] \in 1..Len(b) /\ Len(b) \in Nat /\ stop(c) \in starts[c]..Len(b)
        <3>1. starts[c] \in 1..Len(b) /\ Len(b) \in Nat
            BY <1>1, <1>2
        <3>2. CASE c = n
            BY <1>3, <3>1, <3>2
        <3>3. CASE c # n
            <4>1. c + 1 \in 1..n /\ c < c + 1 /\ c # Len(starts)
                BY <1>2, <1>3, <3>3
            <4>2. starts[c + 1] \in 1..Len(b) /\ starts[c] < starts[c + 1]
                BY <1>1, <1>2, <4>1
            <4>3. QED  BY <3>1, <4>1, <4>2
        <3>4. QED  BY <3>2, <3>3
    <2> DEFINE m == stop(c) + 1 - starts[c]
               ls == [j \in 1..m |-> Line(b, starts[c] + j - 1)]
    <2>2. m \in Nat
        BY <2>1
    <2>3. ls \in [1..m -> LineType]
        <3>1. ASSUME NEW j \in 1..m PROVE Line(b, starts[c] + j - 1) \in LineType
            <4>1. starts[c] + j - 1 \in 1..Len(b)
                BY <2>1, <3>1
            <4>2. QED  BY <4>1 DEF Line, LineType
        <3>2. QED  BY <3>1
    <2>4. ls \in Seq(LineType)
        <3> HIDE DEF ls, m
        <3>1. QED  BY <2>2, <2>3, SeqOfFunction
    <2>5. eff[starts[c]] \in BOOLEAN
        BY <1>4, <2>1
    <2> HIDE DEF stop
    <2>6. QED  BY <2>4, <2>5 DEF ChunkType
<1> HIDE DEF part
<1>7. [c \in DOMAIN starts |-> part(c)] \in [1..n -> ChunkType]
    BY <1>3, <1>6
<1>8. QED  BY <1>2, <1>5, <1>7, SeqOfFunction

\* The ops of typed lines are ops, one for each line.
LEMMA OpsType ==
    ASSUME NEW lines \in Seq(LineType)
    PROVE  OpsOf(lines) \in Seq(Op) /\ Len(OpsOf(lines)) = Len(lines)
<1> DEFINE n == Len(lines)
           ops == [i \in DOMAIN lines |-> lines[i].op]
<1>0. \A i \in DOMAIN lines : lines[i] \in LineType
    OBVIOUS
<1>1. n \in Nat /\ ops \in [1..n -> Op]
    BY <1>0 DEF LineType
<1>2. OpsOf(lines) = ops
    BY DEF OpsOf
<1> HIDE DEF ops
<1>3. QED  BY <1>1, <1>2, SeqOfFunction

\* What later chunks require is made of stub lines.
LEMMA PendingType ==
    ASSUME NEW parts \in Seq(ChunkType), NEW c \in DOMAIN parts
    PROVE  Pending(parts, c) \in Seq(StubLine)
<1> DEFINE stubs == [j \in DOMAIN parts |-> requirementStubs(OpsOf(parts[j].lines))]
           n == Len(parts)
<1>0. \A j \in DOMAIN parts : parts[j] \in ChunkType
    OBVIOUS
<1>1. \A j \in DOMAIN parts : parts[j].lines \in Seq(LineType)
    BY <1>0 DEF ChunkType
<1>2. \A j \in DOMAIN parts : requirementStubs(OpsOf(parts[j].lines)) \in Seq(StubLine)
    BY <1>1, OpsType, StubsType
<1>3. n \in Nat /\ c \in 1..n /\ stubs \in [1..n -> Seq(StubLine)]
    BY <1>2
<1>4. Pending(parts, c) = FlattenSeq(SubSeq(stubs, c + 1, n))
    BY DEF Pending
<1> HIDE DEF stubs, n
<1>5. stubs \in Seq(Seq(StubLine)) /\ Len(stubs) = n
    BY <1>3, SeqOfFunction
<1>6. SubSeq(stubs, c + 1, n) \in Seq(Seq(StubLine))
    <2> DEFINE X == Seq(StubLine)
    <2>1. stubs \in Seq(X)
        BY <1>5
    <2> HIDE DEF X
    <2>2. \A i \in (c + 1)..n : i \in 1..Len(stubs)
        BY <1>3, <1>5
    <2>3. SubSeq(stubs, c + 1, n) \in Seq(X)
        BY <1>3, <1>5, <2>1, <2>2
    <2>4. QED  BY <2>3 DEF X
<1>7. QED  BY <1>4, <1>6, FlattenType

\* Hoisting the requirements makes chunks of chunks.
LEMMA HoistType ==
    ASSUME NEW parts \in Seq(ChunkType)
    PROVE  hoistRequirements(parts) \in Seq(ChunkType)
<1> DEFINE n == Len(parts)
           new(c) == [elevate |-> parts[c].elevate, lines |-> Pending(parts, c) \o parts[c].lines]
<1>1. n \in Nat /\ DOMAIN parts = 1..n
    OBVIOUS
<1>2. ASSUME NEW c \in 1..n PROVE new(c) \in ChunkType
    <2>1. Pending(parts, c) \in Seq(LineType)
        <3>1. Pending(parts, c) \in Seq(StubLine)
            BY <1>1, PendingType
        <3>2. \A l \in StubLine : l \in LineType
            BY DEF StubLine, LineType
        <3>3. QED  BY <3>1, <3>2
    <2>0. parts[c] \in ChunkType
        BY <1>1
    <2>2. parts[c].elevate \in BOOLEAN /\ parts[c].lines \in Seq(LineType)
        BY <2>0 DEF ChunkType
    <2>3. Pending(parts, c) \o parts[c].lines \in Seq(LineType)
        BY <2>1, <2>2
    <2>4. QED  BY <2>2, <2>3 DEF ChunkType
<1>3. hoistRequirements(parts) = [c \in 1..n |-> new(c)]
    BY <1>1 DEF hoistRequirements
<1> HIDE DEF new, n
<1>4. [c \in 1..n |-> new(c)] \in [1..n -> ChunkType]
    BY <1>2
<1>5. QED  BY <1>1, <1>3, <1>4, SeqOfFunction

\* What the entry points split a plan into are chunks of lines.
LEMMA SplitType ==
    ASSUME NEW b \in Seq(Op)
    PROVE  SplitPrivilegeChunks(b) \in Seq(ChunkType) /\ Unsplit(b) \in Seq(ChunkType)
<1>1. SplitPrivilegeChunks(b) \in Seq(ChunkType)
    <2>1. CASE b = <<>>
        <3>1. [elevate |-> FALSE, lines |-> <<>>] \in ChunkType
            BY DEF ChunkType
        <3>2. QED  BY <2>1, <3>1 DEF SplitPrivilegeChunks
    <2>2. CASE b # <<>>
        BY <2>2, PartsType, HoistType DEF SplitPrivilegeChunks
    <2>3. QED  BY <2>1, <2>2
<1>2. Unsplit(b) \in Seq(ChunkType)
    <2> DEFINE n == Len(b)
               ls == [i \in DOMAIN b |-> Line(b, i)]
    <2>1. n \in Nat /\ ls \in [1..n -> LineType]
        BY DEF Line, LineType
    <2>2. Unsplit(b) = <<[elevate |-> FALSE, lines |-> ls]>>
        BY DEF Unsplit
    <2> HIDE DEF ls
    <2>3. ls \in Seq(LineType)
        BY <2>1, SeqOfFunction
    <2>4. [elevate |-> FALSE, lines |-> ls] \in ChunkType
        BY <2>3 DEF ChunkType
    <2>5. QED  BY <2>2, <2>4
<1>3. QED  BY <1>1, <1>2

(***************************************************************************)
(* Reachability                                                            *)
(***************************************************************************)
Closed(C, E) == \A e \in E : e[1] \in C => e[2] \in C

\* What one edge leads to from the set A.
After(A, E) == {e[2] : e \in {e \in E : e[1] \in A}}

\* Reaches follows n steps.
LEMMA ReachesSteps ==
    ASSUME NEW n \in Nat, NEW E \in SUBSET ((1..n) \X (1..n)), NEW from \in 1..n
    PROVE  \E s \in [0..n -> SUBSET (1..n)] :
              /\ s[0] = {from}
              /\ \A i \in 1..n : s[i] = s[i - 1] \cup After(s[i - 1], E)
              /\ \A to : Reaches(E, from, to, n) <=> to \in s[n]
<1> DEFINE X == SUBSET (1..n)
           grow == [i \in 1..n |-> [A \in X |-> A \cup After(A, E)]]
           eqn(s) == [i \in 0..n |-> IF i = 0 THEN {from}
                                     ELSE s[i - 1] \cup {e[2] : e \in {e \in E : e[1] \in s[i - 1]}}]
           t == CHOOSE t : t = eqn(t)
<1>1. grow \in [1..n -> [X -> X]] /\ {from} \in X
    BY DEF After
<1>2. PICK g \in [0..n -> X] : Recurs(g, n, {from}, grow)
    <2> DEFINE x0 == {from}
    <2>1. x0 \in X
        BY <1>1
    <2> HIDE DEF X, grow, x0
    <2>2. \E g \in [0..n -> X] : Recurs(g, n, x0, grow)
        BY <1>1, <2>1, RecursionExists
    <2>3. QED  BY <2>2 DEF x0
<1>3. g[0] = {from} /\ \A i \in 1..n : g[i] = g[i - 1] \cup After(g[i - 1], E)
    <2>1. ASSUME NEW i \in 1..n PROVE g[i - 1] \in X /\ g[i] = grow[i][g[i - 1]]
        <3> HIDE DEF grow, X
        <3>1. i - 1 \in 0..n
            OBVIOUS
        <3>2. QED  BY <1>2, <3>1 DEF Recurs
    <2>2. QED  BY <1>2, <2>1 DEF Recurs
<1>4. g = eqn(g)
    BY <1>3 DEF After
<1>5. t = eqn(t)
    <2> HIDE DEF eqn
    <2>1. QED  BY <1>4
<1>6. \A to : Reaches(E, from, to, n) <=> to \in t[n]
    BY DEF Reaches
<1> HIDE DEF t
<1>7. t[0] = {from} /\ \A i \in 1..n : t[i] = t[i - 1] \cup After(t[i - 1], E)
    <2>1. \A i \in 0..n : t[i] = IF i = 0 THEN {from} ELSE t[i - 1] \cup After(t[i - 1], E)
        BY <1>5 DEF After
    <2>2. 0 \in 0..n /\ \A i \in 1..n : i \in 0..n /\ i # 0
        OBVIOUS
    <2> HIDE DEF eqn
    <2>3. QED  BY <2>1, <2>2
<1>8. DOMAIN t = 0..n
    BY <1>5
<1> DEFINE S == {i \in 0..n : t[i] \in X}
<1>9. 0..n \subseteq S
    <2>1. 0 \in S
        BY <1>1, <1>7
    <2>2. ASSUME NEW i \in 0..(n - 1), i \in S PROVE i + 1 \in S
        <3>1. i + 1 \in 1..n /\ (i + 1) - 1 = i /\ i + 1 \in 0..n
            OBVIOUS
        <3>2. t[i + 1] = t[i] \cup After(t[i], E)
            BY <1>7, <3>1
        <3>3. QED  BY <2>2, <3>1, <3>2 DEF After
    <2> HIDE DEF S
    <2>3. QED  BY <2>1, <2>2, UpTo
<1>10. t \in [0..n -> X]
    <2>1. \A i \in 0..n : t[i] \in X
        BY <1>9
    <2> HIDE DEF X
    <2>2. t = [i \in 0..n |-> t[i]]
        BY <1>5, <1>8
    <2>3. QED  BY <2>1, <2>2
<1>11. QED  BY <1>6, <1>7, <1>10

\* Reaches is reachability: what it finds from a node is the least set that
\* holds the node and is closed under the edges.
LEMMA ReachesLeast ==
    ASSUME NEW n \in Nat, NEW E \in SUBSET ((1..n) \X (1..n)), NEW from \in 1..n
    PROVE  LET R == {to \in 1..n : Reaches(E, from, to, n)}
           IN  /\ from \in R /\ Closed(R, E)
               /\ \A C : from \in C /\ Closed(C, E) => R \subseteq C
<1>1. PICK s \in [0..n -> SUBSET (1..n)] :
          /\ s[0] = {from}
          /\ \A i \in 1..n : s[i] = s[i - 1] \cup After(s[i - 1], E)
          /\ \A to : Reaches(E, from, to, n) <=> to \in s[n]
    BY ReachesSteps
<1>2. ASSUME NEW i \in 0..(n - 1)
      PROVE  s[i + 1] = s[i] \cup After(s[i], E) /\ s[i] \in SUBSET (1..n) /\ i + 1 \in 0..n
    <2>1. i + 1 \in 1..n /\ (i + 1) - 1 = i /\ i \in 0..n
        OBVIOUS
    <2>2. QED  BY <1>1, <2>1
<1>3. n \in 0..n /\ s[n] \in SUBSET (1..n)
    BY <1>1
<1> DEFINE R == {to \in 1..n : Reaches(E, from, to, n)}
<1>4. R = s[n]
    BY <1>1, <1>3
<1>5. from \in s[n]
    <2> DEFINE S == {i \in 0..n : from \in s[i]}
    <2>1. 0..n \subseteq S
        <3>1. 0 \in S /\ \A i \in 0..(n - 1) : i \in S => i + 1 \in S
            BY <1>1, <1>2
        <3> HIDE DEF S
        <3>2. QED  BY <3>1, UpTo
    <2>2. QED  BY <1>3, <2>1
<1>6. ASSUME NEW C, from \in C, Closed(C, E) PROVE s[n] \subseteq C
    <2> DEFINE S == {i \in 0..n : s[i] \subseteq C}
    <2>1. 0 \in S
        BY <1>1, <1>6
    <2>2. \A i \in 0..(n - 1) : i \in S => i + 1 \in S
        BY <1>2, <1>6 DEF Closed, After
    <2>3. 0..n \subseteq S
        <3> HIDE DEF S
        <3>1. QED  BY <2>1, <2>2, UpTo
    <2>4. QED  BY <1>3, <2>3
<1>7. Closed(s[n], E)
    <2> DEFINE S == {i \in 0..n : Closed(s[i], E) \/ Cardinality(s[i]) > i}
    <2>1. 0 \in S
        <3>1. Cardinality(s[0]) = 1
            BY <1>1, FS_Singleton
        <3>2. QED  BY <3>1
    <2>2. ASSUME NEW i \in 0..(n - 1), i \in S PROVE i + 1 \in S
        <3>1. CASE Closed(s[i], E)
            <4>1. s[i + 1] = s[i]
                BY <1>2, <3>1 DEF Closed, After
            <4>2. QED  BY <1>2, <3>1, <4>1
        <3>2. CASE Cardinality(s[i]) > i /\ ~Closed(s[i], E)
            <4>1. PICK e \in E : e[1] \in s[i] /\ e[2] \notin s[i]
                BY <3>2 DEF Closed
            <4>2. e[2] \in s[i + 1] /\ s[i] \in SUBSET s[i + 1]
                BY <1>2, <4>1 DEF After
            <4>3. IsFiniteSet(s[i + 1])
                <5>1. i + 1 \in 0..n
                    OBVIOUS
                <5>2. s[i + 1] \in SUBSET (1..n) /\ IsFiniteSet(1..n)
                    BY <1>1, <5>1, FS_Interval
                <5>3. QED  BY <5>2, FS_Subset
            <4>4. /\ Cardinality(s[i]) <= Cardinality(s[i + 1])
                  /\ Cardinality(s[i]) # Cardinality(s[i + 1])
                  /\ Cardinality(s[i]) \in Nat /\ Cardinality(s[i + 1]) \in Nat
                BY <4>1, <4>2, <4>3, FS_Subset, FS_CardinalityType
            <4>5. QED  BY <1>2, <3>2, <4>4
        <3>3. QED  BY <2>2, <3>1, <3>2
    <2>3. 0..n \subseteq S
        <3> HIDE DEF S
        <3>1. QED  BY <2>1, <2>2, UpTo
    <2>4. Cardinality(s[n]) <= n
        <3>1. IsFiniteSet(1..n) /\ Cardinality(1..n) = n
            BY FS_Interval
        <3>2. QED  BY <1>3, <3>1, FS_Subset
    <2>5. IsFiniteSet(s[n]) /\ Cardinality(s[n]) \in Nat
        <3>1. IsFiniteSet(1..n)
            BY FS_Interval
        <3>2. QED  BY <1>3, <3>1, FS_Subset, FS_CardinalityType
    <2>6. n \in S
        BY <1>3, <2>3
    <2>7. QED  BY <2>4, <2>5, <2>6
<1>8. QED  BY <1>4, <1>5, <1>6, <1>7

\* The vertices of 1..n that v reaches.
From(E, v, n) == {to \in 1..n : Reaches(E, v, to, n)}

\* From is the least closed set, restated from ReachesLeast.
LEMMA FromLeast ==
    ASSUME NEW n \in Nat, NEW E \in SUBSET ((1..n) \X (1..n)), NEW v \in 1..n
    PROVE  /\ v \in From(E, v, n) /\ Closed(From(E, v, n), E)
           /\ \A C : v \in C /\ Closed(C, E) => From(E, v, n) \subseteq C
BY ReachesLeast DEF From

\* More edges reach more.
LEMMA FromGrows ==
    ASSUME NEW n \in Nat, NEW F \in SUBSET ((1..n) \X (1..n)), NEW E \in SUBSET F, NEW v \in 1..n
    PROVE  From(E, v, n) \subseteq From(F, v, n)
<1>1. v \in From(F, v, n) /\ Closed(From(F, v, n), E)
    BY FromLeast DEF Closed
<1>2. E \in SUBSET ((1..n) \X (1..n))
    OBVIOUS
<1>3. QED  BY <1>1, <1>2, FromLeast

\* Edges into i from nodes that i does not reach close no cycle.
LEMMA AddEdges ==
    ASSUME NEW n \in Nat, NEW E \in SUBSET ((1..n) \X (1..n)), Acyclic(E, n),
           NEW i \in 1..n, NEW D \in SUBSET (1..n), \A d \in D : ~Reaches(E, i, d, n)
    PROVE  Acyclic(E \cup (D \X {i}), n)
<1> DEFINE F == E \cup (D \X {i})
<1>1. F \in SUBSET ((1..n) \X (1..n))
    OBVIOUS
<1> SUFFICES ASSUME NEW f \in F, f[1] \in From(F, f[2], n) PROVE FALSE
    <2>1. ASSUME NEW f \in F, Reaches(F, f[2], f[1], n) PROVE f[1] \in From(F, f[2], n)
        BY <1>1, <2>1 DEF From
    <2>2. QED  BY <2>1 DEF Acyclic
<1> DEFINE v == f[2]
           C == From(E, v, n)
           I == From(E, i, n)
<1>2. v \in 1..n /\ f[1] \in 1..n
    BY <1>1
<1>3. v \in C /\ Closed(C, E) /\ i \in I /\ Closed(I, E)
    BY <1>2, FromLeast
<1>4. \A d \in D : d \notin I
    BY DEF From
<1>5. \A B : v \in B /\ Closed(B, F) => f[1] \in B
    BY <1>1, <1>2, FromLeast
<1>6. \A e \in F : e \in E \/ (e[1] \in D /\ e[2] = i)
    OBVIOUS
<1> HIDE DEF F, C, I, v
<1>7. CASE v = i
    <2>1. Closed(I, F)
        BY <1>3, <1>4, <1>6 DEF Closed
    <2>2. f[1] \in I
        BY <1>3, <1>5, <1>7, <2>1
    <2>3. f \in E
        BY <1>4, <1>6, <2>2
    <2>4. QED  BY <1>2, <1>7, <2>2, <2>3 DEF Acyclic, From, I, v
<1>8. CASE v # i
    <2>1. f \in E
        BY <1>6, <1>8 DEF v
    <2>2. f[1] \notin C
        BY <1>2, <2>1 DEF Acyclic, From, C, v
    <2>3. PICK d \in D : d \in C
        <3>1. SUFFICES ASSUME \A d \in D : d \notin C PROVE FALSE
            OBVIOUS
        <3>2. Closed(C, F)
            BY <1>3, <1>6, <3>1 DEF Closed
        <3>3. QED  BY <1>3, <1>5, <2>2, <3>2
    <2>4. Closed(C \cup I, F)
        BY <1>3, <1>6 DEF Closed
    <2>5. f[1] \in I
        BY <1>3, <1>5, <2>2, <2>4
    <2>6. v \in I
        BY <1>3, <2>1, <2>5 DEF Closed, v
    <2>7. C \subseteq I
        BY <1>2, <1>3, <2>6, FromLeast DEF C
    <2>8. QED  BY <1>4, <2>3, <2>7
<1>9. QED  BY <1>7, <1>8

(***************************************************************************)
(* The inferred edges                                                      *)
(***************************************************************************)
\* The edges tried for op i when A were accepted before.
Accepted(lines, deps, A, i) ==
    {d \in Parents(lines, i) : ~Reaches(deps \cup A, i, d, Len(lines))} \X {i}

\* The parents of an op are lines of its run.
LEMMA ParentsType ==
    ASSUME NEW S, NEW lines \in Seq(S), NEW i
    PROVE  /\ Parents(lines, i) \subseteq 1..Len(lines)
           /\ \A d \in Parents(lines, i) : SameRun(lines, i, d)
<1>1. \A p : nearestProviders(lines, i, p) \subseteq RunOf(lines, i)
    BY DEF nearestProviders
<1>2. Parents(lines, i) \subseteq RunOf(lines, i)
    BY <1>1 DEF Parents
<1>3. DOMAIN lines = 1..Len(lines)
    OBVIOUS
<1>4. QED  BY <1>2, <1>3 DEF RunOf

\* s[i] are the edges InferParentDirDeps has inferred after op i of n.
Infers(s, lines, deps, n) ==
    /\ s[0] = {} /\ s[n] = InferParentDirDeps(lines, deps)
    /\ \A i \in 1..n : s[i] = s[i - 1] \cup Accepted(lines, deps, s[i - 1], i)

\* InferParentDirDeps goes from op to op.
LEMMA InferSteps ==
    ASSUME NEW S, NEW lines \in Seq(S), NEW deps, NEW n, n = Len(lines)
    PROVE  \E s \in [0..n -> SUBSET ((1..n) \X (1..n))] : Infers(s, lines, deps, n)
<1> DEFINE X == SUBSET ((1..n) \X (1..n))
           grow == [i \in 1..n |-> [A \in X |-> A \cup Accepted(lines, deps, A, i)]]
           eqn(s) == [i \in 0..n |-> IF i = 0 THEN {}
                                     ELSE s[i - 1] \cup
                                          {d \in Parents(lines, i) :
                                             ~Reaches(deps \cup s[i - 1], i, d, Len(lines))} \X {i}]
           t == CHOOSE t : t = eqn(t)
<1>1. n \in Nat
    OBVIOUS
<1>2. \A A \in X : \A i \in 1..n : A \cup Accepted(lines, deps, A, i) \in X
    <2> SUFFICES ASSUME NEW A \in X, NEW i \in 1..n
                 PROVE  A \cup Accepted(lines, deps, A, i) \in X
        OBVIOUS
    <2>1. Parents(lines, i) \subseteq 1..n
        BY ParentsType
    <2>2. QED  BY <2>1 DEF Accepted
<1>3. grow \in [1..n -> [X -> X]]
    <2> HIDE DEF X
    <2>1. QED  BY <1>2
<1>4. PICK g \in [0..n -> X] : Recurs(g, n, {}, grow)
    <2> DEFINE x0 == {}
    <2>1. x0 \in X
        OBVIOUS
    <2> HIDE DEF X, grow, x0
    <2>2. \E g \in [0..n -> X] : Recurs(g, n, x0, grow)
        BY <1>1, <1>3, <2>1, RecursionExists
    <2>3. QED  BY <2>2 DEF x0
<1>5. g[0] = {} /\ \A i \in 1..n : g[i] = g[i - 1] \cup Accepted(lines, deps, g[i - 1], i)
    <2>1. ASSUME NEW i \in 1..n PROVE g[i - 1] \in X /\ g[i] = grow[i][g[i - 1]]
        <3> HIDE DEF grow, X
        <3>1. i - 1 \in 0..n
            BY <1>1
        <3>2. QED  BY <1>4, <3>1 DEF Recurs
    <2> HIDE DEF X
    <2>2. QED  BY <1>4, <2>1 DEF Recurs
<1>6. g = eqn(g)
    <2> DEFINE val(i) == IF i = 0 THEN {} ELSE g[i - 1] \cup Accepted(lines, deps, g[i - 1], i)
    <2>1. eqn(g) = [i \in 0..n |-> val(i)]
        BY DEF Accepted
    <2>2. \A i \in 0..n : g[i] = val(i)
        <3> TAKE i \in 0..n
        <3>1. CASE i = 0
            BY <1>5, <3>1
        <3>2. CASE i # 0
            <4>1. i \in 1..n
                BY <1>1, <3>2
            <4>2. QED  BY <1>5, <3>2, <4>1
        <3>3. QED  BY <3>1, <3>2
    <2> HIDE DEF X, eqn, val
    <2>3. g = [i \in 0..n |-> g[i]]
        BY <1>4
    <2>4. QED  BY <2>1, <2>2, <2>3
<1>7. t = eqn(t)
    <2> HIDE DEF eqn
    <2>1. QED  BY <1>6
<1>8. t[n] = InferParentDirDeps(lines, deps)
    BY DEF InferParentDirDeps
<1> HIDE DEF t
<1>9. t[0] = {} /\ \A i \in 1..n : t[i] = t[i - 1] \cup Accepted(lines, deps, t[i - 1], i)
    <2>1. \A i \in 0..n : t[i] = IF i = 0 THEN {} ELSE t[i - 1] \cup Accepted(lines, deps, t[i - 1], i)
        BY <1>7 DEF Accepted
    <2>2. 0 \in 0..n /\ \A i \in 1..n : i \in 0..n /\ i # 0
        BY <1>1
    <2> HIDE DEF eqn
    <2>3. QED  BY <2>1, <2>2
<1>10. \A i \in 0..n : t[i] \in X
    <2> DEFINE T == {i \in 0..n : t[i] \in X}
    <2>1. 0 \in T
        BY <1>1, <1>9
    <2>2. ASSUME NEW i \in 0..(n - 1), i \in T PROVE i + 1 \in T
        <3>1. i + 1 \in 1..n /\ (i + 1) - 1 = i /\ i + 1 \in 0..n
            BY <1>1
        <3>2. t[i + 1] = t[i] \cup Accepted(lines, deps, t[i], i + 1)
            BY <1>9, <3>1
        <3>3. t[i] \in X
            BY <2>2
        <3> HIDE DEF X
        <3>4. t[i + 1] \in X
            BY <1>2, <3>1, <3>2, <3>3
        <3>5. QED  BY <3>1, <3>4
    <2>3. 0..n \subseteq T
        <3> HIDE DEF T
        <3>1. QED  BY <1>1, <2>1, <2>2, UpTo
    <2>4. QED  BY <2>3
<1>11. t \in [0..n -> X]
    <2>1. t = [i \in 0..n |-> t[i]]
        BY <1>7
    <2> HIDE DEF X
    <2>2. QED  BY <1>10, <2>1
<1>12. QED  BY <1>8, <1>9, <1>11 DEF Infers

\* The inferred edges are parent edges, leave a graph without cycles without
\* cycles, and are all the parent edges if those contradict nothing.
LEMMA InferredEdges ==
    ASSUME NEW S, NEW lines \in Seq(S),
           NEW deps \in SUBSET ((1..Len(lines)) \X (1..Len(lines)))
    PROVE  LET n == Len(lines)
               E == InferParentDirDeps(lines, deps)
           IN  /\ E \subseteq ParentEdges(lines)
               /\ E \in SUBSET ((1..n) \X (1..n))
               /\ Acyclic(deps, n) => Acyclic(deps \cup E, n)
               /\ Acyclic(deps \cup ParentEdges(lines), n) => ParentEdges(lines) \subseteq E
<1> DEFINE n == Len(lines)
           N == 1..n
           H == ParentEdges(lines)
           E == InferParentDirDeps(lines, deps)
<1>0. PICK s \in [0..n -> SUBSET (N \X N)] : Infers(s, lines, deps, n)
    <2> HIDE DEF n
    <2>1. n = Len(lines)
        BY DEF n
    <2>2. QED  BY <2>1, InferSteps
<1>1. /\ s[0] = {} /\ s[n] = E
      /\ \A i \in 1..n : s[i] = s[i - 1] \cup Accepted(lines, deps, s[i - 1], i)
    BY <1>0 DEF Infers
<1>2. n \in Nat /\ n \in 0..n /\ DOMAIN lines = N
    OBVIOUS
<1>3. H \subseteq N \X N
    BY <1>2, ParentsType DEF ParentEdges
<1>4. ASSUME NEW i \in 0..(n - 1)
      PROVE  /\ i + 1 \in N /\ i + 1 \in 0..n /\ s[i] \in SUBSET (N \X N)
             /\ s[i + 1] = s[i] \cup Accepted(lines, deps, s[i], i + 1)
    <2>1. i + 1 \in 1..n /\ (i + 1) - 1 = i /\ i \in 0..n
        BY <1>2
    <2>2. QED  BY <1>0, <1>1, <2>1
<1>5. 0 \in 0..n
    BY <1>2
<1> HIDE DEF n, E
<1>6. E \subseteq H
    <2> DEFINE T == {i \in 0..n : s[i] \subseteq H}
    <2>1. 0 \in T
        BY <1>1, <1>5
    <2>2. ASSUME NEW i \in 0..(n - 1), i \in T PROVE i + 1 \in T
        <3>1. Accepted(lines, deps, s[i], i + 1) \subseteq H
            BY <1>2, <1>4 DEF Accepted, ParentEdges
        <3> HIDE DEF H
        <3>2. QED  BY <1>4, <2>2, <3>1
    <2>3. 0..n \subseteq T
        <3> HIDE DEF T
        <3>1. QED  BY <1>2, <2>1, <2>2, UpTo
    <2>4. QED  BY <1>1, <1>2, <2>3
<1>7. ASSUME Acyclic(deps, n) PROVE Acyclic(deps \cup E, n)
    <2> DEFINE T == {i \in 0..n : Acyclic(deps \cup s[i], n)}
    <2>1. 0 \in T
        <3>1. deps \cup s[0] = deps
            BY <1>1
        <3>2. QED  BY <1>5, <1>7, <3>1
    <2>2. ASSUME NEW i \in 0..(n - 1), i \in T PROVE i + 1 \in T
        <3> DEFINE D == {d \in Parents(lines, i + 1) : ~Reaches(deps \cup s[i], i + 1, d, n)}
        <3>1. deps \cup s[i + 1] = (deps \cup s[i]) \cup (D \X {i + 1})
            BY <1>4 DEF Accepted, n
        <3>2. D \in SUBSET (1..n) /\ \A d \in D : ~Reaches(deps \cup s[i], i + 1, d, n)
            BY ParentsType DEF n
        <3>3. deps \cup s[i] \in SUBSET ((1..n) \X (1..n)) /\ i + 1 \in 1..n
            BY <1>4 DEF n
        <3>4. Acyclic(deps \cup s[i], n)
            BY <2>2
        <3> HIDE DEF D
        <3>5. Acyclic((deps \cup s[i]) \cup (D \X {i + 1}), n)
            BY <1>2, <3>2, <3>3, <3>4, AddEdges
        <3>6. QED  BY <1>4, <3>1, <3>5
    <2>3. 0..n \subseteq T
        <3> HIDE DEF T
        <3>1. QED  BY <1>2, <2>1, <2>2, UpTo
    <2>4. QED  BY <1>1, <1>2, <2>3
<1>8. ASSUME Acyclic(deps \cup H, n), NEW e \in H PROVE e \in E
    <2>0. PICK i \in 1..n : e \in Parents(lines, i) \X {i}
        BY <1>2, <1>8 DEF ParentEdges
    <2>1. PICK d \in Parents(lines, i) : e = <<d, i>>
        BY <2>0
    <2>2. i - 1 \in 0..(n - 1) /\ i - 1 \in 0..n /\ i \in 0..n /\ (i - 1) + 1 = i
        BY <1>2
    <2>3. \A j \in 0..n : s[j] \subseteq E
        <3> SUFFICES ASSUME NEW j \in 0..n PROVE s[j] \subseteq s[n]
            BY <1>1
        <3> DEFINE T == {m \in 0..n : m >= j => s[j] \subseteq s[m]}
        <3>1. 0 \in T
            BY <1>2, <1>5
        <3>2. ASSUME NEW m \in 0..(n - 1), m \in T PROVE m + 1 \in T
            <4>1. CASE m >= j
                BY <1>4, <3>2, <4>1
            <4>2. CASE ~(m >= j)
                <5>1. m + 1 >= j => m + 1 = j
                    BY <1>2, <4>2
                <5>2. QED  BY <1>4, <5>1
            <4>3. QED  BY <4>1, <4>2
        <3>3. 0..n \subseteq T
            <4> HIDE DEF T
            <4>1. QED  BY <1>2, <3>1, <3>2, UpTo
        <3>4. n >= j
            BY <1>2
        <3>5. QED  BY <1>2, <3>3, <3>4
    <2>4. ~Reaches(deps \cup s[i - 1], i, d, n)
        <3>1. SUFFICES ASSUME Reaches(deps \cup s[i - 1], i, d, n) PROVE FALSE
            OBVIOUS
        <3>2. d \in N
            BY <1>3, <1>8, <2>1
        <3>3. d \in From(deps \cup s[i - 1], i, n)
            BY <3>1, <3>2 DEF From
        <3>4. /\ deps \cup s[i - 1] \in SUBSET (deps \cup H)
              /\ deps \cup H \in SUBSET ((1..n) \X (1..n))
            BY <1>3, <1>6, <2>2, <2>3 DEF n
        <3> HIDE DEF H
        <3>5. d \in From(deps \cup H, i, n)
            BY <1>2, <3>3, <3>4, FromGrows
        <3>6. Reaches(deps \cup H, i, d, n)
            BY <3>5 DEF From
        <3>7. e \in deps \cup H /\ e[1] = d /\ e[2] = i
            BY <1>8, <2>1
        <3>8. QED  BY <1>8, <3>6, <3>7 DEF Acyclic
    <2>5. e \in s[i]
        <3>1. s[i] = s[i - 1] \cup Accepted(lines, deps, s[i - 1], i)
            BY <1>4, <2>2
        <3>2. QED  BY <2>1, <2>4, <3>1 DEF Accepted, n
    <2>6. QED  BY <2>2, <2>3, <2>5
<1>9. E \in SUBSET (N \X N)
    BY <1>3, <1>6
<1>10. QED  BY <1>6, <1>7, <1>8, <1>9 DEF n, E

(***************************************************************************)
(* Cycles                                                                  *)
(***************************************************************************)
\* If every member of a nonempty set of nodes has an edge from a member, the
\* edges have a cycle: against the edges, what a member reaches would grow
\* forever.
LEMMA CycleExists ==
    ASSUME NEW n \in Nat, NEW E \in SUBSET ((1..n) \X (1..n)),
           NEW S \in SUBSET (1..n), S # {}, \A i \in S : \E j \in S : <<j, i>> \in E
    PROVE  ~Acyclic(E, n)
<1> SUFFICES ASSUME Acyclic(E, n) PROVE FALSE
    OBVIOUS
<1> DEFINE R(i) == From(E, i, n)
<1>1. ASSUME NEW i \in S PROVE IsFiniteSet(R(i)) /\ Cardinality(R(i)) \in Nat /\ Cardinality(R(i)) <= n
    <2>1. IsFiniteSet(1..n) /\ Cardinality(1..n) = n /\ R(i) \in SUBSET (1..n)
        BY FS_Interval DEF From
    <2> HIDE DEF R
    <2>2. QED  BY <2>1, FS_Subset, FS_CardinalityType
<1>2. ASSUME NEW i \in S, NEW j \in S, <<j, i>> \in E
      PROVE  Cardinality(R(j)) > Cardinality(R(i))
    <2>1. i \in 1..n /\ j \in 1..n
        OBVIOUS
    <2>2. j \in R(j) /\ Closed(R(j), E)
        BY <2>1, FromLeast
    <2>3. i \in R(j)
        BY <1>2, <2>2 DEF Closed
    <2>4. R(i) \subseteq R(j)
        BY <2>1, <2>2, <2>3, FromLeast
    <2>5. j \notin R(i)
        BY <1>2 DEF Acyclic, From
    <2> HIDE DEF R
    <2>6. R(i) \in SUBSET R(j) /\ R(i) # R(j)
        BY <2>2, <2>4, <2>5
    <2>7. Cardinality(R(i)) <= Cardinality(R(j)) /\ Cardinality(R(i)) # Cardinality(R(j))
        BY <1>1, <2>6, FS_Subset
    <2>8. QED  BY <1>1, <2>7
<1> DEFINE T == {m \in 0..(n + 1) : \E i \in S : Cardinality(R(i)) >= m}
<1> HIDE DEF R
<1>3. 0 \in T
    <2>1. PICK i \in S : i \in S
        OBVIOUS
    <2>2. Cardinality(R(i)) >= 0 /\ 0 \in 0..(n + 1)
        BY <1>1
    <2>3. QED  BY <2>2
<1>4. ASSUME NEW m \in 0..((n + 1) - 1), m \in T PROVE m + 1 \in T
    <2>1. PICK i \in S : Cardinality(R(i)) >= m
        BY <1>4
    <2>2. PICK j \in S : <<j, i>> \in E
        OBVIOUS
    <2>3. Cardinality(R(j)) >= m + 1
        BY <1>1, <1>2, <2>1, <2>2
    <2>4. QED  BY <2>3
<1>5. n + 1 \in T
    <2>1. 0..(n + 1) \subseteq T
        <3> HIDE DEF T
        <3>1. n + 1 \in Nat
            OBVIOUS
        <3>2. QED  BY <1>3, <1>4, <3>1, UpTo
    <2>2. n + 1 \in 0..(n + 1)
        OBVIOUS
    <2>3. QED  BY <2>1, <2>2
<1>6. PICK i \in S : Cardinality(R(i)) >= n + 1
    BY <1>5
<1>7. QED  BY <1>1, <1>6

(***************************************************************************)
(* A sort that is stuck                                                    *)
(***************************************************************************)
\* The lines of a run are each other's run.
LEMMA SameRunTrans ==
    ASSUME NEW lines, NEW i \in Nat, NEW j \in Nat, NEW m \in Nat,
           SameRun(lines, i, j), SameRun(lines, j, m)
    PROVE  SameRun(lines, i, m) /\ SameRun(lines, j, i)
<1>1. \A x \in Nat : x \in i..m \cup m..i => x \in i..j \cup j..i \/ x \in j..m \cup m..j
    OBVIOUS
<1>2. \A x \in Nat : x \in j..i \cup i..j <=> x \in i..j \cup j..i
    OBVIOUS
<1>3. \A x \in i..m \cup m..i : x \in Nat
    OBVIOUS
<1>4. \A x \in j..i \cup i..j : x \in Nat
    OBVIOUS
<1>5. QED  BY <1>1, <1>2, <1>3, <1>4 DEF SameRun

\* The edges of a chunk connect lines of one run.
LEMMA EdgesInRun ==
    ASSUME NEW lines \in Seq(LineType)
    PROVE  LET n == Len(lines)
           IN  /\ DepEdges(lines) \in SUBSET ((1..n) \X (1..n))
               /\ ParentEdges(lines) \in SUBSET ((1..n) \X (1..n))
               /\ \A e \in DepEdges(lines) \cup ParentEdges(lines) : SameRun(lines, e[1], e[2])
<1> DEFINE n == Len(lines)
<1>1. n \in Nat /\ DOMAIN lines = 1..n
    OBVIOUS
<1>2. DepEdges(lines) \in SUBSET ((1..n) \X (1..n))
      /\ \A e \in DepEdges(lines) : SameRun(lines, e[1], e[2])
    BY <1>1 DEF DepEdges
<1>3. ASSUME NEW e \in ParentEdges(lines)
      PROVE  e \in (1..n) \X (1..n) /\ SameRun(lines, e[1], e[2])
    <2>1. PICK i \in 1..n : e \in Parents(lines, i) \X {i}
        BY <1>1 DEF ParentEdges
    <2>2. PICK d \in Parents(lines, i) : e = <<d, i>>
        BY <2>1
    <2>3. d \in 1..n /\ SameRun(lines, i, d)
        BY ParentsType
    <2>4. SameRun(lines, d, i)
        BY <1>1, <2>3 DEF SameRun
    <2>5. QED  BY <2>2, <2>3, <2>4
<1>4. QED  BY <1>2, <1>3

\* When no unplaced line is ready, the declared dependencies are circular:
\* neither control lines nor the inferred directories can block the sort.
LEMMA StuckIsCircular ==
    ASSUME NEW lines \in Seq(LineType), NEW placed,
           NEW deps, deps = DepEdges(lines),
           NEW p, p = Preds(lines, deps \cup InferParentDirDeps(lines, deps)),
           DOMAIN p \ placed # {},
           \A i \in DOMAIN p \ placed : ~(p[i] \subseteq placed)
    PROVE  ~Acyclic(deps, Len(lines))
<1> DEFINE n == Len(lines)
           E == deps \cup InferParentDirDeps(lines, deps)
           U == (1..n) \ placed
<1>1. n \in Nat /\ DOMAIN lines = 1..n
    OBVIOUS
<1>2. deps \in SUBSET ((1..n) \X (1..n))
    BY EdgesInRun
<1>3. /\ E \in SUBSET ((1..n) \X (1..n))
      /\ \A e \in E : SameRun(lines, e[1], e[2])
      /\ Acyclic(deps, n) => Acyclic(E, n)
    <2>1. /\ InferParentDirDeps(lines, deps) \subseteq ParentEdges(lines)
          /\ InferParentDirDeps(lines, deps) \in SUBSET ((1..n) \X (1..n))
          /\ Acyclic(deps, n) => Acyclic(E, n)
        BY <1>2, InferredEdges
    <2>2. \A e \in deps \cup ParentEdges(lines) : SameRun(lines, e[1], e[2])
        BY EdgesInRun
    <2>3. QED  BY <1>2, <2>1, <2>2
<1>4. DOMAIN p = 1..n /\ \A i, j \in 1..n : j \in p[i] <=> Barrier(lines, i, j) \/ <<j, i>> \in E
    BY <1>1 DEF Preds
<1>5. \A i \in 1..n : p[i] \subseteq 1..n
    BY <1>1 DEF Preds
<1> HIDE DEF n, E
<1>6. PICK i0 \in U : \A j \in U : i0 <= j
    <2>1. U \subseteq Nat
        BY <1>1
    <2>2. U # {}
        BY <1>4
    <2> HIDE DEF U
    <2>3. QED  BY <2>1, <2>2, LeastExists
<1>7. ASSUME NEW i \in U PROVE \E j \in U : Barrier(lines, i, j) \/ <<j, i>> \in E
    BY <1>4, <1>5
<1> DEFINE S == {i \in U : SameRun(lines, i0, i)}
<1>8. PICK j0 \in U : <<j0, i0>> \in E
    <2>1. PICK j \in U : Barrier(lines, i0, j) \/ <<j, i0>> \in E
        BY <1>7
    <2>2. i0 <= j /\ i0 \in Nat /\ j \in Nat
        BY <1>1, <1>6
    <2>3. ~(j < i0)
        BY <2>2
    <2>4. QED  BY <2>1, <2>3 DEF Barrier
<1>9. SameRun(lines, j0, i0) /\ i0 \in Nat /\ j0 \in Nat
    BY <1>1, <1>3, <1>6, <1>8
<1>10. j0 \in S
    BY <1>8, <1>9 DEF SameRun
<1>11. ASSUME NEW i \in S PROVE \E j \in S : <<j, i>> \in E
    <2>1. PICK j \in U : Barrier(lines, i, j) \/ <<j, i>> \in E
        BY <1>7
    <2>2. i \in Nat /\ j \in Nat /\ i0 \in Nat /\ i0 <= j
        BY <1>1, <1>6
    <2>3. ~Barrier(lines, i, j)
        <3>1. SUFFICES ASSUME j < i, ~SameRun(lines, j, i) PROVE FALSE
            BY DEF Barrier
        <3>2. \A x : x \in j..i \cup i..j => x \in i0..i \cup i..i0
            BY <2>2, <3>1
        <3>3. QED  BY <3>1, <3>2 DEF SameRun
    <2>4. <<j, i>> \in E
        BY <2>1, <2>3
    <2>5. SameRun(lines, j, i)
        BY <1>3, <2>4
    <2>6. SameRun(lines, i, j)
        BY <2>2, <2>5 DEF SameRun
    <2>7. SameRun(lines, i0, j)
        BY <2>2, <2>6, SameRunTrans
    <2>8. QED  BY <2>4, <2>7
<1>12. ~Acyclic(E, n)
    <2>1. S \in SUBSET (1..n) /\ S # {}
        BY <1>10
    <2> HIDE DEF S, U
    <2>2. QED  BY <1>1, <1>3, <1>11, <2>1, CycleExists
<1>13. QED  BY <1>3, <1>12 DEF n

(***************************************************************************)
(* The order within a run                                                  *)
(***************************************************************************)
\* The sort knows all edges of the chunk and places no line twice; what was
\* passed of the chunk is a beginning of the order.
RunInv ==
    /\ chunks \in Seq(ChunkType)
    /\ phase # "done" => outcome = "none"
    /\ phase \in {"sort", "require", "body"} =>
         /\ preds = Preds(Lines, DepEdges(Lines) \cup InferParentDirDeps(Lines, DepEdges(Lines)))
         /\ \A m1, m2 \in DOMAIN order : order[m1] = order[m2] => m1 = m2
    /\ phase = "body" => \A n \in DOMAIN log :
         log[n].chunk = k => \E m \in 1..(at - 1) : log[n].line = order[m]
    /\ WatchedFirst
    /\ outcome = "circular" => ~Acyclic(DepEdges(Lines), Len(Lines))

\* A chunk begun has typed lines.
LEMMA LinesType ==
    ASSUME chunks \in Seq(ChunkType), k \in DOMAIN chunks
    PROVE  Lines \in Seq(LineType)
<1>1. chunks[k] \in ChunkType
    OBVIOUS
<1>2. QED  BY <1>1 DEF Lines, ChunkType

\* Nothing that RunInv is about changes, or the apply returns.
LEMMA RunKept ==
    ASSUME RunInv, UNCHANGED <<chunks, k, log>>,
           \/ UNCHANGED <<phase, preds, order, at, outcome>>
           \/ phase' = "done" /\ outcome' # "circular"
    PROVE  RunInv'
<1>1. WatchedFirst'
    BY DEF RunInv, WatchedFirst, OpOf
<1>2. Lines' = Lines
    BY DEF Lines
<1>3. QED  BY <1>1, <1>2 DEF RunInv

\* The chunks are those of the split or the whole body.
LEMMA BeginRun ==
    ASSUME Inv, RunInv, body \in Seq(Op), Begin
    PROVE  RunInv'
<1>1. log' = <<>> /\ phase = "start" /\ outcome = "none" /\ DOMAIN log' = {}
    BY DEF Begin, ApplyChunks, ApplyPlan, Inv, LogInv, RunInv, world
<1>2. WatchedFirst'
    BY <1>1 DEF WatchedFirst
<1>3. CASE phase' = "next"
    <2>1. chunks' \in Seq(ChunkType)
        BY <1>3, SplitType DEF Begin, ApplyChunks, ApplyPlan, Return
    <2>2. outcome' = "none"
        BY <1>1, <1>3 DEF Begin, ApplyChunks, ApplyPlan, Return
    <2>3. QED  BY <1>2, <1>3, <2>1, <2>2 DEF RunInv
<1>4. CASE phase' # "next"
    <2>1. phase' = "done" /\ outcome' = "refused" /\ chunks' = chunks
        BY <1>4 DEF Begin, ApplyChunks, ApplyPlan, Return
    <2>2. QED  BY <1>2, <2>1 DEF RunInv
<1>5. QED  BY <1>3, <1>4

\* The sort starts with all edges of the chunk.
LEMMA StartChunkRun ==
    ASSUME RunInv, StartChunk
    PROVE  RunInv'
<1>1. CASE phase' = "sort"
    <2>1. /\ order' = <<>> /\ outcome' = outcome /\ outcome = "none"
          /\ chunks' = chunks /\ k' = k /\ log' = log
        BY <1>1 DEF StartChunk, Return, RunInv
    <2>2. preds' = Preds(Lines, DepEdges(Lines) \cup InferParentDirDeps(Lines, DepEdges(Lines)))
        BY <1>1 DEF StartChunk, Return
    <2>3. Lines' = Lines /\ WatchedFirst' /\ DOMAIN order' = {}
        <3>1. Lines' = Lines /\ DOMAIN order' = {}
            BY <2>1 DEF Lines
        <3>2. WatchedFirst
            BY DEF RunInv
        <3>3. WatchedFirst'
            BY <2>1, <3>2 DEF WatchedFirst, OpOf
        <3>4. QED  BY <3>1, <3>3
    <2>4. chunks' \in Seq(ChunkType)
        BY <2>1 DEF RunInv
    <2>5. preds' = Preds(Lines', DepEdges(Lines') \cup InferParentDirDeps(Lines', DepEdges(Lines')))
        BY <2>2, <2>3
    <2>6. \A m1, m2 \in DOMAIN order' : order'[m1] = order'[m2] => m1 = m2
        BY <2>3
    <2>7. phase' # "body" /\ outcome' = "none"
        BY <1>1, <2>1
    <2>8. QED  BY <2>3, <2>4, <2>5, <2>6, <2>7 DEF RunInv
<1>2. CASE phase' # "sort"
    BY <1>2, RunKept DEF StartChunk, Return
<1>3. QED  BY <1>1, <1>2

\* What is placed next was not placed before.
LEMMA SortNextRun ==
    ASSUME Inv, RunInv, SortNext
    PROVE  RunInv'
<1>1. PICK i \in Ready : order' = Append(order, i)
    BY DEF SortNext
<1>2. /\ phase = "sort" /\ phase' = "sort"
      /\ chunks' = chunks /\ k' = k /\ preds' = preds /\ log' = log /\ outcome' = outcome
    BY DEF SortNext, inputs, world
<1>3. Lines' = Lines /\ WatchedFirst'
    BY <1>2 DEF RunInv, Lines, WatchedFirst, OpOf
<1>4. order \in Seq(DOMAIN Lines) /\ i \notin Placed /\ i \in DOMAIN Lines
    BY <1>1, <1>2 DEF Inv, SortInv, Ready
<1>5. \A m1, m2 \in DOMAIN order : order[m1] = order[m2] => m1 = m2
    BY <1>2 DEF RunInv
<1>6. \A m \in DOMAIN order : order[m] # i
    BY <1>4 DEF Placed
<1>7. \A m1, m2 \in DOMAIN order' : order'[m1] = order'[m2] => m1 = m2
    <2>1. DOMAIN order' = 1..(Len(order) + 1) /\ DOMAIN order = 1..Len(order) /\ Len(order) \in Nat
        BY <1>1, <1>4
    <2>2. order'[Len(order) + 1] = i /\ \A m \in DOMAIN order : order'[m] = order[m]
        BY <1>1, <1>4
    <2>3. \A m \in DOMAIN order' : m \in DOMAIN order \/ m = Len(order) + 1
        BY <2>1
    <2>4. QED  BY <1>5, <1>6, <2>2, <2>3
<1>8. QED  BY <1>2, <1>3, <1>7 DEF RunInv

\* A sort gives up only if the declared dependencies are circular.
LEMMA SortCircularRun ==
    ASSUME Inv, RunInv, SortCircular
    PROVE  RunInv'
<1>1. /\ phase = "sort" /\ phase' = "done" /\ Ready = {} /\ DOMAIN preds \ Placed # {}
      /\ chunks' = chunks /\ k' = k /\ log' = log
    BY DEF SortCircular, Return, world
<1>2. Lines' = Lines /\ WatchedFirst'
    BY <1>1 DEF RunInv, Lines, WatchedFirst, OpOf
<1>3. Lines \in Seq(LineType)
    BY <1>1, LinesType DEF Inv, SortInv, RunInv
<1>4. preds = Preds(Lines, DepEdges(Lines) \cup InferParentDirDeps(Lines, DepEdges(Lines)))
    BY <1>1 DEF RunInv
<1>5. \A i \in DOMAIN preds \ Placed : ~(preds[i] \subseteq Placed)
    BY <1>1 DEF Ready
<1>6. ~Acyclic(DepEdges(Lines), Len(Lines))
    BY <1>1, <1>3, <1>4, <1>5, StuckIsCircular
<1>7. QED  BY <1>1, <1>2, <1>6 DEF RunInv

\* From the sort over the requirement check to the body.
LEMMA PreparedRun ==
    ASSUME Inv, RunInv, SortEnd \/ checkRequirements
    PROVE  RunInv'
<1>1. CASE phase' = "done"
    BY <1>1, RunKept DEF SortEnd, checkRequirements, Return, world
<1>2. CASE phase' # "done"
    <2>1. /\ phase \in {"sort", "require"} /\ phase' \in {"require", "body"}
          /\ chunks' = chunks /\ k' = k /\ log' = log /\ outcome' = outcome
          /\ preds' = preds /\ order' = order
        BY <1>2 DEF SortEnd, checkRequirements, Return, world, sorting
    <2>2. Lines' = Lines /\ WatchedFirst'
        BY <2>1 DEF RunInv, Lines, WatchedFirst, OpOf
    <2>3. phase' = "body" => \A n \in DOMAIN log : log[n].chunk # k
        <3>1. SUFFICES ASSUME phase' = "body", NEW n \in DOMAIN log PROVE log[n].chunk # k
            OBVIOUS
        <3>2. phase = "require"
            BY <3>1 DEF SortEnd, checkRequirements
        <3>3. k \in Nat /\ log[n].chunk < k /\ log[n].chunk \in 1..k
            BY <3>2 DEF Inv, LogInv
        <3>4. QED  BY <3>3
    <2>4. QED  BY <2>1, <2>2, <2>3 DEF RunInv
<1>3. QED  BY <1>1, <1>2

\* Passing a line: what it waits for comes earlier in the order, so no line
\* passed before waits for it.
LEMMA PassRun ==
    ASSUME Inv, RunInv, InBody, NEW how, NEW noted, Pass(how, noted)
    PROVE  RunInv'
<1> DEFINE e == [line |-> order[at], at |-> Cur.at, id |-> Cur.op.id,
                 chunk |-> k, how |-> how, noted |-> noted,
                 fired |-> how \in {"same", "changed"} /\ ~Held(Cur.op)]
           N == Len(log) + 1
<1>1. /\ phase = "body" /\ phase' = "body" /\ at' = at + 1
      /\ log' = Append(log, e)
      /\ chunks' = chunks /\ k' = k /\ preds' = preds /\ order' = order /\ outcome' = outcome
    BY DEF InBody, Pass, inputs, sorting
<1>2. Lines' = Lines /\ Cur = Lines[order[at]]
    BY <1>1 DEF Lines, Cur
<1>3. /\ Len(log) \in Nat /\ DOMAIN log = 1..Len(log)
      /\ DOMAIN log' = 1..N /\ log'[N] = e
      /\ \A n \in DOMAIN log : log'[n] = log[n]
    BY <1>1, Appended DEF Inv
<1>4. /\ k \in Nat /\ k \in DOMAIN chunks /\ at \in Nat
      /\ order \in Seq(DOMAIN Lines) /\ at \in DOMAIN order
      /\ order[at] \in DOMAIN Lines
    BY CurrentLine
<1>5. e.line = order[at] /\ e.id = Lines[order[at]].op.id /\ e.chunk = k
    BY <1>2
<1> HIDE DEF e
<1>6. \A n \in DOMAIN log' : n \in DOMAIN log \/ n = N
    BY <1>3
<1>7. \A n \in DOMAIN log : log[n].chunk = k => \E m \in 1..(at - 1) : log[n].line = order[m]
    BY <1>1 DEF RunInv
<1>8. ASSUME NEW n \in DOMAIN log', log'[n].chunk = k
      PROVE  \E m \in 1..(at' - 1) : log'[n].line = order[m]
    <2>1. CASE n = N
        BY <1>1, <1>3, <1>4, <1>5, <2>1
    <2>2. CASE n \in DOMAIN log
        <3>1. PICK m \in 1..(at - 1) : log[n].line = order[m]
            BY <1>3, <1>7, <1>8, <2>2
        <3>2. m \in 1..(at' - 1)
            BY <1>1, <1>4, <3>1
        <3>3. QED  BY <1>3, <2>2, <3>1, <3>2
    <2>3. QED  BY <1>6, <2>1, <2>2
<1>9. WatchedFirst'
    <2> SUFFICES ASSUME NEW i \in DOMAIN log', NEW j \in DOMAIN log', i < j,
                        log'[j].chunk = log'[i].chunk,
                        SameRun(chunks[log'[i].chunk].lines, log'[i].line, log'[j].line),
                        log'[j].id \in chunks[log'[i].chunk].lines[log'[i].line].op.watch,
                        log'[j].id \in chunks[log'[i].chunk].lines[log'[i].line].op.deps
                 PROVE  FALSE
        BY <1>1 DEF WatchedFirst, OpOf
    <2>1. i \in DOMAIN log
        BY <1>3
    <2>2. CASE j \in DOMAIN log
        BY <1>3, <2>1, <2>2 DEF RunInv, WatchedFirst, OpOf
    <2>3. CASE j = N
        <3>1. log'[j].chunk = k /\ log'[j].line = order[at] /\ log'[j].id = Lines[order[at]].op.id
            BY <1>3, <1>5, <2>3
        <3>2. log[i].chunk = k /\ log'[i] = log[i]
            BY <1>3, <2>1, <3>1
        <3>3. PICK m \in 1..(at - 1) : log[i].line = order[m]
            BY <1>7, <2>1, <3>2
        <3>4. m \in DOMAIN order /\ m < at /\ order[m] \in DOMAIN Lines
            BY <1>4, <3>3
        <3>5. SameRun(Lines, order[m], order[at]) /\ Lines[order[at]].op.id \in Lines[order[m]].op.deps
            BY <3>1, <3>2, <3>3 DEF Lines
        <3>6. <<order[at], order[m]>> \in DepEdges(Lines)
            BY <1>4, <3>4, <3>5 DEF DepEdges, SameRun
        <3>7. order[at] \in preds[order[m]]
            BY <1>1, <1>4, <3>4, <3>6 DEF Inv, SortInv
        <3>8. PICK m0 \in 1..(m - 1) : order[m0] = order[at]
            BY <1>1, <3>4, <3>7 DEF Inv, SortInv
        <3>9. m0 \in DOMAIN order /\ m0 # at
            BY <1>4, <3>4, <3>8
        <3>10. QED  BY <1>1, <1>4, <3>8, <3>9 DEF RunInv
    <2>4. QED  BY <1>6, <2>2, <2>3
<1>10. QED  BY <1>1, <1>2, <1>8, <1>9 DEF RunInv

\* The next chunk, or the end of an unbalanced one.
LEMMA EndChunkRun ==
    ASSUME RunInv, EndChunk
    PROVE  RunInv'
<1>1. chunks' = chunks /\ log' = log
    BY DEF EndChunk, world
<1>2. WatchedFirst'
    BY <1>1 DEF RunInv, WatchedFirst, OpOf
<1>3. \/ phase' = "next" /\ outcome' = outcome /\ outcome = "none"
      \/ phase' = "done" /\ outcome' = "unbalanced"
    BY DEF EndChunk, Return, RunInv
<1>4. QED  BY <1>1, <1>2, <1>3 DEF RunInv

\* Every step keeps the order of the runs.
LEMMA StepRun ==
    ASSUME Inv, RunInv, body \in Seq(Op), [Next]_vars
    PROVE  RunInv'
<1>1. CASE Begin
    BY <1>1, BeginRun
<1>2. CASE NextChunk
    <2>1. CASE StartChunk
        BY <2>1, StartChunkRun
    <2>2. CASE StartChunkCanceled
        BY <2>2, RunKept DEF StartChunkCanceled, Return, world
    <2>3. CASE ApplyReturns
        BY <2>3, RunKept DEF ApplyReturns, Return, world
    <2>4. QED  BY <1>2, <2>1, <2>2, <2>3 DEF NextChunk
<1>3. CASE Work
    <2>1. CASE SortNext
        BY <2>1, SortNextRun
    <2>2. CASE SortCircular
        BY <2>2, SortCircularRun
    <2>3. CASE SortEnd \/ checkRequirements
        BY <2>3, PreparedRun
    <2>4. CASE checkRequirementsFails
        BY <2>4, RunKept DEF checkRequirementsFails, Return, world
    <2>5. CASE StopBeforeLine
        BY <2>5, RunKept DEF StopBeforeLine, Return, world
    <2>6. CASE WhenBegin
        <3>1. CASE phase' = "done"
            BY <2>6, <3>1, RunKept DEF WhenBegin, Return, Pass, InBody
        <3>2. CASE phase' # "done"
            <4>1. PICK how \in {"on", "off"} : Pass(how, {})
                BY <2>6, <3>2 DEF WhenBegin, Return
            <4>2. QED  BY <2>6, <4>1, PassRun DEF WhenBegin
        <3>3. QED  BY <3>1, <3>2
    <2>7. CASE WhenBeginFails
        BY <2>7, RunKept DEF WhenBeginFails, Return, world
    <2>8. CASE WhenEndLine
        BY <2>8, PassRun DEF WhenEndLine
    <2>9. CASE WhenEndUnmatched
        BY <2>9, RunKept DEF WhenEndUnmatched, Return, world
    <2>10. CASE SkipInactive
        BY <2>10, PassRun DEF SkipInactive
    <2>11. CASE GateIdle
        BY <2>11, PassRun DEF GateIdle
    <2>12. CASE ApplyOp
        <3>1. PICK how \in {"same", "changed"}, noted \in SUBSET Cur.op.notes : Pass(how, noted)
            BY <2>12 DEF ApplyOp
        <3>2. QED  BY <2>12, <3>1, PassRun DEF ApplyOp
    <2>13. CASE ApplyOpFails
        BY <2>13, RunKept DEF ApplyOpFails, Return
    <2>14. CASE EndChunk
        BY <2>14, EndChunkRun
    <2>15. QED
        BY <1>3, <2>1, <2>2, <2>3, <2>4, <2>5, <2>6, <2>7, <2>8, <2>9, <2>10, <2>11,
           <2>12, <2>13, <2>14 DEF Work
<1>4. CASE Environment
    <2>1. CASE Cancel
        BY <2>1, RunKept DEF Cancel, world, sorting
    <2>2. CASE CancelReachesChild
        BY <2>2, RunKept DEF CancelReachesChild, world, sorting
    <2>3. CASE CancelStopsOp
        BY <2>3, RunKept DEF CancelStopsOp, Return
    <2>4. CASE ChildKilled
        BY <2>4, RunKept DEF ChildKilled, Return, world
    <2>5. QED  BY <1>4, <2>1, <2>2, <2>3, <2>4 DEF Environment
<1>5. CASE UNCHANGED vars
    BY <1>5, RunKept DEF vars, sorting, world
<1>6. QED  BY <1>1, <1>2, <1>3, <1>4, <1>5 DEF Next

\* What the order of the runs means for the parent directories.
LEMMA RunImpliesOrder ==
    ASSUME Inv, RunInv
    PROVE  RunOrder
<1>1. ASSUME phase = "body",
             Acyclic(DepEdges(Lines) \cup ParentEdges(Lines), Len(Lines)),
             NEW i \in DOMAIN order, NEW j \in DOMAIN order,
             <<order[i], order[j]>> \in ParentEdges(Lines)
      PROVE  i < j
    <2>1. Lines \in Seq(LineType) /\ order \in Seq(DOMAIN Lines)
        BY <1>1, LinesType DEF Inv, SortInv, RunInv
    <2>2. DepEdges(Lines) \in SUBSET ((1..Len(Lines)) \X (1..Len(Lines)))
        BY <2>1, EdgesInRun
    <2>3. ParentEdges(Lines) \subseteq InferParentDirDeps(Lines, DepEdges(Lines))
        BY <1>1, <2>1, <2>2, InferredEdges
    <2>4. order[i] \in DOMAIN Lines /\ order[j] \in DOMAIN Lines
        BY <2>1
    <2>5. order[i] \in preds[order[j]]
        <3>1. <<order[i], order[j]>> \in InferParentDirDeps(Lines, DepEdges(Lines))
            BY <1>1, <2>3
        <3>2. preds = Preds(Lines, DepEdges(Lines) \cup InferParentDirDeps(Lines, DepEdges(Lines)))
            BY <1>1 DEF RunInv
        <3>3. QED  BY <2>4, <3>1, <3>2 DEF Preds
    <2>6. PICK m \in 1..(j - 1) : order[m] = order[i]
        BY <1>1, <2>5 DEF Inv, SortInv
    <2>7. m \in DOMAIN order /\ m < j
        BY <2>1, <2>6
    <2>8. m = i
        BY <1>1, <2>6, <2>7 DEF RunInv
    <2>9. QED  BY <2>7, <2>8
<1>2. DirsFirst
    BY <1>1 DEF DirsFirst, RunInv
<1>3. QED  BY <1>2 DEF RunOrder, RunInv

\* For every plan, host and failure: no op a gated op watches and depends on
\* comes after it in its run, directories come before what lies in them
\* unless that contradicts the declared dependencies, and only circular
\* declared dependencies make a plan circular (kahnStable,
\* InferParentDirDeps).
THEOREM RunsOrdered == Spec => []RunOrder
<1>1. Init => RunInv
    BY DEF Init, RunInv, WatchedFirst
<1>2. body \in Bodies /\ Inv /\ RunInv /\ [Next]_vars => RunInv'
    BY StepRun, BodiesAssumption
<1>3. Inv /\ RunInv => RunOrder
    BY RunImpliesOrder
<1>4. QED  BY <1>1, <1>2, <1>3, Invariance, PTL DEF Spec

(***************************************************************************)
(* The privilege of a line                                                 *)
(***************************************************************************)
\* A part holds lines of the body, all of its effective privilege.
LEMMA PartsScope ==
    ASSUME NEW b \in Seq(Op), NEW c \in DOMAIN PrivilegeParts(b),
           NEW j \in DOMAIN PrivilegeParts(b)[c].lines
    PROVE  LET l == PrivilegeParts(b)[c].lines[j]
           IN  /\ l.at \in DOMAIN b /\ l.op = b[l.at]
               /\ PrivilegeParts(b)[c].elevate = effectiveElevate(b)[l.at]
<1> DEFINE eff == effectiveElevate(b)
           S == {i \in DOMAIN b : i > 1 => eff[i] # eff[i - 1]}
           starts == Ascending(S)
           stop(d) == IF d = Len(starts) THEN Len(b) ELSE starts[d + 1] - 1
           part(d) == [elevate |-> eff[starts[d]],
                       lines |-> [i \in 1..(stop(d) + 1 - starts[d]) |->
                                     Line(b, starts[d] + i - 1)]]
           n == Cardinality(S)
<1>1. S \subseteq DOMAIN b /\ S \subseteq Int /\ IsFiniteSet(DOMAIN b)
      /\ DOMAIN b = 1..Len(b) /\ Len(b) \in Nat
    BY FS_Interval
<1>2. /\ n \in Nat /\ starts \in [1..n -> S]
      /\ \A x \in S : \E i \in 1..n : starts[i] = x
      /\ \A i, m \in 1..n : i < m => starts[i] < starts[m]
    <2>1. IsFiniteSet(S)
        BY <1>1, FS_Subset
    <2> HIDE DEF S
    <2>2. QED  BY <1>1, <2>1, AscendingLists
<1>3. Len(starts) = n /\ DOMAIN starts = 1..n
    <2> HIDE DEF S, starts, n
    <2>1. QED  BY <1>2, SeqOfFunction
<1>4. \A i \in DOMAIN b : i > 1 /\ eff[i] # eff[i - 1] => i \in S
    OBVIOUS
<1>5. PrivilegeParts(b) = [d \in DOMAIN starts |-> part(d)]
    BY DEF PrivilegeParts
<1> HIDE DEF S, starts, n, eff
<1>6. c \in 1..n /\ PrivilegeParts(b)[c] = part(c)
    BY <1>3, <1>5
<1> DEFINE p == starts[c] + j - 1
<1>7. /\ j \in 1..(stop(c) + 1 - starts[c])
      /\ PrivilegeParts(b)[c].lines[j] = Line(b, p)
      /\ PrivilegeParts(b)[c].elevate = eff[starts[c]]
    BY <1>6
<1>8. starts[c] \in 1..Len(b) /\ stop(c) \in Int /\ stop(c) <= Len(b)
    <2>1. starts[c] \in 1..Len(b)
        BY <1>1, <1>2, <1>6
    <2>2. CASE c = n
        BY <1>1, <1>3, <2>1, <2>2
    <2>3. CASE c # n
        <3>1. c + 1 \in 1..n
            BY <1>2, <1>6, <2>3
        <3>2. starts[c + 1] \in 1..Len(b)
            BY <1>1, <1>2, <3>1
        <3>3. QED  BY <1>1, <1>3, <2>1, <2>3, <3>2
    <2>4. QED  BY <2>2, <2>3
<1>9. p \in 1..Len(b) /\ starts[c] <= p /\ p <= stop(c)
    BY <1>1, <1>7, <1>8
<1>10. eff[p] = eff[starts[c]]
    <2>1. SUFFICES ASSUME eff[p] # eff[starts[c]] PROVE FALSE
        OBVIOUS
    <2> DEFINE T == {i \in starts[c]..p : eff[i] # eff[starts[c]]}
    <2>2. PICK q \in T : \A i \in T : q <= i
        <3>1. T \subseteq Nat /\ T # {}
            BY <1>8, <1>9, <2>1
        <3> HIDE DEF T
        <3>2. QED  BY <3>1, LeastExists
    <2>3. q \in Int /\ starts[c] < q /\ q <= p /\ q \in DOMAIN b /\ q > 1
        <3>1. q \in starts[c]..p /\ q # starts[c]
            BY <2>2
        <3>2. QED  BY <1>1, <1>8, <1>9, <3>1
    <2>4. eff[q - 1] = eff[starts[c]]
        <3>1. q - 1 \in starts[c]..p /\ q - 1 < q
            BY <1>8, <1>9, <2>3
        <3>2. q - 1 \notin T
            BY <2>2, <2>3, <3>1
        <3>3. QED  BY <3>1, <3>2
    <2>5. PICK i \in 1..n : starts[i] = q
        BY <1>2, <1>4, <2>2, <2>3, <2>4
    <2>6. c < i
        <3>1. SUFFICES ASSUME ~(c < i) PROVE FALSE
            OBVIOUS
        <3>2. i = c \/ i < c
            BY <1>2, <1>6, <3>1
        <3>3. i < c => starts[i] < starts[c]
            BY <1>2, <1>6
        <3>4. QED  BY <1>8, <2>3, <2>5, <3>2, <3>3
    <2>7. c + 1 \in 1..n /\ c # n /\ (c + 1 = i \/ c + 1 < i)
        BY <1>2, <1>6, <2>6
    <2>8. starts[c + 1] \in Int /\ stop(c) = starts[c + 1] - 1
        BY <1>1, <1>2, <1>3, <2>7
    <2>9. c + 1 < i => starts[c + 1] < starts[i]
        BY <1>2, <2>7
    <2>10. QED  BY <1>9, <2>3, <2>5, <2>7, <2>8, <2>9
<1>11. QED  BY <1>1, <1>7, <1>9, <1>10 DEF Line, eff

\* A line of a chunk that is one of the plan is applied with its effective
\* privilege.
LEMMA SplitScope ==
    ASSUME NEW b \in Seq(Op), NEW c \in DOMAIN SplitPrivilegeChunks(b),
           NEW i \in DOMAIN SplitPrivilegeChunks(b)[c].lines,
           SplitPrivilegeChunks(b)[c].lines[i].at > 0
    PROVE  LET l == SplitPrivilegeChunks(b)[c].lines[i]
           IN  /\ l.at \in DOMAIN b /\ l.op = b[l.at]
               /\ SplitPrivilegeChunks(b)[c].elevate = effectiveElevate(b)[l.at]
<1>1. CASE b = <<>>
    <2>1. SplitPrivilegeChunks(b) = <<[elevate |-> FALSE, lines |-> <<>>]>>
        BY <1>1 DEF SplitPrivilegeChunks
    <2>2. DOMAIN SplitPrivilegeChunks(b)[c].lines = {}
        BY <2>1
    <2>3. QED  BY <2>2
<1>2. CASE b # <<>>
    <2> DEFINE parts == PrivilegeParts(b)
               new(d) == [elevate |-> parts[d].elevate, lines |-> Pending(parts, d) \o parts[d].lines]
    <2>1. SplitPrivilegeChunks(b) = [d \in DOMAIN parts |-> new(d)]
        BY <1>2 DEF SplitPrivilegeChunks, hoistRequirements
    <2>2. parts \in Seq(ChunkType)
        BY PartsType
    <2> HIDE DEF parts
    <2>3. c \in DOMAIN parts /\ SplitPrivilegeChunks(b)[c] = new(c)
        BY <2>1
    <2>4. parts[c] \in ChunkType
        BY <2>2, <2>3
    <2> DEFINE pend == Pending(parts, c)
               ls == parts[c].lines
    <2>5. pend \in Seq(StubLine) /\ ls \in Seq(LineType)
        BY <2>2, <2>3, <2>4, PendingType DEF ChunkType
    <2>6. SplitPrivilegeChunks(b)[c].lines = pend \o ls /\ i \in DOMAIN (pend \o ls)
        BY <2>3
    <2> HIDE DEF pend, ls
    <2>7. CASE i \in 1..Len(pend)
        <3>1. (pend \o ls)[i] = pend[i] /\ pend[i] \in StubLine
            BY <2>5, <2>6, <2>7
        <3>2. pend[i].at = 0
            BY <3>1 DEF StubLine
        <3>3. QED  BY <2>6, <3>1, <3>2
    <2>8. CASE i \notin 1..Len(pend)
        <3> DEFINE j == i - Len(pend)
        <3>1. j \in DOMAIN ls /\ (pend \o ls)[i] = ls[j]
            BY <2>5, <2>6, <2>8
        <3> HIDE DEF j
        <3>2. ls[j].at \in DOMAIN b /\ ls[j].op = b[ls[j].at]
              /\ parts[c].elevate = effectiveElevate(b)[ls[j].at]
            BY <2>3, <3>1, PartsScope DEF parts, ls
        <3>3. SplitPrivilegeChunks(b)[c].elevate = parts[c].elevate
            BY <2>3
        <3>4. SplitPrivilegeChunks(b)[c].lines[i] = ls[j]
            BY <2>6, <3>1
        <3>5. QED  BY <3>2, <3>3, <3>4
    <2>9. QED  BY <2>7, <2>8
<1>3. QED  BY <1>1, <1>2

\* One more line in the count.
LEMMA CountStep ==
    ASSUME NEW b, NEW x, NEW i \in Nat, NEW j \in Nat, i <= j
    PROVE  /\ Count(b, x, i, j - 1) \in Nat
           /\ Count(b, x, i, j) = Count(b, x, i, j - 1) + IF b[j].kind = x THEN 1 ELSE 0
<1> DEFINE S == {n \in i..(j - 1) : b[n].kind = x}
           T == {n \in i..j : b[n].kind = x}
<1>1. IsFiniteSet(S) /\ Cardinality(S) \in Nat
    <2>1. IsFiniteSet(i..(j - 1)) /\ S \in SUBSET (i..(j - 1))
        BY FS_Interval
    <2> HIDE DEF S
    <2>2. QED  BY <2>1, FS_Subset, FS_CardinalityType
<1>2. \A n : n \in i..j <=> n \in i..(j - 1) \/ n = j
    OBVIOUS
<1>3. j \notin S
    OBVIOUS
<1>4. CASE b[j].kind = x
    <2>1. T = S \cup {j}
        BY <1>2, <1>4
    <2> HIDE DEF S, T
    <2>2. Cardinality(T) = Cardinality(S) + 1
        BY <1>1, <1>3, <2>1, FS_AddElement
    <2>3. QED  BY <1>1, <1>4, <2>2 DEF Count, S, T
<1>5. CASE b[j].kind # x
    <2>1. T = S
        BY <1>2, <1>5
    <2> HIDE DEF S, T
    <2>2. QED  BY <1>1, <1>5, <2>1 DEF Count, S, T
<1>6. QED  BY <1>4, <1>5

\* A block has one end.
LEMMA OneCloser ==
    ASSUME NEW b, NEW s \in Nat, NEW d \in Nat, NEW e \in Nat, Closes(b, s, d), Closes(b, s, e)
    PROVE  ~(d < e)
<1> SUFFICES ASSUME d < e PROVE FALSE
    OBVIOUS
<1>1. s < d /\ b[d].kind = "end" /\ Count(b, "begin", s + 1, d - 1) = Count(b, "end", s + 1, d - 1)
    BY DEF Closes
<1>2. d \in (s + 1)..(e - 1)
    BY <1>1
<1>3. Count(b, "end", s + 1, d) <= Count(b, "begin", s + 1, d)
    BY <1>2 DEF Closes
<1>4. s + 1 \in Nat /\ s + 1 <= d
    BY <1>1
<1>5. Count(b, "end", s + 1, d - 1) \in Nat /\ Count(b, "end", s + 1, d) = Count(b, "end", s + 1, d - 1) + 1
    BY <1>1, <1>4, CountStep
<1>6. Count(b, "begin", s + 1, d) = Count(b, "begin", s + 1, d - 1)
    <2>1. b[d].kind # "begin"
        BY <1>1
    <2>2. /\ Count(b, "begin", s + 1, d - 1) \in Nat
          /\ Count(b, "begin", s + 1, d) = Count(b, "begin", s + 1, d - 1) + 0
        BY <1>4, <2>1, CountStep
    <2>3. QED  BY <2>2
<1>7. QED  BY <1>1, <1>3, <1>5, <1>6

\* An elevated line asks for its privilege, or a block around it holds one
\* that does.
LEMMA ElevatedAsks ==
    ASSUME NEW b \in Seq(Op), NEW p \in DOMAIN b, effectiveElevate(b)[p]
    PROVE  \/ b[p].elevate
           \/ \E s \in OpenAt(b, p) \cup {p}, e \in p..Len(b) :
                 Closes(b, s, e) /\ \E q \in s..e : b[q].elevate
<1>1. p \in Nat /\ Len(b) \in Nat /\ p <= Len(b)
    OBVIOUS
<1>2. CASE ~b[p].elevate
    <2>1. PICK s \in 1..p, e \in p..Len(b) : Closes(b, s, e) /\ \E q \in s..e : b[q].elevate
        BY <1>2 DEF effectiveElevate
    <2>2. s \in OpenAt(b, p) \cup {p}
        <3>1. SUFFICES ASSUME s # p PROVE s \in OpenAt(b, p)
            OBVIOUS
        <3>2. s \in 1..(p - 1) /\ b[s].kind = "begin"
            BY <1>1, <2>1, <3>1 DEF Closes
        <3>3. ASSUME NEW d \in (s + 1)..(p - 1) PROVE ~Closes(b, s, d)
            <4>1. s \in Nat /\ d \in Nat /\ e \in Nat /\ d < e
                BY <1>1, <3>2
            <4>2. QED  BY <2>1, <4>1, OneCloser
        <3>4. QED  BY <3>2, <3>3 DEF OpenAt
    <2>3. QED  BY <2>1, <2>2
<1>3. QED  BY <1>2

\* What ApplyChunks applies is the split of the plan, and the log tells the
\* body positions of the lines.
ScopeInv ==
    /\ entry = "chunks" => chunks = <<>> \/ chunks = SplitPrivilegeChunks(body)
    /\ \A n \in DOMAIN log : log[n].at = chunks[log[n].chunk].lines[log[n].line].at

\* A step passes one line of the current chunk, cuts the plan, or leaves
\* both alone.
LEMMA StepShape ==
    ASSUME [Next]_vars
    PROVE  \/ InBody /\ \E how, noted : Pass(how, noted)
           \/ chunks' = chunks /\ log' = log
           \/ Begin
<1>1. CASE NextChunk
    BY <1>1 DEF NextChunk, StartChunk, StartChunkCanceled, ApplyReturns, Return, world
<1>2. CASE SortNext \/ SortCircular \/ SortEnd \/ checkRequirements \/ checkRequirementsFails
           \/ StopBeforeLine \/ WhenBeginFails \/ WhenEndUnmatched \/ EndChunk
    BY <1>2 DEF SortNext, SortCircular, SortEnd, checkRequirements, checkRequirementsFails,
        StopBeforeLine, WhenBeginFails, WhenEndUnmatched, EndChunk, Return, world
<1>3. CASE WhenBegin
    BY <1>3 DEF WhenBegin, Return
<1>4. CASE WhenEndLine \/ SkipInactive \/ GateIdle
    BY <1>4 DEF WhenEndLine, SkipInactive, GateIdle
<1>5. CASE ApplyOp
    BY <1>5 DEF ApplyOp
<1>6. CASE ApplyOpFails
    BY <1>6 DEF ApplyOpFails, Return
<1>7. CASE Environment
    BY <1>7 DEF Environment, Cancel, CancelReachesChild, CancelStopsOp, ChildKilled, Return, world
<1>8. CASE UNCHANGED vars
    BY <1>8 DEF vars
<1>9. QED  BY <1>1, <1>2, <1>3, <1>4, <1>5, <1>6, <1>7, <1>8 DEF Next, Work

\* Every step keeps ScopeInv.
LEMMA StepScope ==
    ASSUME Inv, ScopeInv, [Next]_vars
    PROVE  ScopeInv'
<1>1. body' = body /\ entry' = entry
    BY InputsFixed
<1>2. CASE chunks' = chunks /\ log' = log
    BY <1>1, <1>2 DEF ScopeInv
<1>3. CASE Begin
    <2>1. log' = <<>> /\ DOMAIN log' = {}
        BY <1>3 DEF Begin, ApplyChunks, ApplyPlan, Inv, LogInv, world
    <2>2. entry = "chunks" => chunks' = chunks \/ chunks' = SplitPrivilegeChunks(body)
        BY <1>3 DEF Begin, ApplyChunks, ApplyPlan
    <2>3. QED  BY <1>1, <2>1, <2>2 DEF ScopeInv
<1>4. ASSUME InBody, NEW how, NEW noted, Pass(how, noted) PROVE ScopeInv'
    <2> DEFINE e == [line |-> order[at], at |-> Cur.at, id |-> Cur.op.id,
                     chunk |-> k, how |-> how, noted |-> noted,
                 fired |-> how \in {"same", "changed"} /\ ~Held(Cur.op)]
               N == Len(log) + 1
    <2>1. chunks' = chunks /\ log' = Append(log, e)
        BY <1>4 DEF Pass
    <2>2. e.at = chunks[e.chunk].lines[e.line].at
        BY DEF Cur, Lines
    <2> HIDE DEF e
    <2>3. DOMAIN log' = 1..N /\ DOMAIN log = 1..Len(log) /\ Len(log) \in Nat
          /\ log'[N] = e /\ \A n \in DOMAIN log : log'[n] = log[n]
        BY <2>1, Appended DEF Inv
    <2>4. ASSUME NEW n \in DOMAIN log'
          PROVE  log'[n].at = chunks[log'[n].chunk].lines[log'[n].line].at
        <3>1. n \in DOMAIN log \/ n = N
            BY <2>3
        <3>2. QED  BY <2>2, <2>3, <3>1 DEF ScopeInv
    <2>5. QED  BY <1>1, <2>1, <2>4 DEF ScopeInv
<1>5. QED  BY <1>2, <1>3, <1>4, StepShape

\* For every plan, host and failure: through ApplyChunks, what is recorded as
\* privileged is applied by a privileged process, and nothing else is but the
\* block around it (SplitPrivilegeChunks, effectiveElevate).
THEOREM PrivilegesKept == Spec => []PrivilegeKept
<1>1. Init => ScopeInv
    BY DEF Init, ScopeInv
<1>2. body \in Bodies /\ Inv /\ ScopeInv /\ [Next]_vars => ScopeInv'
    BY StepScope
<1>3. ASSUME body \in Bodies, Inv, ScopeInv PROVE PrivilegeKept
    <2> SUFFICES ASSUME entry = "chunks", NEW i \in DOMAIN log, log[i].at > 0
                 PROVE  LET p == log[i].at
                        IN  /\ body[p].elevate => chunks[log[i].chunk].elevate
                            /\ chunks[log[i].chunk].elevate =>
                                 \/ body[p].elevate
                                 \/ \E s \in OpenAt(body, p) \cup {p}, e \in p..Len(body) :
                                       Closes(body, s, e) /\ \E q \in s..e : body[q].elevate
        BY DEF PrivilegeKept
    <2> DEFINE p == log[i].at
    <2>1. /\ log[i].chunk \in DOMAIN chunks
          /\ log[i].line \in DOMAIN chunks[log[i].chunk].lines
          /\ p = chunks[log[i].chunk].lines[log[i].line].at
        BY <1>3 DEF Inv, LogInv, ScopeInv
    <2>2. chunks = SplitPrivilegeChunks(body)
        <3>1. chunks # <<>>
            BY <2>1
        <3>2. QED  BY <1>3, <3>1 DEF ScopeInv
    <2>3. body \in Seq(Op)
        BY <1>3, BodiesAssumption
    <2>4. p \in DOMAIN body /\ chunks[log[i].chunk].elevate = effectiveElevate(body)[p]
        BY <2>1, <2>2, <2>3, SplitScope
    <2> HIDE DEF p
    <2>5. body[p].elevate => effectiveElevate(body)[p]
        BY <2>4 DEF effectiveElevate
    <2>6. effectiveElevate(body)[p] =>
            \/ body[p].elevate
            \/ \E s \in OpenAt(body, p) \cup {p}, e \in p..Len(body) :
                  Closes(body, s, e) /\ \E q \in s..e : body[q].elevate
        BY <2>3, <2>4, ElevatedAsks
    <2>7. QED  BY <2>4, <2>5, <2>6 DEF p
<1>4. QED  BY <1>1, <1>2, <1>3, Invariance, PTL DEF Spec

(***************************************************************************)
(* Blocks as depth                                                         *)
(***************************************************************************)
\* A nonempty set of naturals up to n has a greatest member.
LEMMA GreatestExists ==
    ASSUME NEW n \in Nat, NEW T, T \subseteq 0..n, T # {}
    PROVE  \E x \in T : \A y \in T : y <= x
<1> DEFINE U == {i \in 0..n : n - i \in T}
<1>1. U \subseteq Nat /\ U # {}
    <2>1. PICK x \in T : x \in T
        OBVIOUS
    <2>2. n - x \in 0..n /\ n - (n - x) = x
        BY <2>1
    <2>3. n - x \in U
        BY <2>1, <2>2
    <2>4. U \subseteq Nat
        OBVIOUS
    <2> HIDE DEF U
    <2>5. QED  BY <2>3, <2>4
<1>2. PICK u \in U : \A i \in U : u <= i
    <2> HIDE DEF U
    <2>1. QED  BY <1>1, LeastExists
<1>3. ASSUME NEW y \in T PROVE y <= n - u
    <2>1. y \in 0..n /\ n - y \in 0..n /\ n - (n - y) = y
        OBVIOUS
    <2>2. u <= n - y /\ u \in 0..n
        BY <1>2, <2>1
    <2>3. QED  BY <2>1, <2>2
<1>4. QED  BY <1>2, <1>3

\* How many blocks are open after line i, negative if too many were closed.
Depth(b, i) == Count(b, "begin", 1, i) - Count(b, "end", 1, i)

\* What a line does to the depth.
Delta(op) == IF op.kind = "begin" THEN 1 ELSE IF op.kind = "end" THEN -1 ELSE 0

\* There is nothing to count in no lines.
LEMMA CountEmpty ==
    ASSUME NEW b, NEW x, NEW i \in Nat
    PROVE  Count(b, x, i + 1, i) = 0
<1>1. {n \in (i + 1)..i : b[n].kind = x} = {}
    OBVIOUS
<1>2. QED  BY <1>1, FS_EmptySet DEF Count

\* The depth changes at a begin and at an end.
LEMMA DepthStep ==
    ASSUME NEW b
    PROVE  /\ Depth(b, 0) = 0
           /\ \A i \in Nat : Depth(b, i) \in Int
           /\ \A i \in Nat \ {0} : Depth(b, i) = Depth(b, i - 1) + Delta(b[i])
<1>0. \A x : Count(b, x, 1, 0) = 0
    <2>1. \A x : Count(b, x, 0 + 1, 0) = 0
        BY CountEmpty
    <2>2. 0 + 1 = 1
        OBVIOUS
    <2>3. QED  BY <2>1, <2>2
<1>1. ASSUME NEW i \in Nat \ {0}, NEW x
      PROVE  /\ Count(b, x, 1, i - 1) \in Nat
             /\ Count(b, x, 1, i) = Count(b, x, 1, i - 1) + IF b[i].kind = x THEN 1 ELSE 0
    <2>1. 1 \in Nat /\ i \in Nat /\ 1 <= i
        OBVIOUS
    <2>2. QED  BY <2>1, CountStep
<1>2. ASSUME NEW i \in Nat, NEW x PROVE Count(b, x, 1, i) \in Nat
    <2>1. i + 1 \in Nat \ {0} /\ (i + 1) - 1 = i
        OBVIOUS
    <2>2. QED  BY <1>1, <2>1
<1>3. Depth(b, 0) = 0
    BY <1>0 DEF Depth
<1>4. \A i \in Nat : Depth(b, i) \in Int
    BY <1>2 DEF Depth
<1>5. ASSUME NEW i \in Nat \ {0} PROVE Depth(b, i) = Depth(b, i - 1) + Delta(b[i])
    <2> DEFINE p == Count(b, "begin", 1, i - 1)
               q == Count(b, "end", 1, i - 1)
    <2>1. p \in Nat /\ q \in Nat
        BY <1>1
    <2>2. /\ Count(b, "begin", 1, i) = p + IF b[i].kind = "begin" THEN 1 ELSE 0
          /\ Count(b, "end", 1, i) = q + IF b[i].kind = "end" THEN 1 ELSE 0
        BY <1>1
    <2>3. Depth(b, i - 1) = p - q
        BY DEF Depth
    <2> HIDE DEF p, q
    <2>4. QED  BY <2>1, <2>2, <2>3 DEF Depth, Delta
<1>6. QED  BY <1>3, <1>4, <1>5

\* A depth is an integer.
LEMMA DepthInt ==
    ASSUME NEW b, NEW i \in Nat
    PROVE  Depth(b, i) \in Int
BY DepthStep

\* A count from the middle.
LEMMA CountFrom ==
    ASSUME NEW b, NEW x, NEW i \in Nat, NEW j \in Nat, i <= j
    PROVE  /\ Count(b, x, i + 1, j) = Count(b, x, 1, j) - Count(b, x, 1, i)
           /\ Count(b, x, 1, j) \in Nat /\ Count(b, x, 1, i) \in Nat
<1> DEFINE c(m) == Count(b, x, i + 1, m)
           d(m) == Count(b, x, 1, m)
<1>1. ASSUME NEW m \in Nat PROVE d(m) \in Nat
    <2>1. 1 \in Nat /\ m + 1 \in Nat /\ 1 <= m + 1 /\ (m + 1) - 1 = m
        OBVIOUS
    <2>2. Count(b, x, 1, (m + 1) - 1) \in Nat
        BY <2>1, CountStep
    <2>3. QED  BY <2>1, <2>2
<1>2. ASSUME NEW m \in Nat, i <= m
      PROVE  /\ c(m) \in Nat
             /\ c(m + 1) = c(m) + IF b[m + 1].kind = x THEN 1 ELSE 0
             /\ d(m + 1) = d(m) + IF b[m + 1].kind = x THEN 1 ELSE 0
    <2>1. /\ 1 \in Nat /\ m + 1 \in Nat /\ 1 <= m + 1 /\ (m + 1) - 1 = m
          /\ i + 1 \in Nat /\ i + 1 <= m + 1
        BY <1>2
    <2>2. /\ Count(b, x, i + 1, (m + 1) - 1) \in Nat
          /\ Count(b, x, i + 1, m + 1) =
               Count(b, x, i + 1, (m + 1) - 1) + IF b[m + 1].kind = x THEN 1 ELSE 0
        <3> DEFINE f == i + 1
                   l == m + 1
        <3>1. f \in Nat /\ l \in Nat /\ f <= l
            BY <2>1
        <3> HIDE DEF f, l
        <3>2. /\ Count(b, x, f, l - 1) \in Nat
              /\ Count(b, x, f, l) = Count(b, x, f, l - 1) + IF b[l].kind = x THEN 1 ELSE 0
            BY <3>1, CountStep
        <3>3. QED  BY <3>2 DEF f, l
    <2>3. Count(b, x, 1, m + 1) =
             Count(b, x, 1, (m + 1) - 1) + IF b[m + 1].kind = x THEN 1 ELSE 0
        BY <2>1, CountStep
    <2>4. QED  BY <2>1, <2>2, <2>3
<1>3. c(i) = 0
    BY CountEmpty
<1> DEFINE T == {n \in 0..(j - i) : c(i + n) = d(i + n) - d(i)}
<1>4. 0 \in T
    <2>1. i + 0 = i /\ 0 \in 0..(j - i) /\ d(i) \in Nat
        BY <1>1
    <2> HIDE DEF c, d
    <2>2. QED  BY <1>3, <2>1
<1>5. ASSUME NEW n \in 0..((j - i) - 1), n \in T PROVE n + 1 \in T
    <2>1. i + n \in Nat /\ i <= i + n /\ i + (n + 1) = (i + n) + 1 /\ n + 1 \in 0..(j - i)
        OBVIOUS
    <2>2. /\ c(i + n) \in Nat /\ d(i + n) \in Nat /\ d(i) \in Nat
          /\ c((i + n) + 1) = c(i + n) + IF b[(i + n) + 1].kind = x THEN 1 ELSE 0
          /\ d((i + n) + 1) = d(i + n) + IF b[(i + n) + 1].kind = x THEN 1 ELSE 0
        BY <1>1, <1>2, <2>1
    <2> HIDE DEF c, d
    <2>3. c(i + n) = d(i + n) - d(i)
        BY <1>5
    <2>4. c((i + n) + 1) = d((i + n) + 1) - d(i)
        BY <2>2, <2>3
    <2>5. QED  BY <2>1, <2>4
<1>6. 0..(j - i) \subseteq T
    <2>1. j - i \in Nat
        OBVIOUS
    <2> HIDE DEF T
    <2>2. QED  BY <1>4, <1>5, <2>1, UpTo
<1>7. j - i \in 0..(j - i) /\ i + (j - i) = j
    OBVIOUS
<1>8. c(j) = d(j) - d(i)
    <2> HIDE DEF c, d
    <2>1. QED  BY <1>6, <1>7
<1>9. QED  BY <1>1, <1>8

\* From line s to line x the depth does not fall below that after s.
Over(b, s, x) == \A y \in s..x : Depth(b, y) >= Depth(b, s)

\* A block ends where the depth falls below its own for the first time.
LEMMA ClosesDepth ==
    ASSUME NEW b, NEW s \in Nat \ {0}, NEW e \in Nat
    PROVE  Closes(b, s, e) <=>
             /\ s < e /\ b[s].kind = "begin" /\ b[e].kind = "end"
             /\ Depth(b, e - 1) = Depth(b, s) /\ Over(b, s, e - 1)
<1>1. ASSUME NEW m \in Nat, s <= m
      PROVE  /\ Count(b, "begin", s + 1, m) \in Int /\ Count(b, "end", s + 1, m) \in Int
             /\ Depth(b, m) \in Int /\ Depth(b, s) \in Int
             /\ Depth(b, m) - Depth(b, s) =
                  Count(b, "begin", s + 1, m) - Count(b, "end", s + 1, m)
    <2>1. \A x : /\ Count(b, x, s + 1, m) = Count(b, x, 1, m) - Count(b, x, 1, s)
                 /\ Count(b, x, 1, m) \in Nat /\ Count(b, x, 1, s) \in Nat
        BY <1>1, CountFrom
    <2>2. QED  BY <2>1 DEF Depth
<1>2. ASSUME s < e
      PROVE  /\ Count(b, "begin", s + 1, e - 1) = Count(b, "end", s + 1, e - 1)
                   <=> Depth(b, e - 1) = Depth(b, s)
             /\ (\A m \in (s + 1)..(e - 1) :
                   Count(b, "end", s + 1, m) <= Count(b, "begin", s + 1, m))
                   <=> Over(b, s, e - 1)
    <2>1. e - 1 \in Nat /\ s <= e - 1
        BY <1>2
    <2>2. Count(b, "begin", s + 1, e - 1) = Count(b, "end", s + 1, e - 1)
             <=> Depth(b, e - 1) = Depth(b, s)
        BY <1>1, <2>1
    <2>3. ASSUME NEW m \in (s + 1)..(e - 1)
          PROVE  Count(b, "end", s + 1, m) <= Count(b, "begin", s + 1, m)
                   <=> Depth(b, m) >= Depth(b, s)
        <3>1. m \in Nat /\ s <= m
            BY <2>1
        <3>2. QED  BY <1>1, <3>1
    <2>4. Over(b, s, e - 1) <=> \A m \in (s + 1)..(e - 1) : Depth(b, m) >= Depth(b, s)
        <3>1. Depth(b, s) >= Depth(b, s)
            BY DepthStep
        <3>2. s..(e - 1) = {s} \cup (s + 1)..(e - 1)
            BY <2>1
        <3>3. QED  BY <3>1, <3>2 DEF Over
    <2>5. QED  BY <2>2, <2>3, <2>4
<1>3. QED  BY <1>2 DEF Closes

\* So a block is open until then.
LEMMA OpenAtDepth ==
    ASSUME NEW b, NEW i \in Nat, NEW s
    PROVE  s \in OpenAt(b, i) <=>
             s \in 1..(i - 1) /\ b[s].kind = "begin" /\ Over(b, s, i - 1)
<1> SUFFICES ASSUME s \in 1..(i - 1), b[s].kind = "begin"
             PROVE  (\A e \in (s + 1)..(i - 1) : ~Closes(b, s, e)) <=> Over(b, s, i - 1)
    BY DEF OpenAt
<1>0. s \in Nat \ {0} /\ i - 1 \in Nat /\ s <= i - 1
    OBVIOUS
<1>d. \A y \in Nat : Depth(b, y) \in Int
    BY DepthStep
<1>s. \A y \in Nat \ {0} : Depth(b, y) = Depth(b, y - 1) + Delta(b[y])
    BY DepthStep
<1>1. ASSUME Over(b, s, i - 1), NEW e \in (s + 1)..(i - 1), Closes(b, s, e) PROVE FALSE
    <2>1. e \in Nat \ {0} /\ e - 1 \in Nat /\ e \in s..(i - 1)
        BY <1>0
    <2>2. b[e].kind = "end" /\ Depth(b, e - 1) = Depth(b, s)
        BY <1>0, <1>1, <2>1, ClosesDepth
    <2>3. Depth(b, e) = Depth(b, s) + Delta(b[e]) /\ Delta(b[e]) = -1
        BY <1>s, <2>1, <2>2 DEF Delta
    <2>4. Depth(b, e) >= Depth(b, s)
        BY <1>1, <2>1 DEF Over
    <2>5. Depth(b, s) \in Int
        BY <1>0, <1>d
    <2>6. QED  BY <2>3, <2>4, <2>5
<1>2. ASSUME NEW y \in s..(i - 1), ~(Depth(b, y) >= Depth(b, s))
      PROVE  \E e \in (s + 1)..(i - 1) : Closes(b, s, e)
    <2> DEFINE T == {m \in s..(i - 1) : ~(Depth(b, m) >= Depth(b, s))}
    <2>1. T \subseteq Nat /\ T # {}
        BY <1>0, <1>2
    <2>2. PICK e \in T : \A m \in T : e <= m
        <3> HIDE DEF T
        <3>1. QED  BY <2>1, LeastExists
    <2>3. e \in s..(i - 1) /\ ~(Depth(b, e) >= Depth(b, s))
        BY <2>2
    <2>4. e # s
        <3>1. Depth(b, s) >= Depth(b, s)
            BY <1>0, <1>d
        <3>2. QED  BY <2>3, <3>1
    <2>5. /\ e \in (s + 1)..(i - 1) /\ e \in Nat \ {0} /\ e - 1 \in Nat /\ s < e
          /\ e - 1 \in s..(e - 1)
        BY <1>0, <2>3, <2>4
    <2>6. ASSUME NEW m \in s..(e - 1) PROVE Depth(b, m) >= Depth(b, s)
        <3>1. m \in s..(i - 1) /\ ~(e <= m)
            BY <1>0, <2>5
        <3>2. QED  BY <2>2, <3>1
    <2>7. Depth(b, e - 1) >= Depth(b, s)
        BY <2>5, <2>6
    <2> DEFINE p == Depth(b, e - 1)
               q == Depth(b, e)
               r == Depth(b, s)
    <2>8. p \in Int /\ q \in Int /\ r \in Int /\ q = p + Delta(b[e]) /\ p >= r /\ ~(q >= r)
        BY <1>0, <1>d, <1>s, <2>3, <2>5, <2>7
    <2>9. p = r /\ b[e].kind = "end"
        <3> HIDE DEF p, q, r
        <3>1. QED  BY <2>8 DEF Delta
    <2>10. Over(b, s, e - 1)
        BY <2>6 DEF Over
    <2>11. Closes(b, s, e)
        BY <1>0, <2>5, <2>9, <2>10, ClosesDepth
    <2>12. QED  BY <2>5, <2>11
<1>3. (\E e \in (s + 1)..(i - 1) : Closes(b, s, e)) <=> ~Over(b, s, i - 1)
    BY <1>1, <1>2 DEF Over
<1>4. QED  BY <1>3

\* In the first x lines every end closes a block and no block is left open.
NestedTo(b, x) ==
    /\ \A i \in 0..x : Depth(b, i) >= 0
    /\ Depth(b, x) = 0

\* All of the lines are nested.
Nested(b) == NestedTo(b, Len(b))

\* When every begin has an end and every end a begin, the lines are nested.
LEMMA BalancedNested ==
    ASSUME NEW b \in Seq(Op), Balanced(b)
    PROVE  Nested(b)
<1> DEFINE n == Len(b)
<1>0. n \in Nat /\ DOMAIN b = 1..n
    OBVIOUS
<1> HIDE DEF n
<1>d. \A y \in Nat : Depth(b, y) \in Int
    BY DepthStep
<1>s. \A y \in Nat \ {0} : Depth(b, y) = Depth(b, y - 1) + Delta(b[y])
    BY DepthStep
<1>1. ASSUME NEW i \in 0..n, ~(Depth(b, i) >= 0) PROVE FALSE
    <2> DEFINE T == {m \in 0..n : ~(Depth(b, m) >= 0)}
    <2>1. T \subseteq Nat /\ T # {}
        BY <1>0, <1>1
    <2>2. PICK e \in T : \A m \in T : e <= m
        <3> HIDE DEF T
        <3>1. QED  BY <2>1, LeastExists
    <2>3. e \in 0..n /\ ~(Depth(b, e) >= 0) /\ Depth(b, 0) = 0
        BY <2>2, DepthStep
    <2>4. e \in 1..n /\ e - 1 \in 0..n /\ e - 1 \in Nat /\ ~(e <= e - 1)
        BY <1>0, <2>3
    <2>5. Depth(b, e - 1) >= 0
        BY <2>2, <2>4
    <2>6. b[e].kind = "end" /\ Depth(b, e - 1) = 0
        <3> DEFINE p == Depth(b, e - 1)
                   q == Depth(b, e)
        <3>1. p \in Int /\ q \in Int /\ q = p + Delta(b[e]) /\ p >= 0 /\ ~(q >= 0)
            BY <1>0, <1>d, <1>s, <2>3, <2>4, <2>5
        <3> HIDE DEF p, q
        <3>2. p = 0 /\ b[e].kind = "end"
            BY <3>1 DEF Delta
        <3>3. QED  BY <3>2 DEF p
    <2>7. PICK s \in 1..n : Closes(b, s, e)
        BY <1>0, <2>4, <2>6 DEF Balanced
    <2>8. /\ s \in Nat \ {0} /\ e \in Nat /\ s - 1 \in 0..n /\ s - 1 \in Nat
        BY <1>0, <2>4
    <2>9. s < e /\ b[s].kind = "begin" /\ Depth(b, e - 1) = Depth(b, s)
        BY <2>7, <2>8, ClosesDepth
    <2>10. ~(e <= s - 1)
        BY <2>8, <2>9
    <2>11. Depth(b, s - 1) >= 0
        BY <2>2, <2>8, <2>10
    <2>12. Depth(b, s) = Depth(b, s - 1) + 1
        BY <1>s, <2>8, <2>9 DEF Delta
    <2>13. Depth(b, s - 1) \in Int
        BY <1>d, <2>8
    <2>14. QED  BY <2>6, <2>9, <2>11, <2>12, <2>13
<1>2. ASSUME Depth(b, n) # 0 PROVE FALSE
    <2> DEFINE T == {m \in 0..n : Depth(b, m) = 0}
    <2>1. T \subseteq 0..n /\ T # {}
        <3>1. 0 \in T
            BY <1>0, DepthStep
        <3>2. QED  BY <3>1
    <2>2. PICK m \in T : \A x \in T : x <= m
        <3> HIDE DEF T
        <3>1. QED  BY <1>0, <2>1, GreatestExists
    <2>3. m \in 0..n /\ Depth(b, m) = 0 /\ m # n
        BY <1>2, <2>2
    <2> DEFINE s == m + 1
    <2>4. s \in 1..n /\ s \in Nat \ {0} /\ s - 1 = m /\ s \in 0..n /\ ~(s <= m)
        BY <1>0, <2>3
    <2> HIDE DEF s
    <2>5. Depth(b, s) >= 0 /\ Depth(b, s) # 0
        BY <1>1, <2>2, <2>4
    <2>6. b[s].kind = "begin" /\ Depth(b, s) = 1
        <3>1. Depth(b, s) = 0 + Delta(b[s])
            BY <1>s, <2>3, <2>4
        <3>2. QED  BY <2>5, <3>1 DEF Delta
    <2>7. PICK e \in 1..n : Closes(b, s, e)
        BY <1>0, <2>4, <2>6 DEF Balanced
    <2>8. e \in Nat \ {0} /\ e \in 0..n
        BY <1>0
    <2>9. s < e /\ b[e].kind = "end" /\ Depth(b, e - 1) = Depth(b, s)
        BY <2>4, <2>7, <2>8, ClosesDepth
    <2>10. Depth(b, e) = 0
        <3>1. Depth(b, e) = Depth(b, e - 1) + Delta(b[e])
            BY <1>s, <2>8
        <3>2. QED  BY <2>6, <2>9, <3>1 DEF Delta
    <2>11. e <= m
        BY <2>2, <2>8, <2>10
    <2>12. QED  BY <2>3, <2>4, <2>8, <2>9, <2>11
<1>3. QED  BY <1>1, <1>2 DEF Nested, NestedTo, n

(***************************************************************************)
(* Stretches of nested lines                                               *)
(***************************************************************************)
\* The n lines of d after line x are of the kinds of m's.
Alike(d, x, m, n) == \A i \in 1..n : d[x + i].kind = m[i].kind

\* They change the depth alike.
Shifted(d, x, m, n) == \A i \in 0..n : Depth(d, x + i) = Depth(d, x) + Depth(m, i)

\* Lines of the same kinds, elsewhere, change the depth alike.
LEMMA DepthShift ==
    ASSUME NEW d, NEW m, NEW x \in Nat, NEW n \in Nat, Alike(d, x, m, n)
    PROVE  Shifted(d, x, m, n)
<1> DEFINE T == {i \in 0..n : Depth(d, x + i) = Depth(d, x) + Depth(m, i)}
<1>1. 0 \in T
    <2>1. x + 0 = x /\ Depth(d, x) \in Int /\ Depth(m, 0) = 0 /\ 0 \in 0..n
        BY DepthInt, DepthStep
    <2>2. QED  BY <2>1
<1>2. ASSUME NEW i \in 0..(n - 1), Depth(d, x + i) = Depth(d, x) + Depth(m, i)
      PROVE  Depth(d, x + (i + 1)) = Depth(d, x) + Depth(m, i + 1)
    <2> DEFINE j == i + 1
               y == x + j
    <2>1. /\ y \in Nat \ {0} /\ y - 1 = x + i /\ j \in Nat \ {0} /\ j - 1 = i /\ j \in 1..n
          /\ x + j = y
        OBVIOUS
    <2> HIDE DEF j, y
    <2>2. Depth(d, y) = Depth(d, x + i) + Delta(d[y])
        BY <2>1, DepthStep
    <2>3. Depth(m, j) = Depth(m, i) + Delta(m[j])
        BY <2>1, DepthStep
    <2>4. d[y].kind = m[j].kind
        BY <2>1 DEF Alike
    <2>5. Delta(d[y]) = Delta(m[j]) /\ Delta(m[j]) \in Int
        BY <2>4 DEF Delta
    <2>6. Depth(d, x) \in Int /\ Depth(m, i) \in Int
        BY DepthInt
    <2>7. Depth(d, y) = Depth(d, x) + Depth(m, j)
        BY <1>2, <2>2, <2>3, <2>5, <2>6
    <2>8. QED  BY <2>7 DEF j, y
<1>3. ASSUME NEW i \in 0..(n - 1), i \in T PROVE i + 1 \in T
    <2>1. i + 1 \in 0..n
        OBVIOUS
    <2>2. QED  BY <1>2, <1>3, <2>1
<1>4. 0..n \subseteq T
    <2> HIDE DEF T
    <2>1. QED  BY <1>1, <1>3, UpTo
<1>5. QED  BY <1>4 DEF Shifted

\* So they keep the depth above where they begin alike.
LEMMA OverShift ==
    ASSUME NEW d, NEW m, NEW x \in Nat, NEW n \in Nat, Alike(d, x, m, n),
           NEW s \in 0..n, NEW t \in 0..n
    PROVE  Over(m, s, t) <=> Over(d, x + s, x + t)
<1>1. \A i \in 0..n : Depth(d, x + i) = Depth(d, x) + Depth(m, i)
    BY DepthShift DEF Shifted
<1>2. Depth(d, x) \in Int /\ \A i \in 0..n : Depth(m, i) \in Int
    <2>1. \A i \in 0..n : i \in Nat
        OBVIOUS
    <2>2. QED  BY <2>1, DepthInt
<1>3. ASSUME NEW i \in 0..n
      PROVE  Depth(m, i) >= Depth(m, s) <=> Depth(d, x + i) >= Depth(d, x + s)
    BY <1>1, <1>2
<1>4. ASSUME Over(m, s, t), NEW y \in (x + s)..(x + t)
      PROVE  Depth(d, y) >= Depth(d, x + s)
    <2>1. y - x \in s..t /\ y - x \in 0..n /\ x + (y - x) = y
        OBVIOUS
    <2>2. Depth(m, y - x) >= Depth(m, s)
        BY <1>4, <2>1 DEF Over
    <2>3. QED  BY <1>3, <2>1, <2>2
<1>5. ASSUME Over(d, x + s, x + t), NEW i \in s..t
      PROVE  Depth(m, i) >= Depth(m, s)
    <2>1. x + i \in (x + s)..(x + t) /\ i \in 0..n
        OBVIOUS
    <2>2. Depth(d, x + i) >= Depth(d, x + s)
        BY <1>5, <2>1 DEF Over
    <2>3. QED  BY <1>3, <2>1, <2>2
<1>6. QED  BY <1>4, <1>5 DEF Over

\* Of the blocks that begin in the stretch the same are open.
LEMMA OpenShift ==
    ASSUME NEW d, NEW m, NEW x \in Nat, NEW n \in Nat, Alike(d, x, m, n),
           NEW i \in 1..n, NEW s \in Nat \ {0}
    PROVE  s \in OpenAt(m, i) <=> x + s \in OpenAt(d, x + i)
<1> DEFINE j == x + i
           r == x + s
<1>1. /\ i \in Nat /\ j \in Nat /\ j - 1 = x + (i - 1)
      /\ r \in 1..(j - 1) <=> s \in 1..(i - 1)
    OBVIOUS
<1> HIDE DEF j, r
<1>2. ASSUME s \in 1..(i - 1)
      PROVE  /\ d[r].kind = m[s].kind
             /\ Over(m, s, i - 1) <=> Over(d, r, j - 1)
    <2>1. s \in 1..n /\ s \in 0..n /\ i - 1 \in 0..n
        BY <1>2
    <2>2. d[r].kind = m[s].kind
        BY <2>1 DEF Alike, r
    <2>3. Over(m, s, i - 1) <=> Over(d, x + s, x + (i - 1))
        BY <2>1, OverShift
    <2>4. QED  BY <1>1, <2>2, <2>3 DEF r
<1>3. s \in OpenAt(m, i) <=> s \in 1..(i - 1) /\ m[s].kind = "begin" /\ Over(m, s, i - 1)
    BY <1>1, OpenAtDepth
<1>4. r \in OpenAt(d, j) <=> r \in 1..(j - 1) /\ d[r].kind = "begin" /\ Over(d, r, j - 1)
    BY <1>1, OpenAtDepth
<1>5. s \in OpenAt(m, i) <=> r \in OpenAt(d, j)
    BY <1>1, <1>2, <1>3, <1>4
<1>6. QED  BY <1>5 DEF r, j

\* After nested lines no block is open but those that begin later.
LEMMA OpenBelow ==
    ASSUME NEW d, NEW x \in Nat, NestedTo(d, x), NEW i \in Nat, x < i, NEW s \in OpenAt(d, i)
    PROVE  s \in (x + 1)..(i - 1)
<1>1. s \in 1..(i - 1) /\ d[s].kind = "begin" /\ Over(d, s, i - 1)
    BY OpenAtDepth
<1>2. ASSUME s <= x PROVE FALSE
    <2>1. x \in s..(i - 1) /\ s - 1 \in 0..x /\ s \in Nat \ {0}
        BY <1>1, <1>2
    <2>2. 0 >= Depth(d, s)
        BY <1>1, <2>1 DEF Over, NestedTo
    <2>3. Depth(d, s - 1) >= 0
        BY <2>1 DEF NestedTo
    <2>4. Depth(d, s) = Depth(d, s - 1) + 1
        <3>1. Depth(d, s) = Depth(d, s - 1) + Delta(d[s])
            BY <2>1, DepthStep
        <3>2. QED  BY <1>1, <3>1 DEF Delta
    <2>5. Depth(d, s - 1) \in Int
        <3>1. s - 1 \in Nat
            BY <2>1
        <3>2. QED  BY <3>1, DepthStep
    <2>6. QED  BY <2>2, <2>3, <2>4, <2>5
<1>3. QED  BY <1>1, <1>2

\* So after nested lines the open blocks are those of the stretch.
LEMMA OpenWithin ==
    ASSUME NEW d, NEW m, NEW x \in Nat, NEW n \in Nat, Alike(d, x, m, n), NestedTo(d, x),
           NEW i \in 1..n, NEW s \in OpenAt(d, x + i)
    PROVE  s - x \in 1..(i - 1) /\ s - x \in OpenAt(m, i)
<1>1. x + i \in Nat /\ x < x + i
    OBVIOUS
<1>2. s \in (x + 1)..((x + i) - 1)
    BY <1>1, OpenBelow
<1>3. s - x \in 1..(i - 1) /\ s - x \in Nat \ {0} /\ x + (s - x) = s
    BY <1>2
<1> DEFINE r == s - x
<1>4. x + r \in OpenAt(d, x + i) /\ r \in Nat \ {0}
    BY <1>3
<1> HIDE DEF r
<1>5. r \in OpenAt(m, i)
    BY <1>4, OpenShift
<1>6. QED  BY <1>3, <1>5 DEF r

\* Nested lines after nested lines are nested.
LEMMA NestedMore ==
    ASSUME NEW d, NEW m, NEW x \in Nat, NEW n \in Nat, Alike(d, x, m, n), NestedTo(d, x),
           NestedTo(m, n)
    PROVE  NestedTo(d, x + n)
<1>1. \A i \in 0..n : Depth(d, x + i) = 0 + Depth(m, i) /\ Depth(m, i) \in Int /\ Depth(m, i) >= 0
    BY DepthShift, DepthStep DEF Shifted, NestedTo
<1>2. ASSUME NEW i \in 0..(x + n) PROVE Depth(d, i) >= 0
    <2>1. CASE i <= x
        <3>1. i \in 0..x
            BY <2>1
        <3>2. QED  BY <3>1 DEF NestedTo
    <2>2. CASE ~(i <= x)
        <3>1. i - x \in 0..n /\ x + (i - x) = i
            BY <2>2
        <3>2. QED  BY <1>1, <3>1
    <2>3. QED  BY <2>1, <2>2
<1>3. Depth(d, x + n) = 0
    <2>1. n \in 0..n
        OBVIOUS
    <2>2. QED  BY <1>1, <2>1 DEF NestedTo
<1>4. QED  BY <1>2, <1>3 DEF NestedTo

\* The ops of lines one after the other.
LEMMA OpsConcat ==
    ASSUME NEW a \in Seq(LineType), NEW c \in Seq(LineType)
    PROVE  /\ a \o c \in Seq(LineType) /\ Len(a \o c) = Len(a) + Len(c)
           /\ Len(a) \in Nat /\ Len(c) \in Nat
           /\ Len(OpsOf(a)) = Len(a) /\ Len(OpsOf(c)) = Len(c)
           /\ \A i \in 1..Len(a) : (a \o c)[i] = a[i] /\ OpsOf(a \o c)[i] = OpsOf(a)[i]
           /\ \A i \in 1..Len(c) : /\ (a \o c)[Len(a) + i] = c[i]
                                   /\ OpsOf(a \o c)[Len(a) + i] = OpsOf(c)[i]
<1>1. /\ a \o c \in Seq(LineType) /\ Len(a \o c) = Len(a) + Len(c)
      /\ Len(a) \in Nat /\ Len(c) \in Nat
      /\ DOMAIN a = 1..Len(a) /\ DOMAIN c = 1..Len(c)
      /\ DOMAIN (a \o c) = 1..(Len(a) + Len(c))
    OBVIOUS
<1>2. Len(OpsOf(a)) = Len(a) /\ Len(OpsOf(c)) = Len(c)
    BY OpsType
<1>3. ASSUME NEW i \in 1..Len(a)
      PROVE  (a \o c)[i] = a[i] /\ OpsOf(a \o c)[i] = OpsOf(a)[i]
    <2>1. (a \o c)[i] = a[i]
        OBVIOUS
    <2>2. i \in DOMAIN (a \o c) /\ i \in DOMAIN a
        BY <1>1
    <2>3. QED  BY <2>1, <2>2 DEF OpsOf
<1>4. ASSUME NEW i \in 1..Len(c)
      PROVE  (a \o c)[Len(a) + i] = c[i] /\ OpsOf(a \o c)[Len(a) + i] = OpsOf(c)[i]
    <2>1. (a \o c)[Len(a) + i] = c[i]
        BY <1>1
    <2>2. Len(a) + i \in DOMAIN (a \o c) /\ i \in DOMAIN c
        BY <1>1
    <2>3. QED  BY <2>1, <2>2 DEF OpsOf
<1>5. QED  BY <1>1, <1>2, <1>3, <1>4

\* Lines are nested as far as lines of the same kinds are.
LEMMA NestedSame ==
    ASSUME NEW d, NEW m, NEW n \in Nat, \A i \in 1..n : d[i].kind = m[i].kind
    PROVE  NestedTo(d, n) <=> NestedTo(m, n)
<1>1. Alike(d, 0, m, n)
    <2>1. \A i \in 1..n : 0 + i = i
        OBVIOUS
    <2>2. QED  BY <2>1 DEF Alike
<1>2. \A i \in 0..n : Depth(d, 0 + i) = Depth(d, 0) + Depth(m, i)
    BY <1>1, DepthShift DEF Shifted
<1>3. \A i \in 0..n : Depth(d, i) = Depth(m, i)
    <2>1. Depth(d, 0) = 0 /\ \A i \in 0..n : Depth(m, i) \in Int /\ 0 + i = i
        BY DepthStep
    <2>2. QED  BY <1>2, <2>1
<1>4. n \in 0..n
    OBVIOUS
<1>5. QED  BY <1>3, <1>4 DEF NestedTo

\* Nested lines stay nested when others follow, and the whole is nested if
\* those are.
LEMMA ConcatNested ==
    ASSUME NEW a \in Seq(LineType), NEW c \in Seq(LineType), Nested(OpsOf(a))
    PROVE  /\ NestedTo(OpsOf(a \o c), Len(a))
           /\ Nested(OpsOf(c)) => Nested(OpsOf(a \o c))
<1> DEFINE d == OpsOf(a \o c)
           p == OpsOf(a)
           q == OpsOf(c)
           x == Len(a)
           n == Len(c)
<1>1. /\ x \in Nat /\ n \in Nat /\ Len(p) = x /\ Len(q) = n
      /\ \A i \in 1..x : d[i] = p[i]
      /\ \A i \in 1..n : d[x + i] = q[i]
    BY OpsConcat
<1>2. Len(d) = x + n
    BY OpsConcat, OpsType
<1>3. NestedTo(p, x)
    BY <1>1 DEF Nested
<1> HIDE DEF d, p, q, x, n
<1>4. NestedTo(d, x)
    BY <1>1, <1>3, NestedSame
<1>5. ASSUME Nested(q) PROVE Nested(d)
    <2>1. NestedTo(q, n) /\ Alike(d, x, q, n)
        BY <1>1, <1>5 DEF Nested, Alike
    <2>2. NestedTo(d, x + n)
        BY <1>1, <1>4, <2>1, NestedMore
    <2>3. QED  BY <1>2, <2>2 DEF Nested
<1>6. QED  BY <1>4, <1>5 DEF d, q, x

\* No lines are nested.
LEMMA EmptyNested == Nested(OpsOf(<<>>))
<1>1. Len(OpsOf(<<>>)) = 0
    BY DEF OpsOf
<1>2. \A i \in 0..0 : i = 0
    OBVIOUS
<1>3. QED  BY <1>1, <1>2, DepthStep DEF Nested, NestedTo

(***************************************************************************)
(* Copies of lines                                                         *)
(***************************************************************************)
\* The lines ms stand in ls, after x nested lines.
Stands(ms, ls, x) ==
    /\ x \in Nat /\ x + Len(ms) <= Len(ls)
    /\ \A i \in 1..Len(ms) : ls[x + i] = ms[i]
    /\ NestedTo(OpsOf(ls), x)

\* They still do when more lines follow.
LEMMA StandsMore ==
    ASSUME NEW ms \in Seq(LineType), NEW ls \in Seq(LineType), NEW c \in Seq(LineType),
           NEW x, Stands(ms, ls, x)
    PROVE  Stands(ms, ls \o c, x)
<1> DEFINE d == ls \o c
<1>1. /\ x \in Nat /\ x + Len(ms) <= Len(ls) /\ Len(ms) \in Nat /\ Len(ls) \in Nat
      /\ Len(c) \in Nat
      /\ \A i \in 1..Len(ms) : ls[x + i] = ms[i]
      /\ NestedTo(OpsOf(ls), x)
    BY OpsConcat DEF Stands
<1>2. /\ Len(d) = Len(ls) + Len(c)
      /\ \A i \in 1..Len(ls) : d[i] = ls[i] /\ OpsOf(d)[i] = OpsOf(ls)[i]
    BY OpsConcat
<1> HIDE DEF d
<1>3. ASSUME NEW i \in 1..Len(ms) PROVE d[x + i] = ms[i]
    <2>1. x + i \in 1..Len(ls)
        BY <1>1
    <2>2. QED  BY <1>1, <1>2, <2>1
<1>4. NestedTo(OpsOf(d), x)
    <2>1. \A i \in 1..x : i \in 1..Len(ls)
        BY <1>1
    <2>2. \A i \in 1..x : OpsOf(d)[i].kind = OpsOf(ls)[i].kind
        BY <1>2, <2>1
    <2>3. QED  BY <1>1, <2>2, NestedSame
<1>5. x + Len(ms) <= Len(d)
    BY <1>1, <1>2
<1>6. QED  BY <1>1, <1>3, <1>4, <1>5 DEF Stands, d

\* The last lines stand after the others if those are nested.
LEMMA StandsLast ==
    ASSUME NEW a \in Seq(LineType), NEW c \in Seq(LineType), Nested(OpsOf(a))
    PROVE  Stands(c, a \o c, Len(a))
<1>1. NestedTo(OpsOf(a \o c), Len(a))
    BY ConcatNested
<1>2. QED  BY <1>1, OpsConcat DEF Stands

\* Line i of ops is line r of b, and no block is open around it but copies of
\* those open around line r.
Asks(ops, i, b, r) ==
    /\ i \in 1..Len(ops)
    /\ ops[i] = b[r]
    /\ \A s \in OpenAt(ops, i) : \E o \in OpenAt(b, r) : ops[s] = b[o]

\* A copy of a copy asks for what the first line does.
LEMMA AsksTransitive ==
    ASSUME NEW x, NEW i, NEW y, NEW j, NEW z, NEW l, Asks(x, i, y, j), Asks(y, j, z, l)
    PROVE  Asks(x, i, z, l)
BY DEF Asks

\* A line asks the same where the lines stand.
LEMMA StandsAsks ==
    ASSUME NEW ms \in Seq(LineType), NEW ls \in Seq(LineType), NEW x, Stands(ms, ls, x),
           NEW i \in 1..Len(ms)
    PROVE  Asks(OpsOf(ls), x + i, OpsOf(ms), i)
<1> DEFINE d == OpsOf(ls)
           m == OpsOf(ms)
           n == Len(ms)
<1>1. /\ x \in Nat /\ n \in Nat /\ x + n <= Len(ls) /\ Len(ls) \in Nat
      /\ \A j \in 1..n : ls[x + j] = ms[j]
      /\ NestedTo(d, x)
      /\ DOMAIN ms = 1..n /\ DOMAIN ls = 1..Len(ls)
    BY DEF Stands
<1>2. \A j \in 1..n : d[x + j] = m[j]
    <2>1. ASSUME NEW j \in 1..n PROVE d[x + j] = m[j]
        <3>1. x + j \in DOMAIN ls /\ j \in DOMAIN ms
            BY <1>1
        <3>2. QED  BY <1>1, <3>1 DEF OpsOf
    <2>2. QED  BY <2>1
<1>3. x + i \in 1..Len(d)
    <2>1. Len(d) = Len(ls)
        BY OpsType
    <2>2. QED  BY <1>1, <2>1
<1>4. i \in 1..n
    OBVIOUS
<1> HIDE DEF d, m, n
<1>5. Alike(d, x, m, n)
    BY <1>2 DEF Alike
<1>6. ASSUME NEW s \in OpenAt(d, x + i) PROVE \E o \in OpenAt(m, i) : d[s] = m[o]
    <2>1. s - x \in 1..(i - 1) /\ s - x \in OpenAt(m, i)
        BY <1>1, <1>4, <1>5, OpenWithin
    <2>2. s \in 1..((x + i) - 1)
        BY DEF OpenAt
    <2>3. s - x \in 1..n /\ x + (s - x) = s
        BY <1>1, <1>4, <2>1, <2>2
    <2>4. d[s] = m[s - x]
        BY <1>2, <2>3
    <2>5. QED  BY <2>1, <2>4
<1>7. QED  BY <1>2, <1>3, <1>4, <1>6 DEF Asks, d, m

\* Nested stretches one after the other are nested, and each of them stands
\* in the whole.
LEMMA FlattenStands ==
    ASSUME NEW ss \in Seq(Seq(LineType)), \A i \in DOMAIN ss : Nested(OpsOf(ss[i]))
    PROVE  /\ FlattenSeq(ss) \in Seq(LineType)
           /\ Nested(OpsOf(FlattenSeq(ss)))
           /\ \A j \in DOMAIN ss : \E x : Stands(ss[j], FlattenSeq(ss), x)
<1> DEFINE n == Len(ss)
           X == Seq(LineType)
<1>1. n \in Nat /\ DOMAIN ss = 1..n /\ \A i \in 1..n : ss[i] \in X /\ Nested(OpsOf(ss[i]))
    <2>1. n \in Nat /\ DOMAIN ss = 1..n /\ \A i \in 1..n : ss[i] \in X
        OBVIOUS
    <2>2. QED  BY <2>1
<1>2. PICK G \in [0..n -> X] : Concats(G, ss) /\ FlattenSeq(ss) = G[n]
    BY FlattenSteps
<1>3. G[0] = <<>> /\ \A i \in 1..n : G[i] = G[i - 1] \o ss[i]
    BY <1>2 DEF Concats
<1> DEFINE Good(i) == /\ G[i] \in X /\ Nested(OpsOf(G[i]))
                      /\ \A j \in 1..i : \E x : Stands(ss[j], G[i], x)
           T == {i \in 0..n : Good(i)}
<1>4. 0 \in T
    <2>1. 0 \in 0..n /\ 1..0 = {} /\ G[0] \in X
        BY <1>1
    <2>2. Nested(OpsOf(G[0]))
        BY <1>3, EmptyNested
    <2>3. QED  BY <2>1, <2>2
<1>5. ASSUME NEW i \in 0..(n - 1), i \in T PROVE i + 1 \in T
    <2> DEFINE l == i + 1
               a == G[i]
               c == ss[l]
    <2>1. l \in 1..n /\ l - 1 = i /\ l \in 0..n /\ 1..l = 1..i \cup {l} /\ 1..i \subseteq 1..n
        BY <1>1
    <2>2. a \in X /\ Nested(OpsOf(a)) /\ \A j \in 1..i : \E x : Stands(ss[j], a, x)
        BY <1>5
    <2> HIDE DEF l
    <2>3. c \in X /\ Nested(OpsOf(c)) /\ G[l] = a \o c /\ G[l] \in X
        BY <1>1, <1>2, <1>3, <2>1
    <2> HIDE DEF a, c
    <2>4. Nested(OpsOf(a \o c))
        BY <2>2, <2>3, ConcatNested
    <2>5. ASSUME NEW j \in 1..i PROVE \E x : Stands(ss[j], a \o c, x)
        <3>1. PICK x : Stands(ss[j], a, x)
            BY <2>2
        <3>2. ss[j] \in X
            BY <1>1, <2>1
        <3>3. Stands(ss[j], a \o c, x)
            BY <2>2, <2>3, <3>1, <3>2, StandsMore
        <3>4. QED  BY <3>3
    <2>6. Stands(c, a \o c, Len(a))
        BY <2>2, <2>3, StandsLast
    <2>7. \A j \in 1..l : \E x : Stands(ss[j], a \o c, x)
        BY <2>1, <2>5, <2>6 DEF c
    <2>8. l \in T
        BY <2>1, <2>3, <2>4, <2>7
    <2>9. QED  BY <2>8 DEF l
<1>6. 0..n \subseteq T
    <2> HIDE DEF T, n
    <2>1. QED  BY <1>1, <1>4, <1>5, UpTo
<1>7. n \in T
    BY <1>1, <1>6
<1>8. QED  BY <1>1, <1>2, <1>7

(***************************************************************************)
(* The stubs of requirements                                               *)
(***************************************************************************)
\* ops opens the blocks around requirement r of b and r itself, then closes
\* all of them.
StubOf(ops, b, r, n) ==
    /\ n \in Nat \ {0} /\ Len(ops) = 2 * n
    /\ \A i \in 1..n : ops[i].kind = "begin" /\ ops[n + i].kind = "end"
    /\ ops[n] = b[r]
    /\ \A i \in 1..(n - 1) : \E s \in OpenAt(b, r) : ops[i] = b[s]

\* So does a stub.
LEMMA StubShape ==
    ASSUME NEW b \in Seq(Op), NEW r \in DOMAIN b, b[r].kind = "begin"
    PROVE  \E n : StubOf(OpsOf(Stub(b, r)), b, r, n)
<1> DEFINE S == OpenAt(b, r) \cup {r}
           chain == Ascending(S)
           n == Cardinality(S)
<1>1. r \in Nat /\ S \subseteq 1..r /\ S \subseteq Int /\ r \in S
    BY DEF OpenAt
<1>2. IsFiniteSet(S)
    <2>1. IsFiniteSet(1..r)
        BY <1>1, FS_Interval
    <2> HIDE DEF S
    <2>2. QED  BY <1>1, <2>1, FS_Subset
<1>k. \A s \in S : b[s].kind = "begin"
    BY DEF OpenAt
<1>o. \A s \in S : s # r => s \in OpenAt(b, r)
    OBVIOUS
<1> HIDE DEF S
<1>3. /\ n \in Nat /\ chain \in [1..n -> S]
      /\ \A x \in S : \E i \in 1..n : chain[i] = x
      /\ \A i, j \in 1..n : i < j => chain[i] < chain[j]
    BY <1>1, <1>2, AscendingLists
<1>s. Stub(b, r) = [i \in 1..(2 * Len(chain)) |->
                      [op |-> IF i <= Len(chain) THEN b[chain[i]]
                              ELSE WhenEnd(b[chain[2 * Len(chain) + 1 - i]]),
                       at |-> 0]]
    BY DEF Stub, S
<1> HIDE DEF chain, n
<1>4. Len(chain) = n
    BY <1>3, SeqOfFunction
<1>5. PICK m \in 1..n : chain[m] = r
    BY <1>1, <1>3
<1>6. n \in Nat \ {0} /\ n \in 1..n /\ m <= n
    BY <1>3, <1>5
<1>7. m = n
    <2>1. ASSUME m < n PROVE FALSE
        <3>1. chain[m] < chain[n] /\ chain[n] \in 1..r
            BY <1>1, <1>3, <1>6, <2>1
        <3>2. QED  BY <1>1, <1>5, <3>1
    <2>2. QED  BY <1>6, <2>1
<1> DEFINE ops == OpsOf(Stub(b, r))
<1>8. /\ DOMAIN ops = 1..(2 * n) /\ Len(ops) = 2 * n
      /\ \A i \in 1..(2 * n) :
           ops[i] = IF i <= n THEN b[chain[i]] ELSE WhenEnd(b[chain[2 * n + 1 - i]])
    <2>1. /\ DOMAIN ops = 1..(2 * n)
          /\ \A i \in 1..(2 * n) :
               ops[i] = IF i <= n THEN b[chain[i]] ELSE WhenEnd(b[chain[2 * n + 1 - i]])
        BY <1>s, <1>4 DEF OpsOf
    <2>2. 2 * n \in Nat
        BY <1>6
    <2>3. ops = [i \in 1..(2 * n) |-> ops[i]]
        BY <2>1 DEF OpsOf
    <2> HIDE DEF ops
    <2>4. Len(ops) = 2 * n
        BY <2>2, <2>3
    <2>5. QED  BY <2>1, <2>4
<1> HIDE DEF ops
<1>9. ASSUME NEW i \in 1..n
      PROVE  ops[i] = b[chain[i]] /\ ops[i].kind = "begin" /\ ops[n + i].kind = "end"
    <2>1. /\ i \in 1..(2 * n) /\ i <= n /\ n + i \in 1..(2 * n) /\ ~(n + i <= n)
          /\ 2 * n + 1 - (n + i) \in 1..n
        BY <1>6
    <2>2. ops[i] = b[chain[i]] /\ chain[i] \in S
        BY <1>3, <1>8, <2>1
    <2>3. ops[n + i] = WhenEnd(b[chain[2 * n + 1 - (n + i)]])
        BY <1>8, <2>1
    <2>4. \A o : WhenEnd(b[o]).kind = "end" \/ b[o] \notin Op
        BY DEF WhenEnd, Op
    <2>5. chain[2 * n + 1 - (n + i)] \in 1..r
        BY <1>1, <1>3, <2>1
    <2>6. 1..r \subseteq DOMAIN b /\ \A o \in DOMAIN b : b[o] \in Op
        OBVIOUS
    <2>7. QED  BY <1>k, <2>2, <2>3, <2>4, <2>5, <2>6
<1>10. ASSUME NEW i \in 1..(n - 1) PROVE \E s \in OpenAt(b, r) : ops[i] = b[s]
    <2>1. i \in 1..n /\ i < n
        BY <1>6
    <2>2. chain[i] \in S /\ chain[i] < r
        BY <1>3, <1>5, <1>6, <1>7, <2>1
    <2>3. r \in Int /\ chain[i] \in Int
        BY <1>1, <2>2
    <2>4. chain[i] # r
        BY <2>2, <2>3
    <2>5. QED  BY <1>o, <1>9, <2>1, <2>2, <2>4
<1>11. ops[n] = b[r]
    BY <1>5, <1>6, <1>7, <1>9
<1>12. StubOf(ops, b, r, n)
    BY <1>6, <1>8, <1>9, <1>10, <1>11 DEF StubOf
<1>13. QED  BY <1>12 DEF ops

\* A stub is nested and asks for the requirement.
LEMMA StubAsks ==
    ASSUME NEW ops, NEW b, NEW r, NEW n, StubOf(ops, b, r, n)
    PROVE  Nested(ops) /\ Asks(ops, n, b, r)
<1>1. /\ n \in Nat \ {0} /\ Len(ops) = 2 * n
      /\ \A i \in 1..n : ops[i].kind = "begin" /\ ops[n + i].kind = "end"
    BY DEF StubOf
<1>2. ASSUME NEW i \in 1..(2 * n)
      PROVE  Depth(ops, i) = Depth(ops, i - 1) + IF i <= n THEN 1 ELSE -1
    <2>1. i \in Nat \ {0}
        BY <1>1
    <2>2. Depth(ops, i) = Depth(ops, i - 1) + Delta(ops[i])
        BY <2>1, DepthStep
    <2>3. CASE i <= n
        <3>1. i \in 1..n
            BY <2>1, <2>3
        <3>2. Delta(ops[i]) = 1
            BY <1>1, <3>1 DEF Delta
        <3>3. QED  BY <2>2, <2>3, <3>2
    <2>4. CASE ~(i <= n)
        <3>1. i - n \in 1..n /\ n + (i - n) = i
            BY <1>1, <2>4
        <3>2. ops[i].kind = "end"
            BY <1>1, <3>1
        <3>3. Delta(ops[i]) = -1
            BY <3>2 DEF Delta
        <3>4. QED  BY <2>2, <2>4, <3>3
    <2>5. QED  BY <2>3, <2>4
<1> DEFINE D(i) == Depth(ops, i)
           T == {i \in 0..(2 * n) : D(i) = IF i <= n THEN i ELSE 2 * n - i}
<1>3. 0 \in T
    BY <1>1, DepthStep
<1>4. ASSUME NEW i \in 0..(2 * n - 1), i \in T PROVE i + 1 \in T
    <2>1. i + 1 \in 1..(2 * n) /\ (i + 1) - 1 = i /\ i + 1 \in 0..(2 * n)
        BY <1>1
    <2>2. D(i + 1) = D(i) + IF i + 1 <= n THEN 1 ELSE -1
        BY <1>2, <2>1
    <2> HIDE DEF D
    <2>3. D(i) = IF i <= n THEN i ELSE 2 * n - i
        BY <1>4
    <2>4. D(i + 1) = IF i + 1 <= n THEN i + 1 ELSE 2 * n - (i + 1)
        BY <1>1, <2>2, <2>3
    <2>5. QED  BY <2>1, <2>4
<1>5. 0..(2 * n) \subseteq T
    <2>1. 2 * n \in Nat
        BY <1>1
    <2> DEFINE z == 2 * n
    <2>2. z \in Nat /\ 0 \in T /\ \A i \in 0..(z - 1) : i \in T => i + 1 \in T
        BY <1>3, <1>4, <2>1
    <2> HIDE DEF T, z
    <2>3. 0..z \subseteq T
        BY <2>2, UpTo
    <2>4. QED  BY <2>3 DEF z
<1>6. Nested(ops)
    <2>1. ASSUME NEW i \in 0..(2 * n) PROVE D(i) >= 0
        <3>1. D(i) = IF i <= n THEN i ELSE 2 * n - i
            BY <1>5
        <3> HIDE DEF D
        <3>2. QED  BY <1>1, <3>1
    <2>2. D(2 * n) = 0
        <3>1. 2 * n \in 0..(2 * n) /\ ~(2 * n <= n)
            BY <1>1
        <3>2. D(2 * n) = 2 * n - 2 * n
            BY <1>5, <3>1
        <3>3. QED  BY <1>1, <3>2
    <2>3. QED  BY <1>1, <2>1, <2>2 DEF Nested, NestedTo
<1>7. Asks(ops, n, b, r)
    <2>1. n \in 1..Len(ops)
        BY <1>1
    <2>2. \A s \in OpenAt(ops, n) : s \in 1..(n - 1)
        BY DEF OpenAt
    <2>3. QED  BY <2>1, <2>2 DEF Asks, StubOf
<1>8. QED  BY <1>6, <1>7

\* Stub lines are lines.
LEMMA StubLines ==
    ASSUME NEW ls \in Seq(StubLine)
    PROVE  ls \in Seq(LineType)
<1>1. StubLine \subseteq LineType
    BY DEF StubLine, LineType
<1>2. QED  BY <1>1

\* The stubs of a body are nested, and each requirement in a scope of host
\* facts is asked for there.
LEMMA StubsAsk ==
    ASSUME NEW b \in Seq(Op)
    PROVE  /\ requirementStubs(b) \in Seq(LineType)
           /\ Nested(OpsOf(requirementStubs(b)))
           /\ \A r \in RequirementsOf(b) : ScopeIsHostFact(b, r) =>
                \E i : Asks(OpsOf(requirementStubs(b)), i, b, r)
<1> DEFINE S == {r \in RequirementsOf(b) : ScopeIsHostFact(b, r)}
           rs == Ascending(S)
           n == Cardinality(S)
           ss == [i \in DOMAIN rs |-> Stub(b, rs[i])]
<1>1. S \subseteq DOMAIN b /\ S \subseteq Int /\ IsFiniteSet(DOMAIN b)
    BY FS_Interval DEF RequirementsOf
<1>k. \A r \in S : r \in DOMAIN b /\ b[r].kind = "begin"
    BY DEF RequirementsOf
<1>2. n \in Nat /\ rs \in [1..n -> S] /\ \A x \in S : \E i \in 1..n : rs[i] = x
    <2>1. IsFiniteSet(S)
        BY <1>1, FS_Subset
    <2> HIDE DEF S
    <2>2. QED  BY <1>1, <2>1, AscendingLists
<1>s. \A r \in RequirementsOf(b) : ScopeIsHostFact(b, r) => r \in S
    OBVIOUS
<1>t. requirementStubs(b) = FlattenSeq(ss)
    BY DEF requirementStubs
<1> HIDE DEF S, rs, n
<1>3. ss \in [1..n -> Seq(LineType)] /\ DOMAIN ss = 1..n /\ \A i \in 1..n : ss[i] = Stub(b, rs[i])
    <2>1. \A i \in 1..n : Stub(b, rs[i]) \in Seq(LineType)
        BY <1>1, <1>2, StubType, StubLines
    <2>2. QED  BY <1>2, <2>1
<1> HIDE DEF ss
<1>4. ss \in Seq(Seq(LineType))
    BY <1>2, <1>3, SeqOfFunction
<1>5. ASSUME NEW i \in 1..n
      PROVE  Nested(OpsOf(ss[i])) /\ \E j : Asks(OpsOf(ss[i]), j, b, rs[i])
    <2>1. rs[i] \in DOMAIN b /\ b[rs[i]].kind = "begin"
        BY <1>k, <1>2
    <2>2. PICK m : StubOf(OpsOf(Stub(b, rs[i])), b, rs[i], m)
        BY <2>1, StubShape
    <2>3. Nested(OpsOf(Stub(b, rs[i]))) /\ Asks(OpsOf(Stub(b, rs[i])), m, b, rs[i])
        BY <2>2, StubAsks
    <2>4. QED  BY <1>3, <2>3
<1> DEFINE F == FlattenSeq(ss)
<1>6. /\ F \in Seq(LineType) /\ Nested(OpsOf(F))
      /\ \A j \in 1..n : \E x : Stands(ss[j], F, x)
    BY <1>3, <1>4, <1>5, FlattenStands
<1> HIDE DEF F
<1>7. ASSUME NEW r \in S PROVE \E i : Asks(OpsOf(F), i, b, r)
    <2>1. PICK j \in 1..n : rs[j] = r
        BY <1>2
    <2>2. PICK x : Stands(ss[j], F, x)
        BY <1>6
    <2>3. PICK m : Asks(OpsOf(ss[j]), m, b, r)
        BY <1>5, <2>1
    <2>4. ss[j] \in Seq(LineType)
        BY <1>3
    <2>5. m \in 1..Len(ss[j])
        BY <2>3, <2>4, OpsType DEF Asks
    <2>6. Asks(OpsOf(F), x + m, OpsOf(ss[j]), m)
        BY <1>6, <2>2, <2>4, <2>5, StandsAsks
    <2>7. Asks(OpsOf(F), x + m, b, r)
        BY <2>3, <2>6, AsksTransitive
    <2>8. QED  BY <2>7
<1>8. QED  BY <1>s, <1>t, <1>6, <1>7 DEF F

\* The hoisted lines of a chunk are nested, and the stubs of every later
\* chunk stand in them.
LEMMA PendingStands ==
    ASSUME NEW parts \in Seq(ChunkType), NEW c \in DOMAIN parts
    PROVE  /\ Pending(parts, c) \in Seq(LineType)
           /\ Nested(OpsOf(Pending(parts, c)))
           /\ \A j \in DOMAIN parts : c < j =>
                \E x : Stands(requirementStubs(OpsOf(parts[j].lines)), Pending(parts, c), x)
<1> DEFINE n == Len(parts)
           stubs == [j \in DOMAIN parts |-> requirementStubs(OpsOf(parts[j].lines))]
           ss == SubSeq(stubs, c + 1, n)
<1>1. n \in Nat /\ DOMAIN parts = 1..n /\ c \in 1..n
    OBVIOUS
<1>2. ASSUME NEW j \in 1..n
      PROVE  stubs[j] \in Seq(LineType) /\ Nested(OpsOf(stubs[j]))
    <2>1. parts[j].lines \in Seq(LineType)
        <3>1. parts[j] \in ChunkType
            BY <1>1
        <3>2. QED  BY <3>1 DEF ChunkType
    <2>2. OpsOf(parts[j].lines) \in Seq(Op)
        BY <2>1, OpsType
    <2>3. QED  BY <1>1, <2>2, StubsAsk
<1>3. Pending(parts, c) = FlattenSeq(ss)
    BY DEF Pending
<1>4. stubs \in [1..n -> Seq(LineType)] /\ DOMAIN stubs = 1..n
    BY <1>1, <1>2
<1>5. \A j \in 1..n : stubs[j] = requirementStubs(OpsOf(parts[j].lines))
    BY <1>1
<1> HIDE DEF stubs, n
<1>6. stubs \in Seq(Seq(LineType)) /\ Len(stubs) = n
    BY <1>1, <1>4, SeqOfFunction
<1>7. /\ ss \in Seq(Seq(LineType)) /\ Len(ss) = n - c /\ DOMAIN ss = 1..(n - c)
      /\ \A i \in 1..(n - c) : ss[i] = stubs[c + i] /\ c + i \in 1..n
    <2> DEFINE X == Seq(LineType)
    <2> HIDE DEF X
    <2>1. stubs \in Seq(X) /\ c + 1 \in Nat /\ n \in 0..Len(stubs) /\ c + 1 \in 1..(n + 1)
        BY <1>1, <1>6 DEF X
    <2>2. ss \in Seq(X) /\ Len(ss) = n - c
        BY <1>1, <1>6, <2>1
    <2>3. ASSUME NEW i \in 1..(n - c) PROVE ss[i] = stubs[c + i] /\ c + i \in 1..n
        <3> DEFINE f == c + 1
        <3>1. i \in 1..(n - f + 1) /\ f + i - 1 = c + i /\ c + i \in 1..n
            BY <1>1
        <3>2. f \in 1..(Len(stubs) + 1) /\ n \in (f - 1)..Len(stubs)
            BY <1>1, <1>6
        <3> HIDE DEF f
        <3>3. SubSeq(stubs, f, n)[i] = stubs[f + i - 1]
            BY <2>1, <3>1, <3>2, SubSeqProperties
        <3>4. QED  BY <3>1, <3>3 DEF f
    <2>4. DOMAIN ss = 1..(n - c)
        BY <2>2
    <2>5. QED  BY <2>2, <2>3, <2>4 DEF X
<1> HIDE DEF ss
<1>8. \A i \in DOMAIN ss : Nested(OpsOf(ss[i]))
    BY <1>2, <1>7
<1>9. /\ FlattenSeq(ss) \in Seq(LineType) /\ Nested(OpsOf(FlattenSeq(ss)))
      /\ \A i \in DOMAIN ss : \E x : Stands(ss[i], FlattenSeq(ss), x)
    BY <1>7, <1>8, FlattenStands
<1>10. ASSUME NEW j \in 1..n, c < j
       PROVE  \E x : Stands(stubs[j], FlattenSeq(ss), x)
    <2>1. j - c \in 1..(n - c) /\ c + (j - c) = j
        BY <1>1, <1>10
    <2>2. ss[j - c] = stubs[j] /\ j - c \in DOMAIN ss
        BY <1>7, <2>1
    <2>3. QED  BY <1>9, <2>2
<1>11. QED  BY <1>1, <1>3, <1>5, <1>9, <1>10

(***************************************************************************)
(* Where the split cuts                                                    *)
(***************************************************************************)
\* A part of b may end at line p: b ends there, or its effective privilege
\* changes.
CutAt(b, p) ==
    /\ p \in 0..Len(b)
    /\ p = 0 \/ p = Len(b) \/ effectiveElevate(b)[p + 1] # effectiveElevate(b)[p]

\* Lines s..e of b are a block that is in no other one.
Outer(b, s, e) ==
    /\ s \in Nat \ {0} /\ e \in Nat /\ s < e /\ b[e].kind = "end"
    /\ Depth(b, s - 1) = 0 /\ Depth(b, e) = 0

\* A block around a line of such a block is within it.
LEMMA WithinOuter ==
    ASSUME NEW b, NEW s, NEW e, Outer(b, s, e),
           NEW s2 \in Nat \ {0}, NEW e2 \in Nat, Closes(b, s2, e2), Depth(b, s2 - 1) >= 0,
           NEW j \in s..e, s2 <= j, j <= e2
    PROVE  s <= s2 /\ e2 <= e
<1>0. s \in Nat \ {0} /\ e \in Nat /\ Depth(b, s - 1) = 0 /\ Depth(b, e) = 0
    BY DEF Outer
<1>1. /\ s2 < e2 /\ b[s2].kind = "begin"
      /\ \A x \in s2..(e2 - 1) : Depth(b, x) >= Depth(b, s2)
    BY ClosesDepth DEF Over
<1>2. Depth(b, s2) >= 1
    <2>1. Depth(b, s2) = Depth(b, s2 - 1) + 1
        <3>1. Depth(b, s2) = Depth(b, s2 - 1) + Delta(b[s2])
            BY DepthStep
        <3>2. QED  BY <1>1, <3>1 DEF Delta
    <2>2. Depth(b, s2 - 1) \in Int
        <3>1. s2 - 1 \in Nat
            OBVIOUS
        <3>2. QED  BY <3>1, DepthInt
    <2>3. QED  BY <2>1, <2>2
<1>3. ASSUME NEW x \in s2..(e2 - 1), Depth(b, x) = 0 PROVE FALSE
    <2>1. 0 >= Depth(b, s2)
        BY <1>1, <1>3
    <2>2. Depth(b, s2) \in Int
        BY DepthInt
    <2>3. QED  BY <1>2, <2>1, <2>2
<1>4. s <= s2
    <2>1. ASSUME ~(s <= s2) PROVE s - 1 \in s2..(e2 - 1)
        BY <1>0, <2>1
    <2>2. QED  BY <1>0, <1>3, <2>1
<1>5. e2 <= e
    <2>1. ASSUME ~(e2 <= e) PROVE e \in s2..(e2 - 1)
        BY <1>0, <2>1
    <2>2. QED  BY <1>0, <1>3, <2>1
<1>6. QED  BY <1>4, <1>5

\* All lines of such a block have one effective privilege.
LEMMA OuterElevates ==
    ASSUME NEW b \in Seq(Op), Nested(b), NEW s \in 1..Len(b), NEW e \in 1..Len(b),
           Closes(b, s, e), Outer(b, s, e), NEW j \in s..e
    PROVE  effectiveElevate(b)[j] = \E q \in s..e : b[q].elevate
<1> DEFINE n == Len(b)
<1>1. /\ n \in Nat /\ DOMAIN b = 1..n /\ s \in Nat \ {0} /\ e \in Nat \ {0} /\ j \in 1..n
      /\ s \in 1..n /\ e \in 1..n
    OBVIOUS
<1>2. s < e /\ b[e].kind = "end" /\ s \in 1..j /\ e \in j..n
    BY <1>1 DEF Closes
<1>3. effectiveElevate(b)[j] = (\/ b[j].elevate
                                \/ \E s2 \in 1..j, e2 \in j..n :
                                      Closes(b, s2, e2) /\ \E q \in s2..e2 : b[q].elevate)
    BY <1>1 DEF effectiveElevate
<1>4. ASSUME NEW s2 \in 1..j, NEW e2 \in j..n, Closes(b, s2, e2)
      PROVE  s2..e2 \subseteq s..e
    <2>1. s2 \in Nat \ {0} /\ e2 \in Nat /\ s2 - 1 \in 0..Len(b) /\ s2 <= j /\ j <= e2
        BY <1>1
    <2>2. Depth(b, s2 - 1) >= 0
        BY <2>1 DEF Nested, NestedTo
    <2>3. s <= s2 /\ e2 <= e
        BY <1>4, <2>1, <2>2, WithinOuter
    <2>4. QED  BY <1>1, <2>1, <2>3
<1>5. b[j].elevate => \E q \in s..e : b[q].elevate
    OBVIOUS
<1> DEFINE A == b[j].elevate
           B == \E s2 \in 1..j, e2 \in j..n : Closes(b, s2, e2) /\ \E q \in s2..e2 : b[q].elevate
           C == \E q \in s..e : b[q].elevate
<1>6. B => C
    BY <1>4
<1>7. C => B
    BY <1>2
<1>8. effectiveElevate(b)[j] = (A \/ B)
    BY <1>3
<1> HIDE DEF B, C
<1>9. A => C
    BY <1>5 DEF C
<1>10. (A \/ B) <=> C
    BY <1>6, <1>7, <1>9
<1>11. B \in BOOLEAN /\ C \in BOOLEAN
    BY DEF B, C
<1>12. (A \/ B) = C
    BY <1>10, <1>11
<1>13. QED  BY <1>8, <1>12 DEF C

\* The split cuts between blocks.
LEMMA CutDepth ==
    ASSUME NEW b \in Seq(Op), Balanced(b), NEW p, CutAt(b, p)
    PROVE  Depth(b, p) = 0
<1> DEFINE n == Len(b)
<1>0. Nested(b) /\ n \in Nat /\ DOMAIN b = 1..n
    BY BalancedNested
<1>a. \A i \in 0..n : Depth(b, i) >= 0
    BY <1>0 DEF Nested, NestedTo
<1> SUFFICES ASSUME Depth(b, p) # 0 PROVE FALSE
    OBVIOUS
<1>1. /\ p \in 1..(n - 1) /\ p \in Nat /\ p + 1 \in 1..n
      /\ effectiveElevate(b)[p + 1] # effectiveElevate(b)[p]
    <2>1. Depth(b, 0) = 0 /\ Depth(b, n) = 0
        BY <1>0, DepthStep DEF Nested, NestedTo
    <2>2. p # 0 /\ p # n
        BY <2>1
    <2>3. p \in 0..n /\ effectiveElevate(b)[p + 1] # effectiveElevate(b)[p]
        BY <2>2 DEF CutAt
    <2> HIDE DEF n
    <2>4. QED  BY <1>0, <2>2, <2>3
<1> HIDE DEF n
<1> DEFINE T == {m \in 0..p : Depth(b, m) = 0}
<1>2. T \subseteq 0..p /\ T # {}
    <2>1. 0 \in T
        BY <1>1, DepthStep
    <2>2. QED  BY <2>1
<1>3. PICK m \in T : \A x \in T : x <= m
    <2> HIDE DEF T
    <2>1. QED  BY <1>1, <1>2, GreatestExists
<1>4. m \in 0..p /\ Depth(b, m) = 0 /\ m # p
    BY <1>3
<1> DEFINE s == m + 1
<1>5. s \in 1..n /\ s \in Nat \ {0} /\ s - 1 = m /\ s \in 0..p /\ ~(s <= m) /\ s \in 0..n
    BY <1>0, <1>1, <1>4
<1> HIDE DEF s
<1>6. Depth(b, s) >= 0 /\ Depth(b, s) # 0
    BY <1>3, <1>5, <1>a
<1>7. b[s].kind = "begin" /\ Depth(b, s) = 1
    <2>1. Depth(b, s) = 0 + Delta(b[s])
        BY <1>4, <1>5, DepthStep
    <2>2. QED  BY <1>6, <2>1 DEF Delta
<1>8. PICK e \in 1..n : Closes(b, s, e)
    BY <1>0, <1>5, <1>7 DEF Balanced
<1>9. e \in Nat \ {0} /\ e \in 0..n
    BY <1>0
<1>10. s < e /\ b[e].kind = "end" /\ Depth(b, e - 1) = Depth(b, s)
    BY <1>5, <1>8, <1>9, ClosesDepth
<1>11. Depth(b, e) = 0
    <2>1. Depth(b, e) = Depth(b, e - 1) + Delta(b[e])
        BY <1>9, DepthStep
    <2>2. QED  BY <1>7, <1>10, <2>1 DEF Delta
<1>12. ~(e <= p)
    <2>1. ASSUME e <= p PROVE e <= m
        <3>1. e \in 0..p
            BY <1>9, <2>1
        <3>2. QED  BY <1>3, <1>11, <3>1
    <2>2. QED  BY <1>4, <1>5, <1>9, <1>10, <2>1
<1>13. p \in s..e /\ p + 1 \in s..e
    BY <1>1, <1>5, <1>9, <1>12
<1>14. s \in 1..Len(b) /\ e \in 1..Len(b) /\ Outer(b, s, e)
    BY <1>4, <1>5, <1>9, <1>10, <1>11 DEF Outer, n
<1>15. /\ effectiveElevate(b)[p] = (\E q \in s..e : b[q].elevate)
       /\ effectiveElevate(b)[p + 1] = (\E q \in s..e : b[q].elevate)
    <2>1. \A j \in s..e : effectiveElevate(b)[j] = (\E q \in s..e : b[q].elevate)
        BY <1>0, <1>8, <1>14, OuterElevates
    <2>2. QED  BY <1>13, <2>1
<1>16. QED  BY <1>1, <1>15

\* The stretches first[c]..last[c] cut b.
IsCut(b, n, first, last) ==
    /\ first \in [1..n -> 1..Len(b)] /\ last \in [1..n -> 1..Len(b)]
    /\ \A c \in 1..n : first[c] <= last[c] /\ CutAt(b, first[c] - 1) /\ CutAt(b, last[c])
    /\ \A c, d \in 1..n : c < d => last[c] < first[d]
    /\ \A p \in 1..Len(b) : \E c \in 1..n : p \in first[c]..last[c]

\* A part holds the lines f..l of b.
PartIs(part, b, f, l) == part.lines = [j \in 1..(l + 1 - f) |-> Line(b, f + j - 1)]

\* The split makes a part of each stretch.
LEMMA PartsShape ==
    ASSUME NEW b \in Seq(Op), b # <<>>
    PROVE  \E n \in Nat \ {0} : \E first, last :
              /\ IsCut(b, n, first, last)
              /\ DOMAIN PrivilegeParts(b) = 1..n
              /\ \A c \in 1..n : PartIs(PrivilegeParts(b)[c], b, first[c], last[c])
<1> DEFINE eff == effectiveElevate(b)
           N == Len(b)
           S == {i \in DOMAIN b : i > 1 => eff[i] # eff[i - 1]}
           starts == Ascending(S)
           stop(c) == IF c = Len(starts) THEN Len(b) ELSE starts[c + 1] - 1
           part(c) == [elevate |-> eff[starts[c]],
                       lines |-> [j \in 1..(stop(c) + 1 - starts[c]) |->
                                     Line(b, starts[c] + j - 1)]]
           n == Cardinality(S)
<1>1. S \subseteq 1..N /\ S \subseteq Int /\ IsFiniteSet(DOMAIN b) /\ N \in Nat /\ N # 0
    BY FS_Interval
<1>2. /\ n \in Nat /\ starts \in [1..n -> S] /\ \A i, j \in 1..n : i < j => starts[i] < starts[j]
      /\ \A x \in S : \E i \in 1..n : starts[i] = x
    <2>1. IsFiniteSet(S)
        BY <1>1, FS_Subset
    <2> HIDE DEF S
    <2>2. QED  BY <1>1, <2>1, AscendingLists
<1>3. Len(starts) = n /\ DOMAIN starts = 1..n
    <2> HIDE DEF S, starts, n
    <2>1. QED  BY <1>2, SeqOfFunction
<1>4. 1 \in S
    BY <1>1
<1>5. PrivilegeParts(b) = [c \in DOMAIN starts |-> part(c)]
    BY DEF PrivilegeParts
<1>c. \A i \in S : CutAt(b, i - 1)
    <2>1. ASSUME NEW i \in S PROVE CutAt(b, i - 1)
        <3>1. i \in 1..N /\ i - 1 \in 0..Len(b) /\ (i - 1) + 1 = i /\ (i > 1 => eff[i] # eff[i - 1])
            BY <1>1
        <3>2. i - 1 = 0 \/ i > 1
            BY <3>1
        <3> HIDE DEF S
        <3>3. QED  BY <3>1, <3>2 DEF CutAt
    <2> HIDE DEF S
    <2>2. QED  BY <2>1
<1> DEFINE last == [c \in 1..n |-> stop(c)]
<1> HIDE DEF S, starts, n, eff
<1>6. ASSUME NEW c \in 1..n
      PROVE  /\ starts[c] \in 1..N /\ last[c] = stop(c) /\ last[c] \in starts[c]..N
             /\ c = n => last[c] = N
             /\ c # n => c + 1 \in 1..n /\ last[c] = starts[c + 1] - 1
    <2>1. starts[c] \in 1..N /\ last[c] = stop(c)
        BY <1>1, <1>2
    <2>2. CASE c = n
        BY <1>1, <1>3, <2>1, <2>2
    <2>3. CASE c # n
        <3>1. c + 1 \in 1..n /\ c < c + 1 /\ c # Len(starts)
            BY <1>2, <1>3, <2>3
        <3>2. starts[c + 1] \in 1..N /\ starts[c] < starts[c + 1]
            BY <1>1, <1>2, <3>1
        <3>3. QED  BY <1>1, <2>1, <2>3, <3>1, <3>2
    <2>4. QED  BY <2>2, <2>3
<1>7. PICK i1 \in 1..n : starts[i1] = 1
    BY <1>2, <1>4
<1>8. n \in Nat \ {0} /\ n \in 1..n
    BY <1>2, <1>7
<1>9. ASSUME NEW c \in 1..n
      PROVE  PartIs(PrivilegeParts(b)[c], b, starts[c], last[c])
    <2>1. PrivilegeParts(b)[c] = part(c)
        BY <1>3, <1>5
    <2>2. part(c).lines = [j \in 1..(stop(c) + 1 - starts[c]) |-> Line(b, starts[c] + j - 1)]
        OBVIOUS
    <2>3. last[c] = stop(c)
        BY <1>6
    <2> HIDE DEF part, stop, last
    <2>4. QED  BY <2>1, <2>2, <2>3 DEF PartIs
<1> HIDE DEF stop, part, last
<1>10. ASSUME NEW c \in 1..n
       PROVE  starts[c] <= last[c] /\ CutAt(b, starts[c] - 1) /\ CutAt(b, last[c])
    <2>1. starts[c] <= last[c]
        BY <1>1, <1>6
    <2>2. CutAt(b, starts[c] - 1)
        BY <1>2, <1>c
    <2>3. CutAt(b, last[c])
        <3>1. CASE c = n
            <4>1. last[c] = Len(b) /\ Len(b) \in 0..Len(b)
                BY <1>1, <1>6, <3>1
            <4>2. QED  BY <4>1 DEF CutAt
        <3>2. CASE c # n
            <4>1. c + 1 \in 1..n /\ last[c] = starts[c + 1] - 1
                BY <1>6, <3>2
            <4>2. QED  BY <1>2, <1>c, <4>1
        <3>3. QED  BY <3>1, <3>2
    <2>4. QED  BY <2>1, <2>2, <2>3
<1>11. ASSUME NEW c \in 1..n, NEW d \in 1..n, c < d PROVE last[c] < starts[d]
    <2>1. c # n /\ c + 1 \in 1..n /\ (c + 1 = d \/ c + 1 < d)
        BY <1>8, <1>11
    <2>2. last[c] = starts[c + 1] - 1 /\ starts[c + 1] \in 1..N /\ starts[d] \in 1..N
        BY <1>6, <2>1
    <2>3. c + 1 < d => starts[c + 1] < starts[d]
        BY <1>2, <2>1
    <2>4. QED  BY <1>1, <2>1, <2>2, <2>3
<1>12. ASSUME NEW p \in 1..N PROVE \E c \in 1..n : p \in starts[c]..last[c]
    <2> DEFINE T == {c \in 1..n : starts[c] <= p}
    <2>1. T \subseteq 0..n /\ T # {}
        <3>1. i1 \in T
            BY <1>7
        <3>2. QED  BY <3>1
    <2>2. PICK c \in T : \A x \in T : x <= c
        <3> HIDE DEF T
        <3>1. QED  BY <1>8, <2>1, GreatestExists
    <2>3. c \in 1..n /\ starts[c] <= p
        BY <2>2
    <2>4. starts[c] \in 1..N /\ last[c] \in 1..N
        BY <1>1, <1>6, <2>3
    <2>5. p <= last[c]
        <3>1. CASE c = n
            BY <1>1, <1>6, <2>3, <3>1
        <3>2. CASE c # n
            <4>1. c + 1 \in 1..n /\ last[c] = starts[c + 1] - 1 /\ ~(c + 1 <= c)
                BY <1>6, <1>8, <2>3, <3>2
            <4>2. ~(starts[c + 1] <= p)
                BY <2>2, <4>1
            <4>3. starts[c + 1] \in 1..N
                BY <1>6, <4>1
            <4>4. QED  BY <1>1, <4>1, <4>2, <4>3
        <3>3. QED  BY <3>1, <3>2
    <2>6. QED  BY <1>1, <2>3, <2>4, <2>5
<1>13. starts \in [1..n -> 1..Len(b)] /\ last \in [1..n -> 1..Len(b)]
    <2>1. \A c \in 1..n : starts[c] \in 1..N /\ last[c] \in 1..N
        BY <1>1, <1>6
    <2>2. starts \in [1..n -> 1..N]
        BY <1>2, <2>1
    <2>3. last \in [1..n -> 1..N]
        BY <2>1 DEF last
    <2>4. QED  BY <2>2, <2>3
<1>14. IsCut(b, n, starts, last)
    BY <1>10, <1>11, <1>12, <1>13 DEF IsCut
<1>15. DOMAIN PrivilegeParts(b) = 1..n
    BY <1>3, <1>5
<1>16. QED  BY <1>8, <1>9, <1>14, <1>15

(***************************************************************************)
(* What a chunk sees of the body                                           *)
(***************************************************************************)
\* The chunk lines ls are x hoisted lines, which are nested, and then the
\* lines g+1..l of the body.
View(b, ls, x, g, l) ==
    /\ ls \in Seq(LineType) /\ x \in Nat /\ g \in Nat /\ l \in g..Len(b)
    /\ Len(ls) = x + (l - g)
    /\ \A i \in 1..x : ls[i].at = 0
    /\ \A i \in 1..(l - g) : ls[x + i] = Line(b, g + i)
    /\ NestedTo(OpsOf(ls), x)

\* The lines g+1..l of b, as a body.
Stretch(b, g, l) == [i \in 1..(l - g) |-> b[g + i]]

\* They stand in the body and in the chunk.
LEMMA ViewAlike ==
    ASSUME NEW b \in Seq(Op), NEW ls, NEW x, NEW g, NEW l, View(b, ls, x, g, l)
    PROVE  /\ x \in Nat /\ g \in Nat /\ l - g \in Nat /\ l \in Nat /\ g + (l - g) = l
           /\ Alike(OpsOf(ls), x, Stretch(b, g, l), l - g)
           /\ Alike(b, g, Stretch(b, g, l), l - g)
           /\ Len(OpsOf(ls)) = Len(ls) /\ Len(ls) = x + (l - g)
           /\ \A i \in 1..(l - g) : /\ OpsOf(ls)[x + i] = b[g + i]
                                    /\ ls[x + i].at = g + i /\ g + i \in DOMAIN b
<1> DEFINE n == l - g
           m == Stretch(b, g, l)
<1>1. /\ ls \in Seq(LineType) /\ x \in Nat /\ g \in Nat /\ l \in Nat /\ l \in g..Len(b)
      /\ Len(ls) = x + n /\ Len(b) \in Nat
      /\ \A i \in 1..n : ls[x + i] = Line(b, g + i)
    BY DEF View
<1>2. n \in Nat /\ g + n = l /\ DOMAIN ls = 1..(x + n) /\ DOMAIN b = 1..Len(b)
    BY <1>1
<1>3. \A i \in 1..n : m[i] = b[g + i]
    BY DEF Stretch
<1> HIDE DEF n, m
<1>4. ASSUME NEW i \in 1..n
      PROVE  OpsOf(ls)[x + i] = b[g + i] /\ ls[x + i].at = g + i /\ g + i \in DOMAIN b
    <2>1. ls[x + i].op = b[g + i] /\ ls[x + i].at = g + i
        <3>1. ls[x + i] = Line(b, g + i)
            BY <1>1
        <3>2. QED  BY <3>1 DEF Line
    <2>2. x + i \in DOMAIN ls /\ g + i \in DOMAIN b
        BY <1>1, <1>2
    <2>3. QED  BY <2>1, <2>2 DEF OpsOf
<1>5. Alike(OpsOf(ls), x, m, n) /\ Alike(b, g, m, n)
    BY <1>3, <1>4 DEF Alike
<1>6. Len(OpsOf(ls)) = Len(ls)
    BY <1>1, OpsType
<1>7. QED  BY <1>1, <1>2, <1>4, <1>5, <1>6 DEF n, m

\* Line i of ls is the line of b it was recorded at, and the blocks around it
\* in the chunk are open around it in the plan.
InScope(b, ls, i) ==
    /\ ls[i].at \in DOMAIN b
    /\ OpsOf(ls)[i] = b[ls[i].at]
    /\ \A s \in OpenAt(OpsOf(ls), i) :
         s \in DOMAIN ls /\ ls[s].at \in OpenAt(b, ls[i].at) /\ OpsOf(ls)[s] = b[ls[s].at]

\* The blocks around it in the plan are open around it in the chunk.
Scoped(b, ls, i) ==
    \A o \in OpenAt(b, ls[i].at) : \E s \in OpenAt(OpsOf(ls), i) : ls[s].at = o

\* A chunk changes the scope of its lines only where it cuts a block.
LEMMA ViewOpen ==
    ASSUME NEW b \in Seq(Op), NEW ls, NEW x, NEW g, NEW l, View(b, ls, x, g, l),
           NEW i \in DOMAIN ls, ls[i].at > 0
    PROVE  /\ i - x \in 1..(l - g) /\ ls[i].at = g + (i - x)
           /\ InScope(b, ls, i)
           /\ NestedTo(b, g) => Scoped(b, ls, i)
<1> DEFINE n == l - g
           m == Stretch(b, g, l)
           d == OpsOf(ls)
           j == i - x
<1>1. /\ x \in Nat /\ g \in Nat /\ n \in Nat
      /\ Alike(d, x, m, n) /\ Alike(b, g, m, n)
      /\ Len(d) = Len(ls) /\ Len(ls) = x + n
      /\ \A q \in 1..n : d[x + q] = b[g + q] /\ ls[x + q].at = g + q /\ g + q \in DOMAIN b
    BY ViewAlike
<1>2. ls \in Seq(LineType) /\ (\A q \in 1..x : ls[q].at = 0) /\ NestedTo(d, x)
    BY DEF View
<1>3. DOMAIN ls = 1..(x + n) /\ i \in 1..(x + n)
    BY <1>1, <1>2
<1>4. ~(i \in 1..x)
    BY <1>2
<1>5. j \in 1..n /\ x + j = i
    BY <1>1, <1>3, <1>4
<1> HIDE DEF n, m, d, j
<1>6. d[i] = b[g + j] /\ ls[i].at = g + j /\ g + j \in DOMAIN b
    BY <1>1, <1>5
<1>7. ASSUME NEW s \in OpenAt(d, i)
      PROVE  s \in DOMAIN ls /\ ls[s].at \in OpenAt(b, g + j) /\ d[s] = b[ls[s].at]
    <2> DEFINE r == s - x
    <2>1. s \in OpenAt(d, x + j) /\ s \in 1..(i - 1)
        BY <1>5 DEF OpenAt
    <2>2. r \in 1..(j - 1) /\ r \in OpenAt(m, j)
        BY <1>1, <1>2, <1>5, <2>1, OpenWithin
    <2>3. r \in 1..n /\ r \in Nat \ {0} /\ x + r = s /\ s \in 1..(x + n)
        BY <1>1, <1>5, <2>1, <2>2
    <2> HIDE DEF r
    <2>4. g + r \in OpenAt(b, g + j)
        BY <1>1, <1>5, <2>2, <2>3, OpenShift
    <2>5. d[s] = b[g + r] /\ ls[s].at = g + r
        BY <1>1, <2>3
    <2>6. QED  BY <1>3, <2>3, <2>4, <2>5
<1>8. InScope(b, ls, i)
    BY <1>6, <1>7 DEF InScope, d
<1>9. ASSUME NestedTo(b, g), NEW o \in OpenAt(b, g + j)
      PROVE  \E s \in OpenAt(d, i) : ls[s].at = o
    <2> DEFINE r == o - g
    <2>1. o \in 1..((g + j) - 1)
        BY DEF OpenAt
    <2>2. r \in 1..(j - 1) /\ r \in OpenAt(m, j)
        BY <1>1, <1>5, <1>9, OpenWithin
    <2>3. r \in 1..n /\ r \in Nat \ {0} /\ g + r = o
        BY <1>1, <1>5, <2>1, <2>2
    <2> HIDE DEF r
    <2>4. x + r \in OpenAt(d, x + j)
        BY <1>1, <1>5, <2>2, <2>3, OpenShift
    <2>5. ls[x + r].at = o
        BY <1>1, <2>3
    <2>6. QED  BY <1>5, <2>4, <2>5
<1>10. NestedTo(b, g) => Scoped(b, ls, i)
    BY <1>6, <1>9 DEF Scoped, d
<1>11. QED  BY <1>5, <1>6, <1>8, <1>10 DEF n, j

\* A chunk that begins and ends between blocks is nested.
LEMMA ViewNested ==
    ASSUME NEW b \in Seq(Op), NEW ls, NEW x, NEW g, NEW l, View(b, ls, x, g, l),
           NestedTo(b, g), NestedTo(b, l)
    PROVE  Nested(OpsOf(ls))
<1> DEFINE n == l - g
           m == Stretch(b, g, l)
           d == OpsOf(ls)
<1>1. /\ x \in Nat /\ g \in Nat /\ n \in Nat /\ l \in Nat /\ g + n = l
      /\ Alike(d, x, m, n) /\ Alike(b, g, m, n)
      /\ Len(d) = x + n
    BY ViewAlike
<1>2. NestedTo(d, x)
    BY DEF View
<1> HIDE DEF n, m, d
<1>3. \A i \in 0..n : Depth(b, g + i) = Depth(b, g) + Depth(m, i)
    BY <1>1, DepthShift DEF Shifted
<1>4. Depth(b, g) = 0 /\ Depth(b, g + n) = 0 /\ n \in 0..n
    BY <1>1 DEF NestedTo
<1>5. ASSUME NEW i \in 0..n PROVE Depth(m, i) >= 0 /\ Depth(m, i) = Depth(b, g + i)
    <2>1. g + i \in 0..l /\ i \in Nat
        BY <1>1
    <2>2. Depth(b, g + i) >= 0
        BY <2>1 DEF NestedTo
    <2>3. Depth(m, i) \in Int
        BY <2>1, DepthInt
    <2>4. QED  BY <1>3, <1>4, <2>2, <2>3
<1>6. NestedTo(m, n)
    BY <1>4, <1>5 DEF NestedTo
<1>7. NestedTo(d, x + n)
    BY <1>1, <1>2, <1>6, NestedMore
<1>8. QED  BY <1>1, <1>7 DEF Nested, d

(***************************************************************************)
(* The chunks of a plan                                                    *)
(***************************************************************************)
\* The chunks an entry point makes of a plan.
ChunksOf(e, b) == IF e = "chunks" THEN SplitPrivilegeChunks(b) ELSE Unsplit(b)

\* The chunks cs hold the lines of b in consecutive stretches.
Cuts(b, cs, n, first, last) ==
    /\ DOMAIN cs = 1..n
    /\ \A c \in 1..n : first[c] \in Nat \ {0} /\ last[c] \in Nat
    /\ \A c \in 1..n : \E x : View(b, cs[c].lines, x, first[c] - 1, last[c])
    /\ \A c \in 1..n : CutAt(b, first[c] - 1) /\ CutAt(b, last[c])
    /\ \A c, d \in 1..n : c < d => last[c] < first[d]
    /\ \A p \in 1..Len(b) : \E c \in 1..n : p \in first[c]..last[c]

\* A stretch of the plan is a view with nothing hoisted.
LEMMA StretchView ==
    ASSUME NEW b \in Seq(Op), NEW f \in Nat \ {0}, NEW l \in (f - 1)..Len(b),
           NEW part, PartIs(part, b, f, l)
    PROVE  View(b, part.lines, 0, f - 1, l)
<1> DEFINE N == Len(b)
           g == f - 1
           q == part.lines
<1>1. N \in Nat /\ DOMAIN b = 1..N /\ \A i \in 1..N : b[i] \in Op
    OBVIOUS
<1>2. /\ g \in Nat /\ l \in g..N /\ l + 1 - f = l - g /\ l - g \in Nat /\ l - g = 0 + (l - g)
      /\ \A j \in 1..(l - g) : f + j - 1 = g + j /\ g + j \in 1..N /\ 0 + j = j
    BY <1>1
<1>3. q = [j \in 1..(l - g) |-> Line(b, f + j - 1)]
    BY <1>2 DEF PartIs
<1> HIDE DEF g, q, N
<1>4. q \in [1..(l - g) -> LineType] /\ \A j \in 1..(l - g) : q[0 + j] = Line(b, g + j)
    <2>1. \A j \in 1..(l - g) : Line(b, g + j) \in LineType
        BY <1>1, <1>2 DEF Line, LineType
    <2>2. \A j \in 1..(l - g) : q[j] = Line(b, g + j)
        BY <1>2, <1>3
    <2>3. q \in [1..(l - g) -> LineType]
        BY <1>2, <1>3, <2>1
    <2>4. QED  BY <1>2, <2>2, <2>3
<1>5. q \in Seq(LineType) /\ Len(q) = l - g
    BY <1>2, <1>4, SeqOfFunction
<1>6. NestedTo(OpsOf(q), 0)
    <2>1. \A i \in 0..0 : i = 0
        OBVIOUS
    <2>2. QED  BY <2>1, DepthStep DEF NestedTo
<1>7. \A i \in 1..0 : q[i].at = 0
    OBVIOUS
<1>8. View(b, q, 0, g, l)
    BY <1>2, <1>4, <1>5, <1>6, <1>7 DEF View, N
<1>9. QED  BY <1>8 DEF g, q

\* A plan in one chunk is not cut.
LEMMA WholeCuts ==
    ASSUME NEW b \in Seq(Op)
    PROVE  Cuts(b, Unsplit(b), 1, [c \in 1..1 |-> 1], [c \in 1..1 |-> Len(b)])
<1> DEFINE N == Len(b)
           part == Unsplit(b)[1]
           first == [c \in 1..1 |-> 1]
           last == [c \in 1..1 |-> N]
<1>1. N \in Nat /\ DOMAIN b = 1..N
    OBVIOUS
<1>2. PartIs(part, b, 1, N) /\ DOMAIN Unsplit(b) = 1..1
    <2>1. part.lines = [i \in 1..N |-> Line(b, i)] /\ DOMAIN Unsplit(b) = 1..1
        BY <1>1 DEF Unsplit
    <2>2. N + 1 - 1 = N /\ \A i \in 1..N : 1 + i - 1 = i
        BY <1>1
    <2>3. QED  BY <2>1, <2>2 DEF PartIs
<1>3. \A c \in 1..1 : c = 1 /\ first[c] = 1 /\ last[c] = N /\ first[c] - 1 = 0
    OBVIOUS
<1>4. 1 \in Nat \ {0} /\ N \in (1 - 1)..Len(b) /\ 1 - 1 = 0
    BY <1>1
<1> HIDE DEF first, last, part
<1>5. View(b, part.lines, 1 - 1, 1 - 1, N)
    BY <1>2, <1>4, StretchView
<1>6. CutAt(b, 0) /\ CutAt(b, N)
    BY <1>1 DEF CutAt
<1>7. Cuts(b, Unsplit(b), 1, first, last)
    <2>1. \A c \in 1..1 : \E x : View(b, Unsplit(b)[c].lines, x, first[c] - 1, last[c])
        BY <1>3, <1>4, <1>5 DEF part
    <2>2. \A c \in 1..1 : CutAt(b, first[c] - 1) /\ CutAt(b, last[c])
        BY <1>3, <1>6
    <2>3. \A c, d \in 1..1 : c < d => last[c] < first[d]
        OBVIOUS
    <2>4. \A p \in 1..Len(b) : \E c \in 1..1 : p \in first[c]..last[c]
        <3>1. 1 \in 1..1 /\ first[1] = 1 /\ last[1] = Len(b)
            BY <1>3
        <3>2. QED  BY <3>1
    <2>5. \A c \in 1..1 : first[c] \in Nat \ {0} /\ last[c] \in Nat
        BY <1>1, <1>3
    <2>6. QED  BY <1>2, <2>1, <2>2, <2>3, <2>4, <2>5 DEF Cuts
<1>8. QED  BY <1>7 DEF first, last

\* The split cuts a plan.
LEMMA SplitCuts ==
    ASSUME NEW b \in Seq(Op), b # <<>>
    PROVE  \E n \in Nat \ {0} : \E first, last : Cuts(b, SplitPrivilegeChunks(b), n, first, last)
<1> DEFINE parts == PrivilegeParts(b)
           cs == SplitPrivilegeChunks(b)
           N == Len(b)
<1>1. PICK n \in Nat \ {0} : \E first, last :
              /\ IsCut(b, n, first, last)
              /\ DOMAIN parts = 1..n
              /\ \A c \in 1..n : PartIs(parts[c], b, first[c], last[c])
    BY PartsShape
<1>2. PICK first, last :
              /\ IsCut(b, n, first, last)
              /\ DOMAIN parts = 1..n
              /\ \A c \in 1..n : PartIs(parts[c], b, first[c], last[c])
    BY <1>1
<1>3. /\ cs = hoistRequirements(parts)
      /\ DOMAIN cs = DOMAIN parts
      /\ \A c \in DOMAIN parts : cs[c].lines = Pending(parts, c) \o parts[c].lines
    BY DEF SplitPrivilegeChunks, hoistRequirements
<1>4. parts \in Seq(ChunkType)
    BY PartsType
<1>b. N \in Nat /\ DOMAIN b = 1..N /\ \A i \in 1..N : b[i] \in Op
    OBVIOUS
<1> HIDE DEF cs, parts, N
<1>5. ASSUME NEW c \in 1..n
      PROVE  \E x : View(b, cs[c].lines, x, first[c] - 1, last[c])
    <2> DEFINE f == first[c]
               g == f - 1
               l == last[c]
               h == Pending(parts, c)
               q == parts[c].lines
               x == Len(h)
    <2>1. f \in 1..N /\ l \in 1..N /\ f <= l
        BY <1>2 DEF IsCut, N
    <2>2. PartIs(parts[c], b, f, l) /\ c \in DOMAIN parts
        BY <1>2
    <2>3. /\ h \in Seq(LineType) /\ Nested(OpsOf(h))
          /\ h \in Seq(StubLine)
        BY <1>4, <2>2, PendingStands, PendingType
    <2>4. cs[c].lines = h \o q
        BY <1>3, <2>2
    <2> HIDE DEF f, l, h
    <2>5. /\ g \in Nat /\ l \in g..Len(b) /\ l + 1 - f = l - g /\ l - g \in Nat
          /\ \A j \in 1..(l - g) : f + j - 1 = g + j /\ g + j \in 1..N
        BY <1>b, <2>1 DEF N
    <2>6. q = [j \in 1..(l - g) |-> Line(b, f + j - 1)]
        BY <2>2, <2>5 DEF PartIs
    <2> HIDE DEF g, q
    <2>7. q \in [1..(l - g) -> LineType] /\ \A j \in 1..(l - g) : q[j] = Line(b, g + j)
        <3>1. \A j \in 1..(l - g) : Line(b, g + j) \in LineType
            BY <1>b, <2>5 DEF Line, LineType
        <3>2. \A j \in 1..(l - g) : q[j] = Line(b, g + j)
            BY <2>5, <2>6
        <3>3. QED  BY <2>6, <3>1, <3>2
    <2>8. q \in Seq(LineType) /\ Len(q) = l - g
        BY <2>5, <2>7, SeqOfFunction
    <2>9. /\ h \o q \in Seq(LineType) /\ Len(h \o q) = x + (l - g) /\ x \in Nat
          /\ \A i \in 1..x : (h \o q)[i] = h[i]
          /\ \A i \in 1..(l - g) : (h \o q)[x + i] = q[i]
        <3>1. x = Len(h)
            OBVIOUS
        <3> HIDE DEF x
        <3>2. /\ h \o q \in Seq(LineType) /\ Len(h \o q) = Len(h) + Len(q) /\ Len(h) \in Nat
              /\ \A i \in 1..Len(h) : (h \o q)[i] = h[i]
              /\ \A i \in 1..Len(q) : (h \o q)[Len(h) + i] = q[i]
            <4>1. h \in Seq(LineType) /\ q \in Seq(LineType)
                BY <2>3, <2>8
            <4>2. QED  BY <4>1, OpsConcat
        <3>3. Len(h \o q) = x + (l - g) /\ \A i \in 1..(l - g) : (h \o q)[x + i] = q[i]
            BY <2>8, <3>1, <3>2
        <3>4. x \in Nat /\ \A i \in 1..x : (h \o q)[i] = h[i]
            BY <3>1, <3>2
        <3>5. QED  BY <3>2, <3>3, <3>4
    <2>10. NestedTo(OpsOf(h \o q), x)
        BY <2>3, <2>8, ConcatNested
    <2>11. \A i \in 1..x : h[i].at = 0
        <3>1. \A i \in 1..x : h[i] \in StubLine
            BY <2>3
        <3>2. QED  BY <3>1 DEF StubLine
    <2> HIDE DEF x
    <2>12. View(b, h \o q, x, g, l)
        BY <2>5, <2>7, <2>9, <2>10, <2>11 DEF View
    <2>13. View(b, cs[c].lines, x, first[c] - 1, last[c])
        BY <2>4, <2>12 DEF g, f, l
    <2>14. QED  BY <2>13
<1>6. DOMAIN cs = 1..n
    BY <1>2, <1>3
<1>7. Cuts(b, cs, n, first, last)
    <2>1. \A c \in 1..n : first[c] \in Nat \ {0} /\ last[c] \in Nat
        <3>1. \A p \in 1..Len(b) : p \in Nat \ {0}
            OBVIOUS
        <3>2. QED  BY <1>2, <3>1 DEF IsCut
    <2>2. QED  BY <1>2, <1>5, <1>6, <2>1 DEF Cuts, IsCut
<1>8. QED  BY <1>7 DEF cs

\* So do both entry points.
LEMMA ChunksCut ==
    ASSUME NEW b \in Seq(Op), NEW e
    PROVE  \E n \in Nat \ {0} : \E first, last : Cuts(b, ChunksOf(e, b), n, first, last)
<1>1. CASE e # "chunks"
    <2>1. ChunksOf(e, b) = Unsplit(b)
        BY <1>1 DEF ChunksOf
    <2>2. \E first, last : Cuts(b, Unsplit(b), 1, first, last)
        BY WholeCuts
    <2>3. 1 \in Nat \ {0}
        OBVIOUS
    <2>4. QED  BY <2>1, <2>2, <2>3
<1>2. CASE e = "chunks" /\ b = <<>>
    <2>1. ChunksOf(e, b) = Unsplit(b)
        <3>1. [i \in DOMAIN b |-> Line(b, i)] = <<>>
            BY <1>2
        <3>2. Unsplit(b) = <<[elevate |-> FALSE, lines |-> <<>>]>>
            BY <3>1 DEF Unsplit
        <3>3. QED  BY <1>2, <3>2 DEF ChunksOf, SplitPrivilegeChunks
    <2>2. \E first, last : Cuts(b, Unsplit(b), 1, first, last)
        BY WholeCuts
    <2>3. 1 \in Nat \ {0}
        OBVIOUS
    <2>4. QED  BY <2>1, <2>2, <2>3
<1>3. CASE e = "chunks" /\ b # <<>>
    <2>1. ChunksOf(e, b) = SplitPrivilegeChunks(b)
        BY <1>3 DEF ChunksOf
    <2>2. QED  BY <1>3, <2>1, SplitCuts
<1>4. QED  BY <1>1, <1>2, <1>3

\* No block of a balanced plan is open where a chunk begins or ends.
LEMMA CutNested ==
    ASSUME NEW b \in Seq(Op), Balanced(b), NEW p, CutAt(b, p)
    PROVE  NestedTo(b, p)
<1>1. Nested(b) /\ Depth(b, p) = 0
    BY BalancedNested, CutDepth
<1>2. \A i \in 0..p : i \in 0..Len(b)
    BY DEF CutAt
<1>3. QED  BY <1>1, <1>2 DEF Nested, NestedTo

\* The chunks of a balanced plan are nested.
LEMMA ChunksNested ==
    ASSUME NEW b \in Seq(Op), Balanced(b), NEW e, NEW c \in DOMAIN ChunksOf(e, b)
    PROVE  Nested(OpsOf(ChunksOf(e, b)[c].lines))
<1> DEFINE cs == ChunksOf(e, b)
<1>1. PICK n \in Nat \ {0} : \E first, last : Cuts(b, cs, n, first, last)
    BY ChunksCut
<1>2. PICK first, last : Cuts(b, cs, n, first, last)
    BY <1>1
<1>3. c \in DOMAIN cs
    OBVIOUS
<1> HIDE DEF cs
<1>4. /\ c \in 1..n /\ CutAt(b, first[c] - 1) /\ CutAt(b, last[c])
      /\ \E x : View(b, cs[c].lines, x, first[c] - 1, last[c])
    BY <1>2, <1>3 DEF Cuts
<1>5. PICK x : View(b, cs[c].lines, x, first[c] - 1, last[c])
    BY <1>4
<1>6. NestedTo(b, first[c] - 1) /\ NestedTo(b, last[c])
    BY <1>4, CutNested
<1>7. Nested(OpsOf(cs[c].lines))
    BY <1>5, <1>6, ViewNested
<1>8. QED  BY <1>7 DEF cs

\* A line of a chunk keeps the scope it has in the plan: in a chunk are no
\* other blocks around it, and those of a balanced plan are all there.
LEMMA ChunksOpen ==
    ASSUME NEW b \in Seq(Op), NEW e, NEW c \in DOMAIN ChunksOf(e, b),
           NEW i \in DOMAIN ChunksOf(e, b)[c].lines, ChunksOf(e, b)[c].lines[i].at > 0
    PROVE  /\ InScope(b, ChunksOf(e, b)[c].lines, i)
           /\ Balanced(b) => Scoped(b, ChunksOf(e, b)[c].lines, i)
<1> DEFINE cs == ChunksOf(e, b)
           ls == cs[c].lines
<1>1. PICK n \in Nat \ {0} : \E first, last : Cuts(b, cs, n, first, last)
    BY ChunksCut
<1>2. PICK first, last : Cuts(b, cs, n, first, last)
    BY <1>1
<1>3. c \in DOMAIN cs /\ i \in DOMAIN ls /\ ls[i].at > 0
    OBVIOUS
<1> HIDE DEF cs
<1>4. /\ CutAt(b, first[c] - 1) /\ CutAt(b, last[c])
      /\ \E x : View(b, ls, x, first[c] - 1, last[c])
    BY <1>2, <1>3 DEF Cuts
<1> HIDE DEF ls
<1>5. PICK x : View(b, ls, x, first[c] - 1, last[c])
    BY <1>4
<1>6. InScope(b, ls, i) /\ (NestedTo(b, first[c] - 1) => Scoped(b, ls, i))
    BY <1>3, <1>5, ViewOpen
<1>7. Balanced(b) => NestedTo(b, first[c] - 1)
    BY <1>4, CutNested
<1>8. QED  BY <1>6, <1>7 DEF ls, cs

\* Every line of the plan is in a chunk.
LEMMA ChunksCover ==
    ASSUME NEW b \in Seq(Op), NEW e, NEW p \in DOMAIN b
    PROVE  \E c \in DOMAIN ChunksOf(e, b) : \E i \in DOMAIN ChunksOf(e, b)[c].lines :
              ChunksOf(e, b)[c].lines[i].at = p
<1> DEFINE cs == ChunksOf(e, b)
<1>1. PICK n \in Nat \ {0} : \E first, last : Cuts(b, cs, n, first, last)
    BY ChunksCut
<1>2. PICK first, last : Cuts(b, cs, n, first, last)
    BY <1>1
<1> HIDE DEF cs
<1>3. p \in 1..Len(b)
    OBVIOUS
<1>4. PICK c \in 1..n : p \in first[c]..last[c]
    BY <1>2, <1>3 DEF Cuts
<1>5. PICK x : View(b, cs[c].lines, x, first[c] - 1, last[c])
    BY <1>2 DEF Cuts
<1> DEFINE ls == cs[c].lines
           g == first[c] - 1
           l == last[c]
<1>6. View(b, ls, x, g, l)
    BY <1>5
<1>7. p \in first[c]..l /\ first[c] \in Nat \ {0} /\ l \in Nat
    BY <1>2, <1>4 DEF Cuts
<1>9. p \in (g + 1)..l
    BY <1>7
<1> HIDE DEF ls, l, g
<1>8. /\ x \in Nat /\ g \in Nat /\ l \in Nat /\ Len(ls) = x + (l - g) /\ ls \in Seq(LineType)
      /\ \A i \in 1..(l - g) : ls[x + i].at = g + i
    <2>1. /\ x \in Nat /\ g \in Nat /\ l \in Nat
          /\ \A i \in 1..(l - g) : ls[x + i].at = g + i
        BY <1>6, ViewAlike
    <2>2. Len(ls) = x + (l - g) /\ ls \in Seq(LineType)
        BY <1>6 DEF View
    <2>3. QED  BY <2>1, <2>2
<1>10. p - g \in 1..(l - g) /\ g + (p - g) = p
    BY <1>8, <1>9
<1>11. x + (p - g) \in DOMAIN ls /\ ls[x + (p - g)].at = p
    <2>1. DOMAIN ls = 1..(x + (l - g))
        BY <1>8
    <2>2. x + (p - g) \in 1..(x + (l - g))
        BY <1>8, <1>10
    <2>3. QED  BY <1>8, <1>10, <2>1, <2>2
<1>12. c \in DOMAIN cs
    BY <1>2 DEF Cuts
<1>13. QED  BY <1>11, <1>12 DEF ls, cs

\* It is there once.
LEMMA ChunksOnce ==
    ASSUME NEW b \in Seq(Op), NEW e,
           NEW c \in DOMAIN ChunksOf(e, b), NEW i \in DOMAIN ChunksOf(e, b)[c].lines,
           NEW d \in DOMAIN ChunksOf(e, b), NEW j \in DOMAIN ChunksOf(e, b)[d].lines,
           ChunksOf(e, b)[c].lines[i].at = ChunksOf(e, b)[d].lines[j].at,
           ChunksOf(e, b)[c].lines[i].at > 0
    PROVE  c = d /\ i = j
<1> DEFINE cs == ChunksOf(e, b)
           p == cs[c].lines[i].at
<1>1. PICK n \in Nat \ {0} : \E first, last : Cuts(b, cs, n, first, last)
    BY ChunksCut
<1>2. PICK first, last : Cuts(b, cs, n, first, last)
    BY <1>1
<1>3. /\ c \in DOMAIN cs /\ i \in DOMAIN cs[c].lines /\ d \in DOMAIN cs /\ j \in DOMAIN cs[d].lines
      /\ p > 0 /\ cs[d].lines[j].at = p /\ cs[c].lines[i].at = p
    OBVIOUS
<1> HIDE DEF cs, p
<1>4. /\ c \in 1..n /\ d \in 1..n /\ n \in Nat
      /\ \A y, z \in 1..n : y < z => last[y] < first[z]
      /\ \A y \in 1..n : first[y] \in Nat \ {0} /\ last[y] \in Nat
    BY <1>2, <1>3 DEF Cuts
<1>5. ASSUME NEW y \in 1..n, NEW q \in DOMAIN cs[y].lines, cs[y].lines[q].at = p
      PROVE  /\ p \in first[y]..last[y]
             /\ \E x : /\ View(b, cs[y].lines, x, first[y] - 1, last[y])
                       /\ x \in Nat /\ p = (first[y] - 1) + (q - x) /\ q - x \in Nat
    <2> DEFINE ls == cs[y].lines
               f == first[y]
               g == f - 1
               l == last[y]
    <2>1. PICK x : View(b, ls, x, g, l)
        BY <1>2 DEF Cuts
    <2>2. q \in DOMAIN ls /\ ls[q].at = p
        BY <1>5
    <2>p. f \in Nat \ {0} /\ l \in Nat
        BY <1>4
    <2> HIDE DEF ls, l, f
    <2>a. g \in Nat /\ f = g + 1
        BY <2>p
    <2> HIDE DEF g
    <2>3. q - x \in 1..(l - g) /\ p = g + (q - x)
        BY <1>3, <2>1, <2>2, ViewOpen
    <2>4. x \in Nat
        BY <2>1, ViewAlike
    <2>5. p \in f..l /\ q - x \in Nat
        BY <2>3, <2>a, <2>p
    <2>6. QED  BY <2>1, <2>3, <2>4, <2>5 DEF ls, l, g, f
<1>6. p \in first[c]..last[c] /\ p \in first[d]..last[d]
    BY <1>3, <1>4, <1>5
<1>7. c = d
    <2>1. ASSUME NEW y \in 1..n, NEW z \in 1..n, y < z, p \in first[y]..last[y],
                 p \in first[z]..last[z]
          PROVE  FALSE
        <3>1. /\ last[y] < first[z] /\ last[y] \in Nat /\ first[z] \in Nat
              /\ first[y] \in Nat /\ last[z] \in Nat
            BY <1>4, <2>1
        <3>2. p \in Int /\ p <= last[y] /\ first[z] <= p
            BY <2>1, <3>1
        <3>3. QED  BY <3>1, <3>2
    <2>2. ~(c < d) /\ ~(d < c)
        BY <1>4, <1>6, <2>1
    <2>3. QED  BY <1>4, <2>2
<1>8. i = j
    <2>1. \E x : /\ View(b, cs[c].lines, x, first[c] - 1, last[c])
                 /\ x \in Nat /\ p = (first[c] - 1) + (i - x) /\ i - x \in Nat
        BY <1>3, <1>4, <1>5
    <2>2. \E x : /\ View(b, cs[c].lines, x, first[c] - 1, last[c])
                 /\ x \in Nat /\ p = (first[c] - 1) + (j - x) /\ j - x \in Nat
        BY <1>3, <1>4, <1>5, <1>7
    <2>3. ASSUME NEW x \in Nat, NEW y \in Nat,
                 View(b, cs[c].lines, x, first[c] - 1, last[c]),
                 View(b, cs[c].lines, y, first[c] - 1, last[c])
          PROVE  x = y
        <3>1. /\ Len(cs[c].lines) = x + (last[c] - (first[c] - 1))
              /\ Len(cs[c].lines) = y + (last[c] - (first[c] - 1))
            BY <2>3 DEF View
        <3>2. first[c] \in Nat /\ last[c] \in Nat
            BY <1>4
        <3>3. QED  BY <3>1, <3>2
    <2>4. i \in Int /\ j \in Int
        <3>1. cs[c].lines \in Seq(LineType)
            BY <2>1 DEF View
        <3>2. QED  BY <1>3, <1>7, <3>1
    <2>5. PICK x \in Nat : /\ View(b, cs[c].lines, x, first[c] - 1, last[c])
                          /\ p = (first[c] - 1) + (i - x)
        BY <2>1
    <2>6. PICK y \in Nat : /\ View(b, cs[c].lines, y, first[c] - 1, last[c])
                          /\ p = (first[c] - 1) + (j - y)
        BY <2>2
    <2>7. x = y
        BY <2>3, <2>5, <2>6
    <2>8. first[c] \in Nat
        BY <1>4
    <2>9. QED  BY <2>4, <2>5, <2>6, <2>7, <2>8
<1>9. QED  BY <1>7, <1>8

(***************************************************************************)
(* A requirement is in the first chunk                                     *)
(***************************************************************************)
\* A line of a chunk asks for what it asks for in the plan.
LEMMA ScopeAsks ==
    ASSUME NEW b \in Seq(Op), NEW ls \in Seq(LineType), NEW i \in DOMAIN ls, InScope(b, ls, i)
    PROVE  Asks(OpsOf(ls), i, b, ls[i].at)
<1>1. i \in 1..Len(OpsOf(ls))
    BY OpsType
<1>2. QED  BY <1>1 DEF InScope, Asks

\* A requirement that asks for what another one does has host facts around it
\* if that one has.
LEMMA AsksScope ==
    ASSUME NEW ops \in Seq(Op), NEW i, NEW b, NEW r, Asks(ops, i, b, r),
           r \in RequirementsOf(b), ScopeIsHostFact(b, r)
    PROVE  i \in RequirementsOf(ops) /\ ScopeIsHostFact(ops, i)
<1>1. i \in RequirementsOf(ops)
    BY DEF Asks, RequirementsOf
<1>2. \A s \in OpenAt(ops, i) : ops[s].cond \in HostFact
    BY DEF Asks, ScopeIsHostFact
<1>3. ops[i].cond \in HostFact
    BY DEF Asks, ScopeIsHostFact
<1>4. QED  BY <1>1, <1>2, <1>3 DEF ScopeIsHostFact

\* A requirement stands in its part, and in the first chunk as a stub if that
\* is not the first part.
LEMMA FirstAsks ==
    ASSUME NEW b \in Seq(Op), b # <<>>, NEW r \in RequirementsOf(b), ScopeIsHostFact(b, r)
    PROVE  /\ 1 \in DOMAIN SplitPrivilegeChunks(b)
           /\ \E i : Asks(OpsOf(SplitPrivilegeChunks(b)[1].lines), i, b, r)
<1> DEFINE parts == PrivilegeParts(b)
           cs == SplitPrivilegeChunks(b)
           h == Pending(parts, 1)
           q1 == parts[1].lines
<1>1. PICK n \in Nat \ {0} : \E first, last :
              /\ IsCut(b, n, first, last)
              /\ DOMAIN parts = 1..n
              /\ \A c \in 1..n : PartIs(parts[c], b, first[c], last[c])
    BY PartsShape
<1>2. PICK first, last :
              /\ IsCut(b, n, first, last)
              /\ DOMAIN parts = 1..n
              /\ \A c \in 1..n : PartIs(parts[c], b, first[c], last[c])
    BY <1>1
<1>3. parts \in Seq(ChunkType)
    BY PartsType
<1>4. r \in 1..Len(b) /\ 1 \in 1..n /\ \A c \in 1..n : c # 1 => 1 < c
    BY DEF RequirementsOf
<1>5. 1 \in DOMAIN cs /\ cs[1].lines = h \o q1
    BY <1>2, <1>4 DEF SplitPrivilegeChunks, hoistRequirements
<1> HIDE DEF parts, cs
<1>6. /\ h \in Seq(LineType) /\ Nested(OpsOf(h))
      /\ \A j \in 1..n : 1 < j =>
            \E x : Stands(requirementStubs(OpsOf(parts[j].lines)), h, x)
    BY <1>2, <1>3, <1>4, PendingStands
<1>7. \A c \in 1..n : parts[c].lines \in Seq(LineType)
    <2>1. \A c \in 1..n : parts[c] \in ChunkType
        BY <1>2, <1>3
    <2>2. QED  BY <2>1 DEF ChunkType
<1>8. PICK c \in 1..n : r \in first[c]..last[c]
    BY <1>2, <1>4 DEF IsCut
<1> DEFINE f == first[c]
           l == last[c]
           q == parts[c].lines
           g == f - 1
           i == r - g
<1>9. f \in 1..Len(b) /\ l \in 1..Len(b) /\ r \in f..l /\ PartIs(parts[c], b, f, l)
    BY <1>2, <1>8 DEF IsCut
<1> HIDE DEF f, l, h
<1>10. f \in Nat \ {0} /\ l \in (f - 1)..Len(b) /\ i \in 1..(l - g) /\ g + i = r /\ 0 + i = i
       /\ l - g \in Nat
    BY <1>9
<1>11. View(b, q, 0, g, l)
    BY <1>9, <1>10, StretchView
<1> HIDE DEF g, i
<1>12. /\ q \in Seq(LineType) /\ Len(q) = 0 + (l - g) /\ l - g \in Nat
       /\ q[i].at = r
    <2>1. q \in Seq(LineType) /\ Len(q) = 0 + (l - g) /\ q[0 + i] = Line(b, g + i)
        BY <1>10, <1>11 DEF View
    <2>2. q[i] = Line(b, r)
        BY <1>10, <2>1
    <2>3. q[i].at = r
        BY <2>2 DEF Line
    <2>4. QED  BY <1>10, <2>1, <2>3
<1>13. i \in DOMAIN q /\ q[i].at > 0
    BY <1>4, <1>10, <1>12
<1>14. InScope(b, q, i)
    BY <1>11, <1>13, ViewOpen
<1> HIDE DEF q
<1>15. Asks(OpsOf(q), i, b, r)
    BY <1>12, <1>13, <1>14, ScopeAsks
<1>16. h \o q1 \in Seq(LineType) /\ Stands(q1, h \o q1, Len(h))
    BY <1>4, <1>6, <1>7, OpsConcat, StandsLast
<1>17. CASE c = 1
    <2>1. q = q1 /\ i \in 1..Len(q1)
        BY <1>12, <1>13, <1>17 DEF q
    <2>2. Asks(OpsOf(h \o q1), Len(h) + i, OpsOf(q), i)
        BY <1>4, <1>7, <1>16, <2>1, StandsAsks
    <2>3. Asks(OpsOf(h \o q1), Len(h) + i, b, r)
        BY <1>15, <2>2, AsksTransitive
    <2>4. QED  BY <1>5, <2>3 DEF cs
<1>18. CASE c # 1
    <2> DEFINE ms == requirementStubs(OpsOf(q))
    <2>1. PICK x : Stands(ms, h, x)
        BY <1>4, <1>6, <1>18 DEF q
    <2>2. OpsOf(q) \in Seq(Op)
        BY <1>12, OpsType
    <2>3. i \in RequirementsOf(OpsOf(q)) /\ ScopeIsHostFact(OpsOf(q), i)
        BY <1>15, <2>2, AsksScope
    <2>4. PICK y : ms \in Seq(LineType) /\ Asks(OpsOf(ms), y, OpsOf(q), i)
        BY <2>2, <2>3, StubsAsk
    <2> HIDE DEF ms
    <2>5. y \in 1..Len(ms)
        BY <2>4, OpsType DEF Asks
    <2>6. Stands(ms, h \o q1, x)
        BY <1>4, <1>6, <1>7, <2>1, <2>4, StandsMore
    <2>7. Asks(OpsOf(h \o q1), x + y, OpsOf(ms), y)
        BY <1>16, <2>4, <2>5, <2>6, StandsAsks
    <2>8. Asks(OpsOf(h \o q1), x + y, b, r)
        BY <1>15, <2>4, <2>7, AsksTransitive
    <2>9. QED  BY <1>5, <2>8 DEF cs
<1>19. QED  BY <1>5, <1>17, <1>18 DEF cs

\* The first chunk asks for every host-fact requirement of the plan.
LEMMA RequirementAhead ==
    ASSUME NEW b \in Seq(Op), NEW e, NEW r \in RequirementsOf(b), ScopeIsHostFact(b, r)
    PROVE  /\ 1 \in DOMAIN ChunksOf(e, b)
           /\ \E i : Asks(OpsOf(ChunksOf(e, b)[1].lines), i, b, r)
<1>1. b # <<>> /\ r \in DOMAIN b /\ r > 0
    BY DEF RequirementsOf
<1>2. CASE e = "chunks"
    <2>1. ChunksOf(e, b) = SplitPrivilegeChunks(b)
        BY <1>2 DEF ChunksOf
    <2>2. QED  BY <1>1, <2>1, FirstAsks
<1>3. CASE e # "chunks"
    <2> DEFINE cs == ChunksOf(e, b)
               ls == cs[1].lines
    <2>1. cs = Unsplit(b)
        BY <1>3 DEF ChunksOf
    <2>2. DOMAIN cs = {1}
        BY <2>1 DEF Unsplit
    <2>3. PICK i \in DOMAIN ls : ls[i].at = r
        BY <1>1, <2>2, ChunksCover
    <2>4. InScope(b, ls, i)
        BY <1>1, <2>2, <2>3, ChunksOpen
    <2>5. ls \in Seq(LineType)
        <3>1. \A c \in 1..1 : \E x : View(b, Unsplit(b)[c].lines, x, 1 - 1, Len(b))
            BY WholeCuts DEF Cuts
        <3>2. QED  BY <2>1, <3>1 DEF View
    <2> HIDE DEF ls, cs
    <2>6. Asks(OpsOf(ls), i, b, r)
        BY <2>3, <2>4, <2>5, ScopeAsks
    <2>7. QED  BY <2>2, <2>6 DEF ls, cs
<1>4. QED  BY <1>2, <1>3

(***************************************************************************)
(* The sort moves no block                                                 *)
(***************************************************************************)
\* o names each of the elements of 1..n once, in a places.
Lists(o, a, n) ==
    /\ \A x \in 1..a : o[x] \in 1..n
    /\ \A x, y \in 1..a : o[x] = o[y] => x = y
    /\ \A i \in 1..n : \E x \in 1..a : o[x] = i

\* It has a place for each.
LEMMA SameLength ==
    ASSUME NEW o, NEW a \in Nat, NEW n \in Nat, Lists(o, a, n)
    PROVE  a = n
<1> DEFINE f == [x \in 1..a |-> o[x]]
<1>1. f \in [1..a -> 1..n] /\ \A x \in 1..a : f[x] = o[x]
    BY DEF Lists
<1> HIDE DEF f
<1>2. \A x, y \in 1..a : f[x] = f[y] => x = y
    BY <1>1 DEF Lists
<1>3. \A i \in 1..n : \E x \in 1..a : f[x] = i
    BY <1>1 DEF Lists
<1>4. f \in Bijection(1..a, 1..n)
    BY <1>1, <1>2, <1>3, Zenon DEF Bijection, Injection, Surjection, IsInjective
<1>5. ExistsBijection(1..a, 1..n)
    BY <1>4 DEF ExistsBijection
<1>6. /\ IsFiniteSet(1..a) /\ Cardinality(1..a) = a
      /\ IsFiniteSet(1..n) /\ Cardinality(1..n) = n
    BY FS_Interval
<1>7. QED  BY <1>5, <1>6, FS_Bijection

\* o is an order of the lines ls that keeps each on its side of every control
\* line.
Arranged(ls, o) ==
    /\ DOMAIN o = 1..Len(ls) /\ Lists(o, Len(ls), Len(ls))
    /\ \A x, y \in 1..Len(ls) : Barrier(ls, o[x], o[y]) => y < x

\* A control line keeps its place.
LEMMA ControlFixed ==
    ASSUME NEW ls \in Seq(LineType), NEW o, Arranged(ls, o),
           NEW c \in 1..Len(ls), IsControlKind(ls[c].op)
    PROVE  o[c] = c
<1> DEFINE n == Len(ls)
<1>1. n \in Nat /\ Lists(o, n, n) /\ \A x, y \in 1..n : Barrier(ls, o[x], o[y]) => y < x
    BY DEF Arranged
<1>2. c \in 1..n /\ \A j \in 1..n : c \in j..c \cup c..j /\ c \in c..j \cup j..c
    OBVIOUS
<1> HIDE DEF n
<1>3. PICK x \in 1..n : o[x] = c
    BY <1>1, <1>2 DEF Lists
<1>4. \A j \in 1..n : (j < c => Barrier(ls, c, j)) /\ (c < j => Barrier(ls, j, c))
    <2>1. \A j \in 1..n : ~SameRun(ls, j, c) /\ ~SameRun(ls, c, j)
        <3>1. \A j \in 1..n : c \in j..c \cup c..j /\ c \in c..j \cup j..c
            BY <1>2
        <3>2. QED  BY <3>1 DEF SameRun
    <2>2. QED  BY <2>1 DEF Barrier
<1>5. \A y \in 1..n : (o[y] < c => y < x) /\ (c < o[y] => x < y) /\ o[y] \in 1..n
    BY <1>1, <1>3, <1>4 DEF Lists
<1>6. \A y \in 1..n : y < x => o[y] < c
    <2>1. \A y \in 1..n : y < x => y # x /\ ~(x < y)
        BY <1>1, <1>3
    <2>2. \A y \in 1..n : o[y] = c => y = x
        BY <1>1, <1>3 DEF Lists
    <2>3. c \in Int /\ \A y \in 1..n : o[y] \in Int
        BY <1>1, <1>2, <1>5
    <2>4. ASSUME NEW y \in 1..n, y < x PROVE o[y] < c
        <3>1. o[y] # c /\ ~(c < o[y])
            BY <1>5, <2>1, <2>2, <2>4
        <3>2. QED  BY <2>3, <3>1
    <2>5. QED  BY <2>4
<1>7. Lists(o, x - 1, c - 1)
    <2>1. \A y \in 1..(x - 1) : y \in 1..n /\ y < x
        BY <1>1, <1>3
    <2>2. \A y \in 1..(x - 1) : o[y] \in 1..(c - 1)
        BY <1>2, <1>5, <1>6, <2>1
    <2>3. \A y, z \in 1..(x - 1) : o[y] = o[z] => y = z
        BY <1>1, <2>1 DEF Lists
    <2>4. ASSUME NEW i \in 1..(c - 1) PROVE \E y \in 1..(x - 1) : o[y] = i
        <3>1. i \in 1..n /\ i < c
            BY <1>1, <1>2
        <3>2. PICK y \in 1..n : o[y] = i
            BY <1>1, <3>1 DEF Lists
        <3>3. y \in 1..(x - 1)
            BY <1>1, <1>3, <1>5, <3>1, <3>2
        <3>4. QED  BY <3>2, <3>3
    <2>5. QED  BY <2>2, <2>3, <2>4 DEF Lists
<1>8. x - 1 \in Nat /\ c - 1 \in Nat
    BY <1>1, <1>2, <1>3
<1>9. x - 1 = c - 1
    BY <1>7, <1>8, SameLength
<1>10. QED  BY <1>1, <1>2, <1>3, <1>9

\* The ops in the order o.
InOrder(ls, o) == [x \in DOMAIN o |-> ls[o[x]].op]

\* The sort does not change where the control lines are.
LEMMA KindsKept ==
    ASSUME NEW ls \in Seq(LineType), NEW o, Arranged(ls, o), NEW x \in 1..Len(ls)
    PROVE  /\ InOrder(ls, o)[x].kind = OpsOf(ls)[x].kind
           /\ IsControlKind(OpsOf(ls)[x]) \/ IsControlKind(InOrder(ls, o)[x]) =>
                 o[x] = x /\ InOrder(ls, o)[x] = OpsOf(ls)[x]
<1> DEFINE n == Len(ls)
<1>1. /\ DOMAIN o = 1..n /\ Lists(o, n, n) /\ DOMAIN ls = 1..n
    BY DEF Arranged
<1>2. o[x] \in 1..n
    BY <1>1 DEF Lists
<1>3. InOrder(ls, o)[x] = ls[o[x]].op /\ OpsOf(ls)[x] = ls[x].op
    BY <1>1 DEF InOrder, OpsOf
<1>4. \A i \in 1..n : ls[i].op.kind \in {"op", "begin", "end"}
    <2>1. \A i \in 1..n : ls[i] \in LineType
        BY <1>1
    <2>2. QED  BY <2>1 DEF LineType, Op
<1>5. CASE IsControlKind(ls[x].op)
    BY <1>3, <1>5, ControlFixed
<1>6. CASE IsControlKind(ls[o[x]].op)
    <2>1. o[o[x]] = o[x]
        BY <1>2, <1>6, ControlFixed
    <2>2. o[x] = x
        BY <1>1, <1>2, <2>1 DEF Lists
    <2>3. QED  BY <1>3, <2>2
<1>7. CASE ~IsControlKind(ls[x].op) /\ ~IsControlKind(ls[o[x]].op)
    BY <1>2, <1>3, <1>4, <1>7 DEF IsControlKind
<1>8. QED  BY <1>5, <1>6, <1>7

\* So the same blocks are open at every place.
LEMMA SortedOpen ==
    ASSUME NEW ls \in Seq(LineType), NEW o, Arranged(ls, o), NEW x \in 1..Len(ls)
    PROVE  OpenAt(InOrder(ls, o), x) = OpenAt(OpsOf(ls), x)
<1> DEFINE n == Len(ls)
           d == InOrder(ls, o)
           m == OpsOf(ls)
<1>1. n \in Nat /\ x \in 1..n
    OBVIOUS
<1>2. \A i \in 1..n : 0 + i = i /\ d[i].kind = m[i].kind
    BY KindsKept
<1> HIDE DEF n, d, m
<1>3. Alike(d, 0, m, n)
    BY <1>2 DEF Alike
<1>4. \A s \in Nat \ {0} : s \in OpenAt(m, x) <=> s \in OpenAt(d, x)
    <2>1. \A s \in Nat \ {0} : s \in OpenAt(m, x) <=> 0 + s \in OpenAt(d, 0 + x)
        BY <1>1, <1>3, OpenShift
    <2>2. 0 + x = x /\ \A s \in Nat : 0 + s = s
        BY <1>1
    <2>3. QED  BY <2>1, <2>2
<1>5. \A s \in OpenAt(m, x) \cup OpenAt(d, x) : s \in Nat \ {0}
    BY DEF OpenAt
<1>6. QED  BY <1>4, <1>5 DEF m, d

\* The same blocks are open at the lines of a run.
LEMMA OpenAcross ==
    ASSUME NEW b, NEW i \in Nat, NEW j \in Nat, i <= j,
           \A y \in i..(j - 1) : ~IsControlKind(b[y])
    PROVE  OpenAt(b, i) = OpenAt(b, j)
<1>1. ASSUME NEW s \in OpenAt(b, i) PROVE s \in OpenAt(b, j)
    <2>1. s \in 1..(i - 1) /\ b[s].kind = "begin" /\ \A e \in (s + 1)..(i - 1) : ~Closes(b, s, e)
        BY DEF OpenAt
    <2>2. ASSUME NEW e \in (s + 1)..(j - 1) PROVE ~Closes(b, s, e)
        <3>1. e \in (s + 1)..(i - 1) \/ e \in i..(j - 1)
            BY <2>1
        <3>2. e \in i..(j - 1) => b[e].kind # "end"
            BY DEF IsControlKind
        <3>3. QED  BY <2>1, <3>1, <3>2 DEF Closes
    <2>3. s \in 1..(j - 1)
        BY <2>1
    <2>4. QED  BY <2>1, <2>2, <2>3 DEF OpenAt
<1>2. ASSUME NEW s \in OpenAt(b, j) PROVE s \in OpenAt(b, i)
    <2>1. s \in 1..(j - 1) /\ b[s].kind = "begin" /\ \A e \in (s + 1)..(j - 1) : ~Closes(b, s, e)
        BY DEF OpenAt
    <2>2. s \notin i..(j - 1)
        BY <2>1 DEF IsControlKind
    <2>3. s \in 1..(i - 1)
        BY <2>1, <2>2
    <2>4. \A e \in (s + 1)..(i - 1) : e \in (s + 1)..(j - 1)
        BY <2>1
    <2>5. QED  BY <2>1, <2>3, <2>4 DEF OpenAt
<1>3. QED  BY <1>1, <1>2

\* A line and the line put in its place are in the same blocks.
LEMMA OpenKept ==
    ASSUME NEW ls \in Seq(LineType), NEW o, Arranged(ls, o), NEW x \in 1..Len(ls)
    PROVE  OpenAt(OpsOf(ls), o[x]) = OpenAt(OpsOf(ls), x)
<1> DEFINE n == Len(ls)
           b == OpsOf(ls)
           i == o[x]
<1>1. /\ n \in Nat /\ DOMAIN ls = 1..n /\ x \in 1..n /\ i \in 1..n
      /\ \A z, y \in 1..n : Barrier(ls, o[z], o[y]) => y < z
    BY SMTT(30) DEF Arranged, Lists
<1>2. \A y \in 1..n : b[y] = ls[y].op
    BY <1>1 DEF OpsOf
<1>3. \A c \in 1..n : IsControlKind(b[c]) => o[c] = c
    BY <1>2, ControlFixed
<1>4. IsControlKind(b[x]) \/ IsControlKind(b[i]) => i = x
    <2>1. InOrder(ls, o)[x] = ls[i].op
        BY <1>1 DEF InOrder, Arranged
    <2>2. InOrder(ls, o)[x] = b[i]
        BY <1>1, <1>2, <2>1
    <2>3. QED  BY <1>1, <2>2, KindsKept
<1> HIDE DEF n, b, i
<1>5. ASSUME NEW c \in 1..n, IsControlKind(b[c])
      PROVE  ~(x < c /\ c < i) /\ ~(i < c /\ c < x)
    <2>1. o[c] = c /\ IsControlKind(ls[c].op)
        BY <1>2, <1>3, <1>5
    <2>2. c < i => ~SameRun(ls, c, i)
        BY <1>1, <2>1 DEF SameRun
    <2>3. i < c => ~SameRun(ls, i, c)
        BY <1>1, <2>1 DEF SameRun
    <2>4. c < i => Barrier(ls, o[x], o[c])
        BY <2>1, <2>2 DEF Barrier, i
    <2>5. i < c => Barrier(ls, o[c], o[x])
        BY <2>1, <2>3 DEF Barrier, i
    <2>6. QED  BY <1>1, <2>4, <2>5
<1>6. CASE x <= i
    <2>1. ASSUME NEW y \in x..(i - 1) PROVE ~IsControlKind(b[y])
        BY <1>1, <1>4, <1>5
    <2>2. QED  BY <1>1, <1>6, <2>1, OpenAcross DEF b, i
<1>7. CASE i <= x
    <2>1. ASSUME NEW y \in i..(x - 1) PROVE ~IsControlKind(b[y])
        BY <1>1, <1>4, <1>5
    <2>2. QED  BY <1>1, <1>7, <2>1, OpenAcross DEF b, i
<1>8. QED  BY <1>1, <1>6, <1>7

\* The order in which a chunk is applied is such an order.
LEMMA OrderArranged ==
    ASSUME Inv, RunInv, phase \in {"require", "body"}
    PROVE  Lines \in Seq(LineType) /\ Arranged(Lines, order)
<1> DEFINE n == Len(Lines)
           a == Len(order)
<1>1. /\ k \in DOMAIN chunks /\ DOMAIN preds = DOMAIN Lines
      /\ order \in Seq(DOMAIN Lines)
      /\ \A i, j \in DOMAIN Lines : Barrier(Lines, i, j) => j \in preds[i]
      /\ \A x \in DOMAIN order : preds[order[x]] \subseteq {order[m] : m \in 1..(x - 1)}
    BY DEF Inv, SortInv
<1>2. Lines \in Seq(LineType)
    BY <1>1, LinesType DEF RunInv
<1>3. n \in Nat /\ DOMAIN Lines = 1..n /\ a \in Nat /\ DOMAIN order = 1..a
    BY <1>1, <1>2
<1>4. \A x, y \in 1..a : order[x] = order[y] => x = y
    BY <1>3 DEF RunInv
<1>5. \A i \in 1..n : \E x \in 1..a : order[x] = i
    BY <1>3 DEF Inv, LogInv, Placed
<1>6. \A x \in 1..a : order[x] \in 1..n
    BY <1>1, <1>3
<1> HIDE DEF n, a
<1>7. Lists(order, a, n)
    BY <1>4, <1>5, <1>6 DEF Lists
<1>8. a = n
    BY <1>3, <1>7, SameLength
<1>9. ASSUME NEW x \in 1..n, NEW y \in 1..n, Barrier(Lines, order[x], order[y]) PROVE y < x
    <2>1. order[y] \in preds[order[x]]
        BY <1>1, <1>3, <1>6, <1>8, <1>9
    <2>2. PICK m \in 1..(x - 1) : order[y] = order[m]
        BY <1>1, <1>3, <1>8, <2>1
    <2>3. m \in 1..n /\ m < x
        BY <1>3
    <2>4. QED  BY <1>4, <1>8, <2>2, <2>3
<1>10. QED  BY <1>2, <1>3, <1>7, <1>8, <1>9 DEF Arranged, n

(***************************************************************************)
(* Every line once                                                         *)
(***************************************************************************)
\* The chunks are those of the plan, the log holds no line twice, and a
\* successful apply ended after the last chunk.
WholeInv ==
    /\ chunks = <<>> \/ chunks = ChunksOf(entry, body)
    /\ phase \notin {"start", "done"} => chunks = ChunksOf(entry, body)
    /\ \A i, j \in DOMAIN log :
          log[i].chunk = log[j].chunk /\ log[i].line = log[j].line => i = j
    /\ outcome = "ok" => k \notin DOMAIN chunks /\ chunks = ChunksOf(entry, body)

\* An apply ends well only where it returns after the last chunk.
LEMMA StepPhase ==
    ASSUME [Next]_vars
    PROVE  \/ Begin
           \/ phase' = phase /\ outcome' = outcome /\ k' = k
           \/ /\ phase \notin {"start", "done"}
              /\ outcome' = "ok" => outcome = "ok" \/ (k' = k /\ k \notin DOMAIN chunks)
<1>1. CASE NextChunk
    BY <1>1 DEF NextChunk, StartChunk, StartChunkCanceled, ApplyReturns, Return
<1>2. CASE SortNext \/ SortCircular \/ SortEnd \/ checkRequirements \/ checkRequirementsFails
           \/ StopBeforeLine \/ WhenBeginFails \/ WhenEndUnmatched \/ EndChunk
    BY <1>2 DEF SortNext, SortCircular, SortEnd, checkRequirements, checkRequirementsFails,
        StopBeforeLine, WhenBeginFails, WhenEndUnmatched, EndChunk, Return, InBody
<1>3. CASE WhenBegin
    BY <1>3 DEF WhenBegin, Return, Pass, InBody
<1>4. CASE WhenEndLine \/ SkipInactive \/ GateIdle \/ ApplyOp
    BY <1>4 DEF WhenEndLine, SkipInactive, GateIdle, ApplyOp, Pass
<1>5. CASE ApplyOpFails
    BY <1>5 DEF ApplyOpFails, Return, InBody
<1>6. CASE Environment
    BY <1>6 DEF Environment, Cancel, CancelReachesChild, CancelStopsOp, ChildKilled, Return, InBody
<1>7. CASE UNCHANGED vars
    BY <1>7 DEF vars
<1>8. QED  BY <1>1, <1>2, <1>3, <1>4, <1>5, <1>6, <1>7 DEF Next, Work

\* What is passed was not passed before.
LEMMA PassOnce ==
    ASSUME Inv, RunInv, WholeInv, InBody, NEW how, NEW noted, Pass(how, noted),
           NEW i \in DOMAIN log', NEW j \in DOMAIN log',
           log'[i].chunk = log'[j].chunk, log'[i].line = log'[j].line
    PROVE  i = j
<1> DEFINE e == [line |-> order[at], at |-> Cur.at, id |-> Cur.op.id,
                 chunk |-> k, how |-> how, noted |-> noted,
                 fired |-> how \in {"same", "changed"} /\ ~Held(Cur.op)]
           N == Len(log) + 1
<1>1. log' = Append(log, e) /\ phase = "body"
    BY DEF InBody, Pass
<1>2. e.line = order[at] /\ e.chunk = k
    OBVIOUS
<1> HIDE DEF e
<1>3. /\ Len(log) \in Nat /\ DOMAIN log = 1..Len(log) /\ DOMAIN log' = 1..N
      /\ log'[N] = e /\ \A n \in DOMAIN log : log'[n] = log[n]
    BY <1>1, Appended DEF Inv
<1>4. \A n \in DOMAIN log' : n \in DOMAIN log \/ n = N
    BY <1>3
<1>5. ASSUME NEW n \in DOMAIN log, log[n].chunk = k, log[n].line = order[at] PROVE FALSE
    <2>1. order \in Seq(DOMAIN Lines) /\ at \in DOMAIN order /\ at \in Nat
        BY CurrentLine
    <2>2. PICK m \in 1..(at - 1) : log[n].line = order[m]
        BY <1>1, <1>5 DEF RunInv
    <2>3. m \in DOMAIN order /\ m # at
        BY <2>1
    <2>4. QED  BY <1>1, <1>5, <2>1, <2>2, <2>3 DEF RunInv
<1>6. CASE i \in DOMAIN log /\ j \in DOMAIN log
    BY <1>3, <1>6 DEF WholeInv
<1>7. CASE i \in DOMAIN log /\ j = N
    BY <1>2, <1>3, <1>5, <1>7
<1>8. CASE j \in DOMAIN log /\ i = N
    BY <1>2, <1>3, <1>5, <1>8
<1>9. QED  BY <1>4, <1>6, <1>7, <1>8

\* Every step keeps WholeInv.
LEMMA StepWhole ==
    ASSUME Inv, RunInv, WholeInv, [Next]_vars
    PROVE  WholeInv'
<1>1. body' = body /\ entry' = entry /\ ChunksOf(entry, body)' = ChunksOf(entry, body)
    BY InputsFixed DEF ChunksOf
<1> DEFINE C == ChunksOf(entry, body)
<1>2. CASE Begin
    <2>1. log' = <<>> /\ DOMAIN log' = {} /\ phase = "start" /\ outcome = "none"
        BY <1>2 DEF Begin, ApplyChunks, ApplyPlan, Inv, LogInv, RunInv, world
    <2>2. \/ chunks' = C /\ phase' = "next" /\ outcome' = outcome
          \/ chunks' = chunks /\ phase' = "done" /\ outcome' = "refused"
        BY <1>2 DEF Begin, ApplyChunks, ApplyPlan, Return, ChunksOf
    <2> HIDE DEF C
    <2>3. QED  BY <1>1, <2>1, <2>2 DEF WholeInv, C
<1>3. CASE ~Begin
    <2>1. chunks' = chunks
        BY <1>3, StepShape DEF Pass
    <2>2. \/ phase' = phase /\ outcome' = outcome /\ k' = k
          \/ /\ phase \notin {"start", "done"}
             /\ outcome' = "ok" => k' = k /\ k \notin DOMAIN chunks
        BY <1>3, StepPhase DEF RunInv
    <2>3. \A i, j \in DOMAIN log' :
             log'[i].chunk = log'[j].chunk /\ log'[i].line = log'[j].line => i = j
        <3>1. CASE log' = log
            BY <3>1 DEF WholeInv
        <3>2. CASE InBody /\ \E how, noted : Pass(how, noted)
            BY <3>2, PassOnce
        <3>3. QED  BY <1>3, <3>1, <3>2, StepShape
    <2> HIDE DEF C
    <2>4. QED  BY <1>1, <2>1, <2>2, <2>3 DEF WholeInv, C
<1>4. QED  BY <1>2, <1>3

\* So a line of the plan is passed once, and each is when the apply succeeds.
LEMMA WholeOnce ==
    ASSUME body \in Seq(Op), Inv, RunInv, ScopeInv, WholeInv
    PROVE  /\ \A i, j \in DOMAIN log : log[i].at = log[j].at => i = j \/ log[i].at = 0
           /\ outcome = "ok" => \A p \in DOMAIN body : \E i \in DOMAIN log : log[i].at = p
<1>1. ASSUME NEW n \in DOMAIN log
      PROVE  /\ log[n].chunk \in DOMAIN chunks
             /\ log[n].line \in DOMAIN chunks[log[n].chunk].lines
             /\ log[n].at = chunks[log[n].chunk].lines[log[n].line].at
             /\ log[n].at \in Nat
             /\ chunks = ChunksOf(entry, body)
    <2>1. /\ log[n].chunk \in DOMAIN chunks
          /\ log[n].line \in DOMAIN chunks[log[n].chunk].lines
        BY DEF Inv, LogInv
    <2>2. chunks[log[n].chunk].lines \in Seq(LineType)
        <3>1. chunks[log[n].chunk] \in ChunkType
            BY <2>1 DEF RunInv
        <3>2. QED  BY <3>1 DEF ChunkType
    <2>3. chunks[log[n].chunk].lines[log[n].line] \in LineType
        BY <2>1, <2>2
    <2>4. log[n].at = chunks[log[n].chunk].lines[log[n].line].at
        BY DEF ScopeInv
    <2>5. chunks # <<>>
        BY <2>1
    <2>6. QED  BY <2>1, <2>3, <2>4, <2>5 DEF WholeInv, LineType
<1>2. ASSUME NEW i \in DOMAIN log, NEW j \in DOMAIN log, log[i].at = log[j].at, log[i].at # 0
      PROVE  i = j
    <2>1. log[i].at > 0
        BY <1>1, <1>2
    <2>2. log[i].chunk = log[j].chunk /\ log[i].line = log[j].line
        BY <1>1, <1>2, <2>1, ChunksOnce
    <2>3. QED  BY <2>2 DEF WholeInv
<1>3. ASSUME outcome = "ok", NEW p \in DOMAIN body PROVE \E i \in DOMAIN log : log[i].at = p
    <2>1. chunks = ChunksOf(entry, body) /\ k \notin DOMAIN chunks
        BY <1>3 DEF WholeInv
    <2>2. PICK c \in DOMAIN chunks : \E i \in DOMAIN chunks[c].lines : chunks[c].lines[i].at = p
        BY <2>1, ChunksCover
    <2>7. PICK i \in DOMAIN chunks[c].lines : chunks[c].lines[i].at = p
        BY <2>2
    <2>3. chunks \in Seq(ChunkType) /\ k \in Nat \ {0}
        BY DEF RunInv, Inv, LogInv
    <2>4. c \in 1..(k - 1)
        BY <2>1, <2>2, <2>3
    <2>5. PICK n \in DOMAIN log : log[n].chunk = c /\ log[n].line = i
        BY <2>4, <2>7 DEF Inv, LogInv
    <2>6. QED  BY <2>5, <2>7 DEF ScopeInv
<1>4. QED  BY <1>2, <1>3

(***************************************************************************)
(* The stack of open blocks                                                *)
(***************************************************************************)
\* Line i opens a block or closes the innermost one.
LEMMA OpenNext ==
    ASSUME NEW b, NEW i \in Nat \ {0}, NEW s
    PROVE  s \in OpenAt(b, i + 1) <=>
             \/ s = i /\ b[i].kind = "begin"
             \/ s \in OpenAt(b, i) /\ Depth(b, i) >= Depth(b, s)
<1> DEFINE j == i + 1
<1>1. j \in Nat /\ j - 1 = i /\ i - 1 \in Nat
    OBVIOUS
<1> HIDE DEF j
<1>2. s \in OpenAt(b, j) <=> s \in 1..i /\ b[s].kind = "begin" /\ Over(b, s, i)
    BY <1>1, OpenAtDepth
<1>3. s \in OpenAt(b, i) <=> s \in 1..(i - 1) /\ b[s].kind = "begin" /\ Over(b, s, i - 1)
    BY OpenAtDepth
<1>4. s \in 1..i <=> s = i \/ s \in 1..(i - 1)
    OBVIOUS
<1>5. Over(b, i, i)
    <2>1. \A y \in i..i : y = i
        OBVIOUS
    <2>2. Depth(b, i) \in Int
        BY DepthInt
    <2>3. QED  BY <2>1, <2>2 DEF Over
<1>6. s \in 1..(i - 1) => (Over(b, s, i) <=> Over(b, s, i - 1) /\ Depth(b, i) >= Depth(b, s))
    <2>1. s \in 1..(i - 1) => \A y : y \in s..i <=> y \in s..(i - 1) \/ y = i
        OBVIOUS
    <2>2. QED  BY <2>1 DEF Over
<1>7. s \in 1..(i - 1) => s # i
    OBVIOUS
<1>8. QED  BY <1>2, <1>3, <1>4, <1>5, <1>6, <1>7 DEF j

\* The depth of an open block is no more than the depth reached.
LEMMA OpenDepth ==
    ASSUME NEW b, NEW n, NestedTo(b, n), NEW i \in 1..(n + 1), n \in Nat, NEW s \in OpenAt(b, i)
    PROVE  /\ Depth(b, s) \in Nat /\ Depth(b, s) >= 1
           /\ Depth(b, i - 1) \in Nat /\ Depth(b, s) <= Depth(b, i - 1)
<1>1. i \in Nat /\ s \in 1..(i - 1) /\ b[s].kind = "begin" /\ Over(b, s, i - 1)
    BY OpenAtDepth
<1>2. s \in Nat \ {0} /\ s - 1 \in 0..n /\ i - 1 \in 0..n /\ i - 1 \in s..(i - 1) /\ s - 1 \in Nat
    BY <1>1
<1>3. Depth(b, s) = Depth(b, s - 1) + 1
    BY <1>1, <1>2, DepthStep DEF Delta
<1>4. Depth(b, s - 1) >= 0 /\ Depth(b, i - 1) >= 0
    BY <1>2 DEF NestedTo
<1>5. Depth(b, s - 1) \in Int /\ Depth(b, i - 1) \in Int
    BY <1>2, DepthInt
<1>6. Depth(b, s) <= Depth(b, i - 1)
    BY <1>1, <1>2, DepthInt DEF Over
<1>7. QED  BY <1>3, <1>4, <1>5, <1>6

\* st stands for the blocks open before line i of ops: one for each, and off
\* if the block or one around it is of the set off.
Stacked(ops, i, st, off) ==
    /\ st \in Seq({"on", "off"}) /\ Len(st) = Depth(ops, i - 1)
    /\ \A d \in 1..Len(st) :
          st[d] = "off" <=> \E s \in OpenAt(ops, i) : s \in off /\ Depth(ops, s) <= d

\* At the first line the stack is empty.
LEMMA StackedFirst ==
    ASSUME NEW ops, NEW off
    PROVE  Stacked(ops, 1, <<>>, off)
<1>1. Depth(ops, 1 - 1) = 0
    <2>1. 1 - 1 = 0
        OBVIOUS
    <2>2. QED  BY <2>1, DepthStep
<1>2. <<>> \in Seq({"on", "off"}) /\ Len(<<>>) = 0 /\ \A d \in 1..0 : FALSE
    OBVIOUS
<1>3. QED  BY <1>1, <1>2 DEF Stacked

\* The innermost block is off if one of the open blocks is.
LEMMA StackedTop ==
    ASSUME NEW ops, NEW n \in Nat, NestedTo(ops, n), NEW i \in 1..(n + 1), NEW st, NEW off,
           Stacked(ops, i, st, off)
    PROVE  (st = <<>> \/ st[Len(st)] = "on") <=> ~\E s \in OpenAt(ops, i) : s \in off
<1> DEFINE l == Len(st)
<1>1. /\ st \in Seq({"on", "off"}) /\ l = Depth(ops, i - 1) /\ l \in Nat
      /\ \A d \in 1..l : st[d] = "off" <=> \E s \in OpenAt(ops, i) : s \in off /\ Depth(ops, s) <= d
    BY DEF Stacked
<1>2. \A s \in OpenAt(ops, i) : Depth(ops, s) <= l /\ l >= 1
    <2>1. \A s \in OpenAt(ops, i) : /\ Depth(ops, s) \in Nat /\ Depth(ops, s) >= 1
                                    /\ Depth(ops, s) <= Depth(ops, i - 1)
        BY OpenDepth
    <2>2. QED  BY <1>1, <2>1
<1>3. CASE l = 0
    <2>1. st = <<>>
        BY <1>1, <1>3
    <2>2. QED  BY <1>2, <1>3, <2>1
<1>4. CASE l # 0
    <2>1. st # <<>> /\ l \in 1..l /\ st[l] \in {"on", "off"}
        BY <1>1, <1>4
    <2>2. st[l] = "off" <=> \E s \in OpenAt(ops, i) : s \in off
        BY <1>1, <1>2, <2>1
    <2>3. QED  BY <2>1, <2>2
<1>5. QED  BY <1>3, <1>4

\* An op changes neither the stack nor the blocks it stands for.
LEMMA StackedOp ==
    ASSUME NEW ops, NEW i \in Nat \ {0}, NEW st, NEW off, Stacked(ops, i, st, off),
           ~IsControlKind(ops[i])
    PROVE  Stacked(ops, i + 1, st, off)
<1> DEFINE j == i + 1
<1>1. j \in Nat /\ i \in Nat /\ i <= j /\ j - 1 = i /\ \A y \in i..(j - 1) : y = i
    OBVIOUS
<1> HIDE DEF j
<1>2. OpenAt(ops, i) = OpenAt(ops, j)
    BY <1>1, OpenAcross
<1>3. Depth(ops, j - 1) = Depth(ops, i - 1)
    <2>1. Delta(ops[i]) = 0
        BY DEF Delta, IsControlKind
    <2>2. Depth(ops, i) = Depth(ops, i - 1) + Delta(ops[i])
        BY DepthStep
    <2>3. Depth(ops, i - 1) \in Int
        BY DepthInt
    <2>4. QED  BY <1>1, <2>1, <2>2, <2>3
<1>4. QED  BY <1>2, <1>3 DEF Stacked, j

\* A block is entered if the one around it was and its test holds.
LEMMA StackedBegin ==
    ASSUME NEW ops, NEW n \in Nat, NestedTo(ops, n), NEW i \in 1..n, NEW st, NEW off,
           Stacked(ops, i, st, off), ops[i].kind = "begin", i \notin off,
           NEW how \in {"on", "off"},
           how = "on" => st = <<>> \/ st[Len(st)] = "on"
    PROVE  Stacked(ops, i + 1, Append(st, how), IF how = "off" THEN off \cup {i} ELSE off)
<1> DEFINE j == i + 1
           l == Len(st)
           st2 == Append(st, how)
           off2 == IF how = "off" THEN off \cup {i} ELSE off
<1>1. /\ st \in Seq({"on", "off"}) /\ l = Depth(ops, i - 1) /\ l \in Nat
      /\ \A d \in 1..l : st[d] = "off" <=> \E s \in OpenAt(ops, i) : s \in off /\ Depth(ops, s) <= d
    BY DEF Stacked
<1>2. /\ st2 \in Seq({"on", "off"}) /\ Len(st2) = l + 1 /\ st2[l + 1] = how
      /\ \A d \in 1..l : st2[d] = st[d]
    BY <1>1
<1>3. j - 1 = i /\ i \in Nat \ {0} /\ i \in 1..(n + 1)
    OBVIOUS
<1>4. Depth(ops, i) = l + 1
    BY <1>1, <1>3, DepthStep DEF Delta
<1>5. \A s \in OpenAt(ops, i) : Depth(ops, s) \in Nat /\ Depth(ops, s) <= l /\ s # i
    <2>1. \A s \in OpenAt(ops, i) : Depth(ops, s) \in Nat /\ Depth(ops, s) <= Depth(ops, i - 1)
        BY <1>3, OpenDepth
    <2>2. \A s \in OpenAt(ops, i) : s # i
        BY DEF OpenAt
    <2>3. QED  BY <1>1, <2>1, <2>2
<1>6. \A s : s \in OpenAt(ops, j) <=> s = i \/ s \in OpenAt(ops, i)
    <2>1. \A s : s \in OpenAt(ops, j) <=> s = i \/ (s \in OpenAt(ops, i) /\ Depth(ops, i) >= Depth(ops, s))
        BY <1>3, OpenNext
    <2>2. \A s \in OpenAt(ops, i) : Depth(ops, i) >= Depth(ops, s)
        BY <1>1, <1>4, <1>5
    <2>3. QED  BY <2>1, <2>2
<1>7. how = "on" <=> ~\E s \in OpenAt(ops, j) : s \in off2
    <2>1. (st = <<>> \/ st[Len(st)] = "on") <=> ~\E s \in OpenAt(ops, i) : s \in off
        BY <1>3, StackedTop
    <2>2. CASE how = "off"
        BY <1>6, <2>2
    <2>3. CASE how = "on"
        BY <1>6, <2>1, <2>3
    <2>4. QED  BY <2>2, <2>3
<1> HIDE DEF j, st2, l
<1>8. ASSUME NEW d \in 1..(l + 1)
      PROVE  st2[d] = "off" <=> \E s \in OpenAt(ops, j) : s \in off2 /\ Depth(ops, s) <= d
    <2>1. CASE d = l + 1
        <3>1. \A s \in OpenAt(ops, j) : Depth(ops, s) <= d
            BY <1>1, <1>4, <1>5, <1>6, <2>1
        <3>2. QED  BY <1>2, <1>7, <2>1, <3>1
    <2>2. CASE d # l + 1
        <3>1. d \in 1..l /\ ~(l + 1 <= d)
            BY <1>1, <2>2
        <3>2. \A s \in OpenAt(ops, i) : s \in off2 <=> s \in off
            BY <1>5
        <3>3. \A s : s \in OpenAt(ops, j) /\ Depth(ops, s) <= d <=> s \in OpenAt(ops, i) /\ Depth(ops, s) <= d
            BY <1>4, <1>6, <3>1
        <3>4. (\E s \in OpenAt(ops, j) : s \in off2 /\ Depth(ops, s) <= d)
              <=> \E s \in OpenAt(ops, i) : s \in off /\ Depth(ops, s) <= d
            BY <3>2, <3>3
        <3>5. QED  BY <1>1, <1>2, <3>1, <3>4
    <2>3. QED  BY <2>1, <2>2
<1> HIDE DEF off2
<1>9. Stacked(ops, j, st2, off2)
    BY <1>2, <1>3, <1>4, <1>8 DEF Stacked
<1>10. QED  BY <1>9 DEF j, st2, off2

\* The end of a block closes the innermost one.
LEMMA StackedEnd ==
    ASSUME NEW ops, NEW n \in Nat, NestedTo(ops, n), NEW i \in 1..n, NEW st, NEW off,
           Stacked(ops, i, st, off), ops[i].kind = "end"
    PROVE  st # <<>> /\ Stacked(ops, i + 1, SubSeq(st, 1, Len(st) - 1), off)
<1> DEFINE j == i + 1
           l == Len(st)
           st2 == SubSeq(st, 1, l - 1)
<1>1. /\ st \in Seq({"on", "off"}) /\ l = Depth(ops, i - 1) /\ l \in Nat
      /\ \A d \in 1..l : st[d] = "off" <=> \E s \in OpenAt(ops, i) : s \in off /\ Depth(ops, s) <= d
    BY DEF Stacked
<1>2. j - 1 = i /\ i \in Nat \ {0} /\ i \in 1..(n + 1) /\ i \in 0..n
    OBVIOUS
<1>3. Depth(ops, i) = l - 1
    BY <1>1, <1>2, DepthStep DEF Delta
<1>4. Depth(ops, i) >= 0
    BY <1>2 DEF NestedTo
<1>5. l >= 1 /\ st # <<>>
    BY <1>1, <1>3, <1>4
<1>6. /\ st2 \in Seq({"on", "off"}) /\ Len(st2) = l - 1
      /\ \A d \in 1..(l - 1) : st2[d] = st[d]
    BY <1>1, <1>5
<1>7. \A s : s \in OpenAt(ops, j) <=> s \in OpenAt(ops, i) /\ Depth(ops, i) >= Depth(ops, s)
    BY <1>2, OpenNext
<1>8. \A s \in OpenAt(ops, i) : Depth(ops, s) \in Nat
    BY <1>2, OpenDepth
<1> HIDE DEF j, st2, l
<1>9. ASSUME NEW d \in 1..(l - 1)
      PROVE  st2[d] = "off" <=> \E s \in OpenAt(ops, j) : s \in off /\ Depth(ops, s) <= d
    <2>1. d \in 1..l /\ d <= l - 1
        BY <1>1
    <2>2. \A s \in OpenAt(ops, i) : Depth(ops, s) <= d => Depth(ops, i) >= Depth(ops, s)
        BY <1>1, <1>3, <1>8, <2>1
    <2>3. (\E s \in OpenAt(ops, j) : s \in off /\ Depth(ops, s) <= d)
          <=> \E s \in OpenAt(ops, i) : s \in off /\ Depth(ops, s) <= d
        BY <1>7, <2>2
    <2>4. QED  BY <1>1, <1>6, <2>1, <2>3
<1>10. Stacked(ops, j, st2, off)
    BY <1>2, <1>3, <1>6, <1>9 DEF Stacked
<1>11. QED  BY <1>5, <1>10 DEF j, st2, l

\* The lines of chunk c that the log lg has as blocks not entered.
Off(lg, c) == {lg[n].line : n \in {n \in DOMAIN lg : lg[n].chunk = c /\ lg[n].how = "off"}}

\* The ops of chunk c of cs.
ChunkOps(cs, c) == OpsOf(cs[c].lines)

\* Entry n of lg, if an op of a nested chunk, was skipped exactly if a block
\* around it had not been entered.
SkippedRight(cs, lg, n) ==
    LET ops == ChunkOps(cs, lg[n].chunk)
    IN  Nested(ops) /\ ops[lg[n].line].kind = "op" =>
          (lg[n].how = "inactive" <=>
             \E j \in 1..(n - 1) : /\ lg[j].chunk = lg[n].chunk
                                   /\ lg[j].line \in OpenAt(ops, lg[n].line)
                                   /\ lg[j].how = "off")

\* The stack stands for the open blocks, what was skipped was in a block that
\* was not entered, and in a balanced plan no chunk is unbalanced.
BlockInv ==
    /\ phase = "body" /\ Nested(ChunkOps(chunks, k)) =>
          Stacked(ChunkOps(chunks, k), at, stack, Off(log, k))
    /\ \A n \in DOMAIN log : SkippedRight(chunks, log, n)
    /\ Balanced(body) => outcome # "unbalanced"

\* The current line, where it is and what is open around it.
LEMMA CurrentOpen ==
    ASSUME Inv, RunInv, InBody
    PROVE  LET ops == ChunkOps(chunks, k)
           IN  /\ Len(ops) \in Nat /\ at \in 1..Len(ops) /\ Len(ops) = Len(order)
               /\ order[at] \in 1..Len(ops) /\ ops[order[at]] = Cur.op
               /\ OpenAt(ops, order[at]) = OpenAt(ops, at)
               /\ ops[at].kind = Cur.op.kind
               /\ IsControlKind(ops[at]) => order[at] = at
<1> DEFINE ops == ChunkOps(chunks, k)
           n == Len(Lines)
<1>1. Lines \in Seq(LineType) /\ Arranged(Lines, order)
    BY OrderArranged DEF InBody
<1>2. ops = OpsOf(Lines)
    BY DEF ChunkOps, Lines
<1>3. /\ n \in Nat /\ DOMAIN Lines = 1..n /\ DOMAIN order = 1..n
      /\ \A x \in 1..n : order[x] \in 1..n
    BY <1>1 DEF Arranged, Lists
<1>4. order \in Seq(DOMAIN Lines) /\ at \in DOMAIN order
    BY CurrentLine
<1>5. Len(order) = n /\ at \in 1..n /\ order[at] \in 1..n
    BY <1>3, <1>4
<1>6. Len(ops) = n
    BY <1>1, <1>2, OpsType
<1> HIDE DEF n
<1>7. ops[order[at]] = Cur.op /\ InOrder(Lines, order)[at] = Cur.op
    BY <1>2, <1>3, <1>5 DEF OpsOf, InOrder, Cur
<1> HIDE DEF ops
<1>8. OpenAt(ops, order[at]) = OpenAt(ops, at)
    BY <1>1, <1>2, <1>5, OpenKept DEF n
<1>9. /\ Cur.op.kind = ops[at].kind
      /\ IsControlKind(ops[at]) => order[at] = at
    BY <1>1, <1>2, <1>5, <1>7, KindsKept DEF n
<1>10. QED  BY <1>3, <1>5, <1>6, <1>7, <1>8, <1>9 DEF ops

\* It was not passed before.
LEMMA CurrentNew ==
    ASSUME Inv, RunInv, InBody
    PROVE  order[at] \notin Off(log, k)
<1> SUFFICES ASSUME NEW n \in DOMAIN log, log[n].chunk = k, log[n].line = order[at] PROVE FALSE
    BY DEF Off
<1>1. order \in Seq(DOMAIN Lines) /\ at \in DOMAIN order /\ at \in Nat /\ phase = "body"
    BY CurrentLine DEF InBody
<1>2. PICK m \in 1..(at - 1) : log[n].line = order[m]
    BY <1>1 DEF RunInv
<1>3. m \in DOMAIN order /\ m # at
    BY <1>1
<1>4. QED  BY <1>1, <1>2, <1>3 DEF RunInv

\* The blocks not entered, after a line was passed.
LEMMA PassOff ==
    ASSUME LogIsSeq, NEW how, NEW noted, Pass(how, noted)
    PROVE  Off(log', k) = IF how = "off" THEN Off(log, k) \cup {order[at]} ELSE Off(log, k)
<1> DEFINE e == [line |-> order[at], at |-> Cur.at, id |-> Cur.op.id,
                 chunk |-> k, how |-> how, noted |-> noted,
                 fired |-> how \in {"same", "changed"} /\ ~Held(Cur.op)]
           N == Len(log) + 1
<1>1. log' = Append(log, e)
    BY DEF Pass
<1>2. e.line = order[at] /\ e.chunk = k /\ e.how = how
    OBVIOUS
<1> HIDE DEF e
<1>3. /\ Len(log) \in Nat /\ DOMAIN log = 1..Len(log) /\ DOMAIN log' = 1..N
      /\ log'[N] = e /\ \A n \in DOMAIN log : log'[n] = log[n]
    BY <1>1, Appended
<1>4. \A n : n \in DOMAIN log' <=> n \in DOMAIN log \/ n = N
    BY <1>3
<1> HIDE DEF N
<1>5. \A n : n \in DOMAIN log' /\ log'[n].chunk = k /\ log'[n].how = "off" <=>
              \/ n \in DOMAIN log /\ log[n].chunk = k /\ log[n].how = "off"
              \/ n = N /\ how = "off"
    BY <1>2, <1>3, <1>4
<1>6. ASSUME NEW s
      PROVE  s \in Off(log', k) <=> s \in Off(log, k) \/ (how = "off" /\ s = order[at])
    <2>1. s \in Off(log', k) <=> \E n : /\ n \in DOMAIN log' /\ log'[n].chunk = k
                                        /\ log'[n].how = "off" /\ s = log'[n].line
        BY DEF Off
    <2>2. s \in Off(log, k) <=> \E n : /\ n \in DOMAIN log /\ log[n].chunk = k
                                       /\ log[n].how = "off" /\ s = log[n].line
        BY DEF Off
    <2>3. QED  BY <1>2, <1>3, <1>5, <2>1, <2>2
<1>7. QED  BY <1>6

\* A line passed keeps the stack right if the stack takes a begin and gives
\* up an end.
LEMMA PassStacked ==
    ASSUME Inv, RunInv, BlockInv, InBody, NEW how, NEW noted, Pass(how, noted), Nested(ChunkOps(chunks, k)),
           Cur.op.kind = "begin" =>
              /\ how \in {"on", "off"} /\ (how = "on" => Active)
              /\ stack' = Append(stack, how),
           Cur.op.kind = "end" => how = "end" /\ stack' = SubSeq(stack, 1, Len(stack) - 1),
           Cur.op.kind = "op" => how # "off" /\ stack' = stack
    PROVE  Stacked(ChunkOps(chunks, k), at + 1, stack', Off(log', k))
<1> DEFINE ops == ChunkOps(chunks, k)
           n == Len(ops)
           off == Off(log, k)
<1>1. /\ n \in Nat /\ at \in 1..n /\ ops[at].kind = Cur.op.kind
      /\ IsControlKind(ops[at]) => order[at] = at
    BY CurrentOpen
<1>2. Stacked(ops, at, stack, off)
    BY DEF BlockInv, InBody
<1>3. NestedTo(ops, n) /\ at \in Nat \ {0} /\ at \in 1..(n + 1)
    BY <1>1 DEF Nested
<1>4. Off(log', k) = IF how = "off" THEN off \cup {order[at]} ELSE off
    BY PassOff DEF Inv
<1>5. order[at] \notin off
    BY CurrentNew
<1>6. Cur.op.kind \in {"op", "begin", "end"}
    <2>1. Lines \in Seq(LineType) /\ order[at] \in DOMAIN Lines
        BY CurrentLine, OrderArranged DEF InBody
    <2>2. Lines[order[at]] \in LineType
        BY <2>1
    <2>3. QED  BY <2>2 DEF Cur, LineType, Op
<1> HIDE DEF ops, n, off
<1>7. CASE Cur.op.kind = "begin"
    <2>1. order[at] = at /\ ops[at].kind = "begin" /\ at \notin off
        BY <1>1, <1>5, <1>7 DEF IsControlKind
    <2>2. how = "on" => stack = <<>> \/ stack[Len(stack)] = "on"
        BY <1>7 DEF Active
    <2>3. Stacked(ops, at + 1, Append(stack, how), IF how = "off" THEN off \cup {at} ELSE off)
        BY <1>1, <1>2, <1>3, <1>7, <2>1, <2>2, StackedBegin
    <2>4. QED  BY <1>4, <1>7, <2>1, <2>3 DEF ops
<1>8. CASE Cur.op.kind = "end"
    <2>1. Stacked(ops, at + 1, SubSeq(stack, 1, Len(stack) - 1), off)
        BY <1>1, <1>2, <1>3, <1>8, StackedEnd
    <2>2. Off(log', k) = off
        BY <1>4, <1>8
    <2>3. QED  BY <1>8, <2>1, <2>2 DEF ops
<1>9. CASE Cur.op.kind = "op"
    <2>1. Stacked(ops, at + 1, stack, off)
        BY <1>1, <1>2, <1>3, <1>9, StackedOp DEF IsControlKind
    <2>2. Off(log', k) = off
        BY <1>4, <1>9
    <2>3. QED  BY <1>9, <2>1, <2>2 DEF ops
<1>10. QED  BY <1>6, <1>7, <1>8, <1>9

\* What was passed keeps right why it was skipped.
LEMMA PassSkipped ==
    ASSUME Inv, RunInv, BlockInv, InBody, NEW how, NEW noted, Pass(how, noted),
           Cur.op.kind = "op" => (how = "inactive" <=> ~Active),
           NEW n \in DOMAIN log'
    PROVE  SkippedRight(chunks, log', n)
<1> DEFINE e == [line |-> order[at], at |-> Cur.at, id |-> Cur.op.id,
                 chunk |-> k, how |-> how, noted |-> noted,
                 fired |-> how \in {"same", "changed"} /\ ~Held(Cur.op)]
           N == Len(log) + 1
<1>1. log' = Append(log, e)
    BY DEF Pass
<1>2. e.line = order[at] /\ e.chunk = k /\ e.how = how
    OBVIOUS
<1> HIDE DEF e
<1>3. /\ Len(log) \in Nat /\ DOMAIN log = 1..Len(log) /\ DOMAIN log' = 1..N
      /\ log'[N] = e /\ \A m \in DOMAIN log : log'[m] = log[m]
    BY <1>1, Appended DEF Inv
<1>4. CASE n \in DOMAIN log
    <2>1. log'[n] = log[n] /\ SkippedRight(chunks, log, n)
        BY <1>3, <1>4 DEF BlockInv
    <2>2. \A j \in 1..(n - 1) : j \in DOMAIN log /\ log'[j] = log[j]
        BY <1>3, <1>4
    <2>3. QED  BY <2>1, <2>2 DEF SkippedRight
<1>5. CASE n = N
    <2> DEFINE ops == ChunkOps(chunks, k)
    <2> SUFFICES ASSUME Nested(ops), ops[order[at]].kind = "op"
                 PROVE  how = "inactive" <=>
                          \E j \in 1..(N - 1) : /\ log'[j].chunk = k
                                                /\ log'[j].line \in OpenAt(ops, order[at])
                                                /\ log'[j].how = "off"
        BY <1>2, <1>3, <1>5 DEF SkippedRight
    <2>1. /\ Len(ops) \in Nat /\ at \in 1..Len(ops) /\ ops[order[at]] = Cur.op
          /\ OpenAt(ops, order[at]) = OpenAt(ops, at)
        BY CurrentOpen
    <2>2. N - 1 = Len(log)
        BY <1>3
    <2>3. (\E j \in 1..(N - 1) : /\ log'[j].chunk = k
                                 /\ log'[j].line \in OpenAt(ops, order[at])
                                 /\ log'[j].how = "off")
          <=> \E j \in DOMAIN log : /\ log[j].chunk = k /\ log[j].how = "off"
                                    /\ log[j].line \in OpenAt(ops, at)
        BY <1>3, <2>1, <2>2
    <2>4. (\E j \in DOMAIN log : /\ log[j].chunk = k /\ log[j].how = "off"
                                 /\ log[j].line \in OpenAt(ops, at))
          <=> \E s \in OpenAt(ops, at) : s \in Off(log, k)
        BY DEF Off
    <2>5. Stacked(ops, at, stack, Off(log, k))
        BY DEF BlockInv, InBody
    <2>6. NestedTo(ops, Len(ops)) /\ at \in 1..(Len(ops) + 1)
        BY <2>1 DEF Nested
    <2>7. Active <=> stack = <<>> \/ stack[Len(stack)] = "on"
        BY DEF Active
    <2> HIDE DEF ops
    <2>8. (stack = <<>> \/ stack[Len(stack)] = "on") <=> ~\E s \in OpenAt(ops, at) : s \in Off(log, k)
        BY <2>1, <2>5, <2>6, StackedTop
    <2>9. how = "inactive" <=> ~Active
        BY <2>1
    <2>10. QED  BY <2>3, <2>4, <2>7, <2>8, <2>9
<1>6. QED  BY <1>3, <1>4, <1>5

\* Passing a line keeps BlockInv.
LEMMA PassBlock ==
    ASSUME Inv, RunInv, BlockInv, InBody, NEW how, NEW noted, Pass(how, noted),
           Cur.op.kind = "begin" =>
              /\ how \in {"on", "off"} /\ (how = "on" => Active)
              /\ stack' = Append(stack, how),
           Cur.op.kind = "end" => how = "end" /\ stack' = SubSeq(stack, 1, Len(stack) - 1),
           Cur.op.kind = "op" => how # "off" /\ stack' = stack /\ (how = "inactive" <=> ~Active)
    PROVE  BlockInv'
<1>1. /\ chunks' = chunks /\ k' = k /\ at' = at + 1 /\ outcome' = outcome /\ body' = body
      /\ ChunkOps(chunks, k)' = ChunkOps(chunks, k) /\ Off(log, k)' = Off(log', k)
    BY DEF Pass, inputs, ChunkOps, Off
<1>2. Nested(ChunkOps(chunks, k)) => Stacked(ChunkOps(chunks, k), at + 1, stack', Off(log', k))
    BY PassStacked
<1>3. \A n \in DOMAIN log' : SkippedRight(chunks, log', n)
    BY PassSkipped
<1>4. Balanced(body) => outcome # "unbalanced"
    BY DEF BlockInv
<1>5. QED  BY <1>1, <1>2, <1>3, <1>4 DEF BlockInv

\* Nothing is passed, and no body goes on but where it was.
LEMMA QuietBlock ==
    ASSUME BlockInv, UNCHANGED <<body, chunks, k, log>>,
           \/ phase' = phase /\ outcome' = outcome /\ at' = at /\ stack' = stack
           \/ phase' # "body" /\ outcome' \in {"none", "ok", "refused", "canceled", "circular",
                                               "requirement", "failed", "killed"}
           \/ phase' = "body" /\ at' = 1 /\ stack' = <<>> /\ outcome' = outcome
    PROVE  BlockInv'
<1>1. \A n \in DOMAIN log' : SkippedRight(chunks', log', n)
    BY DEF BlockInv
<1>2. ChunkOps(chunks, k)' = ChunkOps(chunks, k) /\ Off(log, k)' = Off(log, k)
    BY DEF ChunkOps, Off
<1>3. Stacked(ChunkOps(chunks, k), 1, <<>>, Off(log, k))
    BY StackedFirst
<1>4. QED  BY <1>1, <1>2, <1>3 DEF BlockInv

\* In a balanced plan the stack of a chunk is empty at its end.
LEMMA ChunkBalanced ==
    ASSUME body \in Seq(Op), Inv, RunInv, WholeInv, BlockInv, phase = "body", Balanced(body)
    PROVE  /\ InBody /\ Cur.op.kind = "end" => stack # <<>>
           /\ at > Len(order) => stack = <<>>
<1> DEFINE ops == ChunkOps(chunks, k)
           n == Len(ops)
<1>1. chunks = ChunksOf(entry, body) /\ k \in DOMAIN chunks
    BY DEF WholeInv, Inv, SortInv
<1>2. Nested(ops)
    BY <1>1, ChunksNested DEF ChunkOps
<1>3. Stacked(ops, at, stack, Off(log, k))
    BY <1>2 DEF BlockInv
<1>4. ASSUME InBody, Cur.op.kind = "end" PROVE stack # <<>>
    <2>1. n \in Nat /\ at \in 1..n /\ ops[at].kind = "end"
        BY <1>4, CurrentOpen
    <2>2. NestedTo(ops, n)
        BY <1>2 DEF Nested
    <2> HIDE DEF ops, n
    <2>3. QED  BY <1>3, <2>1, <2>2, StackedEnd
<1>5. ASSUME at > Len(order) PROVE stack = <<>>
    <2>1. /\ Lines \in Seq(LineType) /\ Arranged(Lines, order)
          /\ at \in 1..(Len(order) + 1) /\ order \in Seq(DOMAIN Lines)
        BY OrderArranged DEF Inv, LogInv, SortInv
    <2>2. Len(order) = Len(Lines) /\ Len(Lines) \in Nat
        BY <2>1 DEF Arranged
    <2>3. n = Len(Lines)
        BY <2>1, OpsType DEF ChunkOps, Lines
    <2>4. at - 1 = n
        BY <1>5, <2>1, <2>2, <2>3
    <2>5. Depth(ops, at - 1) = 0
        BY <1>2, <2>4 DEF Nested, NestedTo
    <2>6. stack \in Seq({"on", "off"}) /\ Len(stack) = 0
        BY <1>3, <2>5 DEF Stacked
    <2>7. QED  BY <2>6
<1>6. QED  BY <1>4, <1>5

\* Every step keeps BlockInv.
LEMMA StepBlock ==
    ASSUME body \in Seq(Op), Inv, RunInv, WholeInv, BlockInv, [Next]_vars
    PROVE  BlockInv'
<1>0. body' = body
    BY InputsFixed
<1>n. phase # "done" => outcome = "none"
    BY DEF RunInv
<1>1. CASE Begin
    <2>1. /\ log' = <<>> /\ DOMAIN log' = {}
          /\ phase' # "body" /\ outcome' # "unbalanced"
        BY <1>1, <1>n DEF Begin, ApplyChunks, ApplyPlan, Return, Inv, LogInv, world
    <2>2. QED  BY <2>1 DEF BlockInv
<1>2. CASE NextChunk
    BY <1>0, <1>2, <1>n, QuietBlock DEF NextChunk, StartChunk, StartChunkCanceled, ApplyReturns,
        Return, world
<1>3. CASE SortNext \/ SortCircular \/ SortEnd
    BY <1>0, <1>3, <1>n, QuietBlock DEF SortNext, SortCircular, SortEnd, Return, world
<1>4. CASE checkRequirements \/ checkRequirementsFails
    BY <1>0, <1>4, <1>n, QuietBlock DEF checkRequirements, checkRequirementsFails, Return, world
<1>5. CASE StopBeforeLine \/ WhenBeginFails \/ ApplyOpFails
    BY <1>0, <1>5, QuietBlock DEF StopBeforeLine, WhenBeginFails, ApplyOpFails, Return, world
<1>6. CASE WhenBegin
    <2>1. CASE phase' = "done"
        BY <1>0, <1>6, <2>1, QuietBlock DEF WhenBegin, Return, Pass, InBody
    <2>2. CASE phase' # "done"
        <3> DEFINE how == IF Active /\ Holds(Cur.op.cond) THEN "on" ELSE "off"
        <3>1. /\ InBody /\ Cur.op.kind = "begin"
              /\ Pass(how, {}) /\ stack' = Append(stack, how)
            BY <1>6, <2>2 DEF WhenBegin, Return
        <3>2. how \in {"on", "off"} /\ (how = "on" => Active)
            OBVIOUS
        <3> HIDE DEF how
        <3>3. QED  BY <3>1, <3>2, PassBlock
    <2>3. QED  BY <2>1, <2>2
<1>7. CASE WhenEndLine
    <2>1. /\ InBody /\ Cur.op.kind = "end"
          /\ Pass("end", {}) /\ stack' = SubSeq(stack, 1, Len(stack) - 1)
        BY <1>7 DEF WhenEndLine
    <2>2. QED  BY <2>1, PassBlock
<1>8. CASE WhenEndUnmatched
    <2>1. InBody /\ Cur.op.kind = "end" /\ stack = <<>> /\ phase = "body"
        BY <1>8 DEF WhenEndUnmatched, InBody
    <2>2. ~Balanced(body)
        BY <2>1, ChunkBalanced
    <2>3. chunks' = chunks /\ log' = log /\ phase' = "done"
        BY <1>8 DEF WhenEndUnmatched, Return, world
    <2>4. QED  BY <1>0, <2>2, <2>3 DEF BlockInv
<1>9. CASE SkipInactive
    <2>1. /\ InBody /\ Cur.op.kind = "op" /\ ~Active
          /\ Pass("inactive", {}) /\ stack' = stack
        BY <1>9 DEF SkipInactive
    <2>2. QED  BY <2>1, PassBlock
<1>10. CASE GateIdle
    <2>1. /\ InBody /\ Cur.op.kind = "op" /\ Active
          /\ Pass("idle", {}) /\ stack' = stack
        BY <1>10 DEF GateIdle
    <2>2. QED  BY <2>1, PassBlock
<1>11. CASE ApplyOp
    <2>1. PICK how \in {"same", "changed"}, noted \in SUBSET Cur.op.notes : Pass(how, noted)
        BY <1>11 DEF ApplyOp
    <2>2. InBody /\ Cur.op.kind = "op" /\ Active /\ stack' = stack
        BY <1>11 DEF ApplyOp
    <2>3. QED  BY <2>1, <2>2, PassBlock
<1>12. CASE EndChunk
    <2>1. phase = "body" /\ at > Len(order) /\ chunks' = chunks /\ log' = log /\ phase' # "body"
        BY <1>12 DEF EndChunk, Return, world
    <2>2. outcome' = outcome \/ stack # <<>>
        BY <1>12 DEF EndChunk
    <2>3. Balanced(body) => outcome' # "unbalanced"
        BY <2>1, <2>2, ChunkBalanced DEF BlockInv
    <2>4. QED  BY <1>0, <2>1, <2>3 DEF BlockInv
<1>13. CASE Environment
    BY <1>0, <1>13, QuietBlock DEF Environment, Cancel, CancelReachesChild, CancelStopsOp,
        ChildKilled, Return, world
<1>14. CASE UNCHANGED vars
    BY <1>14, QuietBlock DEF vars, world
<1>15. QED
    BY <1>1, <1>2, <1>3, <1>4, <1>5, <1>6, <1>7, <1>8, <1>9, <1>10, <1>11, <1>12, <1>13, <1>14
    DEF Next, Work

\* What was skipped was in a block of the plan that was not entered.
LEMMA SkippedInPlan ==
    ASSUME body \in Seq(Op), Inv, RunInv, ScopeInv, WholeInv, BlockInv, Balanced(body),
           NEW i \in DOMAIN log, log[i].at > 0, OpOf(log[i]).kind = "op"
    PROVE  log[i].how = "inactive" <=>
             \E j \in 1..(i - 1) : log[j].at \in OpenAt(body, log[i].at) /\ log[j].how = "off"
<1> DEFINE c == log[i].chunk
           l == log[i].line
           ls == chunks[c].lines
           ops == ChunkOps(chunks, c)
<1>1. \A n \in DOMAIN log : /\ log[n].chunk \in DOMAIN chunks
                            /\ log[n].line \in DOMAIN chunks[log[n].chunk].lines
                            /\ log[n].at = chunks[log[n].chunk].lines[log[n].line].at
    BY DEF Inv, LogInv, ScopeInv
<1>2. chunks = ChunksOf(entry, body) /\ DOMAIN log = 1..Len(log) /\ Len(log) \in Nat
    <2>1. chunks # <<>>
        BY <1>1
    <2>2. PICK S : log \in Seq(S)
        BY DEF Inv, LogIsSeq
    <2>3. QED  BY <2>1, <2>2 DEF WholeInv
<1>3. \A j \in 1..(i - 1) : j \in DOMAIN log
    BY <1>2
<1>4. /\ c \in DOMAIN chunks /\ l \in DOMAIN ls /\ ls[l].at > 0 /\ ls[l].at = log[i].at
    BY <1>1
<1>5. InScope(body, ls, l) /\ Scoped(body, ls, l)
    BY <1>2, <1>4, ChunksOpen
<1>6. Nested(ops)
    BY <1>2, <1>4, ChunksNested DEF ChunkOps
<1>7. ops[l].kind = "op" /\ ops = OpsOf(ls)
    BY <1>4 DEF OpOf, ChunkOps, OpsOf
<1>8. log[i].how = "inactive" <=>
        \E j \in 1..(i - 1) : log[j].chunk = c /\ log[j].line \in OpenAt(ops, l) /\ log[j].how = "off"
    BY <1>6, <1>7 DEF BlockInv, SkippedRight
<1> HIDE DEF ops
<1>9. ASSUME NEW j \in 1..(i - 1), log[j].chunk = c, log[j].line \in OpenAt(ops, l)
      PROVE  log[j].at \in OpenAt(body, log[i].at)
    <2>1. ls[log[j].line].at \in OpenAt(body, ls[l].at)
        BY <1>5, <1>7, <1>9 DEF InScope
    <2>2. log[j].at = ls[log[j].line].at
        BY <1>1, <1>3, <1>9
    <2>3. QED  BY <1>4, <2>1, <2>2
<1>10. ASSUME NEW j \in 1..(i - 1), log[j].at \in OpenAt(body, log[i].at)
       PROVE  log[j].chunk = c /\ log[j].line \in OpenAt(ops, l)
    <2>1. PICK s \in OpenAt(ops, l) : ls[s].at = log[j].at
        BY <1>4, <1>5, <1>7, <1>10 DEF Scoped
    <2>2. s \in DOMAIN ls
        BY <1>5, <1>7, <2>1 DEF InScope
    <2>3. log[j].at > 0
        BY <1>10 DEF OpenAt
    <2>4. log[j].chunk = c /\ log[j].line = s
        BY <1>1, <1>2, <1>3, <1>4, <2>1, <2>2, <2>3, ChunksOnce
    <2>5. QED  BY <2>1, <2>4
<1>11. QED  BY <1>8, <1>9, <1>10

(***************************************************************************)
(* Requirements first                                                      *)
(***************************************************************************)
\* A requirement in an active scope of the plan does not hold.
Unmet ==
    \E r \in RequirementsOf(body) :
       /\ ScopeIsHostFact(body, r)
       /\ \A s \in OpenAt(body, r) : body[s].cond \in host
       /\ body[r].cond \notin host

\* If so, no chunk is gone through.
RequireInv == Unmet => exists = {} /\ log = <<>> /\ k = 1 /\ phase # "body"

\* Until the body nothing changes on the host, and it begins after the
\* requirements were checked.
LEMMA UntilBody ==
    ASSUME [Next]_vars, phase # "body"
    PROVE  /\ exists' = exists /\ log' = log /\ k' = k
           /\ phase' = "body" => checkRequirements
<1>1. CASE Begin
    BY <1>1 DEF Begin, ApplyChunks, ApplyPlan, Return, world
<1>2. CASE NextChunk
    BY <1>2 DEF NextChunk, StartChunk, StartChunkCanceled, ApplyReturns, Return, world
<1>3. CASE SortNext \/ SortCircular \/ SortEnd \/ checkRequirements \/ checkRequirementsFails
    BY <1>3 DEF SortNext, SortCircular, SortEnd, checkRequirements, checkRequirementsFails,
        Return, world
<1>4. CASE StopBeforeLine \/ WhenBegin \/ WhenBeginFails \/ WhenEndLine \/ WhenEndUnmatched
           \/ SkipInactive \/ GateIdle \/ ApplyOp \/ ApplyOpFails \/ EndChunk
    BY <1>4 DEF StopBeforeLine, WhenBegin, WhenBeginFails, WhenEndLine, WhenEndUnmatched,
        SkipInactive, GateIdle, ApplyOp, ApplyOpFails, EndChunk, InBody
<1>5. CASE Environment
    BY <1>5 DEF Environment, Cancel, CancelReachesChild, CancelStopsOp, ChildKilled, Return,
        world, InBody
<1>6. CASE UNCHANGED vars
    BY <1>6 DEF vars, world
<1>7. QED  BY <1>1, <1>2, <1>3, <1>4, <1>5, <1>6 DEF Next, Work

\* An unmet requirement of the plan, in whatever part it is declared, is
\* found unmet in the first chunk.
LEMMA UnmetInFirst ==
    ASSUME body \in Seq(Op), Inv, RunInv, WholeInv, RequireInv, Unmet, phase = "require"
    PROVE  \E i \in RequirementsOf(Sorted) :
             /\ \A s \in OpenAt(Sorted, i) : Holds(Sorted[s].cond)
             /\ ~Holds(Sorted[i].cond)
<1> DEFINE ops == OpsOf(Lines)
           n == Len(Lines)
<1>1. exists = {} /\ k = 1
    BY DEF RequireInv
<1>2. PICK r \in RequirementsOf(body) :
              /\ ScopeIsHostFact(body, r)
              /\ \A s \in OpenAt(body, r) : body[s].cond \in host
              /\ body[r].cond \notin host
    BY DEF Unmet
<1>3. chunks = ChunksOf(entry, body)
    BY DEF WholeInv
<1>4. PICK i : Asks(ops, i, body, r)
    BY <1>1, <1>2, <1>3, RequirementAhead DEF Lines
<1>5. Lines \in Seq(LineType) /\ Arranged(Lines, order)
    BY OrderArranged
<1>6. Sorted = InOrder(Lines, order)
    BY DEF Sorted, InOrder
<1>7. /\ n \in Nat /\ Len(ops) = n /\ DOMAIN order = 1..n
    BY <1>5, OpsType DEF Arranged
<1>8. /\ i \in 1..n /\ ops[i] = body[r] /\ body[r].kind = "begin" /\ body[r].require
      /\ \A s \in OpenAt(ops, i) : \E o \in OpenAt(body, r) : ops[s] = body[o]
    BY <1>2, <1>4, <1>7 DEF Asks, RequirementsOf
<1> HIDE DEF ops, n
<1>9. \A s \in 1..n : ops[s].kind = "begin" => Sorted[s] = ops[s]
    BY <1>5, <1>6, KindsKept DEF ops, n, IsControlKind
<1>10. Sorted[i] = body[r]
    BY <1>8, <1>9
<1>11. i \in RequirementsOf(Sorted)
    <2>1. DOMAIN Sorted = 1..n
        BY <1>7 DEF Sorted
    <2>2. QED  BY <1>8, <1>10, <2>1 DEF RequirementsOf
<1>12. OpenAt(Sorted, i) = OpenAt(ops, i)
    BY <1>5, <1>6, <1>8, SortedOpen DEF ops, n
<1>13. ASSUME NEW s \in OpenAt(ops, i) PROVE Sorted[s].cond \in host
    <2>1. s \in 1..n /\ ops[s].kind = "begin"
        BY <1>7, <1>8 DEF OpenAt
    <2>2. QED  BY <1>2, <1>8, <1>9, <2>1
<1>14. QED  BY <1>1, <1>2, <1>10, <1>11, <1>12, <1>13 DEF Holds

\* Every step keeps RequireInv.
LEMMA StepRequire ==
    ASSUME body \in Seq(Op), Inv, RunInv, WholeInv, RequireInv, [Next]_vars
    PROVE  RequireInv'
<1>1. Unmet' <=> Unmet
    BY InputsFixed DEF Unmet
<1> SUFFICES ASSUME Unmet PROVE exists' = {} /\ log' = <<>> /\ k' = 1 /\ phase' # "body"
    BY <1>1 DEF RequireInv
<1>2. exists = {} /\ log = <<>> /\ k = 1 /\ phase # "body"
    BY DEF RequireInv
<1>3. ASSUME phase' = "body" PROVE FALSE
    <2>1. checkRequirements
        BY <1>2, <1>3, UntilBody
    <2>2. phase = "require"
        BY <2>1 DEF checkRequirements
    <2>3. \E i \in RequirementsOf(Sorted) :
             /\ \A s \in OpenAt(Sorted, i) : Holds(Sorted[s].cond)
             /\ ~Holds(Sorted[i].cond)
        BY <2>2, UnmetInFirst
    <2>4. phase' = "done"
        BY <2>1, <2>3 DEF checkRequirements, Return
    <2>5. QED  BY <1>3, <2>4
<1>4. QED  BY <1>2, <1>3, UntilBody

(***************************************************************************)
(* What of the plan the split and the sort keep                            *)
(***************************************************************************)
\* The inductive invariant of the blocks, the lines and the requirements.
KeptInv == RunInv /\ ScopeInv /\ WholeInv /\ BlockInv /\ RequireInv

\* It holds in every state, with the plan it is about.
THEOREM KeptInvariance == Spec => [](body \in Bodies /\ Inv /\ KeptInv)
<1>1. Init => KeptInv
    <2> SUFFICES ASSUME Init PROVE KeptInv
        OBVIOUS
    <2>1. chunks = <<>> /\ log = <<>> /\ phase = "start" /\ outcome = "none"
          /\ exists = {} /\ k = 1 /\ DOMAIN log = {}
        BY DEF Init
    <2>2. RunInv
        BY <2>1 DEF RunInv, WatchedFirst
    <2>3. ScopeInv /\ WholeInv /\ BlockInv /\ RequireInv
        BY <2>1 DEF ScopeInv, WholeInv, BlockInv, RequireInv
    <2>4. QED  BY <2>2, <2>3 DEF KeptInv
<1>2. body \in Bodies /\ Inv /\ KeptInv /\ [Next]_vars => KeptInv'
    <2> SUFFICES ASSUME body \in Bodies, Inv, KeptInv, [Next]_vars PROVE KeptInv'
        OBVIOUS
    <2>1. body \in Seq(Op)
        BY BodiesAssumption
    <2>2. RunInv /\ ScopeInv /\ WholeInv /\ BlockInv /\ RequireInv
        BY DEF KeptInv
    <2>3. RunInv' /\ ScopeInv' /\ WholeInv' /\ BlockInv' /\ RequireInv'
        BY <2>1, <2>2, StepRun, StepScope, StepWhole, StepBlock, StepRequire
    <2>4. QED  BY <2>3 DEF KeptInv
<1>3. QED  BY <1>1, <1>2, Invariance, PTL DEF Spec

\* For every balanced plan: no chunk ends inside a when block, and no
\* when_end is met without its when_begin, although the split cuts the plan
\* and the sort of a chunk moves its lines.
THEOREM BlocksKept == Spec => []BlocksIntact
<1>1. KeptInv => BlocksIntact
    BY DEF KeptInv, BlockInv, BlocksIntact
<1>2. QED  BY <1>1, KeptInvariance, PTL

\* For every plan, no line of it is passed twice and a successful apply passed
\* all; what was skipped was in a block of the plan that was not entered.
THEOREM PlanWhole == Spec => []WholePlan
<1>1. ASSUME body \in Bodies, Inv, KeptInv PROVE WholePlan
    <2>1. body \in Seq(Op) /\ RunInv /\ ScopeInv /\ WholeInv /\ BlockInv
        BY <1>1, BodiesAssumption DEF KeptInv
    <2>2. /\ \A i, j \in DOMAIN log : log[i].at = log[j].at => i = j \/ log[i].at = 0
          /\ outcome = "ok" => \A p \in DOMAIN body : \E i \in DOMAIN log : log[i].at = p
        BY <1>1, <2>1, WholeOnce
    <2>3. ASSUME Balanced(body), NEW i \in DOMAIN log, log[i].at > 0, OpOf(log[i]).kind = "op"
          PROVE  log[i].how = "inactive" <=>
                   \E j \in 1..(i - 1) : /\ log[j].at \in OpenAt(body, log[i].at)
                                         /\ log[j].how = "off"
        BY <1>1, <2>1, <2>3, SkippedInPlan
    <2>4. QED  BY <2>2, <2>3 DEF WholePlan
<1>2. QED  BY <1>1, KeptInvariance, PTL

\* For every plan and host: a requirement that is not met, in whatever chunk it
\* is declared, stops the apply before it touches anything.
THEOREM RequirementsKept == Spec => []RequirementsProtect
<1>1. KeptInv => RequirementsProtect
    <2> SUFFICES ASSUME KeptInv, Unmet PROVE ~AppliedAnything
        BY DEF RequirementsProtect, Unmet
    <2>1. exists = {} /\ log = <<>>
        BY DEF KeptInv, RequireInv
    <2>2. QED  BY <2>1 DEF AppliedAnything
<1>2. QED  BY <1>1, KeptInvariance, PTL

\* The plan is applied as recorded: its privileges, its blocks, its lines and
\* its requirements.
THEOREM PlanAsRecorded == Spec => []PlanKept
<1>1. PrivilegeKept /\ BlocksIntact /\ WholePlan /\ RequirementsProtect => PlanKept
    BY DEF PlanKept, ScopeKept
<1>2. QED  BY <1>1, PrivilegesKept, BlocksKept, PlanWhole, RequirementsKept, PTL
=============================================================================
