--------------------------- MODULE ProcTreeProofs ----------------------------
(***************************************************************************)
(* Proofs about ProcTree: the timeout kill hits nothing outside the        *)
(* validator's tree and leaves nothing of it behind, and the verdict is    *)
(* the validator's own, for any number of pids, births, rounds and         *)
(* strangers, and whichever pids are reused.                               *)
(*                                                                         *)
(* An order on start times carries the argument: a parent is older than    *)
(* its children, so the generations below the leader are disjoint and end, *)
(* and each round of the search sees all that is attached to the leader.   *)
(* Steps are first reduced to what they do to the process table (Births,   *)
(* Deaths, Reaps, Sets); each part of TreeInv is then kept by a lemma of   *)
(* its own.                                                                *)
(***************************************************************************)
EXTENDS ProcTree, Integers, SequenceTheorems, WellFoundedInduction, TLAPS

(***************************************************************************)
(* Recursion on the naturals                                               *)
(***************************************************************************)
\* A nonempty set of naturals has a least member.
LEMMA LeastExists ==
    ASSUME NEW T, T \subseteq Nat, T # {}
    PROVE  \E x \in T : \A y \in T : x <= y
<1>1. PICK x \in T : \A y \in T : ~(<<y, x>> \in OpToRel(<, Nat))
  BY NatLessThanWellFounded, WFMin
<1>2. ASSUME NEW y \in T
      PROVE  x <= y
  <2>1. ~(y < x)
    <3> SUFFICES ASSUME y < x
                 PROVE  FALSE
      OBVIOUS
    <3>1. y \in Nat /\ x \in Nat
      OBVIOUS
    <3>2. <<y, x>> \in OpToRel(<, Nat)
      BY <3>1 DEF OpToRel
    <3> QED
      BY <1>1, <3>2
  <2> QED
    BY <2>1
<1> QED
  BY <1>2

\* Induction on the naturals for a set instead of a predicate.
LEMMA SetInduction ==
    ASSUME NEW S, 0 \in S, \A n \in Nat : n \in S => n + 1 \in S
    PROVE  Nat \subseteq S
<1> SUFFICES ASSUME NEW m \in Nat, m \notin S
             PROVE  FALSE
  OBVIOUS
<1> DEFINE T == {n \in Nat : n \notin S}
<1>1. PICK k \in T : \A n \in T : k <= n
  <2>1. T \subseteq Nat /\ T # {}
    OBVIOUS
  <2> HIDE DEF T
  <2> QED
    BY <2>1, LeastExists
<1>2. k \in Nat /\ k # 0 /\ k \notin S
  BY <1>1
<1>3. k - 1 \in Nat /\ (k - 1) + 1 = k /\ k - 1 < k
  BY <1>2
<1>4. k - 1 \in S
  BY <1>1, <1>3
<1> QED
  BY <1>2, <1>3, <1>4

\* A recursion on the naturals is satisfied by some function.
LEMMA RecursionExists ==
    ASSUME NEW X, NEW x0 \in X, NEW step \in [X -> X]
    PROVE  \E g \in [Nat -> X] : g = [n \in Nat |-> IF n = 0 THEN x0 ELSE step[g[n - 1]]]
<1> DEFINE Upto(n) == {f \in [0..n -> X] : f[0] = x0 /\ \A i \in 1..n : f[i] = step[f[i - 1]]}
           S == {n \in Nat : Upto(n) # {}}
<1>1. 0 \in S
  <2>1. [i \in 0..0 |-> x0] \in Upto(0)
    OBVIOUS
  <2> QED
    BY <2>1
<1>2. ASSUME NEW n \in Nat, n \in S
      PROVE  n + 1 \in S
  <2>1. PICK f \in [0..n -> X] : f[0] = x0 /\ \A i \in 1..n : f[i] = step[f[i - 1]]
    BY <1>2
  <2> DEFINE h == [i \in 0..(n + 1) |-> IF i = n + 1 THEN step[f[n]] ELSE f[i]]
  <2>2. h \in [0..(n + 1) -> X]
    BY <2>1
  <2>3. h[0] = x0
    BY <2>1
  <2>4. ASSUME NEW i \in 1..(n + 1)
        PROVE  h[i] = step[h[i - 1]]
    <3>1. CASE i = n + 1
      BY <3>1
    <3>2. CASE i # n + 1
      <4>1. i \in 1..n /\ i - 1 \in 0..n /\ i \in 0..n
        BY <3>2
      <4> QED
        BY <2>1, <3>2, <4>1
    <3> QED
      BY <3>1, <3>2
  <2>5. h \in Upto(n + 1)
    BY <2>2, <2>3, <2>4
  <2> QED
    BY <2>5
<1>3. \A n \in Nat : Upto(n) # {}
  <2> HIDE DEF Upto
  <2>1. Nat \subseteq S
    <3> HIDE DEF S
    <3> QED
      BY <1>1, <1>2, SetInduction
  <2> QED
    BY <2>1
<1> DEFINE pick(n) == CHOOSE f \in Upto(n) : TRUE
<1>4. ASSUME NEW n \in Nat
      PROVE  /\ pick(n) \in [0..n -> X] /\ pick(n)[0] = x0
             /\ \A i \in 1..n : pick(n)[i] = step[pick(n)[i - 1]]
  <2>1. pick(n) \in Upto(n)
    BY <1>3
  <2> QED
    BY <2>1
<1> HIDE DEF Upto, pick
\* The picked functions agree.
<1>5. ASSUME NEW m \in Nat, NEW n \in Nat
      PROVE  \A i \in Nat : i <= m /\ i <= n => pick(m)[i] = pick(n)[i]
  <2> DEFINE A == {i \in Nat : i <= m /\ i <= n => pick(m)[i] = pick(n)[i]}
  <2>1. 0 \in A
    BY <1>4
  <2>2. ASSUME NEW i \in Nat, i \in A
        PROVE  i + 1 \in A
    <3> SUFFICES ASSUME i + 1 <= m, i + 1 <= n
                 PROVE  pick(m)[i + 1] = pick(n)[i + 1]
      OBVIOUS
    <3>1. pick(m)[i] = pick(n)[i]
      BY <2>2
    <3>2. i + 1 \in 1..m /\ i + 1 \in 1..n /\ (i + 1) - 1 = i
      OBVIOUS
    <3> QED
      BY <1>4, <3>1, <3>2
  <2>3. Nat \subseteq A
    <3> HIDE DEF A
    <3> QED
      BY <2>1, <2>2, SetInduction
  <2> QED
    BY <2>3
<1> DEFINE g == [n \in Nat |-> pick(n)[n]]
<1>6. g \in [Nat -> X]
  BY <1>4
<1>7. ASSUME NEW n \in Nat
      PROVE  g[n] = IF n = 0 THEN x0 ELSE step[g[n - 1]]
  <2>1. CASE n = 0
    BY <1>4, <2>1
  <2>2. CASE n # 0
    <3>1. n - 1 \in Nat /\ n \in 1..n /\ n - 1 <= n /\ n - 1 <= n - 1
      BY <2>2
    <3>2. pick(n)[n] = step[pick(n)[n - 1]]
      BY <1>4, <3>1
    <3>3. pick(n)[n - 1] = pick(n - 1)[n - 1]
      BY <1>5, <3>1
    <3> QED
      BY <2>2, <3>1, <3>2, <3>3
  <2> QED
    BY <2>1, <2>2
<1> QED
  <2>1. g = [n \in Nat |-> IF n = 0 THEN x0 ELSE step[g[n - 1]]]
    <3> DEFINE G == g
    <3>1. \A n \in Nat : g[n] = IF n = 0 THEN x0 ELSE step[g[n - 1]]
      BY <1>7
    <3>2. DOMAIN g = Nat /\ g = [n \in Nat |-> g[n]]
      OBVIOUS
    <3> HIDE DEF g
    <3> QED
      BY <3>1, <3>2
  <2> HIDE DEF g
  <2> QED
    BY <1>6, <2>1

(***************************************************************************)
(* Generations of processes                                                *)
(***************************************************************************)
\* Generation(p) satisfies the equations that define it.
LEMMA Gens ==
    ASSUME NEW p \in Pids
    PROVE  /\ Generation(p)[0] = {p}
           /\ \A n \in Nat : Generation(p)[n + 1] = {q \in Pids : Exists(q) /\ proc[q].ppid \in Generation(p)[n]}
<1> DEFINE step == [A \in SUBSET Pids |-> {q \in Pids : Exists(q) /\ proc[q].ppid \in A}]
           body(g) == [n \in Nat |-> IF n = 0 THEN {p} ELSE {q \in Pids : Exists(q) /\ proc[q].ppid \in g[n - 1]}]
<1>1. step \in [SUBSET Pids -> SUBSET Pids] /\ {p} \in SUBSET Pids
  OBVIOUS
<1>2. PICK g \in [Nat -> SUBSET Pids] : g = [n \in Nat |-> IF n = 0 THEN {p} ELSE step[g[n - 1]]]
  <2> DEFINE X == SUBSET Pids
             x0 == {p}
  <2>1. step \in [X -> X] /\ x0 \in X
    OBVIOUS
  <2> HIDE DEF step, X, x0
  <2>2. \E g \in [Nat -> X] : g = [n \in Nat |-> IF n = 0 THEN x0 ELSE step[g[n - 1]]]
    BY <2>1, RecursionExists
  <2> QED
    BY <2>2 DEF X, x0
<1>3. g = body(g)
  <2>1. \A n \in Nat : n # 0 => step[g[n - 1]] = {q \in Pids : Exists(q) /\ proc[q].ppid \in g[n - 1]}
    OBVIOUS
  <2> QED
    BY <1>2, <2>1
<1>4. Generation(p) = CHOOSE h : h = body(h)
  BY DEF Generation
<1>5. Generation(p) = body(Generation(p))
  BY <1>3, <1>4
<1> QED
  BY <1>5

\* What is n generations below p exists, is n births younger at least, and is
\* of the kind of p, which is alive if n > 0.
LEMMA Generations ==
    ASSUME ConstantsOK, TypeInv, KernelInv, NEW p \in Pids
    PROVE  \A n \in Nat : \A q \in Generation(p)[n] :
              /\ q \in Pids
              /\ n > 0 => Exists(q) /\ n - 1 \in Nat /\ proc[q].ppid \in Generation(p)[n - 1]
              /\ proc[q].start >= proc[p].start + n
              /\ proc[q].tree = proc[p].tree
              /\ n > 0 => Live(p)
<1> DEFINE G(n) == Generation(p)[n]
           S == {n \in Nat : \A q \in G(n) :
                    /\ q \in Pids /\ proc[q].start >= proc[p].start + n
                    /\ proc[q].tree = proc[p].tree /\ (n > 0 => Live(p))}
<1>1. G(0) = {p} /\ \A n \in Nat : G(n + 1) = {q \in Pids : Exists(q) /\ proc[q].ppid \in G(n)}
  BY Gens
<1> HIDE DEF G
<1>0. \A q \in Pids : proc[q].start \in Nat
  BY DEF TypeInv, Process
<1>2. 0 \in S
  BY <1>0, <1>1
<1>3. ASSUME NEW n \in Nat, n \in S
      PROVE  n + 1 \in S
  <2> SUFFICES ASSUME NEW q \in G(n + 1)
               PROVE  /\ q \in Pids /\ proc[q].start >= proc[p].start + (n + 1)
                      /\ proc[q].tree = proc[p].tree /\ Live(p)
    OBVIOUS
  <2>1. q \in Pids /\ Exists(q) /\ proc[q].ppid \in G(n)
    BY <1>1
  <2> DEFINE r == proc[q].ppid
  <2>2. r \in Pids /\ proc[r].start >= proc[p].start + n /\ proc[r].tree = proc[p].tree
        /\ (n > 0 => Live(p))
    BY <1>3, <2>1
  <2>3. proc[r].start < proc[q].start /\ proc[r].tree = proc[q].tree /\ Live(r)
    BY <2>1, <2>2 DEF KernelInv, Entry
  <2>l. Live(p)
    <3>1. CASE n = 0
      <4>1. r = p
        BY <1>1, <2>1, <3>1
      <4> QED
        BY <2>3, <4>1
    <3>2. CASE n # 0
      BY <2>2, <3>2
    <3> QED
      BY <3>1, <3>2
  <2>4. proc[q].start \in Nat /\ proc[r].start \in Nat /\ proc[p].start \in Nat
    BY <1>0, <2>1, <2>2
  <2> HIDE DEF r
  <2>5. proc[q].start >= proc[p].start + (n + 1)
    BY <2>2, <2>3, <2>4
  <2> QED
    BY <2>1, <2>2, <2>3, <2>5, <2>l
<1>4. Nat \subseteq S
  <2> HIDE DEF S
  <2> QED
    BY <1>2, <1>3, SetInduction
<1> SUFFICES ASSUME NEW n \in Nat, NEW q \in G(n)
             PROVE  /\ q \in Pids
                    /\ n > 0 => Exists(q) /\ n - 1 \in Nat /\ proc[q].ppid \in G(n - 1)
                    /\ proc[q].start >= proc[p].start + n
                    /\ proc[q].tree = proc[p].tree
                    /\ n > 0 => Live(p)
  BY DEF G
<1>5. ASSUME n > 0
      PROVE  Exists(q) /\ n - 1 \in Nat /\ proc[q].ppid \in G(n - 1)
  <2>1. n - 1 \in Nat /\ (n - 1) + 1 = n
    BY <1>5
  <2> QED
    BY <1>1, <2>1
<1> QED
  BY <1>4, <1>5

\* A process is below another in one generation only.
LEMMA OneGeneration ==
    ASSUME ConstantsOK, TypeInv, KernelInv, NEW p \in Pids
    PROVE  \A n, m \in Nat : \A q : q \in Generation(p)[n] /\ q \in Generation(p)[m] => n = m
<1> DEFINE G(n) == Generation(p)[n]
           S == {n \in Nat : \A m \in Nat : \A q : q \in G(n) /\ q \in G(m) => n = m}
<1>0. \A q \in Pids : proc[q].start \in Nat
  BY DEF TypeInv, Process
<1>1. G(0) = {p}
  BY Gens
<1>2. \A n \in Nat : \A q \in G(n) :
        n > 0 => q \in Pids /\ n - 1 \in Nat /\ proc[q].ppid \in G(n - 1) /\ proc[q].start >= proc[p].start + n
  BY Generations
<1> HIDE DEF G
<1>3. \A m \in Nat : p \in G(m) => m = 0
  BY <1>0, <1>2
<1>4. 0 \in S
  BY <1>1, <1>3
<1>5. ASSUME NEW n \in Nat, n \in S
      PROVE  n + 1 \in S
  <2> SUFFICES ASSUME NEW m \in Nat, NEW q, q \in G(n + 1), q \in G(m)
               PROVE  n + 1 = m
    OBVIOUS
  <2>1. n + 1 > 0 /\ (n + 1) - 1 = n /\ n + 1 \in Nat
    OBVIOUS
  <2>2. q \in Pids /\ proc[q].ppid \in G(n) /\ proc[q].start >= proc[p].start + (n + 1)
    BY <1>2, <2>1
  <2>3. m # 0
    BY <1>0, <1>1, <2>2
  <2>4. m > 0 /\ m - 1 \in Nat
    BY <2>3
  <2>5. proc[q].ppid \in G(m - 1)
    BY <1>2, <2>4
  <2>6. n = m - 1
    BY <1>5, <2>2, <2>4, <2>5
  <2> QED
    BY <2>6
<1>6. Nat \subseteq S
  <2> HIDE DEF S
  <2> QED
    BY <1>4, <1>5, SetInduction
<1> QED
  BY <1>6 DEF G

\* What is below a process, and what hangs below that.
LEMMA BelowClosed ==
    ASSUME ConstantsOK, TypeInv, KernelInv, NEW p \in Pids, NEW q \in Pids, Exists(q),
           \/ proc[q].ppid = p
           \/ \E n \in 1..MaxBirths : proc[q].ppid \in Generation(p)[n]
    PROVE  \E n \in 1..MaxBirths : q \in Generation(p)[n]
<1>0. births \in Nat /\ MaxBirths \in Nat /\ births <= MaxBirths /\ proc[p].start \in Nat
      /\ proc[q].start \in Nat /\ proc[q].start <= births
  BY DEF TypeInv, Process, KernelInv, Entry, ConstantsOK
<1>1. PICK n \in Nat : proc[q].ppid \in Generation(p)[n]
  <2>1. CASE proc[q].ppid = p
    BY <2>1, Gens
  <2>2. CASE \E n \in 1..MaxBirths : proc[q].ppid \in Generation(p)[n]
    BY <2>2
  <2> QED
    BY <2>1, <2>2
<1>2. q \in Generation(p)[n + 1] /\ n + 1 \in Nat
  BY <1>1, Gens
<1>3. proc[q].start >= proc[p].start + (n + 1)
  BY <1>2, Generations
<1>4. n + 1 \in 1..MaxBirths
  BY <1>0, <1>3
<1> QED
  BY <1>2, <1>4

\* What a step does to the process table.

\* p is the same process after the step.
Keeps(p) ==
    /\ proc'[p].start = proc[p].start /\ proc'[p].tree = proc[p].tree
    /\ proc'[p].eperm = proc[p].eperm

\* The pid p is free after the step.
Freed(p) ==
    /\ proc'[p].state = "free" /\ proc'[p].ppid = InitProc /\ proc'[p].start = proc[p].start
    /\ ~proc'[p].tree /\ ~proc'[p].escaped /\ ~proc'[p].eperm

\* A process is born with the pid c.
Births(c, par) ==
    /\ ~Exists(c) /\ births < MaxBirths /\ births' = births + 1
    /\ proc'[c].state = "run" /\ proc'[c].ppid = par /\ proc'[c].start = births + 1
    /\ proc'[c].eperm => suid
    /\ par # InitProc => par \in Pids /\ Live(par) /\ proc'[c].tree = proc[par].tree
    /\ \A p \in Pids \ {c} : proc'[p] = proc[p]

\* The process p dies; own: and takes what is below it out of the tree.
Deaths(p, own) ==
    /\ Live(p) /\ births' = births
    /\ proc[p].ppid = InitProc => Freed(p)
    /\ proc[p].ppid # InitProc =>
          /\ proc'[p].state = "zombie" /\ proc'[p].ppid = proc[p].ppid /\ Keeps(p)
          /\ proc'[p].escaped = proc[p].escaped
    /\ \A q \in Pids \ {p} :
          /\ proc[q].ppid = p /\ proc[q].state = "zombie" => Freed(q)
          /\ proc[q].ppid = p /\ proc[q].state # "zombie" =>
                proc'[q].state = proc[q].state /\ proc'[q].ppid = InitProc /\ Keeps(q)
          /\ proc[q].ppid # p =>
                proc'[q].state = proc[q].state /\ proc'[q].ppid = proc[q].ppid /\ Keeps(q)
          /\ proc[q].escaped => proc'[q].escaped \/ Freed(q)
          /\ own /\ Exists(q) /\ (\/ proc[q].ppid = p
                                  \/ \E n \in 1..MaxBirths : q \in Generation(p)[n]) =>
                proc'[q].escaped \/ Freed(q)
          /\ ~own \/ proc[q].ppid \notin Pids => ~proc'[q].escaped \/ proc[q].escaped
          /\ proc'[q].escaped => \/ proc[q].escaped \/ proc[q].ppid = p
                                 \/ \E n \in 1..MaxBirths : q \in Generation(p)[n]

\* The zombie p is reaped.
Reaps(p) ==
    /\ proc[p].state = "zombie" /\ Freed(p) /\ births' = births
    /\ \A q \in Pids \ {p} : proc'[q] = proc[q]

\* The process p is stopped or goes on.
Sets(p, s) ==
    /\ Live(p) /\ proc'[p].state = s /\ proc'[p].ppid = proc[p].ppid /\ Keeps(p)
    /\ proc'[p].escaped = proc[p].escaped /\ births' = births
    /\ s = "stop" => ~proc[p].eperm
    /\ \A q \in Pids \ {p} : proc'[q] = proc[q]

\* Born(c) is a birth.
LEMMA BornEffect ==
    ASSUME ConstantsOK, TypeInv, NEW c \in Pids, ~Exists(c),
           NEW par \in Pids \cup {InitProc}, NEW t \in BOOLEAN, NEW gone \in BOOLEAN,
           Born(c, par, t, gone), births < MaxBirths, births' = births + 1,
           par # InitProc => par \in Pids /\ Live(par) /\ t = proc[par].tree
    PROVE  /\ proc' \in [Pids -> Process] /\ Births(c, par)
           /\ proc'[c].tree = t /\ proc'[c].escaped = gone
<1>1. PICK e \in {FALSE, suid} :
        proc' = [proc EXCEPT ![c] = [state |-> "run", ppid |-> par, start |-> births + 1,
                                     tree |-> t, escaped |-> gone, eperm |-> e]]
  BY DEF Born
<1>e. e \in BOOLEAN /\ (e => suid)
  <2>1. suid \in BOOLEAN
    BY DEF TypeInv
  <2>2. CASE e = FALSE
    BY <2>2
  <2>3. CASE e = suid
    BY <2>1, <2>3
  <2> QED
    BY <2>2, <2>3
<1> DEFINE new == [state |-> "run", ppid |-> par, start |-> births + 1,
                   tree |-> t, escaped |-> gone, eperm |-> e]
<1>2. /\ new \in Process /\ new.state = "run" /\ new.ppid = par /\ new.start = births + 1
      /\ new.tree = t /\ new.escaped = gone /\ new.eperm = e
  BY <1>e DEF TypeInv, Process
<1>3. new.eperm => suid
  BY <1>2, <1>e
<1> HIDE DEF new
<1>4. proc' = [proc EXCEPT ![c] = new] /\ proc \in [Pids -> Process]
  BY <1>1 DEF TypeInv, new
<1>5. proc'[c] = new /\ \A p \in Pids \ {c} : proc'[p] = proc[p]
  BY <1>4
<1>6. proc' \in [Pids -> Process]
  BY <1>2, <1>4
<1>7. Births(c, par)
  <2>1. par # InitProc => par \in Pids /\ Live(par) /\ proc'[c].tree = proc[par].tree
    BY <1>2, <1>5
  <2> QED
    BY <1>2, <1>3, <1>5, <2>1 DEF Births
<1> QED
  BY <1>2, <1>5, <1>6, <1>7

\* The table entry of a free pid.
LEMMA FreeEntry ==
    ASSUME TypeInv, NEW p \in Pids
    PROVE  LET f == [Free EXCEPT !.start = proc[p].start]
           IN /\ f \in Process
              /\ f.state = "free" /\ f.ppid = InitProc /\ f.start = proc[p].start
              /\ ~f.tree /\ ~f.escaped /\ ~f.eperm
<1>1. proc[p].start \in Nat
  BY DEF TypeInv, Process
<1> DEFINE no == FALSE
<1>2. Free = [state |-> "free", ppid |-> InitProc, start |-> 0, tree |-> no, escaped |-> no,
              eperm |-> no]
  BY DEF Free
<1>3. no \in BOOLEAN /\ ~no
  OBVIOUS
<1> HIDE DEF no
<1>4. [Free EXCEPT !.start = proc[p].start] =
        [state |-> "free", ppid |-> InitProc, start |-> proc[p].start, tree |-> no,
         escaped |-> no, eperm |-> no]
  BY <1>2
<1> QED
  BY <1>1, <1>3, <1>4 DEF Process

\* The change of the table by a reap.
LEMMA ReapEffect ==
    ASSUME TypeInv, NEW p \in Pids, proc[p].state = "zombie", births' = births,
           proc' = [proc EXCEPT ![p] = [Free EXCEPT !.start = proc[p].start]]
    PROVE  proc' \in [Pids -> Process] /\ Reaps(p)
<1> DEFINE f == [Free EXCEPT !.start = proc[p].start]
<1>1. /\ f \in Process /\ f.state = "free" /\ f.ppid = InitProc /\ f.start = proc[p].start
      /\ ~f.tree /\ ~f.escaped /\ ~f.eperm
  BY FreeEntry
<1> HIDE DEF f
<1>2. proc' = [proc EXCEPT ![p] = f] /\ proc \in [Pids -> Process]
  BY DEF f, TypeInv
<1>3. proc'[p] = f /\ \A q \in Pids \ {p} : proc'[q] = proc[q]
  BY <1>2
<1> QED
  BY <1>1, <1>2, <1>3 DEF Reaps, Freed

\* The change of the table by a signal that stops or resumes.
LEMMA SetEffect ==
    ASSUME TypeInv, NEW p \in Pids, NEW s \in {"run", "stop"}, Live(p), births' = births,
           s = "stop" => ~proc[p].eperm,
           proc' = [proc EXCEPT ![p].state = s]
    PROVE  proc' \in [Pids -> Process] /\ Sets(p, s)
<1> DEFINE f == [proc[p] EXCEPT !.state = s]
<1>1. /\ f \in Process /\ f.state = s /\ f.ppid = proc[p].ppid /\ f.start = proc[p].start
      /\ f.tree = proc[p].tree /\ f.escaped = proc[p].escaped /\ f.eperm = proc[p].eperm
  BY DEF TypeInv, Process
<1>2. proc' = [proc EXCEPT ![p] = f] /\ proc \in [Pids -> Process]
  BY DEF TypeInv
<1> HIDE DEF f
<1>3. proc'[p] = f /\ \A q \in Pids \ {p} : proc'[q] = proc[q]
  BY <1>2
<1> QED
  BY <1>1, <1>2, <1>3 DEF Sets, Keeps

\* A signal that stops: what runs stops, the rest stays.
LEMMA StopEffect ==
    ASSUME TypeInv, NEW p \in Pids, Signallable(p), births' = births, proc' = Stopped(p)
    PROVE  /\ proc' \in [Pids -> Process]
           /\ proc' = proc \/ Sets(p, "stop")
           /\ proc'[p].state # "run"
<1> proc \in [Pids -> Process] /\ proc[p] \in Process
  BY DEF TypeInv
<1>1. CASE proc[p].state = "run"
  <2>1. proc' = [proc EXCEPT ![p].state = "stop"]
    BY <1>1 DEF Stopped
  <2> QED
    BY <1>1, <2>1, SetEffect DEF Live, Sets, Signallable
<1>2. CASE proc[p].state # "run"
  <2>1. [proc[p] EXCEPT !.state = IF @ = "run" THEN "stop" ELSE @] = proc[p]
    BY <1>2 DEF Process
  <2>2. proc' = [proc EXCEPT ![p] = [proc[p] EXCEPT !.state = IF @ = "run" THEN "stop" ELSE @]]
    BY DEF Stopped
  <2>3. proc' = proc
    BY <2>1, <2>2
  <2> QED
    BY <1>2, <2>3
<1> QED
  BY <1>1, <1>2

\* Dies(p, own) is a death.
LEMMA DieEffect ==
    ASSUME ConstantsOK, TypeInv, KernelInv, NEW p \in Pids, NEW own \in BOOLEAN,
           Live(p), births' = births, proc' = Dies(p, own)
    PROVE  proc' \in [Pids -> Process] /\ Deaths(p, own)
<1> DEFINE below == UNION {Generation(p)[n] : n \in 1..MaxBirths}
<1>0. proc \in [Pids -> Process] /\ \A q \in Pids : proc[q] \in Process
  BY DEF TypeInv
<1>1. p \notin below
  <2> SUFFICES ASSUME NEW n \in 1..MaxBirths, p \in Generation(p)[n]
               PROVE  FALSE
    OBVIOUS
  <2>1. n \in Nat /\ n > 0 /\ proc[p].start \in Nat
    BY <1>0 DEF ConstantsOK, Process
  <2> QED
    BY <2>1, Generations
<1>2. \A q \in below : proc[q].ppid \in Pids
  <2> SUFFICES ASSUME NEW n \in 1..MaxBirths, NEW q \in Generation(p)[n]
               PROVE  proc[q].ppid \in Pids
    OBVIOUS
  <2>1. n \in Nat /\ n > 0
    BY DEF ConstantsOK
  <2>2. n - 1 \in Nat /\ proc[q].ppid \in Generation(p)[n - 1]
    BY <2>1, Generations
  <2> QED
    BY <2>2, Generations
<1> DEFINE dead(q) == IF proc[p].ppid = InitProc THEN [Free EXCEPT !.start = proc[p].start]
                      ELSE [proc[p] EXCEPT !.state = "zombie"]
           child(q) == IF proc[q].state = "zombie" THEN [Free EXCEPT !.start = proc[q].start]
                       ELSE [proc[q] EXCEPT !.ppid = InitProc, !.escaped = @ \/ own]
           gone(q) == [proc[q] EXCEPT !.escaped = @ \/ own]
<1>3. \A q \in Pids : proc'[q] =
        CASE q = p -> dead(q)
          [] q # p /\ Exists(q) /\ proc[q].ppid = p -> child(q)
          [] q # p /\ q \in below /\ proc[q].ppid # p -> gone(q)
          [] OTHER -> proc[q]
  BY DEF Dies
<1> HIDE DEF below
<1>4. DOMAIN proc' = Pids /\ proc' = [q \in Pids |-> proc'[q]]
  BY DEF Dies
<1>5. /\ proc'[p] \in Process
      /\ proc[p].ppid = InitProc => Freed(p)
      /\ proc[p].ppid # InitProc =>
            /\ proc'[p].state = "zombie" /\ proc'[p].ppid = proc[p].ppid /\ Keeps(p)
            /\ proc'[p].escaped = proc[p].escaped
  <2>1. proc'[p] = dead(p)
    BY <1>3
  <2>2. CASE proc[p].ppid = InitProc
    <3>1. proc'[p] = [Free EXCEPT !.start = proc[p].start]
      BY <2>1, <2>2
    <3> QED
      BY <2>2, <3>1, FreeEntry DEF Freed
  <2>3. CASE proc[p].ppid # InitProc
    <3>1. proc'[p] = [proc[p] EXCEPT !.state = "zombie"]
      BY <2>1, <2>3
    <3> QED
      BY <1>0, <2>3, <3>1 DEF Process, Keeps
  <2> QED
    BY <2>2, <2>3
<1>6. ASSUME NEW q \in Pids \ {p}
      PROVE  /\ proc'[q] \in Process
             /\ proc[q].ppid = p /\ proc[q].state = "zombie" => Freed(q)
             /\ proc[q].ppid = p /\ proc[q].state # "zombie" =>
                   proc'[q].state = proc[q].state /\ proc'[q].ppid = InitProc /\ Keeps(q)
             /\ proc[q].ppid # p =>
                   proc'[q].state = proc[q].state /\ proc'[q].ppid = proc[q].ppid /\ Keeps(q)
             /\ proc[q].escaped => proc'[q].escaped \/ Freed(q)
             /\ own /\ (proc[q].ppid = p \/ q \in below) => proc'[q].escaped \/ Freed(q)
             /\ ~own \/ proc[q].ppid \notin Pids => ~proc'[q].escaped \/ proc[q].escaped
             /\ proc'[q].escaped => proc[q].escaped \/ proc[q].ppid = p \/ q \in below
  <2>0. proc[q] \in Process /\ (proc[q].ppid = p => Exists(q)) /\ p # InitProc
    BY <1>0 DEF KernelInv, Entry, ConstantsOK
  <2>1. CASE proc[q].ppid = p /\ proc[q].state = "zombie"
    <3>1. proc'[q] = [Free EXCEPT !.start = proc[q].start]
      BY <1>3, <2>0, <2>1
    <3>2. Freed(q) /\ proc'[q] \in Process
      BY <3>1, FreeEntry DEF Freed
    <3> QED
      BY <2>1, <3>2 DEF Freed
  <2>2. CASE proc[q].ppid = p /\ proc[q].state # "zombie"
    <3>1. proc'[q] = [proc[q] EXCEPT !.ppid = InitProc, !.escaped = @ \/ own]
      BY <1>3, <2>0, <2>2
    <3>2. /\ proc'[q].state = proc[q].state /\ proc'[q].ppid = InitProc
          /\ proc'[q].start = proc[q].start /\ proc'[q].tree = proc[q].tree
          /\ proc'[q].eperm = proc[q].eperm /\ proc'[q].escaped = (proc[q].escaped \/ own)
      BY <2>0, <3>1 DEF Process
    <3>3. proc'[q] \in Process
      BY <2>0, <3>1 DEF Process
    <3> QED
      BY <2>2, <3>2, <3>3 DEF Keeps
  <2>3. CASE proc[q].ppid # p /\ q \in below
    <3>1. proc'[q] = [proc[q] EXCEPT !.escaped = @ \/ own]
      BY <1>3, <2>0, <2>3
    <3>2. /\ proc'[q].state = proc[q].state /\ proc'[q].ppid = proc[q].ppid
          /\ proc'[q].start = proc[q].start /\ proc'[q].tree = proc[q].tree
          /\ proc'[q].eperm = proc[q].eperm /\ proc'[q].escaped = (proc[q].escaped \/ own)
      BY <2>0, <3>1 DEF Process
    <3>3. proc'[q] \in Process
      BY <2>0, <3>1 DEF Process
    <3> QED
      BY <1>2, <2>3, <3>2, <3>3 DEF Keeps
  <2>4. CASE proc[q].ppid # p /\ q \notin below
    <3>1. proc'[q] = proc[q]
      BY <1>3, <2>0, <2>4
    <3> QED
      BY <2>0, <2>4, <3>1 DEF Keeps
  <2> QED
    BY <2>1, <2>2, <2>3, <2>4
<1>7. proc' \in [Pids -> Process]
  BY <1>4, <1>5, <1>6
<1>8. \A q : q \in below <=> \E n \in 1..MaxBirths : q \in Generation(p)[n]
  BY DEF below
<1> QED
  BY <1>5, <1>6, <1>7, <1>8 DEF Deaths

(***************************************************************************)
(* The table stays in order                                                *)
(***************************************************************************)
\* The types of the fields of an entry.
LEMMA FieldTypes ==
    ASSUME TypeInv, NEW p \in Pids
    PROVE  /\ proc[p].state \in {"free", "run", "stop", "zombie"}
           /\ proc[p].ppid \in Pids \cup {InitProc, Gonf} /\ proc[p].start \in Nat
           /\ proc[p].tree \in BOOLEAN /\ proc[p].escaped \in BOOLEAN /\ proc[p].eperm \in BOOLEAN
BY DEF TypeInv, Process

\* The same after a step.
LEMMA NewFieldTypes ==
    ASSUME proc' \in [Pids -> Process], NEW p \in Pids
    PROVE  /\ proc'[p].state \in {"free", "run", "stop", "zombie"}
           /\ proc'[p].ppid \in Pids \cup {InitProc, Gonf} /\ proc'[p].start \in Nat
           /\ proc'[p].tree \in BOOLEAN /\ proc'[p].escaped \in BOOLEAN /\ proc'[p].eperm \in BOOLEAN
BY DEF Process

\* A birth keeps the table in order.
LEMMA BirthKeepsTable ==
    ASSUME ConstantsOK, TypeInv, KernelInv, proc' \in [Pids -> Process], suid' = suid,
           NEW c \in Pids, NEW par \in Pids \cup {InitProc}, Births(c, par)
    PROVE  (\A p \in Pids : Entry(p))' /\ births' \in 1..MaxBirths
<1>1. births \in 1..MaxBirths /\ births < MaxBirths /\ births' = births + 1 /\ MaxBirths \in Nat
  BY DEF KernelInv, Births, ConstantsOK
<1>2. ASSUME NEW p \in Pids
      PROVE  Entry(p)'
  <2>0. Entry(p) /\ InitProc \notin Pids /\ Gonf \notin Pids /\ InitProc # Gonf
    BY DEF KernelInv, ConstantsOK, InitProc, Gonf
  <2>1. CASE p = c
    <3>1. /\ proc'[p].state = "run" /\ proc'[p].ppid = par /\ proc'[p].start = births + 1
          /\ proc'[p].eperm => suid
      BY <2>1 DEF Births
    <3>2. par # InitProc =>
             /\ Live(par) /\ par # c /\ proc'[par] = proc[par] /\ proc'[p].tree = proc'[par].tree
             /\ proc[par].start < births + 1
      <4> SUFFICES ASSUME par # InitProc
                   PROVE  /\ Live(par) /\ par # c /\ proc'[par] = proc[par]
                          /\ proc'[p].tree = proc'[par].tree /\ proc[par].start < births + 1
        OBVIOUS
      <4>1. par \in Pids /\ Live(par) /\ proc'[c].tree = proc[par].tree /\ ~Exists(c)
        BY DEF Births
      <4>2. par # c
        BY <4>1 DEF Live, Exists
      <4>3. proc'[par] = proc[par]
        BY <4>1, <4>2 DEF Births
      <4>4. proc[par].start \in Nat /\ proc[par].start <= births
        BY <4>1, FieldTypes DEF KernelInv, Entry
      <4> QED
        BY <1>1, <2>1, <4>1, <4>2, <4>3, <4>4
    <3> QED
      BY <1>1, <2>0, <3>1, <3>2 DEF Entry, Exists, Live
  <2>2. CASE p # c
    <3>1. proc'[p] = proc[p] /\ proc[p].start \in Nat
      BY <2>2, FieldTypes DEF Births
    <3>2. proc[p].ppid \in Pids => proc[p].ppid # c /\ proc'[proc[p].ppid] = proc[proc[p].ppid]
      BY <2>0 DEF Entry, Births, Live, Exists
    <3> QED
      BY <1>1, <2>0, <3>1, <3>2 DEF Entry, Exists, Live
  <2> QED
    BY <2>1, <2>2
<1> QED
  BY <1>1, <1>2

\* So does a death.
LEMMA DeathKeepsTable ==
    ASSUME ConstantsOK, TypeInv, KernelInv, proc' \in [Pids -> Process], suid' = suid,
           NEW p \in Pids, NEW own \in BOOLEAN, Deaths(p, own)
    PROVE  (\A q \in Pids : Entry(q))' /\ births' \in 1..MaxBirths
<1>1. births \in 1..MaxBirths /\ births' = births
  BY DEF KernelInv, Deaths
<1>2. ASSUME NEW q \in Pids
      PROVE  Entry(q)'
  <2>0. Entry(q) /\ InitProc \notin Pids /\ Gonf \notin Pids /\ InitProc # Gonf
    BY DEF KernelInv, ConstantsOK, InitProc, Gonf
  <2>1. CASE Freed(q)
    BY <1>1, <2>0, <2>1 DEF Entry, Freed, Exists, Live
  <2>2. ASSUME proc[q].ppid \in Pids, proc[q].ppid # p
        PROVE  LET r == proc[q].ppid
               IN proc'[r].state \in {"run", "stop"} /\ proc'[r].start = proc[r].start
                  /\ proc'[r].tree = proc[r].tree
    <3> DEFINE r == proc[q].ppid
    <3>1. r \in Pids /\ r # p /\ Live(r)
      BY <2>0, <2>2 DEF Entry
    <3> HIDE DEF r
    <3>2. proc'[r].state = proc[r].state /\ Keeps(r)
      BY <3>1 DEF Deaths, Live
    <3>3. proc'[r].state \in {"run", "stop"} /\ proc'[r].start = proc[r].start
          /\ proc'[r].tree = proc[r].tree
      BY <3>1, <3>2 DEF Live, Keeps
    <3> QED
      BY <3>3 DEF r
  <2>3. CASE q = p /\ ~Freed(q)
    <3>1. /\ proc'[q].state = "zombie" /\ proc'[q].ppid = proc[q].ppid /\ Keeps(q)
          /\ proc[q].ppid # InitProc /\ Live(q)
      BY <2>3 DEF Deaths
    <3>2. proc[q].ppid # p
      <4>1. proc[q].start \in Nat
        BY FieldTypes
      <4> QED
        BY <2>0, <2>3, <4>1 DEF Entry
    <3> QED
      BY <1>1, <2>0, <2>2, <3>1, <3>2 DEF Entry, Keeps, Exists, Live
  <2>4. CASE q # p /\ proc[q].ppid = p /\ ~Freed(q)
    <3>1. /\ proc[q].state # "zombie" /\ proc'[q].state = proc[q].state
          /\ proc'[q].ppid = InitProc /\ Keeps(q) /\ Exists(q)
      BY <2>0, <2>4 DEF Deaths, Entry
    <3> QED
      BY <1>1, <2>0, <2>4, <3>1 DEF Entry, Keeps, Exists, Live
  <2>5. CASE q # p /\ proc[q].ppid # p
    <3>1. proc'[q].state = proc[q].state /\ proc'[q].ppid = proc[q].ppid /\ Keeps(q)
      BY <2>5 DEF Deaths
    <3> QED
      BY <1>1, <2>0, <2>2, <2>5, <3>1 DEF Entry, Keeps, Exists, Live
  <2> QED
    BY <2>1, <2>3, <2>4, <2>5
<1> QED
  BY <1>1, <1>2

\* So does a reap.
LEMMA ReapKeepsTable ==
    ASSUME ConstantsOK, TypeInv, KernelInv, proc' \in [Pids -> Process], suid' = suid,
           NEW p \in Pids, Reaps(p)
    PROVE  (\A q \in Pids : Entry(q))' /\ births' \in 1..MaxBirths
<1>1. births \in 1..MaxBirths /\ births' = births
  BY DEF KernelInv, Reaps
<1>2. ASSUME NEW q \in Pids
      PROVE  Entry(q)'
  <2>0. Entry(q) /\ InitProc \notin Pids /\ Gonf \notin Pids /\ InitProc # Gonf
    BY DEF KernelInv, ConstantsOK, InitProc, Gonf
  <2>1. CASE q = p
    BY <1>1, <2>0, <2>1 DEF Entry, Freed, Exists, Live, Reaps
  <2>2. CASE q # p
    <3>1. proc'[q] = proc[q]
      BY <2>2 DEF Reaps
    <3>2. proc[q].ppid \in Pids => proc[q].ppid # p /\ proc'[proc[q].ppid] = proc[proc[q].ppid]
      BY <2>0 DEF Entry, Reaps, Live
    <3> QED
      BY <1>1, <2>0, <3>1, <3>2 DEF Entry, Exists, Live
  <2> QED
    BY <2>1, <2>2
<1> QED
  BY <1>1, <1>2

\* So does a stop or a resume.
LEMMA SetKeepsTable ==
    ASSUME ConstantsOK, TypeInv, KernelInv, proc' \in [Pids -> Process], suid' = suid,
           NEW p \in Pids, NEW s \in {"run", "stop"}, Sets(p, s)
    PROVE  (\A q \in Pids : Entry(q))' /\ births' \in 1..MaxBirths
<1>1. births \in 1..MaxBirths /\ births' = births
  BY DEF KernelInv, Sets
<1>2. ASSUME NEW q \in Pids
      PROVE  Entry(q)'
  <2>0. Entry(q) /\ InitProc \notin Pids /\ Gonf \notin Pids /\ InitProc # Gonf
    BY DEF KernelInv, ConstantsOK, InitProc, Gonf
  <2>1. \A r \in Pids : /\ proc'[r].ppid = proc[r].ppid /\ proc'[r].start = proc[r].start
                        /\ proc'[r].tree = proc[r].tree /\ proc'[r].eperm = proc[r].eperm
    BY DEF Sets, Keeps
  <2>2. \A r \in Pids : Live(r) => proc'[r].state \in {"run", "stop"}
    BY DEF Sets, Live
  <2>3. /\ q # p => proc'[q].state = proc[q].state
        /\ q = p => Live(q) /\ proc'[q].state \in {"run", "stop"}
                    /\ (proc'[q].state = "stop" => ~proc[q].eperm)
    BY DEF Sets
  <2> QED
    BY <1>1, <2>0, <2>1, <2>2, <2>3 DEF Entry, Exists, Live
<1> QED
  BY <1>1, <1>2

\* The processes of the leader's program: the first process of the table.
LEMMA LeaderStays ==
    ASSUME ConstantsOK, TypeInv, KernelInv, exit = "none",
           \/ \E c \in Pids : \E par \in Pids \cup {InitProc} : Births(c, par)
           \/ \E p \in Pids \ {Leader} : \E own \in BOOLEAN : Deaths(p, own)
           \/ \E p \in Pids : Reaps(p)
           \/ \E p \in Pids : \E s \in {"run", "stop"} : Sets(p, s)
           \/ proc' = proc
    PROVE  proc'[Leader].state \in {"run", "stop"} /\ proc'[Leader].start = 1
           /\ ~proc'[Leader].escaped
<1>1. Leader \in Pids /\ Live(Leader) /\ proc[Leader].start = 1 /\ ~proc[Leader].escaped
      /\ proc[Leader].ppid = Gonf /\ Gonf \notin Pids
  BY DEF KernelInv, Entry, ConstantsOK, Live, Exists
<1>2. CASE \E c \in Pids : \E par \in Pids \cup {InitProc} : Births(c, par)
  BY <1>1, <1>2 DEF Births, Live, Exists
<1>3. CASE \E p \in Pids \ {Leader} : \E own \in BOOLEAN : Deaths(p, own)
  BY <1>1, <1>3 DEF Deaths, Live, Keeps
<1>4. CASE \E p \in Pids : Reaps(p)
  BY <1>1, <1>4 DEF Reaps, Live
<1>5. CASE \E p \in Pids : \E s \in {"run", "stop"} : Sets(p, s)
  BY <1>1, <1>5 DEF Sets, Live, Keeps
<1>6. CASE proc' = proc
  BY <1>1, <1>6 DEF Live
<1> QED
  BY <1>2, <1>3, <1>4, <1>5, <1>6

(***************************************************************************)
(* What the actions do                                                     *)
(***************************************************************************)
\* What the search finds: processes below the leader, each once, with the
\* parent of each found one generation above.
LEMMA Found ==
    ASSUME ConstantsOK, TypeInv, KernelInv, NEW d \in descendants
    PROVE  \E p \in Pids : \E n \in 1..MaxBirths :
              /\ p \in Generation(Leader)[n] /\ Exists(p) /\ p # Leader
              /\ d.id = Id(p) /\ d.id.pid = p /\ d.id.start = proc[p].start /\ d.depth = n
              /\ d \in [id : Ids, depth : Nat]
              /\ proc[p].tree = proc[Leader].tree /\ Live(Leader)
              /\ proc[p].ppid \in Pids
              /\ proc[p].ppid # Leader =>
                    \E e \in descendants : e.id = Id(proc[p].ppid) /\ e.depth < n
<1>1. PICK n \in 1..MaxBirths : \E p \in Generation(Leader)[n] : d = [id |-> Id(p), depth |-> n]
  BY DEF descendants
<1>2. PICK p \in Generation(Leader)[n] : d = [id |-> Id(p), depth |-> n]
  BY <1>1
<1>3. n \in Nat /\ n > 0 /\ Leader \in Pids
  BY DEF ConstantsOK
<1>4. /\ p \in Pids /\ Exists(p) /\ n - 1 \in Nat /\ proc[p].ppid \in Generation(Leader)[n - 1]
      /\ proc[p].start >= proc[Leader].start + n /\ proc[p].tree = proc[Leader].tree
      /\ Live(Leader)
  BY <1>3, Generations
<1>5. proc[p].start \in Nat /\ proc[Leader].start \in Nat
  BY <1>3, <1>4, FieldTypes
<1>6. p # Leader
  BY <1>3, <1>4, <1>5
<1>7. /\ d.id = Id(p) /\ d.id.pid = p /\ d.id.start = proc[p].start /\ d.depth = n
      /\ d \in [id : Ids, depth : Nat]
  BY <1>2, <1>3, <1>4, <1>5 DEF Id, Ids
<1>8. proc[p].ppid \in Pids
  BY <1>3, <1>4, Generations
<1>9. ASSUME proc[p].ppid # Leader
      PROVE  \E e \in descendants : e.id = Id(proc[p].ppid) /\ e.depth < n
  <2> DEFINE r == proc[p].ppid
             e == [id |-> Id(r), depth |-> n - 1]
  <2>1. n - 1 # 0
    BY <1>3, <1>4, <1>9, Gens
  <2>2. n - 1 \in 1..MaxBirths /\ n - 1 < n
    BY <1>3, <1>4, <2>1 DEF ConstantsOK
  <2>3. e \in descendants
    BY <1>4, <2>2 DEF descendants
  <2>4. e.id = Id(r) /\ e.depth < n
    BY <2>2
  <2> QED
    BY <2>3, <2>4
<1> QED
  BY <1>4, <1>6, <1>7, <1>8, <1>9

\* The search finds a pid once.
LEMMA FoundOnce ==
    ASSUME ConstantsOK, TypeInv, KernelInv, NEW d \in descendants, NEW e \in descendants,
           d.id.pid = e.id.pid
    PROVE  d = e
<1>1. PICK n \in 1..MaxBirths : \E p \in Generation(Leader)[n] : d = [id |-> Id(p), depth |-> n]
  BY DEF descendants
<1>2. PICK p \in Generation(Leader)[n] : d = [id |-> Id(p), depth |-> n]
  BY <1>1
<1>3. PICK m \in 1..MaxBirths : \E q \in Generation(Leader)[m] : e = [id |-> Id(q), depth |-> m]
  BY DEF descendants
<1>4. PICK q \in Generation(Leader)[m] : e = [id |-> Id(q), depth |-> m]
  BY <1>3
<1>5. p = q
  BY <1>2, <1>4 DEF Id
<1>6. n \in Nat /\ m \in Nat /\ Leader \in Pids
  BY DEF ConstantsOK
<1>7. n = m
  BY <1>5, <1>6, OneGeneration
<1> QED
  BY <1>2, <1>4, <1>5, <1>7

\* What each action does to the process table.

\* A fork is a birth in the tree.
LEMMA ForkEffect ==
    ASSUME ConstantsOK, TypeInv, NEW p \in Pids, Fork(p)
    PROVE  /\ proc' \in [Pids -> Process]
           /\ \E c \in Pids : Births(c, p) /\ proc'[c].tree /\ proc'[c].escaped = proc[p].escaped
           /\ proc[p].state = "run" /\ proc[p].tree
<1> DEFINE t == TRUE
<1>0. t \in BOOLEAN /\ t
  OBVIOUS
<1>1. PICK c \in Pids : Vacant(c) /\ Born(c, p, t, proc[p].escaped)
  BY DEF Fork
<1> HIDE DEF t
<1>2. /\ proc[p].state = "run" /\ proc[p].tree /\ births < MaxBirths /\ births' = births + 1
      /\ ~Exists(c) /\ Live(p)
  BY <1>1 DEF Fork, Vacant, Live
<1>3. proc[p].escaped \in BOOLEAN /\ t = proc[p].tree
  BY <1>0, <1>2, FieldTypes
<1>4. /\ proc' \in [Pids -> Process] /\ Births(c, p)
      /\ proc'[c].tree = t /\ proc'[c].escaped = proc[p].escaped
  BY <1>0, <1>1, <1>2, <1>3, BornEffect
<1> QED
  BY <1>0, <1>2, <1>4

\* A stranger is born outside it.
LEMMA StrangerEffect ==
    ASSUME ConstantsOK, TypeInv, Stranger
    PROVE  /\ proc' \in [Pids -> Process]
           /\ \E c \in Pids : \E par \in Pids \cup {InitProc} : Births(c, par) /\ ~proc'[c].tree
<1> DEFINE f == FALSE
<1>0. f \in BOOLEAN /\ ~f
  OBVIOUS
<1>1. PICK c \in Pids : \E q \in {InitProc} \cup {s \in Pids : Live(s) /\ ~proc[s].tree} :
          Vacant(c) /\ Born(c, q, f, f)
  BY DEF Stranger
<1>2. PICK q \in {InitProc} \cup {s \in Pids : Live(s) /\ ~proc[s].tree} :
          Vacant(c) /\ Born(c, q, f, f)
  BY <1>1
<1> HIDE DEF f
<1>3. births < MaxBirths /\ births' = births + 1 /\ ~Exists(c)
  BY <1>2 DEF Stranger, Vacant
<1>4. q # InitProc => q \in Pids /\ Live(q) /\ f = proc[q].tree
  <2> SUFFICES ASSUME q # InitProc
               PROVE  q \in Pids /\ Live(q) /\ f = proc[q].tree
    OBVIOUS
  <2>1. q \in Pids /\ Live(q) /\ ~proc[q].tree
    OBVIOUS
  <2>2. proc[q].tree \in BOOLEAN
    BY <2>1, FieldTypes
  <2> QED
    BY <1>0, <2>1, <2>2
<1>5. q \in Pids \cup {InitProc}
  OBVIOUS
<1>6. proc' \in [Pids -> Process] /\ Births(c, q) /\ proc'[c].tree = f
  BY <1>0, <1>2, <1>3, <1>4, <1>5, BornEffect
<1> QED
  BY <1>0, <1>5, <1>6

\* An exit is a death of its own.
LEMMA ExitEffect ==
    ASSUME ConstantsOK, TypeInv, KernelInv, NEW p \in Pids, Exit(p)
    PROVE  /\ proc' \in [Pids -> Process]
           /\ \E own \in BOOLEAN : own /\ Deaths(p, own)
           /\ proc[p].state = "run" /\ proc[p].tree
<1> DEFINE own == TRUE
<1>1. own \in BOOLEAN /\ own /\ proc' = Dies(p, own) /\ births' = births
      /\ proc[p].state = "run" /\ proc[p].tree
  BY DEF Exit
<1> HIDE DEF own
<1>2. Live(p)
  BY <1>1 DEF Live
<1>3. proc' \in [Pids -> Process] /\ Deaths(p, own)
  BY <1>1, <1>2, DieEffect
<1> QED
  BY <1>1, <1>3

\* A SIGKILL is a death by another hand, or nothing.
LEMMA KillEffect ==
    ASSUME ConstantsOK, TypeInv, KernelInv, NEW p \in Pids, proc' = AfterKill(p), births' = births
    PROVE  /\ proc' \in [Pids -> Process]
           /\ \/ Live(p) /\ \E own \in BOOLEAN : ~own /\ Deaths(p, own)
              \/ ~Live(p) /\ proc' = proc
<1>1. CASE Live(p)
  <2> DEFINE own == FALSE
  <2>1. own \in BOOLEAN /\ ~own /\ proc' = Dies(p, own)
    BY <1>1 DEF AfterKill
  <2> HIDE DEF own
  <2>2. proc' \in [Pids -> Process] /\ Deaths(p, own)
    BY <1>1, <2>1, DieEffect
  <2> QED
    BY <1>1, <2>1, <2>2
<1>2. CASE ~Live(p)
  BY <1>2 DEF AfterKill, TypeInv
<1> QED
  BY <1>1, <1>2

\* Both kinds of reaping.
LEMMA ReapEffects ==
    ASSUME ConstantsOK, TypeInv, KernelInv
    PROVE  /\ \A p \in Pids : Reap(p) =>
                 /\ proc' \in [Pids -> Process] /\ Reaps(p)
                 /\ proc[p].ppid \in Pids /\ proc[proc[p].ppid].state = "run"
           /\ ReapLeader => proc' \in [Pids -> Process] /\ Reaps(Leader)
<1>1. ASSUME NEW p \in Pids, Reap(p)
      PROVE  /\ proc' \in [Pids -> Process] /\ Reaps(p)
             /\ proc[p].ppid \in Pids /\ proc[proc[p].ppid].state = "run"
  BY <1>1, ReapEffect DEF Reap
<1>2. ASSUME ReapLeader
      PROVE  proc' \in [Pids -> Process] /\ Reaps(Leader)
  <2>1. /\ Leader \in Pids /\ proc[Leader].state = "zombie" /\ births' = births
        /\ proc[Leader].start = 1 /\ proc' = [proc EXCEPT ![Leader] = [Free EXCEPT !.start = 1]]
    BY <1>2 DEF ReapLeader, KernelInv, Entry, ConstantsOK, kernel
  <2> QED
    BY <2>1, ReapEffect
<1> QED
  BY <1>1, <1>2

\* A SIGCONT from outside.
LEMMA ResumeEffect ==
    ASSUME ConstantsOK, TypeInv, NEW p \in Pids, Resume(p)
    PROVE  proc' \in [Pids -> Process] /\ Sets(p, "run") /\ resumes' = resumes + 1
<1>1. Live(p) /\ births' = births /\ proc' = [proc EXCEPT ![p].state = "run"]
      /\ resumes' = resumes + 1
  BY DEF Resume, Live
<1> QED
  BY <1>1, SetEffect

\* What killTree does first.
LEMMA StopLeaderEffect ==
    ASSUME ConstantsOK, TypeInv, StopLeader
    PROVE  /\ proc' \in [Pids -> Process]
           /\ \/ LeaderReaped /\ pc' = "done" /\ proc' = proc
              \/ ~LeaderReaped /\ ~Signallable(Leader) /\ pc' = "leader" /\ proc' = proc
              \/ /\ ~LeaderReaped /\ Signallable(Leader) /\ pc' = "table"
                 /\ proc' = proc \/ Sets(Leader, "stop")
                 /\ proc'[Leader].state # "run"
<1>1. CASE LeaderReaped
  BY <1>1 DEF StopLeader, TypeInv
<1>2. CASE ~LeaderReaped /\ ~Signallable(Leader)
  BY <1>2 DEF StopLeader, TypeInv
<1>3. CASE ~LeaderReaped /\ Signallable(Leader)
  <2>1. pc' = "table" /\ proc' = Stopped(Leader) /\ births' = births /\ Leader \in Pids
    BY <1>3 DEF StopLeader, ConstantsOK
  <2> QED
    BY <1>3, <2>1, StopEffect
<1> QED
  BY <1>1, <1>2, <1>3

\* A SIGSTOP of the search goes to one of the queue that is not deeper than
\* another.
LEMMA SigstopEffect ==
    ASSUME ConstantsOK, TypeInv, Sigstop
    PROVE  \E d \in queue :
              /\ proc' \in [Pids -> Process]
              /\ d \in [id : Ids, depth : Nat] /\ d.id \in Ids /\ d.id.pid \in Pids
              /\ \A e \in queue : d.depth <= e.depth
              /\ queue' = queue \ {d}
              /\ \/ /\ Signallable(d.id.pid) /\ stopped' = Append(stopped, d.id)
                    /\ proc' = proc \/ Sets(d.id.pid, "stop")
                    /\ proc'[d.id.pid].state # "run"
                 \/ ~Signallable(d.id.pid) /\ proc' = proc /\ stopped' = stopped
<1>1. PICK d \in queue :
          /\ \A e \in queue : d.depth <= e.depth
          /\ queue' = queue \ {d}
          /\ IF Signallable(d.id.pid)
             THEN stopped' = Append(stopped, d.id) /\ proc' = Stopped(d.id.pid)
             ELSE UNCHANGED <<stopped, proc>>
  BY DEF Sigstop
<1>2. d \in [id : Ids, depth : Nat] /\ d.id \in Ids /\ d.id.pid \in Pids
  BY DEF TypeInv, Ids
<1>3. births' = births
  BY DEF Sigstop
<1>4. CASE Signallable(d.id.pid)
  BY <1>1, <1>2, <1>3, <1>4, StopEffect
<1>5. CASE ~Signallable(d.id.pid)
  BY <1>1, <1>2, <1>5 DEF TypeInv
<1> QED
  BY <1>4, <1>5

\* A step of killStopped takes the last of the list.
LEMMA KillStoppedEffect ==
    ASSUME ConstantsOK, TypeInv, KernelInv, KillStopped, stopped # <<>>
    PROVE  LET id == stopped[Len(stopped)]
           IN /\ proc' \in [Pids -> Process] /\ pc' = pc
              /\ id \in Ids /\ id.pid \in Pids /\ Len(stopped) \in Nat /\ Len(stopped) > 0
              /\ stopped' \in Seq(Ids) /\ Len(stopped') = Len(stopped) - 1
              /\ \A n \in DOMAIN stopped' : n \in DOMAIN stopped /\ stopped'[n] = stopped[n]
              /\ \/ /\ current.read => id \in current.ids
                    /\ Signallable(id.pid)
                    /\ \/ Live(id.pid) /\ \E own \in BOOLEAN : ~own /\ Deaths(id.pid, own)
                       \/ ~Live(id.pid) /\ proc' = proc
                    /\ victims' = victims \cup {p \in {id.pid} : ~proc[p].tree}
                 \/ /\ ~(current.read => id \in current.ids) \/ ~Signallable(id.pid)
                    /\ proc' = proc /\ victims' = victims
<1> DEFINE id == Last(stopped)
           hit == (current.read => id \in current.ids) /\ Signallable(id.pid)
<1>1. stopped \in Seq(Ids) /\ Len(stopped) \in Nat /\ Len(stopped) > 0 /\ id = stopped[Len(stopped)]
  BY DEF TypeInv, Last
<1>2. id \in Ids /\ id.pid \in Pids
  <2> HIDE DEF id
  <2>1. id \in Ids
    BY <1>1
  <2> QED
    BY <2>1 DEF Ids
<1>3. /\ stopped' = Front(stopped) /\ pc' = pc /\ births' = births
      /\ proc' = IF hit THEN AfterKill(id.pid) ELSE proc
      /\ victims' = victims \cup {p \in {id.pid} : hit /\ ~proc[p].tree}
  BY DEF KillStopped
<1>4. /\ stopped' \in Seq(Ids) /\ Len(stopped') = Len(stopped) - 1
      /\ \A n \in DOMAIN stopped' : n \in DOMAIN stopped /\ stopped'[n] = stopped[n]
  <2>1. stopped' = SubSeq(stopped, 1, Len(stopped) - 1)
    BY <1>3 DEF Front
  <2>2. Len(stopped) - 1 \in Nat /\ Len(stopped) - 1 <= Len(stopped)
    BY <1>1
  <2> HIDE DEF id, hit
  <2> DEFINE k == Len(stopped) - 1
  <2>3. /\ SubSeq(stopped, 1, k) \in Seq(Ids) /\ Len(SubSeq(stopped, 1, k)) = k
        /\ \A n \in 1..k : SubSeq(stopped, 1, k)[n] = stopped[n]
    <3>1. k \in Int /\ k >= 0 /\ k - 1 + 1 = k
      BY <1>1, <2>2
    <3>2. \A i \in 1..k : stopped[i] \in Ids
      BY <1>1, <2>2
    <3>3. \A i \in 1..k : 1 + i - 1 = i
      OBVIOUS
    <3>4. (IF 1 <= k THEN k - 1 + 1 ELSE 0) = k
      BY <3>1
    <3> HIDE DEF k
    <3> DEFINE sub == SubSeq(stopped, 1, k)
    <3>5. /\ sub \in Seq(Ids) /\ Len(sub) = IF 1 <= k THEN k - 1 + 1 ELSE 0
          /\ \A i \in 1..(k - 1 + 1) : sub[i] = stopped[1 + i - 1]
      BY <3>1, <3>2, SubSeqProperties
    <3> HIDE DEF sub
    <3>6. \A n \in 1..k : sub[n] = stopped[n]
      BY <3>1, <3>3, <3>5
    <3> QED
      BY <3>4, <3>5, <3>6 DEF sub
  <2>4. DOMAIN stopped = 1..Len(stopped) /\ DOMAIN stopped' = 1..k
    BY <1>1, <2>1, <2>3
  <2> QED
    BY <1>1, <2>1, <2>2, <2>3, <2>4
<1> HIDE DEF id
<1>5. CASE hit
  BY <1>1, <1>2, <1>3, <1>4, <1>5, KillEffect
<1>6. CASE ~hit
  BY <1>1, <1>2, <1>3, <1>4, <1>6 DEF TypeInv
<1> QED
  BY <1>5, <1>6

\* What killTree does last.
LEMMA KillLeaderEffect ==
    ASSUME ConstantsOK, TypeInv, KernelInv, KillLeader
    PROVE  /\ proc' \in [Pids -> Process]
           /\ \/ /\ LeaderReaped \/ ~Signallable(Leader)
                 /\ proc' = proc /\ killed' = killed /\ exit' = exit
              \/ /\ ~LeaderReaped /\ Signallable(Leader) /\ killed'
                 /\ \/ /\ Live(Leader) /\ exit' = "killed"
                       /\ \E own \in BOOLEAN : ~own /\ Deaths(Leader, own)
                    \/ ~Live(Leader) /\ exit' = exit /\ proc' = proc
<1>1. Leader \in Pids /\ births' = births
  BY DEF KillLeader, ConstantsOK
<1>2. CASE LeaderReaped \/ ~Signallable(Leader)
  BY <1>2 DEF KillLeader, TypeInv
<1>3. CASE ~LeaderReaped /\ Signallable(Leader)
  <2>1. /\ proc' = AfterKill(Leader) /\ killed'
        /\ exit' = IF Live(Leader) THEN "killed" ELSE exit
    BY <1>3 DEF KillLeader
  <2> QED
    BY <1>1, <1>3, <2>1, KillEffect
<1> QED
  BY <1>2, <1>3

\* The table changes in one of these ways.
TableStep ==
    \/ \E c \in Pids : \E par \in Pids \cup {InitProc} :
          Births(c, par) /\ (proc'[c].tree => par \in Pids /\ proc[par].state = "run" /\ proc[par].tree
                                              /\ proc'[c].escaped = proc[par].escaped)
    \/ \E p \in Pids : \E own \in BOOLEAN : Deaths(p, own) /\ (p = Leader => exit' # "none")
    \/ \E p \in Pids : Reaps(p)
    \/ \E p \in Pids : Sets(p, "stop")
    \/ \E p \in Pids : Sets(p, "run") /\ resumes' = resumes + 1
    \/ proc' = proc /\ births' = births

\* What every step does to the table, the leader's exit and the verdict on it.
StepOK ==
    /\ proc' \in [Pids -> Process] /\ TableStep
    /\ suid' = suid /\ resumes' \in Nat /\ resumes <= resumes'
    /\ exit' \in {"none", "ok", "fail", "killed"} /\ (exit' = "none" => exit = "none")
    /\ exit' = exit \/ \E own \in BOOLEAN : Deaths(Leader, own)
    /\ killed' \in BOOLEAN /\ (exit' = "killed" => killed')

\* A step of the system is of this form.
LEMMA WorldStep ==
    ASSUME ConstantsOK, TypeInv, KernelInv, World \/ ReapLeader \/ Return
    PROVE  StepOK
<1>0. /\ resumes \in Nat /\ suid \in BOOLEAN /\ killed \in BOOLEAN /\ resumes <= resumes
      /\ exit \in {"none", "ok", "fail", "killed"} /\ (exit = "killed" => killed)
      /\ proc \in [Pids -> Process]
  BY DEF TypeInv, KernelInv
<1>1. ASSUME NEW p \in Pids, Fork(p)
      PROVE  StepOK
  <2>1. suid' = suid /\ resumes' = resumes /\ exit' = exit /\ killed' = killed
    BY <1>1 DEF Fork
  <2>2. PICK c \in Pids : Births(c, p) /\ proc'[c].tree /\ proc'[c].escaped = proc[p].escaped
    BY <1>1, ForkEffect
  <2>3. TableStep
    BY <1>1, <2>2, ForkEffect DEF TableStep
  <2> QED
    BY <1>0, <1>1, <2>1, <2>3, ForkEffect DEF StepOK
<1>2. CASE Stranger
  <2>1. suid' = suid /\ resumes' = resumes /\ exit' = exit /\ killed' = killed
    BY <1>2 DEF Stranger
  <2>2. TableStep
    BY <1>2, StrangerEffect DEF TableStep
  <2> QED
    BY <1>0, <1>2, <2>1, <2>2, StrangerEffect DEF StepOK
<1>3. ASSUME NEW p \in Pids, Exit(p)
      PROVE  StepOK
  <2>1. suid' = suid /\ resumes' = resumes /\ killed' = killed
    BY <1>3 DEF Exit
  <2>2. exit' \in IF p = Leader /\ proc[p].start = 1 THEN {"ok", "fail"} ELSE {exit}
    BY <1>3 DEF Exit
  <2>3. exit = "none" => proc[Leader].start = 1
    BY DEF KernelInv
  <2>4. p = Leader => exit' # "none"
    BY <2>2, <2>3
  <2>5. TableStep
    BY <1>3, <2>4, ExitEffect DEF TableStep
  <2>6. exit' \in {"none", "ok", "fail", "killed"} /\ (exit' = "none" => exit = "none")
        /\ (exit' = "killed" => killed')
        /\ (exit' = exit \/ p = Leader)
    BY <1>0, <2>1, <2>2
  <2>7. exit' = exit \/ \E own \in BOOLEAN : Deaths(Leader, own)
    BY <1>3, <2>6, ExitEffect
  <2>8. proc' \in [Pids -> Process]
    BY <1>3, ExitEffect
  <2> QED
    BY <1>0, <2>1, <2>5, <2>6, <2>7, <2>8 DEF StepOK
<1>4. ASSUME NEW p \in Pids, Reap(p)
      PROVE  StepOK
  <2>1. suid' = suid /\ resumes' = resumes /\ exit' = exit /\ killed' = killed
    BY <1>4 DEF Reap
  <2>2. TableStep
    BY <1>4, ReapEffects DEF TableStep
  <2> QED
    BY <1>0, <1>4, <2>1, <2>2, ReapEffects DEF StepOK
<1>5. ASSUME NEW p \in Pids, Resume(p)
      PROVE  StepOK
  <2>1. suid' = suid /\ resumes' = resumes + 1 /\ exit' = exit /\ killed' = killed
    BY <1>5 DEF Resume
  <2>2. TableStep
    BY <1>5, ResumeEffect DEF TableStep
  <2> QED
    BY <1>0, <1>5, <2>1, <2>2, ResumeEffect DEF StepOK
<1>6. CASE ReapLeader
  <2>1. suid' = suid /\ resumes' = resumes /\ exit' = exit /\ killed' = killed
    BY <1>6 DEF ReapLeader
  <2>2. TableStep
    BY <1>6, ReapEffects DEF TableStep, ConstantsOK
  <2> QED
    BY <1>0, <1>6, <2>1, <2>2, ReapEffects DEF StepOK
<1>7. CASE Return \/ StopApply
  <2>1. suid' = suid /\ resumes' = resumes /\ exit' = exit /\ killed' = killed /\ proc' = proc
        /\ births' = births
    BY <1>7 DEF Return, StopApply, kernel
  <2> QED
    BY <1>0, <2>1 DEF StepOK, TableStep
<1> QED
  BY <1>1, <1>2, <1>3, <1>4, <1>5, <1>6, <1>7 DEF World

\* So is a step of killTree.
LEMMA KillTreeStep ==
    ASSUME ConstantsOK, TypeInv, KernelInv, SearchInv, killTree
    PROVE  StepOK
<1>0. /\ resumes \in Nat /\ suid \in BOOLEAN /\ killed \in BOOLEAN /\ resumes <= resumes
      /\ exit \in {"none", "ok", "fail", "killed"} /\ (exit = "killed" => killed)
      /\ proc \in [Pids -> Process] /\ Leader \in Pids
  BY DEF TypeInv, KernelInv, ConstantsOK
<1>1. CASE StopLeader
  <2>1. suid' = suid /\ resumes' = resumes /\ exit' = exit /\ killed' = killed /\ births' = births
    BY <1>1 DEF StopLeader
  <2>2. proc' \in [Pids -> Process] /\ (proc' = proc \/ Sets(Leader, "stop"))
    BY <1>1, StopLeaderEffect
  <2>3. TableStep
    BY <1>0, <2>1, <2>2 DEF TableStep
  <2> QED
    BY <1>0, <2>1, <2>2, <2>3 DEF StepOK
<1>2. CASE Freeze \/ Verify
  <2>1. suid' = suid /\ resumes' = resumes /\ exit' = exit /\ killed' = killed /\ proc' = proc
        /\ births' = births
    BY <1>2 DEF Freeze, Verify, kernel
  <2> QED
    BY <1>0, <2>1 DEF StepOK, TableStep
<1>3. CASE Sigstop
  <2>1. suid' = suid /\ resumes' = resumes /\ exit' = exit /\ killed' = killed /\ births' = births
    BY <1>3 DEF Sigstop
  <2>2. proc' \in [Pids -> Process] /\ (proc' = proc \/ \E p \in Pids : Sets(p, "stop"))
    BY <1>3, SigstopEffect
  <2>3. TableStep
    BY <2>1, <2>2 DEF TableStep
  <2> QED
    BY <1>0, <2>1, <2>2, <2>3 DEF StepOK
<1>4. CASE KillStopped
  <2>1. suid' = suid /\ resumes' = resumes /\ exit' = exit /\ killed' = killed /\ births' = births
    BY <1>4 DEF KillStopped
  <2>2. CASE stopped = <<>>
    <3>1. proc' = proc
      BY <1>4, <2>2 DEF KillStopped
    <3> QED
      BY <1>0, <2>1, <3>1 DEF StepOK, TableStep
  <2>3. CASE stopped # <<>>
    <3> DEFINE id == stopped[Len(stopped)]
    <3>1. /\ proc' \in [Pids -> Process] /\ id.pid \in Pids
          /\ \/ proc' = proc
             \/ \E own \in BOOLEAN : Deaths(id.pid, own)
      BY <1>4, <2>3, KillStoppedEffect
    <3>2. id.pid # Leader
      <4>1. Len(stopped) \in DOMAIN stopped
        BY <2>3 DEF TypeInv
      <4> HIDE DEF id
      <4> QED
        BY <4>1 DEF SearchInv, id
    <3> HIDE DEF id
    <3>3. TableStep
      BY <2>1, <3>1, <3>2 DEF TableStep
    <3> QED
      BY <1>0, <2>1, <3>1, <3>3 DEF StepOK
  <2> QED
    BY <2>2, <2>3
<1>5. CASE KillLeader
  <2>1. suid' = suid /\ resumes' = resumes /\ births' = births
    BY <1>5 DEF KillLeader
  <2>2. /\ proc' \in [Pids -> Process]
        /\ \/ proc' = proc /\ killed' = killed /\ exit' = exit
           \/ killed' /\ exit' = "killed" /\ \E own \in BOOLEAN : Deaths(Leader, own)
           \/ killed' /\ exit' = exit /\ proc' = proc
    BY <1>5, KillLeaderEffect
  <2>3. TableStep
    BY <1>0, <2>1, <2>2 DEF TableStep
  <2>4. killed' \in BOOLEAN
    BY <1>0, <1>5 DEF KillLeader
  <2> QED
    BY <1>0, <2>1, <2>2, <2>3, <2>4 DEF StepOK
<1> QED
  BY <1>1, <1>2, <1>3, <1>4, <1>5 DEF killTree

\* The table stays in order.
LEMMA KernelStep ==
    ASSUME ConstantsOK, TypeInv, KernelInv, StepOK
    PROVE  KernelInv'
<1>0. suid' = suid /\ proc' \in [Pids -> Process]
  BY DEF StepOK
<1>1. (\A p \in Pids : Entry(p))' /\ births' \in 1..MaxBirths
  <2>1. CASE \E c \in Pids : \E par \in Pids \cup {InitProc} : Births(c, par)
    BY <1>0, <2>1, BirthKeepsTable
  <2>2. CASE \E p \in Pids : \E own \in BOOLEAN : Deaths(p, own)
    BY <1>0, <2>2, DeathKeepsTable
  <2>3. CASE \E p \in Pids : Reaps(p)
    BY <1>0, <2>3, ReapKeepsTable
  <2>4. CASE \E p \in Pids : Sets(p, "stop") \/ Sets(p, "run")
    BY <1>0, <2>4, SetKeepsTable
  <2>5. CASE proc' = proc /\ births' = births
    BY <1>0, <2>5 DEF KernelInv, Entry, Live, Exists
  <2> QED
    BY <2>1, <2>2, <2>3, <2>4, <2>5 DEF StepOK, TableStep
<1>2. ASSUME exit' = "none"
      PROVE  proc'[Leader].state \in {"run", "stop"} /\ proc'[Leader].start = 1
             /\ ~proc'[Leader].escaped
  <2>1. exit = "none"
    BY <1>2 DEF StepOK
  <2>2. \/ \E c \in Pids : \E par \in Pids \cup {InitProc} : Births(c, par)
        \/ \E p \in Pids \ {Leader} : \E own \in BOOLEAN : Deaths(p, own)
        \/ \E p \in Pids : Reaps(p)
        \/ \E p \in Pids : \E s \in {"run", "stop"} : Sets(p, s)
        \/ proc' = proc
    BY <1>2 DEF StepOK, TableStep
  <2> QED
    BY <2>1, <2>2, LeaderStays
<1>3. exit' = "killed" => killed'
  BY DEF StepOK
<1>4. ASSUME exit' # "none"
      PROVE  ~(proc'[Leader].state \in {"run", "stop"} /\ proc'[Leader].start = 1)
  <2>0. Leader \in Pids
    BY DEF ConstantsOK
  <2>1. CASE \E own \in BOOLEAN : Deaths(Leader, own)
    BY <2>0, <2>1 DEF Deaths, Freed
  <2>2. CASE exit' = exit
    <3>1. ~(Live(Leader) /\ proc[Leader].start = 1)
      BY <1>4, <2>2 DEF KernelInv
    <3>2. CASE \E c \in Pids : \E par \in Pids \cup {InitProc} : Births(c, par)
      BY <2>0, <3>1, <3>2 DEF Births, KernelInv, Live
    <3>3. CASE \E p \in Pids : \E own \in BOOLEAN : Deaths(p, own)
      BY <2>0, <3>1, <3>3 DEF Deaths, Live, Keeps, Freed
    <3>4. CASE \E p \in Pids : Reaps(p)
      BY <2>0, <3>1, <3>4 DEF Reaps, Live, Freed
    <3>5. CASE \E p \in Pids : Sets(p, "stop") \/ Sets(p, "run")
      BY <2>0, <3>1, <3>5 DEF Sets, Live, Keeps
    <3>6. CASE proc' = proc
      BY <3>1, <3>6 DEF Live
    <3> QED
      BY <3>2, <3>3, <3>4, <3>5, <3>6 DEF StepOK, TableStep
  <2> QED
    BY <2>1, <2>2 DEF StepOK
<1> QED
  BY <1>1, <1>2, <1>3, <1>4 DEF KernelInv, Live

\* One process from one state to the next.
Ages(p) ==
    \/ /\ ~Exists(p) /\ births' = births + 1
       /\ proc'[p].start = births + 1 /\ proc'[p].state = "run"
       /\ proc'[p].tree =>
             LET par == proc'[p].ppid
             IN par \in Pids /\ proc[par].state = "run" /\ proc[par].tree
                /\ proc'[p].escaped = proc[par].escaped
    \/ proc'[p].state = "free" /\ proc'[p].start = proc[p].start
    \/ /\ Exists(p) /\ proc'[p].state # "free" /\ Keeps(p)
       /\ proc[p].escaped => proc'[p].escaped
       /\ proc'[p].ppid \in {proc[p].ppid, InitProc}
       /\ proc[p].state = "zombie" => proc'[p].state = "zombie"
       /\ proc'[p].state = "zombie" => proc'[p].ppid = proc[p].ppid
       /\ proc'[p].state = "run" => proc[p].state = "run" \/ resumes' > 0

\* Every process changes as Ages says.
LEMMA EveryoneAges ==
    ASSUME ConstantsOK, TypeInv, KernelInv, StepOK
    PROVE  (\A p \in Pids : Ages(p)) /\ births' \in {births, births + 1}
<1>0. /\ proc' \in [Pids -> Process] /\ resumes \in Nat
      /\ \A p \in Pids : (proc[p].ppid \in Pids => Exists(p)) /\ (proc[p].state = "free" => ~Exists(p))
  BY DEF StepOK, TypeInv, KernelInv, Entry, Exists, ConstantsOK
<1>s. ASSUME NEW p \in Pids, proc'[p] = proc[p]
      PROVE  Ages(p)
  <2>1. CASE proc[p].state = "free"
    BY <1>s, <2>1 DEF Ages
  <2>2. CASE proc[p].state # "free"
    BY <1>s, <2>2 DEF Ages, Keeps, Exists
  <2> QED
    BY <2>1, <2>2
<1>f. ASSUME NEW p \in Pids, Freed(p)
      PROVE  Ages(p)
  BY <1>f DEF Ages, Freed
<1>1. ASSUME NEW c \in Pids, NEW par \in Pids \cup {InitProc}, Births(c, par),
             proc'[c].tree => par \in Pids /\ proc[par].state = "run" /\ proc[par].tree
                                              /\ proc'[c].escaped = proc[par].escaped
      PROVE  (\A p \in Pids : Ages(p)) /\ births' \in {births, births + 1}
  <2>1. Ages(c)
    BY <1>1 DEF Ages, Births
  <2> QED
    BY <1>1, <1>s, <2>1 DEF Births
<1>2. ASSUME NEW p \in Pids, NEW own \in BOOLEAN, Deaths(p, own)
      PROVE  (\A q \in Pids : Ages(q)) /\ births' \in {births, births + 1}
  <2>1. Ages(p)
    <3>1. CASE proc[p].ppid = InitProc
      BY <1>2, <1>f, <3>1 DEF Deaths
    <3>2. CASE proc[p].ppid # InitProc
      BY <1>2, <3>2 DEF Deaths, Ages, Live, Exists
    <3> QED
      BY <3>1, <3>2
  <2>2. ASSUME NEW q \in Pids \ {p}
        PROVE  Ages(q)
    <3>0. Live(p) /\ (proc[q].escaped => proc'[q].escaped \/ Freed(q))
      BY <1>2 DEF Deaths
    <3>1. CASE proc[q].ppid = p /\ proc[q].state = "zombie"
      BY <1>2, <1>f, <3>1 DEF Deaths
    <3>2. CASE proc[q].ppid = p /\ proc[q].state # "zombie"
      <4>1. proc'[q].state = proc[q].state /\ proc'[q].ppid = InitProc /\ Keeps(q) /\ Exists(q)
        BY <1>0, <1>2, <3>2 DEF Deaths
      <4> QED
        BY <3>0, <3>2, <4>1, <1>f DEF Ages, Exists
    <3>3. CASE proc[q].ppid # p
      <4>1. proc'[q].state = proc[q].state /\ proc'[q].ppid = proc[q].ppid /\ Keeps(q)
        BY <1>2, <3>3 DEF Deaths
      <4>2. CASE proc[q].state = "free"
        BY <4>1, <4>2 DEF Ages, Keeps
      <4>3. CASE proc[q].state # "free"
        BY <3>0, <4>1, <4>3, <1>f DEF Ages, Exists
      <4> QED
        BY <4>2, <4>3
    <3> QED
      BY <3>1, <3>2, <3>3
  <2> QED
    BY <1>2, <2>1, <2>2 DEF Deaths
<1>3. ASSUME NEW p \in Pids, Reaps(p)
      PROVE  (\A q \in Pids : Ages(q)) /\ births' \in {births, births + 1}
  BY <1>3, <1>f, <1>s DEF Reaps
<1>4. ASSUME NEW p \in Pids, NEW s \in {"run", "stop"}, Sets(p, s),
             s = "run" => resumes' = resumes + 1
      PROVE  (\A q \in Pids : Ages(q)) /\ births' \in {births, births + 1}
  <2>1. Ages(p)
    <3>1. /\ Live(p) /\ proc'[p].state = s /\ proc'[p].ppid = proc[p].ppid /\ Keeps(p)
          /\ proc'[p].escaped = proc[p].escaped
      BY <1>4 DEF Sets
    <3>2. s = "run" => resumes' > 0
      BY <1>0, <1>4
    <3> QED
      BY <3>1, <3>2 DEF Ages, Live, Exists
  <2> QED
    BY <1>4, <1>s, <2>1 DEF Sets
<1>5. CASE proc' = proc /\ births' = births
  BY <1>5, <1>s
<1> QED
  BY <1>1, <1>2, <1>3, <1>4, <1>5 DEF StepOK, TableStep

(***************************************************************************)
(* The parts of the invariant, one lemma for each                          *)
(***************************************************************************)
\* Every step is of the form StepOK.
LEMMA NextStepOK ==
    ASSUME ConstantsOK, TypeInv, KernelInv, SearchInv, Next
    PROVE  StepOK /\ KernelInv'
BY WorldStep, KillTreeStep, KernelStep DEF Next

\* The variables keep their types.
LEMMA TypeStep ==
    ASSUME ConstantsOK, TypeInv, KernelInv, SearchInv, Next
    PROVE  TypeInv'
<1>0. /\ suid \in BOOLEAN /\ seen \subseteq Ids /\ queue \subseteq [id : Ids, depth : Nat]
      /\ stopped \in Seq(Ids) /\ current \in [read : BOOLEAN, ids : SUBSET Ids]
      /\ victims \subseteq Pids /\ clean \in BOOLEAN /\ bound \in BOOLEAN
      /\ outcome \in {"none", "ok", "fail", "timeout", "stopped"}
      /\ pc \in {"idle", "table", "verify", "kill", "leader", "done"}
  BY DEF TypeInv
<1>1. /\ suid' \in BOOLEAN /\ births' \in Nat /\ resumes' \in Nat /\ proc' \in [Pids -> Process]
      /\ killed' \in BOOLEAN /\ exit' \in {"none", "ok", "fail", "killed"}
  <2>1. StepOK /\ births' \in 1..MaxBirths
    BY NextStepOK DEF KernelInv
  <2> QED
    BY <1>0, <2>1 DEF StepOK
<1>2. CASE World \/ ReapLeader
  <2>1. UNCHANGED <<search, pc, outcome, victims>> /\ bound' \in BOOLEAN
    BY <1>0, <1>2 DEF World, Fork, Stranger, Exit, Reap, Resume, StopApply, ReapLeader
  <2> QED
    BY <1>0, <1>1, <2>1 DEF TypeInv, search
<1>3. CASE Return
  <2>1. UNCHANGED <<search, pc, bound, victims>>
        /\ outcome' \in {"none", "ok", "fail", "timeout", "stopped"}
    BY <1>3 DEF Return, runError
  <2> QED
    BY <1>0, <1>1, <2>1 DEF TypeInv, search
<1>4. CASE StopLeader
  <2>1. UNCHANGED <<search, bound, victims, outcome>>
    BY <1>4 DEF StopLeader
  <2>2. pc' \in {"done", "leader", "table"}
    BY <1>4, StopLeaderEffect
  <2> QED
    BY <1>0, <1>1, <2>1, <2>2 DEF TypeInv, search
<1>5. CASE Freeze
  <2>1. UNCHANGED <<stopped, current, bound, outcome, victims>>
    BY <1>5 DEF Freeze
  <2>2. \/ queue' = queue /\ seen' = seen /\ clean' = clean
        \/ LET fresh == {d \in descendants : d.id \notin seen}
           IN queue' = fresh /\ seen' = seen \cup {d.id : d \in fresh} /\ clean' = (fresh = {})
    BY <1>5 DEF Freeze
  <2>3. pc' \in {"verify", "table"}
    BY <1>5 DEF Freeze
  <2>4. \A d \in descendants : d \in [id : Ids, depth : Nat]
    BY Found
  <2>5. queue' \subseteq [id : Ids, depth : Nat] /\ seen' \subseteq Ids
    BY <1>0, <2>2, <2>4
  <2>6. clean' \in BOOLEAN
    BY <1>0, <2>2
  <2> QED
    BY <1>0, <1>1, <2>1, <2>3, <2>5, <2>6 DEF TypeInv
<1>6. CASE Sigstop
  <2>1. UNCHANGED <<seen, current, clean, pc, bound, outcome, victims>>
    BY <1>6 DEF Sigstop
  <2>2. PICK d \in queue : d.id \in Ids /\ queue' = queue \ {d}
                           /\ (stopped' = stopped \/ stopped' = Append(stopped, d.id))
    BY <1>6, SigstopEffect
  <2> QED
    BY SMTT(30), <1>0, <1>1, <2>1, <2>2 DEF TypeInv
<1>7. CASE Verify
  <2>1. UNCHANGED <<seen, queue, stopped, clean, bound, outcome, victims>> /\ pc' \in {"leader", "kill"}
    BY <1>7 DEF Verify
  <2>2. \/ current' = current \/ current' = NoTable
        \/ current' = [read |-> TRUE, ids |-> {Id(p) : p \in {q \in Pids : Exists(q)}}]
    BY <1>7 DEF Verify
  <2>3. {Id(p) : p \in {q \in Pids : Exists(q)}} \subseteq Ids
    BY FieldTypes DEF Id, Ids
  <2>4. current' \in [read : BOOLEAN, ids : SUBSET Ids]
    <3> DEFINE t == TRUE
               f == FALSE
    <3>1. t \in BOOLEAN /\ f \in BOOLEAN
      OBVIOUS
    <3>2. \/ current' = current \/ current' = [read |-> f, ids |-> {}]
          \/ current' = [read |-> t, ids |-> {Id(p) : p \in {q \in Pids : Exists(q)}}]
      BY <2>2 DEF NoTable
    <3> HIDE DEF t, f
    <3> QED
      BY <1>0, <2>3, <3>1, <3>2
  <2> QED
    BY <1>0, <1>1, <2>1, <2>4 DEF TypeInv
<1>8. CASE KillStopped
  <2>1. UNCHANGED <<seen, queue, current, clean, bound, outcome>>
    BY <1>8 DEF KillStopped
  <2>2. stopped' \in Seq(Ids) /\ victims' \subseteq Pids /\ pc' \in {"kill", "leader"}
    <3>1. CASE stopped = <<>>
      BY <1>0, <1>8, <3>1 DEF KillStopped
    <3>2. CASE stopped # <<>>
      <4> DEFINE id == stopped[Len(stopped)]
      <4>1. pc = "kill"
        BY <1>8 DEF KillStopped
      <4>2. /\ stopped' \in Seq(Ids) /\ pc' = pc /\ id.pid \in Pids
            /\ victims' = victims \/ victims' = victims \cup {p \in {id.pid} : ~proc[p].tree}
        BY <1>8, <3>2, KillStoppedEffect
      <4> HIDE DEF id
      <4> QED
        BY <1>0, <4>1, <4>2
    <3> QED
      BY <3>1, <3>2
  <2> QED
    BY <1>0, <1>1, <2>1, <2>2 DEF TypeInv
<1>9. CASE KillLeader
  <2>1. UNCHANGED <<search, bound, outcome, victims>> /\ pc' = "done"
    BY <1>9 DEF KillLeader
  <2> QED
    BY <1>0, <1>1, <2>1 DEF TypeInv, search
<1> QED
  BY <1>2, <1>3, <1>4, <1>5, <1>6, <1>7, <1>8, <1>9 DEF Next, killTree

\* The start time at a pid never falls.
LEMMA StartsGrow ==
    ASSUME ConstantsOK, TypeInv, KernelInv, StepOK
    PROVE  \A p \in Pids : proc[p].start \in Nat /\ proc'[p].start \in Nat
                           /\ proc[p].start <= proc'[p].start
<1> SUFFICES ASSUME NEW p \in Pids
             PROVE  proc[p].start \in Nat /\ proc'[p].start \in Nat
                    /\ proc[p].start <= proc'[p].start
  OBVIOUS
<1>1. proc[p].start \in Nat /\ proc[p].start <= births /\ births \in Nat
  BY FieldTypes DEF KernelInv, Entry, TypeInv
<1>2. Ages(p)
  BY EveryoneAges
<1> QED
  BY <1>1, <1>2 DEF Ages, Keeps

\* What the search has found stays consistent.
LEMMA SearchStep ==
    ASSUME ConstantsOK, TypeInv, KernelInv, SearchInv, Next
    PROVE  SearchInv'
<1>0. /\ seen \subseteq Ids /\ stopped \in Seq(Ids) /\ queue \subseteq [id : Ids, depth : Nat]
      /\ \A id \in Ids : id.pid \in Pids /\ id.start \in Nat
      /\ pc \in {"idle", "table", "verify", "kill", "leader", "done"}
  BY DEF TypeInv, Ids
<1>g. \A p \in Pids : proc[p].start \in Nat /\ proc'[p].start \in Nat
                      /\ proc[p].start <= proc'[p].start
  BY StartsGrow, NextStepOK
<1>s. ASSUME search' = search,
             \/ pc' = pc
             \/ pc' = "done" /\ pc = "leader"
             \/ pc = "idle" /\ pc' \in {"table", "leader", "done"}
      PROVE  SearchInv'
  BY <1>0, <1>g, <1>s DEF SearchInv, search, InStopped
<1>2. CASE World \/ ReapLeader \/ Return
  <2>1. search' = search /\ pc' = pc
    BY <1>2 DEF World, Fork, Stranger, Exit, Reap, Resume, StopApply, ReapLeader, Return
  <2> QED
    BY <2>1, <1>s
<1>4. CASE StopLeader
  <2>1. search' = search /\ pc = "idle"
    BY <1>4 DEF StopLeader
  <2>2. pc' \in {"done", "leader", "table"}
    BY <1>4, StopLeaderEffect
  <2> QED
    BY <2>1, <2>2, <1>s
<1>9. CASE KillLeader
  <2>1. search' = search /\ pc = "leader" /\ pc' = "done"
    BY <1>9 DEF KillLeader
  <2> QED
    BY <2>1, <1>s
<1>5. CASE Freeze
  <2>0. stopped' = stopped /\ pc = "table" /\ queue = {} /\ proc' = proc /\ ~clean
    BY <1>5 DEF Freeze, kernel, SearchInv
  <2>1. CASE queue' = queue /\ seen' = seen /\ clean' = clean /\ pc' = "verify"
    BY <2>0, <2>1, <1>0, <1>g DEF SearchInv, InStopped
  <2> DEFINE fresh == {d \in descendants : d.id \notin seen}
  <2>2. CASE /\ queue' = fresh /\ seen' = seen \cup {d.id : d \in fresh}
             /\ clean' = (fresh = {}) /\ pc' = IF fresh = {} THEN "verify" ELSE "table"
    <3>1. \A d \in descendants :
             /\ d.id.pid \in Pids /\ d.id.pid # Leader /\ d.id.start = proc[d.id.pid].start
             /\ d.id = Id(d.id.pid)
      BY Found
    <3>2. \A d, e \in descendants : d.id.pid = e.id.pid => d = e
      BY FoundOnce
    <3> HIDE DEF fresh
    <3>3. /\ \A d \in fresh : d \in descendants /\ d.id \notin seen
          /\ fresh = {} \/ fresh # {}
      BY DEF fresh
    <3>4. /\ pc' = "idle" => seen' = {} /\ queue' = {} /\ stopped' = <<>>
          /\ pc' # "table" => queue' = {}
          /\ pc' \in {"leader", "done"} => stopped' = <<>>
          /\ pc' \in {"idle", "table"} => ~clean'
      <4>1. CASE fresh = {}
        BY <2>0, <2>2, <4>1
      <4>2. CASE fresh # {}
        BY <2>0, <2>2, <4>2
      <4> QED
        BY <4>1, <4>2
    <3>5. \A id \in seen' : id.pid # Leader /\ id.start <= proc'[id.pid].start
      BY <1>g, <2>0, <2>2, <3>1, <3>3 DEF SearchInv
    <3>6. /\ \A n \in DOMAIN stopped' : stopped'[n] \in seen'
          /\ \A m, n \in DOMAIN stopped' :
                m < n /\ stopped'[m].pid = stopped'[n].pid => stopped'[m].start < stopped'[n].start
      BY <2>0, <2>2 DEF SearchInv
    <3>7. ASSUME NEW d \in queue'
          PROVE  /\ d.id \in seen' /\ ~InStopped(d.id)'
                 /\ \A e \in queue' : e.id.pid = d.id.pid => e = d
                 /\ \A id \in seen' : id.pid = d.id.pid => id.start <= d.id.start
      <4>1. d \in fresh /\ d \in descendants /\ d.id \notin seen
        BY <2>2, <3>3
      <4>2. d.id \in seen'
        BY <2>2, <4>1
      <4>3. ~InStopped(d.id)'
        BY <2>0, <4>1 DEF SearchInv, InStopped
      <4>4. \A e \in queue' : e.id.pid = d.id.pid => e = d
        BY <2>2, <3>2, <3>3, <4>1
      <4>5. \A id \in seen' : id.pid = d.id.pid => id.start <= d.id.start
        <5> SUFFICES ASSUME NEW id \in seen', id.pid = d.id.pid
                     PROVE  id.start <= d.id.start
          OBVIOUS
        <5>1. id.start <= proc'[id.pid].start
          BY <3>5
        <5>2. d.id.start = proc[d.id.pid].start
          BY <3>1, <4>1
        <5> QED
          BY <2>0, <5>1, <5>2
      <4> QED
        BY <4>2, <4>3, <4>4, <4>5
    <3> QED
      BY <3>4, <3>5, <3>6, <3>7 DEF SearchInv
  <2>3. \/ queue' = queue /\ seen' = seen /\ clean' = clean /\ pc' = "verify"
        \/ /\ queue' = fresh /\ seen' = seen \cup {d.id : d \in fresh}
           /\ clean' = (fresh = {}) /\ pc' = IF fresh = {} THEN "verify" ELSE "table"
    BY <1>5 DEF Freeze
  <2> QED
    BY <2>1, <2>2, <2>3
<1>6. CASE Sigstop
  <2>1. UNCHANGED <<seen, clean, pc>> /\ pc = "table"
    BY <1>6 DEF Sigstop
  <2>2. PICK d \in queue : /\ d.id \in Ids /\ queue' = queue \ {d}
                           /\ (stopped' = stopped \/ stopped' = Append(stopped, d.id))
    BY <1>6, SigstopEffect
  <2>3. \A id \in seen' : id.pid # Leader /\ id.start <= proc'[id.pid].start
    <3> SUFFICES ASSUME NEW id \in seen
                 PROVE  id.pid # Leader /\ id.start <= proc'[id.pid].start
      BY <2>1
    <3>1. id.pid # Leader /\ id.start <= proc[id.pid].start /\ id.pid \in Pids /\ id.start \in Nat
      BY <1>0 DEF SearchInv
    <3> QED
      BY <1>g, <3>1
  <2>4. CASE stopped' = stopped
    <3>1. \A e \in queue' : e \in queue /\ ~InStopped(e.id)'
      BY <2>2, <2>4 DEF SearchInv, InStopped
    <3> QED
      BY <2>1, <2>2, <2>3, <2>4, <3>1 DEF SearchInv
  <2>5. CASE stopped' = Append(stopped, d.id)
    <3> DEFINE L == Len(stopped)
    <3>1. /\ L \in Nat /\ DOMAIN stopped = 1..L /\ DOMAIN stopped' = 1..(L + 1)
          /\ \A n \in 1..L : stopped'[n] = stopped[n]
          /\ stopped'[L + 1] = d.id
      BY <1>0, <2>2, <2>5
    <3> HIDE DEF L
    <3>2. d.id \in seen /\ ~InStopped(d.id)
          /\ \A id \in seen : id.pid = d.id.pid => id.start <= d.id.start
      BY DEF SearchInv
    <3>3. \A n \in DOMAIN stopped' : stopped'[n] \in seen'
      <4> SUFFICES ASSUME NEW n \in 1..(L + 1)
                   PROVE  stopped'[n] \in seen
        BY <2>1, <3>1
      <4>1. CASE n = L + 1
        BY <3>1, <3>2, <4>1
      <4>2. CASE n # L + 1
        <5>1. n \in 1..L
          BY <3>1, <4>2
        <5> QED
          BY <3>1, <5>1 DEF SearchInv
      <4> QED
        BY <4>1, <4>2
    <3>4. ASSUME NEW m \in DOMAIN stopped', NEW n \in DOMAIN stopped', m < n,
                 stopped'[m].pid = stopped'[n].pid
          PROVE  stopped'[m].start < stopped'[n].start
      <4>1. m \in 1..L /\ (n \in 1..L \/ n = L + 1)
        BY <3>1, <3>4
      <4>2. CASE n \in 1..L
        <5>1. stopped'[m] = stopped[m] /\ stopped'[n] = stopped[n]
          BY <3>1, <4>1, <4>2
        <5> QED
          BY <3>1, <3>4, <4>1, <4>2, <5>1 DEF SearchInv
      <4>3. CASE n = L + 1
        <5>1. stopped'[m] = stopped[m] /\ stopped'[n] = d.id
          BY <3>1, <4>1, <4>3
        <5>2. stopped[m] \in seen /\ stopped[m] # d.id /\ stopped[m] \in Ids
          BY <1>0, <3>1, <3>2, <4>1 DEF SearchInv, InStopped
        <5>3. stopped[m].start <= d.id.start
          BY <3>2, <3>4, <5>1, <5>2
        <5>4. stopped[m].start # d.id.start
          BY <2>2, <3>4, <5>1, <5>2 DEF Ids
        <5> QED
          BY <1>0, <2>2, <5>1, <5>2, <5>3, <5>4
      <4> QED
        BY <4>1, <4>2, <4>3
    <3>5. ASSUME NEW e \in queue'
          PROVE  e \in queue /\ e # d /\ ~InStopped(e.id)'
      <4>1. e \in queue /\ e # d
        BY <2>2
      <4>2. e.id # d.id /\ ~InStopped(e.id)
        BY <4>1 DEF SearchInv
      <4>3. ASSUME NEW n \in 1..(L + 1)
            PROVE  stopped'[n] # e.id
        <5>1. CASE n = L + 1
          BY <3>1, <4>2, <5>1
        <5>2. CASE n # L + 1
          <6>1. n \in 1..L
            BY <3>1, <5>2
          <6> QED
            BY <3>1, <4>2, <6>1 DEF InStopped
        <5> QED
          BY <5>1, <5>2
      <4> QED
        BY <3>1, <4>1, <4>3 DEF InStopped
    <3> QED
      BY <2>1, <2>2, <2>3, <3>3, <3>4, <3>5 DEF SearchInv
  <2> QED
    BY <2>2, <2>4, <2>5
<1>7. CASE Verify
  <2>1. UNCHANGED <<seen, queue, stopped, clean>> /\ pc = "verify" /\ proc' = proc
        /\ pc' \in {"leader", "kill"} /\ (pc' = "leader" => stopped = <<>>)
    BY <1>7 DEF Verify, kernel
  <2> QED
    BY <2>1 DEF SearchInv, InStopped
<1>8. CASE KillStopped
  <2>1. UNCHANGED <<seen, queue, clean>> /\ pc = "kill"
    BY <1>8 DEF KillStopped
  <2>2. \A id \in seen : id.pid # Leader /\ id.start <= proc'[id.pid].start
    <3> SUFFICES ASSUME NEW id \in seen
                 PROVE  id.pid # Leader /\ id.start <= proc'[id.pid].start
      OBVIOUS
    <3>1. id.pid # Leader /\ id.start <= proc[id.pid].start /\ id.pid \in Pids /\ id.start \in Nat
      BY <1>0 DEF SearchInv
    <3> QED
      BY <1>g, <3>1
  <2>3. CASE stopped = <<>>
    <3>1. pc' = "leader" /\ stopped' = stopped
      BY <1>8, <2>3 DEF KillStopped
    <3> QED
      BY <2>1, <2>2, <2>3, <3>1 DEF SearchInv, InStopped
  <2>4. CASE stopped # <<>>
    <3>1. /\ pc' = pc /\ stopped' \in Seq(Ids)
          /\ \A n \in DOMAIN stopped' : n \in DOMAIN stopped /\ stopped'[n] = stopped[n]
      BY <1>8, <2>4, KillStoppedEffect
    <3>2. queue = {}
      BY <2>1 DEF SearchInv
    <3> QED
      BY <2>1, <2>2, <3>1, <3>2 DEF SearchInv
  <2> QED
    BY <2>3, <2>4
<1> QED
  BY <1>2, <1>4, <1>5, <1>6, <1>7, <1>8, <1>9 DEF Next, killTree

\* AttachedInv for one process.
Hangs(p) == Attached(p) /\ proc[p].start # 1 => proc[p].ppid \in Pids /\ Attached(proc[p].ppid)

\* A birth below an attached process is attached.
LEMMA AttachedBirth ==
    ASSUME ConstantsOK, TypeInv, KernelInv, \A p \in Pids : Hangs(p),
           NEW c \in Pids, NEW par \in Pids \cup {InitProc}, Births(c, par),
           proc'[c].tree => par \in Pids /\ proc[par].state = "run" /\ proc[par].tree
                            /\ proc'[c].escaped = proc[par].escaped
    PROVE  \A p \in Pids : Hangs(p)'
<1> SUFFICES ASSUME NEW p \in Pids, Attached(p)', proc'[p].start # 1
             PROVE  proc'[p].ppid \in Pids /\ Attached(proc[p].ppid)'
  BY DEF Hangs
<1>1. ASSUME NEW q \in Pids, Attached(q)
      PROVE  q # c /\ Attached(q)'
  BY <1>1 DEF Attached, Live, Births, Exists
<1>2. CASE p = c
  <2>1. proc'[p].tree /\ ~proc'[p].escaped /\ proc'[p].ppid = par
    BY <1>2 DEF Attached, Births
  <2>2. par \in Pids /\ Attached(par)
    BY <1>2, <2>1 DEF Attached, Live
  <2>3. Attached(par)'
    BY <1>1, <2>2
  <2> QED
    BY <2>1, <2>2, <2>3 DEF Attached
<1>3. CASE p # c
  <2>1. proc'[p] = proc[p]
    BY <1>3 DEF Births
  <2>2. Attached(p)
    BY <2>1 DEF Attached, Live
  <2>3. proc[p].ppid \in Pids /\ Attached(proc[p].ppid)
    BY <2>1, <2>2 DEF Hangs
  <2>4. Attached(proc[p].ppid)'
    <3>1. PICK r \in Pids : r = proc[p].ppid /\ Attached(r)
      BY <2>3
    <3>2. proc'[p].ppid = r
      BY <2>1, <3>1
    <3>3. Attached(r)'
      BY <1>1, <3>1
    <3> QED
      BY <3>2, <3>3 DEF Attached, Live
  <2> QED
    BY <2>1, <2>3, <2>4
<1> QED
  BY <1>2, <1>3

\* A process that exits by itself takes what is below it out of the tree.
LEMMA AttachedDeath ==
    ASSUME ConstantsOK, TypeInv, KernelInv, \A p \in Pids : Hangs(p),
           NEW p \in Pids, NEW own \in BOOLEAN, own, Deaths(p, own)
    PROVE  \A q \in Pids : Hangs(q)'
<1> SUFFICES ASSUME NEW q \in Pids, Attached(q)', proc'[q].start # 1
             PROVE  proc'[q].ppid \in Pids /\ Attached(proc[q].ppid)'
  BY DEF Hangs
<1>0. ~Freed(q) /\ q # p
  BY DEF Attached, Live, Freed, Deaths
<1>1. /\ proc'[q].state = proc[q].state /\ Keeps(q) /\ ~proc[q].escaped
  BY <1>0 DEF Deaths, Attached
<1>2. Attached(q) /\ proc[q].start # 1 /\ Exists(q)
  BY <1>1 DEF Attached, Live, Keeps, Exists
<1>3. PICK r \in Pids : r = proc[q].ppid /\ Attached(r)
  BY <1>2 DEF Hangs
<1>4. r # p
  BY <1>0, <1>2, <1>3 DEF Deaths, Attached
<1>5. proc'[q].ppid = r
  BY <1>0, <1>3, <1>4 DEF Deaths
<1>6. ~\E n \in 1..MaxBirths : q \in Generation(p)[n]
  BY <1>0, <1>2 DEF Deaths, Attached
<1>7. ~(proc[r].ppid = p) /\ ~\E n \in 1..MaxBirths : r \in Generation(p)[n]
  <2>0. Exists(r)
    BY <1>3 DEF Attached, Live, Exists
  <2>1. ~\E n \in 1..MaxBirths : r \in Generation(p)[n]
    BY <1>2, <1>3, <1>6, BelowClosed
  <2> QED
    BY <1>3, <2>0, <2>1, BelowClosed
<1>8. proc'[r].state = proc[r].state /\ Keeps(r) /\ ~proc'[r].escaped
  BY <1>3, <1>4, <1>7 DEF Deaths, Attached
<1>9. Attached(r)'
  BY <1>3, <1>8 DEF Attached, Live, Keeps
<1> QED
  BY <1>3, <1>5, <1>9 DEF Attached, Live

\* Nothing else separates a process from its parent.
LEMMA AttachedOther ==
    ASSUME ConstantsOK, TypeInv, KernelInv, \A p \in Pids : Hangs(p),
           \/ \E p \in Pids : Reaps(p)
           \/ \E p \in Pids : Sets(p, "stop") \/ Sets(p, "run")
           \/ proc' = proc
    PROVE  \A q \in Pids : Hangs(q)'
<1> SUFFICES ASSUME NEW q \in Pids, Attached(q)', proc'[q].start # 1
             PROVE  proc'[q].ppid \in Pids /\ Attached(proc[q].ppid)'
  BY DEF Hangs
<1>1. /\ \A r \in Pids : Attached(r) => Attached(r)'
      /\ Attached(q) /\ proc'[q].start = proc[q].start /\ proc'[q].ppid = proc[q].ppid
  <2>1. CASE \E p \in Pids : Reaps(p)
    BY <2>1 DEF Reaps, Freed, Attached, Live
  <2>2. CASE \E p \in Pids : Sets(p, "stop") \/ Sets(p, "run")
    BY <2>2 DEF Sets, Attached, Live, Keeps
  <2>3. CASE proc' = proc
    BY <2>3 DEF Attached, Live
  <2> QED
    BY <2>1, <2>2, <2>3
<1>2. proc[q].ppid \in Pids /\ Attached(proc[q].ppid)
  BY <1>1 DEF Hangs
<1>3. PICK r \in Pids : r = proc[q].ppid /\ Attached(r) /\ proc'[q].ppid = r
  BY <1>1, <1>2
<1>4. Attached(r)'
  BY <1>1, <1>3
<1> QED
  BY <1>3, <1>4 DEF Attached, Live

\* The tree hangs together until the kill.
LEMMA AttachedStep ==
    ASSUME ConstantsOK, TypeInv, KernelInv, AttachedInv, Next
    PROVE  AttachedInv'
<1> SUFFICES ASSUME pc' \in {"idle", "table", "verify"}
             PROVE  \A p \in Pids : Hangs(p)'
  BY DEF AttachedInv, Hangs
<1>1. ASSUME pc \in {"idle", "table", "verify"}
      PROVE  \A p \in Pids : Hangs(p)
  BY <1>1 DEF AttachedInv, Hangs
<1>2. ASSUME NEW p \in Pids, Fork(p)
      PROVE  \A q \in Pids : Hangs(q)'
  <2>1. pc' = pc
    BY <1>2 DEF Fork
  <2>2. PICK c \in Pids : Births(c, p) /\ proc'[c].tree /\ proc'[c].escaped = proc[p].escaped
    BY <1>2, ForkEffect
  <2>3. proc[p].state = "run" /\ proc[p].tree /\ p \in Pids \cup {InitProc}
    BY <1>2, ForkEffect
  <2>4. \A q \in Pids : Hangs(q)
    BY <1>1, <2>1
  <2> QED
    BY <2>2, <2>3, <2>4, AttachedBirth
<1>3. CASE Stranger
  <2>1. pc' = pc
    BY <1>3 DEF Stranger
  <2>2. \A q \in Pids : Hangs(q)
    BY <1>1, <2>1
  <2> QED
    BY <1>3, <2>2, StrangerEffect, AttachedBirth
<1>4. ASSUME NEW p \in Pids, Exit(p)
      PROVE  \A q \in Pids : Hangs(q)'
  <2>1. pc' = pc
    BY <1>4 DEF Exit
  <2>2. \A q \in Pids : Hangs(q)
    BY <1>1, <2>1
  <2>3. PICK own \in BOOLEAN : own /\ Deaths(p, own)
    BY <1>4, ExitEffect
  <2> QED
    BY <2>2, <2>3, AttachedDeath
<1>5. ASSUME NEW p \in Pids, Reap(p) \/ Resume(p)
      PROVE  \A q \in Pids : Hangs(q)'
  <2>1. pc' = pc
    BY <1>5 DEF Reap, Resume
  <2>2. \A q \in Pids : Hangs(q)
    BY <1>1, <2>1
  <2> QED
    BY <1>5, <2>2, ReapEffects, ResumeEffect, AttachedOther
<1>6. CASE ReapLeader \/ Return \/ StopApply
  <2>1. pc' = pc
    BY <1>6 DEF ReapLeader, Return, StopApply
  <2>2. \A q \in Pids : Hangs(q)
    BY <1>1, <2>1
  <2>3. proc' = proc \/ \E p \in Pids : Reaps(p)
    BY <1>6, ReapEffects DEF Return, StopApply, kernel, ConstantsOK
  <2> QED
    BY <2>2, <2>3, AttachedOther
<1>7. CASE StopLeader \/ Freeze \/ Sigstop \/ Verify
  <2>1. pc \in {"idle", "table", "verify"}
    BY <1>7 DEF StopLeader, Freeze, Sigstop, Verify
  <2>2. \A q \in Pids : Hangs(q)
    BY <1>1, <2>1
  <2>3. proc' = proc \/ \E p \in Pids : Sets(p, "stop")
    <3>1. CASE StopLeader
      BY <3>1, StopLeaderEffect DEF ConstantsOK
    <3>2. CASE Sigstop
      BY <3>2, SigstopEffect
    <3>3. CASE Freeze \/ Verify
      BY <3>3 DEF Freeze, Verify, kernel
    <3> QED
      BY <1>7, <3>1, <3>2, <3>3
  <2> QED
    BY <2>2, <2>3, AttachedOther
<1>8. ~KillStopped /\ ~KillLeader
  BY DEF KillStopped, KillLeader
<1> QED
  BY <1>2, <1>3, <1>4, <1>5, <1>6, <1>7, <1>8 DEF Next, World, killTree

\* The verdict does not change after it.
LEMMA VerdictStep ==
    ASSUME ConstantsOK, TypeInv, KernelInv, VerdictInv, Next
    PROVE  VerdictInv'
<1>1. outcome = "none"
  BY DEF Next
<1>2. CASE World \/ ReapLeader \/ killTree
  <2>1. outcome' = outcome
    BY <1>2 DEF World, Fork, Stranger, Exit, Reap, Resume, StopApply, ReapLeader, killTree,
                StopLeader, Freeze, Sigstop, Verify, KillStopped, KillLeader
  <2> QED
    BY <1>1, <2>1 DEF VerdictInv
<1>3. CASE Return
  <2>1. outcome' \in {"stopped", runError} /\ exit' = exit /\ killed' = killed
    BY <1>3 DEF Return, kernel
  <2>2. runError' = runError
    BY <2>1 DEF runError
  <2> QED
    BY <2>1, <2>2 DEF VerdictInv
<1> QED
  BY <1>2, <1>3 DEF Next

\* Every process that an id names in the next state it names in this one.
LEMMA StillIs ==
    ASSUME ConstantsOK, TypeInv, KernelInv, StepOK, NEW id \in Ids, id.start <= proc[id.pid].start,
           Is(id)'
    PROVE  /\ Is(id) /\ id.pid \in Pids /\ Keeps(id.pid)
           /\ proc[id.pid].escaped => proc'[id.pid].escaped
           /\ proc'[id.pid].ppid \in {proc[id.pid].ppid, InitProc}
           /\ proc[id.pid].state = "zombie" => proc'[id.pid].state = "zombie"
           /\ proc'[id.pid].state = "zombie" => proc'[id.pid].ppid = proc[id.pid].ppid
           /\ proc'[id.pid].state = "run" => proc[id.pid].state = "run" \/ resumes' > 0
<1> DEFINE p == id.pid
<1>1. p \in Pids /\ id.start \in Nat
  BY DEF Ids
<1>2. Ages(p)
  BY <1>1, EveryoneAges
<1>3. proc[p].start \in Nat /\ proc[p].start <= births /\ births \in Nat
  BY <1>1, FieldTypes DEF KernelInv, Entry, TypeInv
<1>4. proc'[p].state # "free" /\ proc'[p].start = id.start
  BY DEF Is, Exists
<1> HIDE DEF p
<1>5. id.start <= proc[p].start
  BY DEF p
<1>6. id.start # births + 1
  BY <1>1, <1>3, <1>5
<1>7. /\ Exists(p) /\ Keeps(p)
      /\ proc[p].escaped => proc'[p].escaped
      /\ proc'[p].ppid \in {proc[p].ppid, InitProc}
      /\ proc[p].state = "zombie" => proc'[p].state = "zombie"
      /\ proc'[p].state = "zombie" => proc'[p].ppid = proc[p].ppid
      /\ proc'[p].state = "run" => proc[p].state = "run" \/ resumes' > 0
  BY <1>2, <1>4, <1>6 DEF Ages
<1>8. proc[p].start = id.start
  BY <1>4, <1>7 DEF Keeps
<1> QED
  BY <1>1, <1>7, <1>8 DEF p, Is

\* No process is stopped by the step.
StopsNone ==
    \A p \in Pids : proc'[p].state = "stop" => proc[p].state = "stop" /\ proc'[p].start = proc[p].start

\* A death stops nobody.
LEMMA DeathStopsNone ==
    ASSUME NEW p \in Pids, NEW own \in BOOLEAN, Deaths(p, own)
    PROVE  StopsNone /\ proc'[p].state # "stop"
<1>1. proc'[p].state # "stop"
  BY DEF Deaths, Freed
<1>2. ASSUME NEW q \in Pids \ {p}
      PROVE  proc'[q].state = "stop" => proc[q].state = "stop" /\ proc'[q].start = proc[q].start
  BY DEF Deaths, Freed, Keeps
<1> QED
  BY <1>1, <1>2 DEF StopsNone

\* Only killTree's SIGSTOPs stop.
LEMMA NoNewStops ==
    ASSUME ConstantsOK, TypeInv, KernelInv,
           World \/ ReapLeader \/ Return \/ KillStopped \/ KillLeader \/ Freeze \/ Verify
    PROVE  StopsNone
<1>0. CASE proc' = proc
  BY <1>0 DEF StopsNone
<1>1. CASE \E c \in Pids : \E par \in Pids \cup {InitProc} : Births(c, par)
  BY <1>1 DEF StopsNone, Births
<1>2. CASE \E p \in Pids : \E own \in BOOLEAN : Deaths(p, own)
  BY <1>2, DeathStopsNone
<1>3. CASE \E p \in Pids : Reaps(p) \/ Sets(p, "run")
  BY <1>3 DEF StopsNone, Reaps, Freed, Sets, Keeps
<1>4. ASSUME NEW p \in Pids, Fork(p) \/ Exit(p) \/ Reap(p) \/ Resume(p)
      PROVE  StopsNone
  BY <1>4, <1>1, <1>2, <1>3, ForkEffect, ExitEffect, ReapEffects, ResumeEffect
<1>5. CASE Stranger \/ StopApply \/ ReapLeader \/ Return
  BY <1>5, <1>0, <1>1, <1>3, StrangerEffect, ReapEffects DEF StopApply, Return, kernel, ConstantsOK
<1>6. CASE KillStopped
  <2>1. CASE stopped = <<>>
    BY <1>0, <1>6, <2>1 DEF KillStopped
  <2>2. CASE stopped # <<>>
    <3> DEFINE id == stopped[Len(stopped)]
    <3>1. id.pid \in Pids /\ (proc' = proc \/ \E own \in BOOLEAN : Deaths(id.pid, own))
      BY <1>6, <2>2, KillStoppedEffect
    <3> HIDE DEF id
    <3> QED
      BY <1>0, <1>2, <3>1
  <2> QED
    BY <2>1, <2>2
<1>7. CASE KillLeader
  BY <1>0, <1>2, <1>7, KillLeaderEffect DEF ConstantsOK
<1>8. CASE Freeze \/ Verify
  BY <1>0, <1>8 DEF Freeze, Verify, kernel
<1> QED
  BY <1>4, <1>5, <1>6, <1>7, <1>8 DEF World

\* Facts about the lists that several proofs need.
LEMMA ListTypes ==
    ASSUME TypeInv, SearchInv
    PROVE  /\ stopped \in Seq(Ids) /\ \A n \in DOMAIN stopped : stopped[n] \in Ids /\ stopped[n] \in seen
           /\ \A id \in Ids : id.pid \in Pids /\ id.start \in Nat
           /\ \A id \in seen : id \in Ids /\ id.pid # Leader /\ id.start <= proc[id.pid].start
           /\ \A d \in queue : d.id \in Ids /\ d.id \in seen /\ d.depth \in Nat
BY DEF TypeInv, SearchInv, Ids

\* The last process that was stopped is the last of its pid.
LEMMA LastOfItsPid ==
    ASSUME ConstantsOK, TypeInv, KernelInv, SearchInv, NEW n \in DOMAIN stopped, n # Len(stopped),
           Is(stopped[n])
    PROVE  stopped[n].pid # stopped[Len(stopped)].pid
<1> DEFINE L == Len(stopped)
<1>1. L \in DOMAIN stopped /\ n < L
  BY ListTypes
<1> HIDE DEF L
<1>2. stopped[L].start <= proc[stopped[L].pid].start /\ stopped[L].start \in Nat
      /\ stopped[n].start \in Nat /\ stopped[L].pid \in Pids
  BY <1>1, ListTypes
<1>3. stopped[n].start = proc[stopped[n].pid].start
  BY DEF Is
<1>4. stopped[n].pid = stopped[L].pid => stopped[n].start < stopped[L].start
  BY <1>1 DEF SearchInv
<1>5. proc[stopped[L].pid].start \in Nat
  BY <1>2, FieldTypes
<1>6. stopped[n].pid # stopped[L].pid
  BY <1>2, <1>3, <1>4, <1>5
<1> QED
  BY <1>6 DEF L

\* An append keeps what was in the list and adds one.
LEMMA Appended ==
    ASSUME stopped \in Seq(Ids), NEW x \in Ids, stopped' = Append(stopped, x)
    PROVE  /\ Len(stopped) \in Nat /\ DOMAIN stopped = 1..Len(stopped)
           /\ DOMAIN stopped' = 1..(Len(stopped) + 1)
           /\ \A n \in DOMAIN stopped : stopped'[n] = stopped[n]
           /\ stopped'[Len(stopped) + 1] = x
           /\ \A id : InStopped(id)' <=> InStopped(id) \/ id = x
<1> DEFINE L == Len(stopped)
<1>1. /\ L \in Nat /\ DOMAIN stopped = 1..L /\ DOMAIN stopped' = 1..(L + 1)
      /\ \A n \in 1..L : stopped'[n] = stopped[n]
      /\ stopped'[L + 1] = x
  OBVIOUS
<1> HIDE DEF L
<1>2. ASSUME NEW id
      PROVE  InStopped(id)' <=> InStopped(id) \/ id = x
  <2>1. \A n \in 1..(L + 1) : n = L + 1 \/ n \in 1..L
    BY <1>1
  <2>2. L + 1 \in 1..(L + 1) /\ \A n \in 1..L : n \in 1..(L + 1)
    BY <1>1
  <2> QED
    BY <1>1, <2>1, <2>2 DEF InStopped
<1> QED
  BY <1>1, <1>2 DEF L

\* What is stopped is on the list or will be.
LEMMA Listed ==
    ASSUME ConstantsOK, TypeInv, KernelInv, SearchInv, StopInv, Next
    PROVE  \A id \in seen' : Is(id)' /\ proc'[id.pid].state = "stop" => InStopped(id)' \/ Queued(id)'
<1>0. StepOK
  BY NextStepOK
<1>1. ASSUME NEW id \in seen, StopsNone, Is(id)', proc'[id.pid].state = "stop"
      PROVE  Is(id) /\ proc[id.pid].state = "stop" /\ (InStopped(id) \/ Queued(id))
  <2>1. id \in Ids /\ id.pid \in Pids /\ id.start <= proc[id.pid].start
    BY ListTypes
  <2>2. Is(id)
    BY <1>0, <1>1, <2>1, StillIs
  <2> QED
    BY <1>1, <2>1, <2>2 DEF StopsNone, StopInv
<1>2. CASE World \/ ReapLeader \/ Return \/ KillLeader \/ Verify
  <2>1. seen' = seen /\ queue' = queue /\ stopped' = stopped
    BY <1>2 DEF World, Fork, Stranger, Exit, Reap, Resume, StopApply, ReapLeader, Return, KillLeader,
                Verify, search
  <2>2. StopsNone
    BY <1>2, NoNewStops
  <2> QED
    BY <1>1, <2>1, <2>2 DEF InStopped, Queued
<1>3. CASE StopLeader
  <2>1. seen' = {}
    BY <1>3 DEF StopLeader, SearchInv, search
  <2> QED
    BY <2>1
<1>4. CASE Freeze
  <2>1. StopsNone /\ queue = {} /\ stopped' = stopped
    BY <1>4, NoNewStops DEF Freeze
  <2>2. \/ seen' = seen
        \/ \E fresh \in SUBSET descendants : queue' = fresh /\ seen' = seen \cup {d.id : d \in fresh}
    BY <1>4 DEF Freeze
  <2>3. ASSUME NEW id \in seen'
        PROVE  id \in seen \/ Queued(id)'
    BY <2>2 DEF Queued
  <2>4. ASSUME NEW id \in seen, Is(id)', proc'[id.pid].state = "stop"
        PROVE  InStopped(id)'
    BY <1>1, <2>1, <2>4 DEF InStopped, Queued
  <2> QED
    BY <2>3, <2>4
<1>5. CASE Sigstop
  <2>1. PICK d \in queue :
          /\ d.id \in Ids /\ d.id.pid \in Pids
          /\ queue' = queue \ {d}
          /\ \/ /\ Signallable(d.id.pid) /\ stopped' = Append(stopped, d.id)
                /\ proc' = proc \/ Sets(d.id.pid, "stop")
             \/ ~Signallable(d.id.pid) /\ proc' = proc /\ stopped' = stopped
    BY <1>5, SigstopEffect
  <2>2. seen' = seen
    BY <1>5 DEF Sigstop
  <2> SUFFICES ASSUME NEW id \in seen, Is(id)', proc'[id.pid].state = "stop"
               PROVE  InStopped(id)' \/ Queued(id)'
    BY <2>2
  <2>3. id \in Ids /\ id.pid \in Pids /\ id.start \in Nat /\ id.start <= proc[id.pid].start
    BY ListTypes
  <2>4. Is(id)
    BY <1>0, <2>3, StillIs
  <2>5. Queued(id) => id = d.id \/ Queued(id)'
    BY <2>1 DEF Queued
  <2>6. CASE Signallable(d.id.pid) /\ stopped' = Append(stopped, d.id)
    <3>1. stopped \in Seq(Ids)
      BY DEF TypeInv
    <3>2. InStopped(id)' <=> InStopped(id) \/ id = d.id
      BY <2>1, <2>6, <3>1, Appended
    <3>3. CASE id.pid = d.id.pid
      <4>1. id.start <= d.id.start /\ d.id.start <= proc[d.id.pid].start /\ d.id.start \in Nat
        BY <2>1, <3>3, ListTypes DEF SearchInv
      <4>2. id.start = d.id.start
        BY <2>3, <2>4, <3>3, <4>1 DEF Is
      <4>3. id = d.id
        BY <2>1, <2>3, <3>3, <4>2 DEF Ids
      <4> QED
        BY <3>2, <4>3
    <3>4. CASE id.pid # d.id.pid
      <4>1. proc'[id.pid] = proc[id.pid]
        BY <2>1, <2>3, <2>6, <3>4 DEF Sets
      <4>2. InStopped(id) \/ Queued(id)
        BY <2>4, <4>1 DEF StopInv
      <4> QED
        BY <2>5, <3>2, <4>2
    <3> QED
      BY <3>3, <3>4
  <2>7. CASE ~Signallable(d.id.pid) /\ proc' = proc /\ stopped' = stopped
    <3>1. InStopped(id) \/ Queued(id)
      BY <2>4, <2>7 DEF StopInv
    <3>2. id # d.id
      <4>1. proc[id.pid].state = "stop" => ~proc[id.pid].eperm
        BY <2>3 DEF KernelInv, Entry
      <4> QED
        BY <2>4, <2>7, <4>1 DEF Signallable, Is
    <3> QED
      BY <2>5, <2>7, <3>1, <3>2 DEF InStopped
  <2> QED
    BY <2>1, <2>6, <2>7
<1>6. CASE KillStopped
  <2>1. seen' = seen /\ queue' = queue /\ queue = {} /\ pc = "kill"
    BY <1>6 DEF KillStopped, SearchInv
  <2>2. StopsNone
    BY <1>6, NoNewStops
  <2> SUFFICES ASSUME NEW id \in seen, Is(id)', proc'[id.pid].state = "stop"
               PROVE  InStopped(id)'
    BY <2>1
  <2>3. Is(id) /\ proc[id.pid].state = "stop" /\ InStopped(id) /\ id.pid \in Pids
    BY <1>1, <2>1, <2>2, ListTypes DEF Queued
  <2>4. PICK n \in DOMAIN stopped : stopped[n] = id
    BY <2>3 DEF InStopped
  <2>5. stopped # <<>>
    BY <2>4
  <2>6. CASE n = Len(stopped)
    <3>1. id = stopped[Len(stopped)] /\ Live(id.pid)
      BY <2>3, <2>4, <2>6 DEF Live
    <3>2. \/ \E own \in BOOLEAN : Deaths(id.pid, own)
          \/ ~(current.read => id \in current.ids) \/ ~Signallable(id.pid)
      BY <1>6, <2>5, <3>1, KillStoppedEffect
    <3>3. current.read => id \in current.ids
      BY <2>1, <2>3, <2>4 DEF StopInv
    <3>4. Signallable(id.pid)
      BY <2>3 DEF Signallable, KernelInv, Entry, Is
    <3>5. proc'[id.pid].state # "stop"
      BY <2>3, <3>2, <3>3, <3>4, DeathStopsNone
    <3> QED
      BY <3>5
  <2>7. CASE n # Len(stopped)
    <3>1. /\ Len(stopped') = Len(stopped) - 1 /\ stopped' \in Seq(Ids)
          /\ \A m \in DOMAIN stopped' : stopped'[m] = stopped[m]
      BY <1>6, <2>5, KillStoppedEffect
    <3>2. n \in DOMAIN stopped'
      BY <2>7, <3>1, ListTypes
    <3> QED
      BY <2>4, <3>1, <3>2 DEF InStopped
  <2> QED
    BY <2>6, <2>7
<1> QED
  BY <1>2, <1>3, <1>4, <1>5, <1>6 DEF Next, killTree

\* Nothing is stopped and forgotten.
LEMMA StopStep ==
    ASSUME ConstantsOK, TypeInv, KernelInv, SearchInv, StopInv, Next
    PROVE  StopInv'
<1>0. StepOK
  BY NextStepOK
<1>1. ASSUME pc' = "kill", current'.read
      PROVE  \A n \in DOMAIN stopped' : Is(stopped[n])' => stopped'[n] \in current'.ids
  <2>1. CASE pc = "kill"
    <3>1. current' = current
      BY <1>1, <2>1 DEF Next, World, Fork, Stranger, Exit, Reap, Resume, StopApply, ReapLeader, Return,
            killTree, StopLeader, Freeze, Sigstop, Verify, KillStopped, KillLeader, search
    <3>2. \A n \in DOMAIN stopped' : n \in DOMAIN stopped /\ stopped'[n] = stopped[n]
      <4>1. CASE KillStopped
        <5>1. stopped # <<>>
          BY <1>1, <4>1 DEF KillStopped
        <5> QED
          BY <4>1, <5>1, KillStoppedEffect
      <4>2. CASE ~KillStopped
        <5>1. stopped' = stopped
          BY <1>1, <2>1, <4>2 DEF Next, World, Fork, Stranger, Exit, Reap, Resume, StopApply, ReapLeader,
              Return, killTree, StopLeader, Freeze, Sigstop, Verify, KillLeader, search
        <5> QED
          BY <5>1
      <4> QED
        BY <4>1, <4>2
    <3> SUFFICES ASSUME NEW n \in DOMAIN stopped', Is(stopped[n])'
                 PROVE  stopped'[n] \in current'.ids
      OBVIOUS
    <3>3. PICK id \in Ids : id = stopped[n] /\ id = stopped'[n] /\ id.start <= proc[id.pid].start
      BY <3>2, ListTypes
    <3>4. Is(id)'
      BY <3>3 DEF Is, Exists
    <3>5. Is(id)
      BY <1>0, <3>3, <3>4, StillIs
    <3> QED
      BY <1>1, <2>1, <3>1, <3>2, <3>3, <3>5 DEF StopInv
  <2>2. CASE pc # "kill"
    <3>1. Verify
      BY <1>1, <2>2 DEF Next, World, Fork, Stranger, Exit, Reap, Resume, StopApply, ReapLeader, Return,
            killTree, StopLeader, Freeze, Sigstop, KillStopped, KillLeader
    <3>2. stopped' = stopped /\ proc' = proc /\ stopped # <<>>
      BY <1>1, <3>1 DEF Verify, kernel
    <3>3. current'.ids = {Id(p) : p \in {q \in Pids : Exists(q)}}
      BY <1>1, <3>1, <3>2 DEF Verify, NoTable
    <3> SUFFICES ASSUME NEW n \in DOMAIN stopped, Is(stopped[n])
                 PROVE  stopped[n] \in current'.ids
      BY <3>2 DEF Is, Exists
    <3>4. stopped[n] \in Ids /\ stopped[n].pid \in Pids
      BY ListTypes
    <3>5. stopped[n] = Id(stopped[n].pid)
      BY <3>4 DEF Ids, Is, Id
    <3> QED
      BY <3>3, <3>4, <3>5 DEF Is
  <2> QED
    BY <2>1, <2>2
<1>2. ASSUME proc'[Leader].start = 1, proc'[Leader].state = "stop"
      PROVE  pc' \notin {"idle", "done"}
  <2>0. Leader \in Pids
    BY DEF ConstantsOK
  <2>1. CASE World \/ ReapLeader \/ Return
    <3>1. pc' = pc
      BY <2>1 DEF World, Fork, Stranger, Exit, Reap, Resume, StopApply, ReapLeader, Return
    <3>2. StopsNone
      BY <2>1, NoNewStops
    <3> QED
      BY <1>2, <2>0, <3>1, <3>2 DEF StopsNone, StopInv
  <2>2. CASE StopLeader
    BY <1>2, <2>2, StopLeaderEffect DEF LeaderReaped, Exists
  <2>3. CASE Freeze \/ Sigstop \/ Verify
    BY <2>3 DEF Freeze, Sigstop, Verify
  <2>4. CASE KillStopped
    BY <2>4 DEF KillStopped
  <2>5. CASE KillLeader
    <3>1. CASE proc' = proc
      <4>1. ~LeaderReaped /\ Live(Leader) /\ ~proc[Leader].eperm
        BY <1>2, <2>0, <3>1 DEF LeaderReaped, Live, Exists, KernelInv, Entry
      <4>2. \E own \in BOOLEAN : Deaths(Leader, own)
        BY <2>5, <4>1, KillLeaderEffect DEF Signallable, LeaderReaped
      <4> QED
        BY <1>2, <2>0, <4>2, DeathStopsNone
    <3>2. CASE proc' # proc
      <4>1. \E own \in BOOLEAN : Deaths(Leader, own)
        BY <2>5, <3>2, KillLeaderEffect
      <4> QED
        BY <1>2, <2>0, <4>1, DeathStopsNone
    <3> QED
      BY <3>1, <3>2
  <2> QED
    BY <2>1, <2>2, <2>3, <2>4, <2>5 DEF Next, killTree
<1>3. \A id \in seen' : Is(id)' /\ proc'[id.pid].state = "stop" => InStopped(id)' \/ Queued(id)'
  BY Listed
<1> QED
  BY <1>1, <1>2, <1>3 DEF StopInv

(***************************************************************************)
(* The hold                                                                *)
(***************************************************************************)
\* What is calm was calm.
LEMMA WasCalm ==
    ASSUME ConstantsOK, TypeInv, KernelInv, StepOK, Calm'
    PROVE  Calm /\ resumes' = 0
<1>1. Leader \in Pids /\ Ages(Leader) /\ births \in 1..MaxBirths /\ resumes \in Nat
  BY EveryoneAges DEF ConstantsOK, KernelInv, TypeInv
<1>2. ~suid' /\ resumes' = 0 /\ proc'[Leader].start = 1
  BY DEF Calm
<1>3. ~suid /\ resumes = 0
  BY <1>1, <1>2 DEF StepOK
<1>4. births + 1 # 1
  BY <1>1
<1>5. proc[Leader].start = 1
  BY <1>1, <1>2, <1>4 DEF Ages, Keeps
<1> QED
  BY <1>2, <1>3, <1>5 DEF Calm

\* The id of a process that exists stays its own.
LEMMA SameId ==
    ASSUME ConstantsOK, TypeInv, KernelInv, StepOK, NEW r \in Pids, Exists(r)
    PROVE  Id(r)' = Id(r) /\ proc'[r].start = proc[r].start
<1>1. proc'[r].start = proc[r].start
  BY EveryoneAges DEF Ages, Keeps
<1> QED
  BY <1>1 DEF Id

\* A process on the list is stopped or a zombie below one that is.
LEMMA HeldNow ==
    ASSUME ConstantsOK, TypeInv, KernelInv, SearchInv, HoldInv, Calm,
           NEW n \in DOMAIN stopped, Is(stopped[n])
    PROVE  \E p \in Pids :
              /\ p = stopped[n].pid /\ p # Leader /\ Exists(p) /\ proc[p].state # "run"
              /\ proc[p].state = "zombie" =>
                    \E r \in Pids :
                       /\ r = proc[p].ppid /\ proc[r].state # "run" /\ Exists(r)
                       /\ r = Leader \/ \E m \in 1..(n - 1) : stopped[m] = Id(r)
<1>1. PICK p \in Pids : p = stopped[n].pid /\ p # Leader /\ Exists(p)
  BY ListTypes DEF Is
<1>2. /\ proc[p].state # "run"
      /\ proc[p].state = "zombie" =>
            proc[p].ppid = Leader \/ \E m \in 1..(n - 1) : stopped[m] = Id(proc[p].ppid)
  BY <1>1 DEF HoldInv, Parent
<1>3. ASSUME proc[p].state = "zombie"
      PROVE  \E r \in Pids :
                /\ r = proc[p].ppid /\ proc[r].state # "run" /\ Exists(r)
                /\ r = Leader \/ \E m \in 1..(n - 1) : stopped[m] = Id(r)
  <2>1. CASE proc[p].ppid = Leader
    <3>1. pc \notin {"idle", "done"}
      BY DEF SearchInv
    <3>2. proc[Leader].state # "run" /\ Leader \in Pids
      BY <3>1 DEF HoldInv, ConstantsOK
    <3>3. Exists(Leader)
      BY <2>1, <3>2 DEF KernelInv, Entry, Live, Exists
    <3> QED
      BY <2>1, <3>2, <3>3
  <2>2. ASSUME NEW m \in 1..(n - 1), stopped[m] = Id(proc[p].ppid)
        PROVE  \E r \in Pids :
                  /\ r = proc[p].ppid /\ proc[r].state # "run" /\ Exists(r)
                  /\ r = Leader \/ \E k \in 1..(n - 1) : stopped[k] = Id(r)
    <3>1. m \in DOMAIN stopped
      BY ListTypes
    <3>2. stopped[m].pid = proc[p].ppid /\ stopped[m].start = proc[proc[p].ppid].start
          /\ stopped[m].pid \in Pids
      BY <2>2, <3>1, ListTypes DEF Id
    <3>3. Exists(proc[p].ppid)
      BY <1>1, <3>2 DEF KernelInv, Entry, Live, Exists
    <3>4. Is(stopped[m])
      BY <3>2, <3>3 DEF Is
    <3>5. proc[stopped[m].pid].state # "run"
      BY <3>1, <3>4 DEF HoldInv
    <3> QED
      BY <2>2, <3>2, <3>3, <3>5
  <2> QED
    BY <1>2, <1>3, <2>1, <2>2
<1> QED
  BY <1>1, <1>2, <1>3

\* Nothing but killTree moves what is held.
LEMMA WorldHolds ==
    ASSUME ConstantsOK, TypeInv, KernelInv, World \/ ReapLeader \/ Return, resumes' = 0,
           NEW p \in Pids, p # Leader, Exists(p), proc[p].state # "run",
           proc[p].state = "zombie" => proc[p].ppid \in Pids /\ proc[proc[p].ppid].state # "run"
    PROVE  proc'[p].state = proc[p].state /\ proc'[p].start = proc[p].start
<1>0. resumes \in Nat
  BY DEF TypeInv
<1>1. CASE \E c \in Pids : \E par \in Pids \cup {InitProc} : Births(c, par)
  BY <1>1 DEF Births
<1>2. ASSUME NEW q \in Pids, Exit(q)
      PROVE  proc'[p].state = proc[p].state /\ proc'[p].start = proc[p].start
  <2>1. PICK own \in BOOLEAN : Deaths(q, own)
    BY <1>2, ExitEffect
  <2>2. q # p /\ proc[q].state = "run"
    BY <1>2, ExitEffect
  <2>3. proc[p].ppid = q => proc[p].state # "zombie"
    BY <2>2
  <2> QED
    BY <2>1, <2>2, <2>3 DEF Deaths, Keeps
<1>3. ASSUME NEW q \in Pids, Reap(q)
      PROVE  proc'[p].state = proc[p].state /\ proc'[p].start = proc[p].start
  <2>1. Reaps(q) /\ proc[q].state = "zombie" /\ proc[proc[q].ppid].state = "run"
    BY <1>3, ReapEffects DEF Reaps
  <2>2. q # p
    BY <2>1
  <2> QED
    BY <2>1, <2>2 DEF Reaps
<1>4. ASSUME NEW q \in Pids
      PROVE  ~Resume(q)
  BY <1>0, ResumeEffect
<1>5. CASE ReapLeader
  BY <1>5, ReapEffects DEF Reaps
<1>6. CASE Return \/ StopApply
  BY <1>6 DEF Return, StopApply, kernel
<1> QED
  BY <1>1, <1>2, <1>3, <1>4, <1>5, <1>6, ForkEffect, StrangerEffect DEF World

\* What is on the list before and after a step exists after it, and is a
\* zombie only if it was one.
LEMMA HoldsOn ==
    ASSUME ConstantsOK, TypeInv, KernelInv, SearchInv, HoldInv, Calm, resumes' = 0, Next,
           NEW n \in DOMAIN stopped, n \in DOMAIN stopped', stopped'[n] = stopped[n], Is(stopped[n])
    PROVE  /\ Is(stopped[n])'
           /\ proc'[stopped[n].pid].state = "zombie" => proc[stopped[n].pid].state = "zombie"
<1> SUFFICES \E p \in Pids : /\ p = stopped[n].pid /\ proc'[p].start = proc[p].start
                             /\ proc'[p].state # "free"
                             /\ proc'[p].state = "zombie" => proc[p].state = "zombie"
  BY DEF Is, Exists
<1>1. PICK p \in Pids :
         /\ p = stopped[n].pid /\ p # Leader /\ Exists(p) /\ proc[p].state # "run"
         /\ proc[p].state = "zombie" =>
               \E r \in Pids :
                  /\ r = proc[p].ppid /\ proc[r].state # "run" /\ Exists(r)
                  /\ r = Leader \/ \E m \in 1..(n - 1) : stopped[m] = Id(r)
  BY HeldNow
<1> SUFFICES /\ proc'[p].start = proc[p].start /\ proc'[p].state # "free"
             /\ proc'[p].state = "zombie" => proc[p].state = "zombie"
  BY <1>1
<1>2. CASE World \/ ReapLeader \/ Return
  <2>1. proc[p].state = "zombie" => proc[p].ppid \in Pids /\ proc[proc[p].ppid].state # "run"
    BY <1>1
  <2>2. proc'[p].state = proc[p].state /\ proc'[p].start = proc[p].start
    BY <1>1, <1>2, <2>1, WorldHolds
  <2> QED
    BY <1>1, <2>2 DEF Exists
<1>3. CASE \/ proc' = proc
           \/ \E q \in Pids : Sets(q, "stop")
  BY <1>1, <1>3 DEF Sets, Keeps, Exists
<1>4. CASE KillStopped
  <2>1. stopped # <<>>
    OBVIOUS
  <2>2. PICK x \in Pids : x = stopped[Len(stopped)].pid
                          /\ (proc' = proc \/ \E own \in BOOLEAN : Deaths(x, own))
    BY <1>4, <2>1, KillStoppedEffect
  <2>3. n # Len(stopped) /\ n < Len(stopped)
    <3>1. /\ stopped' \in Seq(Ids) /\ Len(stopped') = Len(stopped) - 1 /\ stopped \in Seq(Ids)
      BY <1>4, <2>1, KillStoppedEffect, ListTypes
    <3> QED
      BY <3>1
  <2>4. x # p
    BY <1>1, <2>2, <2>3, LastOfItsPid
  <2>5. proc[p].state = "zombie" => proc[p].ppid # x
    <3> SUFFICES ASSUME proc[p].state = "zombie", proc[p].ppid = x
                 PROVE  FALSE
      OBVIOUS
    <3>1. x # Leader
      BY <2>1, <2>2, ListTypes
    <3>2. PICK m \in 1..(n - 1) : stopped[m] = Id(x) /\ Exists(x)
      BY <1>1, <3>1
    <3>3. m \in DOMAIN stopped /\ m # Len(stopped)
      BY <2>3, ListTypes
    <3>4. Is(stopped[m]) /\ stopped[m].pid = x
      BY <3>2 DEF Is, Id
    <3> QED
      BY <2>2, <3>3, <3>4, LastOfItsPid
  <2>6. CASE \E own \in BOOLEAN : Deaths(x, own)
    BY <1>1, <2>4, <2>5, <2>6 DEF Deaths, Keeps, Exists
  <2> QED
    BY <1>3, <2>2, <2>6
<1>5. ~KillLeader
  BY DEF KillLeader, SearchInv
<1>6. CASE StopLeader \/ Sigstop \/ Freeze \/ Verify
  BY <1>3, <1>6, StopLeaderEffect, SigstopEffect DEF Freeze, Verify, kernel, ConstantsOK
<1> QED
  BY <1>2, <1>4, <1>5, <1>6 DEF Next, killTree

\* A step in which the hold must be kept.
HoldContext ==
    /\ ConstantsOK /\ TypeInv /\ KernelInv /\ SearchInv /\ StopInv /\ HoldInv
    /\ Next /\ Calm' /\ TypeInv' /\ KernelInv' /\ SearchInv'

\* What such a step may use.
LEMMA Contextual ==
    ASSUME HoldContext
    PROVE  /\ ConstantsOK /\ TypeInv /\ KernelInv /\ SearchInv /\ HoldInv /\ Next /\ StepOK
           /\ Calm /\ resumes' = 0 /\ Leader \in Pids
           /\ \A p \in Pids : ~proc[p].eperm
<1>1. /\ ConstantsOK /\ TypeInv /\ KernelInv /\ SearchInv /\ HoldInv /\ Next /\ Calm'
  BY DEF HoldContext
<1>2. StepOK
  BY <1>1, NextStepOK
<1>3. Calm /\ resumes' = 0
  BY <1>1, <1>2, WasCalm
<1>4. \A p \in Pids : ~proc[p].eperm
  BY <1>1, <1>3 DEF Calm, KernelInv, Entry
<1> QED
  BY <1>1, <1>2, <1>3, <1>4 DEF ConstantsOK

\* The leader does not run before killTree is over.
LEMMA LeaderHeld ==
    ASSUME HoldContext, pc' \notin {"idle", "done"}
    PROVE  proc'[Leader].state # "run"
<1>0. /\ ConstantsOK /\ TypeInv /\ KernelInv /\ SearchInv /\ HoldInv /\ Next /\ StepOK
      /\ Calm /\ resumes' = 0 /\ Leader \in Pids
      /\ \A p \in Pids : ~proc[p].eperm
  BY Contextual
<1>1. CASE StopLeader
  <2>1. ~LeaderReaped => Signallable(Leader)
    BY <1>0 DEF LeaderReaped, Signallable
  <2> QED
    BY <1>0, <1>1, <2>1, StopLeaderEffect
<1>2. CASE ~StopLeader
  <2>1. pc \notin {"idle", "done"}
    BY <1>0, <1>2 DEF Next, World, Fork, Stranger, Exit, Reap, Resume, StopApply, ReapLeader, Return,
        killTree, Freeze, Sigstop, Verify, KillStopped, KillLeader
  <2>2. proc[Leader].state # "run"
    BY <1>0, <2>1 DEF HoldInv
  <2>3. Ages(Leader) /\ births \in 1..MaxBirths
    BY <1>0, EveryoneAges DEF KernelInv
  <2>4. proc'[Leader].start = 1
    BY DEF HoldContext, Calm
  <2> QED
    BY <1>0, <2>2, <2>3, <2>4 DEF Ages
<1> QED
  BY <1>1, <1>2

\* What the search has found is of the tree and stopped, or about to be.
LEMMA FoundAreOurs ==
    ASSUME HoldContext, NEW id \in seen', Is(id)'
    PROVE  proc'[id.pid].tree /\ (pc' \in {"table", "verify"} => InStopped(id)' \/ Queued(id)')
<1>0. /\ ConstantsOK /\ TypeInv /\ KernelInv /\ SearchInv /\ HoldInv /\ Next /\ StepOK
      /\ Calm /\ resumes' = 0 /\ Leader \in Pids
      /\ \A p \in Pids : ~proc[p].eperm
  BY Contextual
<1>1. ASSUME id \in seen
      PROVE  Is(id) /\ proc'[id.pid].tree /\ id \in Ids /\ id.pid \in Pids
             /\ (pc \in {"table", "verify"} => InStopped(id) \/ Queued(id))
  <2>1. id \in Ids /\ id.start <= proc[id.pid].start
    BY <1>0, <1>1, ListTypes
  <2>2. Is(id) /\ Keeps(id.pid) /\ id.pid \in Pids
    BY <1>0, <2>1, StillIs
  <2>3. proc[id.pid].tree
    BY <1>0, <1>1, <2>2 DEF HoldInv
  <2>4. pc \in {"table", "verify"} => InStopped(id) \/ Queued(id)
    BY <1>0, <1>1, <2>2 DEF HoldInv
  <2> QED
    BY <2>1, <2>2, <2>3, <2>4 DEF Keeps
<1>2. CASE World \/ ReapLeader \/ Return
  <2>1. seen' = seen /\ queue' = queue /\ stopped' = stopped /\ pc' = pc
    BY <1>2 DEF World, Fork, Stranger, Exit, Reap, Resume, StopApply, ReapLeader, Return, search
  <2> QED
    BY <1>1, <2>1 DEF InStopped, Queued
<1>3. CASE StopLeader
  <2>1. seen' = {}
    BY <1>0, <1>3 DEF StopLeader, SearchInv, search
  <2> QED
    BY <2>1
<1>4. CASE Freeze
  <2>1. queue = {} /\ stopped' = stopped /\ proc' = proc /\ pc = "table"
    BY <1>4 DEF Freeze, kernel
  <2>2. id \in seen \/ \E d \in descendants : d \in queue' /\ d.id = id
    BY <1>4 DEF Freeze
  <2>3. CASE id \in seen
    BY <1>1, <2>1, <2>3 DEF InStopped, Queued
  <2>4. ASSUME NEW d \in descendants, d \in queue', d.id = id
        PROVE  proc'[id.pid].tree /\ Queued(id)'
    <3>1. Queued(id)'
      BY <2>4 DEF Queued
    <3>2. d.id.pid \in Pids /\ proc[d.id.pid].tree = proc[Leader].tree /\ Live(Leader)
      BY <1>0, Found
    <3>3. proc[Leader].tree
      BY <1>0, <3>2 DEF Calm, KernelInv, Entry, Live, Exists
    <3> QED
      BY <2>1, <2>4, <3>1, <3>2, <3>3
  <2> QED
    BY <2>2, <2>3, <2>4
<1>5. CASE Sigstop
  <2>1. PICK d \in queue :
          /\ d.id \in Ids /\ d.id.pid \in Pids
          /\ queue' = queue \ {d}
          /\ \/ Signallable(d.id.pid) /\ stopped' = Append(stopped, d.id)
             \/ ~Signallable(d.id.pid) /\ stopped' = stopped
    BY <1>0, <1>5, SigstopEffect
  <2>2. seen' = seen /\ pc = "table"
    BY <1>5 DEF Sigstop
  <2>3. Is(id) /\ proc'[id.pid].tree /\ (InStopped(id) \/ Queued(id)) /\ id.pid \in Pids
    BY <1>1, <2>2
  <2>4. Queued(id) => id = d.id \/ Queued(id)'
    BY <2>1 DEF Queued
  <2>5. CASE Signallable(d.id.pid) /\ stopped' = Append(stopped, d.id)
    <3>1. InStopped(id)' <=> InStopped(id) \/ id = d.id
      BY <1>0, <2>1, <2>5, ListTypes, Appended
    <3> QED
      BY <2>3, <2>4, <3>1
  <2>6. CASE ~Signallable(d.id.pid) /\ stopped' = stopped
    <3>1. id # d.id
      BY <1>0, <2>1, <2>3, <2>6 DEF Signallable, Is
    <3> QED
      BY <2>3, <2>4, <2>6, <3>1 DEF InStopped
  <2> QED
    BY <2>1, <2>5, <2>6
<1>6. CASE Verify \/ KillStopped \/ KillLeader
  <2>1. seen' = seen /\ pc' \notin {"table", "verify"}
    BY <1>6 DEF Verify, KillStopped, KillLeader, search
  <2> QED
    BY <1>1, <2>1
<1> QED
  BY <1>0, <1>2, <1>3, <1>4, <1>5, <1>6 DEF Next, killTree

\* The parent of what is about to be stopped is stopped before it.
LEMMA ParentsFirst ==
    ASSUME HoldContext, NEW d \in queue', Is(d.id)', proc'[d.id.pid].ppid \in Pids
    PROVE  LET r == proc'[d.id.pid].ppid
           IN \/ r = Leader \/ \E n \in DOMAIN stopped' : stopped'[n] = [pid |-> r, start |-> proc'[r].start]
              \/ \E e \in queue' : e.id = [pid |-> r, start |-> proc'[r].start] /\ e.depth < d.depth
<1>0. /\ ConstantsOK /\ TypeInv /\ KernelInv /\ SearchInv /\ HoldInv /\ Next /\ StepOK
      /\ Calm /\ resumes' = 0 /\ Leader \in Pids
      /\ \A p \in Pids : ~proc[p].eperm
  BY Contextual
<1>1. PICK r \in Pids : r = proc'[d.id.pid].ppid
  OBVIOUS
<1> SUFFICES ASSUME r # Leader
             PROVE  \/ \E n \in DOMAIN stopped' : stopped'[n] = [pid |-> r, start |-> proc'[r].start]
                    \/ \E e \in queue' : e.id = [pid |-> r, start |-> proc'[r].start] /\ e.depth < d.depth
  BY <1>1
<1>2. CASE d \in queue
  <2>1. d.id \in Ids /\ d.id.start <= proc[d.id.pid].start /\ d.depth \in Nat
    BY <1>0, <1>2, ListTypes
  <2>2. Is(d.id) /\ d.id.pid \in Pids /\ proc'[d.id.pid].ppid \in {proc[d.id.pid].ppid, InitProc}
    BY <1>0, <2>1, StillIs
  <2>3. proc[d.id.pid].ppid = r
    BY <1>0, <1>1, <2>2 DEF ConstantsOK
  <2>4. Exists(r)
    BY <1>0, <2>2, <2>3 DEF KernelInv, Entry, Live, Exists
  <2>5. proc'[r].start = proc[r].start
    BY <1>0, <2>4, SameId
  <2>6. InStopped(Id(r)) \/ \E e \in queue : e.id = Id(r) /\ e.depth < d.depth
    BY <1>0, <1>2, <2>2, <2>3 DEF HoldInv, Parent
  <2>7. CASE Sigstop
    <3>1. PICK x \in queue :
            /\ x.id \in Ids /\ x.id.pid \in Pids
            /\ queue' = queue \ {x}
            /\ \/ Signallable(x.id.pid) /\ stopped' = Append(stopped, x.id)
               \/ ~Signallable(x.id.pid) /\ stopped' = stopped
      BY <1>0, <2>7, SigstopEffect
    <3>2. InStopped(Id(r)) => InStopped(Id(r))'
      <4>1. ASSUME NEW m \in DOMAIN stopped
            PROVE  m \in DOMAIN stopped' /\ stopped'[m] = stopped[m]
        BY <1>0, <3>1, ListTypes, Appended
      <4>2. Id(r)' = Id(r)
        BY <1>0, <2>4, SameId
      <4> QED
        BY <4>1, <4>2 DEF InStopped
    <3>3. ASSUME NEW e \in queue, e.id = Id(r), e.depth < d.depth
          PROVE  e \in queue' \/ \E n \in DOMAIN stopped' : stopped'[n] = Id(r)
      <4>1. CASE e # x
        BY <3>1, <4>1
      <4>2. CASE e = x
        <5>1. Signallable(x.id.pid)
          BY <1>0, <2>4, <3>3, <4>2 DEF Signallable, Id
        <5>2. stopped' = Append(stopped, x.id)
          BY <3>1, <5>1
        <5>3. /\ Len(stopped) \in Nat /\ DOMAIN stopped' = 1..(Len(stopped) + 1)
              /\ stopped'[Len(stopped) + 1] = x.id
          BY <1>0, <3>1, <5>2, ListTypes, Appended
        <5> QED
          BY <3>3, <4>2, <5>3
      <4> QED
        BY <4>1, <4>2
    <3>4. InStopped(Id(r)) => \E n \in DOMAIN stopped' : stopped'[n] = Id(r)
      BY <1>0, <2>4, <3>2, SameId DEF InStopped
    <3> QED
      BY <2>5, <2>6, <3>3, <3>4 DEF Id
  <2>8. CASE ~Sigstop
    <3>1. stopped' = stopped /\ queue' = queue
      <4>1. ~KillStopped /\ ~Freeze
        BY <1>0, <1>2 DEF KillStopped, Freeze, SearchInv
      <4> QED
        BY <1>0, <2>8, <4>1 DEF Next, World, Fork, Stranger, Exit, Reap, Resume, StopApply, ReapLeader,
            Return, killTree, StopLeader, Verify, KillLeader, search
    <3> QED
      BY <2>5, <2>6, <3>1 DEF InStopped, Id
  <2> QED
    BY <2>7, <2>8
<1>3. CASE d \notin queue
  <2>1. Freeze
    BY <1>0, <1>3, SigstopEffect DEF Next, World, Fork, Stranger, Exit, Reap, Resume, StopApply, ReapLeader,
        Return, killTree, StopLeader, Verify, KillStopped, KillLeader, search
  <2>2. queue = {} /\ stopped' = stopped /\ proc' = proc /\ pc = "table"
    BY <2>1 DEF Freeze, kernel
  <2>3. queue' = {e \in descendants : e.id \notin seen}
    BY <1>3, <2>1 DEF Freeze
  <2>4. d \in descendants
    BY <2>3
  <2>5. /\ d.id.pid \in Pids
        /\ proc[d.id.pid].ppid \in Pids
        /\ proc[d.id.pid].ppid # Leader =>
              \E e \in descendants : e.id = Id(proc[d.id.pid].ppid) /\ e.depth < d.depth
    BY <1>0, <2>4, Found
  <2>6. r = proc[d.id.pid].ppid /\ Id(r) = [pid |-> r, start |-> proc'[r].start]
    BY <1>1, <2>2 DEF Id
  <2>7. PICK e \in descendants : e.id = Id(r) /\ e.depth < d.depth
    BY <2>5, <2>6
  <2>8. CASE e.id \notin seen
    BY <2>3, <2>6, <2>7, <2>8
  <2>9. CASE e.id \in seen
    <3>1. Exists(r)
      BY <1>0, <2>5, <2>6 DEF KernelInv, Entry, Live, Exists
    <3>2. Is(e.id)
      BY <2>7, <3>1 DEF Is, Id
    <3>3. InStopped(e.id)
      BY <1>0, <2>2, <2>9, <3>2 DEF HoldInv, Queued
    <3> QED
      BY <2>2, <2>6, <2>7, <3>3 DEF InStopped
  <2> QED
    BY <2>8, <2>9
<1> QED
  BY <1>2, <1>3

\* What is stopped stays so, or becomes a zombie of a stopped parent.
LEMMA StaysHeld ==
    ASSUME HoldContext, NEW n \in DOMAIN stopped', Is(stopped[n])'
    PROVE  /\ proc'[stopped'[n].pid].state # "run"
           /\ proc'[stopped'[n].pid].state = "zombie" =>
                 LET r == proc'[stopped'[n].pid].ppid
                 IN r = Leader \/ \E m \in 1..(n - 1) : stopped'[m] = [pid |-> r, start |-> proc'[r].start]
<1>0. /\ ConstantsOK /\ TypeInv /\ KernelInv /\ SearchInv /\ HoldInv /\ Next /\ StepOK
      /\ Calm /\ resumes' = 0 /\ Leader \in Pids
      /\ \A p \in Pids : ~proc[p].eperm
  BY Contextual
<1>i. stopped \in Seq(Ids) /\ stopped' \in Seq(Ids)
  BY <1>0 DEF HoldContext, TypeInv
<1>1. ASSUME n \in DOMAIN stopped, \A m \in DOMAIN stopped' : m <= n => stopped'[m] = stopped[m]
      PROVE  /\ proc'[stopped'[n].pid].state # "run"
             /\ proc'[stopped'[n].pid].state = "zombie" =>
                   LET r == proc'[stopped'[n].pid].ppid
                   IN r = Leader \/ \E m \in 1..(n - 1) : stopped'[m] = [pid |-> r, start |-> proc'[r].start]
  <2>1. PICK id \in Ids : id = stopped[n] /\ id = stopped'[n] /\ id.start <= proc[id.pid].start
    BY <1>0, <1>1, <1>i, ListTypes
  <2>2. Is(id)'
    BY <2>1 DEF Is, Exists
  <2>3. /\ Is(id) /\ id.pid \in Pids
        /\ proc'[id.pid].state = "zombie" => proc'[id.pid].ppid = proc[id.pid].ppid
        /\ proc'[id.pid].state = "run" => proc[id.pid].state = "run" \/ resumes' > 0
    BY <1>0, <2>1, <2>2, StillIs
  <2>4. PICK p \in Pids :
          /\ p = stopped[n].pid /\ p # Leader /\ Exists(p) /\ proc[p].state # "run"
          /\ proc[p].state = "zombie" =>
                \E r \in Pids :
                   /\ r = proc[p].ppid /\ proc[r].state # "run" /\ Exists(r)
                   /\ r = Leader \/ \E m \in 1..(n - 1) : stopped[m] = Id(r)
    BY <1>0, <1>1, <2>1, <2>3, HeldNow
  <2>5. proc'[p].state # "run"
    <3>1. id.pid = p /\ proc[p].state # "run"
      BY <2>1, <2>4
    <3>2. ~(resumes' > 0)
      BY <1>0
    <3> QED
      BY <2>3, <3>1, <3>2
  <2>6. ASSUME proc'[p].state = "zombie"
        PROVE  \E r \in Pids : /\ r = proc'[p].ppid
                               /\ \/ r = Leader
                                  \/ \E m \in 1..(n - 1) : stopped'[m] = [pid |-> r, start |-> proc'[r].start]
    <3>1. proc[p].state = "zombie"
      BY <1>0, <1>1, <2>1, <2>3, <2>4, <2>6, HoldsOn
    <3>2. PICK r \in Pids :
            /\ r = proc[p].ppid /\ Exists(r)
            /\ r = Leader \/ \E m \in 1..(n - 1) : stopped[m] = Id(r)
      BY <2>4, <3>1
    <3>3. r = proc'[p].ppid
      BY <2>1, <2>3, <2>4, <2>6, <3>2
    <3>4. Id(r) = [pid |-> r, start |-> proc'[r].start]
      BY <1>0, <3>2, SameId DEF Id
    <3>5. ASSUME NEW m \in 1..(n - 1), stopped[m] = Id(r)
          PROVE  stopped'[m] = Id(r)
      <4>1. m \in DOMAIN stopped' /\ m <= n
        BY <1>i
      <4> QED
        BY <1>1, <3>5, <4>1
    <3> QED
      BY <3>2, <3>3, <3>4, <3>5
  <2> QED
    BY <2>1, <2>4, <2>5, <2>6
<1>2. CASE Sigstop
  <2>1. PICK d \in queue :
          /\ d \in [id : Ids, depth : Nat] /\ d.id \in Ids /\ d.id.pid \in Pids
          /\ \A e \in queue : d.depth <= e.depth
          /\ \/ /\ Signallable(d.id.pid) /\ stopped' = Append(stopped, d.id)
                /\ proc' = proc \/ Sets(d.id.pid, "stop")
                /\ proc'[d.id.pid].state # "run"
             \/ ~Signallable(d.id.pid) /\ proc' = proc /\ stopped' = stopped
    BY <1>0, <1>2, SigstopEffect
  <2>2. CASE ~Signallable(d.id.pid) /\ stopped' = stopped
    BY <1>1, <2>2
  <2>3. CASE /\ Signallable(d.id.pid) /\ stopped' = Append(stopped, d.id)
             /\ proc' = proc \/ Sets(d.id.pid, "stop")
             /\ proc'[d.id.pid].state # "run"
    <3>1. /\ Len(stopped) \in Nat /\ DOMAIN stopped = 1..Len(stopped)
          /\ DOMAIN stopped' = 1..(Len(stopped) + 1)
          /\ \A m \in DOMAIN stopped : stopped'[m] = stopped[m]
          /\ stopped'[Len(stopped) + 1] = d.id
      BY <1>i, <2>1, <2>3, Appended
    <3>2. CASE n \in DOMAIN stopped
      <4>1. \A m \in DOMAIN stopped' : m <= n => stopped'[m] = stopped[m]
        BY <3>1, <3>2
      <4> QED
        BY <1>1, <3>2, <4>1
    <3>3. CASE n = Len(stopped) + 1
      <4> DEFINE p == d.id.pid
      <4>1. stopped'[n] = d.id /\ p \in Pids /\ p # Leader
        BY <1>0, <2>1, <3>1, <3>3, ListTypes
      <4>2. proc'[p].state # "run"
        BY <2>3
      <4>3. ASSUME proc'[p].state = "zombie"
            PROVE  \E r \in Pids : /\ r = proc'[p].ppid
                                   /\ \/ r = Leader
                                      \/ \E m \in 1..(n - 1) :
                                            stopped'[m] = [pid |-> r, start |-> proc'[r].start]
        <5>1. proc' = proc
          BY <2>3, <4>3 DEF Sets
        <5>2. Is(d.id)
          BY <4>1, <5>1 DEF Is, Exists
        <5>3. proc[p].ppid \in Pids
          <6>1. proc[p].ppid \in Pids \cup {InitProc, Gonf} /\ Entry(p) /\ proc[p].state = "zombie"
            BY <1>0, <4>1, <4>3, <5>1, FieldTypes DEF KernelInv
          <6> QED
            BY <4>1, <6>1 DEF Entry
        <5>4. PICK r \in Pids : r = proc[p].ppid
          BY <5>3
        <5>5. r = Leader \/ InStopped(Id(r)) \/ \E e \in queue : e.id = Id(r) /\ e.depth < d.depth
          BY <1>0, <2>1, <5>2, <5>4 DEF HoldInv, Parent
        <5>6. ~\E e \in queue : e.depth < d.depth
          BY <1>0, <2>1, ListTypes
        <5>7. InStopped(Id(r)) => \E m \in 1..(n - 1) : stopped'[m] = Id(r)
          BY <3>1, <3>3 DEF InStopped
        <5> QED
          BY <5>1, <5>4, <5>5, <5>6, <5>7 DEF Id
      <4> QED
        BY <4>1, <4>2, <4>3
    <3> QED
      BY <3>1, <3>2, <3>3
  <2> QED
    BY <2>1, <2>2, <2>3
<1>3. CASE KillStopped
  <2>1. stopped # <<>>
    BY <1>3 DEF KillStopped
  <2>2. \A m \in DOMAIN stopped' : m \in DOMAIN stopped /\ stopped'[m] = stopped[m]
    BY <1>0, <1>3, <2>1, KillStoppedEffect
  <2> QED
    BY <1>1, <2>2
<1>4. CASE ~Sigstop /\ ~KillStopped
  <2>1. stopped' = stopped
    BY <1>0, <1>4 DEF Next, World, Fork, Stranger, Exit, Reap, Resume, StopApply, ReapLeader, Return,
        killTree, StopLeader, Freeze, Verify, KillLeader, search
  <2> QED
    BY <1>1, <2>1
<1> QED
  BY <1>2, <1>3, <1>4

\* A read of the table that shows a stopped process is still true of it.
LEMMA ReadStaysTrue ==
    ASSUME HoldContext, pc' = "kill", current'.read, NEW n \in DOMAIN stopped',
           stopped'[n] \in current'.ids
    PROVE  Is(stopped[n])'
<1>0. /\ ConstantsOK /\ TypeInv /\ KernelInv /\ SearchInv /\ HoldInv /\ Next /\ StepOK
      /\ Calm /\ resumes' = 0 /\ Leader \in Pids
      /\ \A p \in Pids : ~proc[p].eperm
  BY Contextual
<1>1. CASE pc = "kill"
  <2>1. current' = current
    BY <1>0, <1>1 DEF Next, World, Fork, Stranger, Exit, Reap, Resume, StopApply, ReapLeader, Return,
          killTree, StopLeader, Freeze, Sigstop, Verify, KillStopped, KillLeader, search
  <2>2. n \in DOMAIN stopped /\ stopped'[n] = stopped[n]
    <3>1. CASE KillStopped
      <4>1. stopped # <<>>
        BY <3>1 DEF KillStopped
      <4> QED
        BY <1>0, <3>1, <4>1, KillStoppedEffect
    <3>2. CASE ~KillStopped
      <4>1. stopped' = stopped
        BY <1>0, <1>1, <3>2 DEF Next, World, Fork, Stranger, Exit, Reap, Resume, StopApply, ReapLeader,
            Return, killTree, StopLeader, Freeze, Sigstop, Verify, KillLeader, search
      <4> QED
        BY <4>1
    <3> QED
      BY <3>1, <3>2
  <2>3. Is(stopped[n])
    BY <1>0, <1>1, <2>1, <2>2 DEF HoldInv
  <2> QED
    BY <1>0, <2>2, <2>3, HoldsOn
<1>2. CASE pc # "kill"
  <2>1. Verify
    BY <1>0, <1>2 DEF Next, World, Fork, Stranger, Exit, Reap, Resume, StopApply, ReapLeader, Return,
          killTree, StopLeader, Freeze, Sigstop, KillStopped, KillLeader
  <2>2. stopped' = stopped /\ proc' = proc /\ stopped # <<>>
    BY <2>1 DEF Verify, kernel
  <2>3. current'.ids = {Id(p) : p \in {q \in Pids : Exists(q)}}
    BY <2>1, <2>2 DEF Verify, NoTable
  <2>4. PICK p \in Pids : Exists(p) /\ stopped[n] = Id(p)
    BY <2>2, <2>3
  <2>5. stopped[n].pid = p /\ stopped[n].start = proc[p].start
    BY <2>4 DEF Id
  <2> QED
    BY <2>2, <2>4, <2>5 DEF Is, Exists
<1> QED
  BY <1>1, <1>2

\* Nobody else is killed.
LEMMA NoVictims ==
    ASSUME HoldContext
    PROVE  victims' = {} \/ (pc' \in {"kill", "leader", "done"} /\ ~current'.read)
<1>0. /\ ConstantsOK /\ TypeInv /\ KernelInv /\ SearchInv /\ HoldInv /\ Next /\ StepOK
      /\ Calm /\ resumes' = 0 /\ Leader \in Pids
      /\ \A p \in Pids : ~proc[p].eperm
  BY Contextual
<1>1. victims = {} \/ (pc \in {"kill", "leader", "done"} /\ ~current.read)
  BY <1>0 DEF HoldInv
<1>2. CASE World \/ ReapLeader \/ Return
  <2>1. UNCHANGED <<victims, pc, current>>
    BY <1>2 DEF World, Fork, Stranger, Exit, Reap, Resume, StopApply, ReapLeader, Return, search
  <2> QED
    BY <1>1, <2>1
<1>3. CASE StopLeader \/ Freeze \/ Sigstop \/ Verify
  <2>1. victims' = victims /\ pc \in {"idle", "table", "verify"}
    BY <1>3 DEF StopLeader, Freeze, Sigstop, Verify
  <2> QED
    BY <1>1, <2>1
<1>4. CASE KillStopped
  <2>1. current' = current /\ pc = "kill" /\ pc' \in {"kill", "leader"}
    BY <1>4 DEF KillStopped
  <2>2. CASE stopped = <<>>
    <3>1. victims' = victims
      BY <1>4, <2>2 DEF KillStopped
    <3> QED
      BY <1>1, <2>1, <3>1
  <2>3. CASE stopped # <<>>
    <3> DEFINE id == stopped[Len(stopped)]
    <3>1. \/ victims' = victims
          \/ /\ current.read => id \in current.ids
             /\ victims' = victims \cup {p \in {id.pid} : ~proc[p].tree}
      BY <1>0, <1>4, <2>3, KillStoppedEffect
    <3>2. Len(stopped) \in DOMAIN stopped
      BY <1>0, <2>3, ListTypes
    <3>3. id \in seen
      BY <1>0, <3>2, ListTypes
    <3>4. current.read /\ id \in current.ids => proc[id.pid].tree
      <4> SUFFICES ASSUME current.read, id \in current.ids
                   PROVE  proc[id.pid].tree
        OBVIOUS
      <4>1. Is(id)
        BY <1>0, <2>1, <3>2 DEF HoldInv
      <4> HIDE DEF id
      <4> QED
        BY <1>0, <3>3, <4>1 DEF HoldInv
    <3> HIDE DEF id
    <3> QED
      BY <1>1, <2>1, <3>1, <3>4
  <2> QED
    BY <2>2, <2>3
<1>5. CASE KillLeader
  <2>1. victims' = victims /\ pc = "leader" /\ pc' = "done" /\ current' = current
    BY <1>5 DEF KillLeader, search
  <2> QED
    BY <1>1, <2>1
<1> QED
  BY <1>0, <1>2, <1>3, <1>4, <1>5 DEF Next, killTree

\* The hold is kept.
LEMMA HoldStep ==
    ASSUME ConstantsOK, TypeInv, KernelInv, SearchInv, StopInv, HoldInv, Next,
           TypeInv', KernelInv', SearchInv'
    PROVE  HoldInv'
<1> SUFFICES ASSUME Calm'
             PROVE  /\ pc' \notin {"idle", "done"} => proc'[Leader].state # "run"
                    /\ \A id \in seen' : Is(id)' =>
                          /\ proc'[id.pid].tree
                          /\ pc' \in {"table", "verify"} => InStopped(id)' \/ Queued(id)'
                    /\ \A d \in queue' : Is(d.id)' /\ Parent(d.id)' \in Pids =>
                          \/ Parent(d.id)' = Leader \/ InStopped(Id(Parent(d.id)))'
                          \/ \E e \in queue' : e.id = Id(Parent(d.id))' /\ e.depth < d.depth
                    /\ \A n \in DOMAIN stopped' : Is(stopped[n])' =>
                          /\ proc'[stopped'[n].pid].state # "run"
                          /\ proc'[stopped'[n].pid].state = "zombie" =>
                                \/ Parent(stopped[n])' = Leader
                                \/ \E m \in 1..(n - 1) : stopped'[m] = Id(Parent(stopped[n]))'
                    /\ pc' = "kill" /\ current'.read =>
                          \A n \in DOMAIN stopped' : stopped'[n] \in current'.ids => Is(stopped[n])'
                    /\ victims' = {} \/ (pc' \in {"kill", "leader", "done"} /\ ~current'.read)
  BY DEF HoldInv
<1>0. HoldContext
  BY DEF HoldContext
<1>1. pc' \notin {"idle", "done"} => proc'[Leader].state # "run"
  BY <1>0, LeaderHeld
<1>2. \A id \in seen' : Is(id)' =>
         /\ proc'[id.pid].tree
         /\ pc' \in {"table", "verify"} => InStopped(id)' \/ Queued(id)'
  BY <1>0, FoundAreOurs
<1>3. ASSUME NEW d \in queue', Is(d.id)', Parent(d.id)' \in Pids
      PROVE  \/ Parent(d.id)' = Leader \/ InStopped(Id(Parent(d.id)))'
             \/ \E e \in queue' : e.id = Id(Parent(d.id))' /\ e.depth < d.depth
  <2>1. proc'[d.id.pid].ppid \in Pids
    BY <1>3 DEF Parent
  <2> QED
    BY <1>0, <1>3, <2>1, ParentsFirst DEF Parent, InStopped, Id
<1>4. ASSUME NEW n \in DOMAIN stopped', Is(stopped[n])'
      PROVE  /\ proc'[stopped'[n].pid].state # "run"
             /\ proc'[stopped'[n].pid].state = "zombie" =>
                   \/ Parent(stopped[n])' = Leader
                   \/ \E m \in 1..(n - 1) : stopped'[m] = Id(Parent(stopped[n]))'
  BY <1>0, <1>4, StaysHeld DEF Parent, Id
<1>5. pc' = "kill" /\ current'.read =>
         \A n \in DOMAIN stopped' : stopped'[n] \in current'.ids => Is(stopped[n])'
  BY <1>0, ReadStaysTrue
<1>6. victims' = {} \/ (pc' \in {"kill", "leader", "done"} /\ ~current'.read)
  BY <1>0, NoVictims
<1> QED
  BY <1>1, <1>2, <1>3, <1>4, <1>5, <1>6

(***************************************************************************)
(* The clean search                                                        *)
(***************************************************************************)
\* Before the kill the search can reach every attached process.
LEMMA AttachedIsBelow ==
    ASSUME ConstantsOK, TypeInv, KernelInv, AttachedInv, pc = "table", proc[Leader].start = 1,
           NEW p \in Pids, Attached(p), proc[p].start # 1
    PROVE  \E n \in 1..MaxBirths : p \in Generation(Leader)[n]
<1>0. Leader \in Pids /\ \A q \in Pids : proc[q].start \in Nat /\ proc[q].start <= births
  BY FieldTypes DEF ConstantsOK, KernelInv, Entry
<1> DEFINE Reached(q) == \E n \in Nat : q \in Generation(Leader)[n]
           S == {s \in Nat : \A q \in Pids : Attached(q) /\ proc[q].start <= s => Reached(q)}
<1>1. \A q \in Pids : Attached(q) => Exists(q) /\ proc[q].start > 0
  BY DEF Attached, Live, Exists, KernelInv, Entry
<1>2. \A q \in Pids : \A r \in Pids : Exists(q) /\ proc[q].ppid = r /\ Reached(r) => Reached(q)
  <2> SUFFICES ASSUME NEW q \in Pids, NEW r \in Pids, Exists(q), proc[q].ppid = r,
                      NEW n \in Nat, r \in Generation(Leader)[n]
               PROVE  Reached(q)
    OBVIOUS
  <2>1. q \in Generation(Leader)[n + 1] /\ n + 1 \in Nat
    BY <1>0, Gens
  <2> QED
    BY <2>1
<1>3. Reached(Leader)
  BY <1>0, Gens
<1>4. 0 \in S
  BY <1>0, <1>1
<1>5. ASSUME NEW s \in Nat, s \in S
      PROVE  s + 1 \in S
  <2> SUFFICES ASSUME NEW q \in Pids, Attached(q), proc[q].start <= s + 1
               PROVE  Reached(q)
    OBVIOUS
  <2>1. CASE proc[q].start = 1
    <3>1. q = Leader
      BY <2>1 DEF KernelInv, Entry
    <3> QED
      BY <1>3, <3>1
  <2>2. CASE proc[q].start # 1
    <3>1. PICK r \in Pids : r = proc[q].ppid /\ Attached(r)
      BY <2>2 DEF AttachedInv
    <3>2. proc[r].start < proc[q].start
      BY <3>1 DEF KernelInv, Entry
    <3>3. proc[r].start <= s
      BY <1>0, <3>2
    <3>4. Reached(r)
      BY <1>5, <3>1, <3>3
    <3> HIDE DEF Reached
    <3> QED
      BY <1>1, <1>2, <3>1, <3>4
  <2> QED
    BY <2>1, <2>2
<1>6. Nat \subseteq S
  <2> HIDE DEF S
  <2> QED
    BY <1>4, <1>5, SetInduction
<1>7. PICK n \in Nat : p \in Generation(Leader)[n]
  BY <1>0, <1>6
<1>8. n # 0
  BY <1>0, <1>7, Gens
<1>9. proc[p].start >= proc[Leader].start + n
  BY <1>0, <1>7, Generations
<1>10. births \in Nat /\ births <= MaxBirths /\ MaxBirths \in Nat
  BY DEF KernelInv, ConstantsOK
<1>11. n \in 1..MaxBirths
  BY <1>0, <1>8, <1>9, <1>10
<1> QED
  BY <1>7, <1>11

\* A step in which the promise of a clean search must be kept.
CleanContext ==
    /\ ConstantsOK /\ TypeInv /\ KernelInv /\ AttachedInv /\ SearchInv /\ StopInv /\ HoldInv /\ CleanInv
    /\ Next /\ KernelInv'

\* What is attached was, or is the child of a running process that was.
LEMMA WasAttached ==
    ASSUME ConstantsOK, TypeInv, KernelInv, StepOK, NEW p \in Pids, Attached(p)'
    PROVE  \/ Attached(p) /\ proc'[p].start = proc[p].start
           \/ /\ births' = births + 1
              /\ \E q \in Pids : Attached(q) /\ proc[q].state = "run"
<1>1. Ages(p) /\ proc'[p].tree /\ ~proc'[p].escaped /\ proc'[p].state \in {"run", "stop"}
  BY EveryoneAges DEF Attached, Live
<1>2. CASE births' = births + 1 /\ proc'[p].start = births + 1 /\ ~Exists(p)
  <2>1. PICK q \in Pids : proc[q].state = "run" /\ proc[q].tree /\ proc'[p].escaped = proc[q].escaped
    BY <1>1, <1>2 DEF Ages, Exists
  <2> QED
    BY <1>1, <1>2, <2>1 DEF Attached, Live
<1>3. CASE Exists(p) /\ Keeps(p) /\ (proc[p].escaped => proc'[p].escaped)
           /\ (proc[p].state = "zombie" => proc'[p].state = "zombie")
  <2>1. proc[p].state \in {"free", "run", "stop", "zombie"}
    BY FieldTypes
  <2> QED
    BY <1>1, <1>3, <2>1 DEF Attached, Live, Keeps, Exists
<1> QED
  BY <1>1, <1>2, <1>3 DEF Ages

\* killTree does not end with a leader alive.
LEMMA DoneIsOver ==
    ASSUME CleanContext, clean', ~suid', resumes' = 0, pc' = "done", exit' = "none"
    PROVE  FALSE
<1>0. /\ ConstantsOK /\ TypeInv /\ KernelInv /\ SearchInv /\ CleanInv /\ Next /\ StepOK
  BY NextStepOK DEF CleanContext
<1>1. ~suid /\ resumes = 0 /\ exit = "none" /\ Live(Leader) /\ proc[Leader].start = 1
  BY <1>0 DEF StepOK, TypeInv, KernelInv
<1>2. CASE pc = "done"
  <2>1. clean
    BY <1>0, <1>2 DEF Next, World, Fork, Stranger, Exit, Reap, Resume, StopApply, ReapLeader, Return,
        killTree, StopLeader, Freeze, Sigstop, Verify, KillStopped, KillLeader, search
  <2> QED
    BY <1>0, <1>1, <1>2, <2>1 DEF CleanInv
<1>3. CASE pc # "done"
  <2>1. StopLeader \/ KillLeader
    BY <1>0, <1>3 DEF Next, World, Fork, Stranger, Exit, Reap, Resume, StopApply, ReapLeader, Return,
        killTree, Freeze, Sigstop, Verify, KillStopped
  <2>2. ~LeaderReaped /\ Signallable(Leader)
    <3>1. Leader \in Pids /\ ~proc[Leader].eperm
      BY <1>0, <1>1 DEF ConstantsOK, KernelInv, Entry
    <3> QED
      BY <1>1, <3>1 DEF LeaderReaped, Signallable, Live, Exists
  <2>3. ~StopLeader
    BY <1>0, <2>2, StopLeaderEffect
  <2> QED
    BY <1>0, <1>1, <2>1, <2>2, <2>3, KillLeaderEffect
<1> QED
  BY <1>2, <1>3

\* When a round finds nothing new, all that is attached is stopped already, and
\* nothing stopped can fork.
LEMMA CleanIsComplete ==
    ASSUME CleanContext, clean', ~suid', resumes' = 0, exit' = "none",
           NEW p \in Pids, Attached(p)', proc'[p].start # 1
    PROVE  InStopped(Id(p))'
<1>0. /\ ConstantsOK /\ TypeInv /\ KernelInv /\ AttachedInv /\ SearchInv /\ StopInv /\ HoldInv
      /\ CleanInv /\ Next /\ StepOK
  BY NextStepOK DEF CleanContext
<1>1. ~suid /\ resumes = 0 /\ exit = "none" /\ proc[Leader].start = 1 /\ Leader \in Pids
  BY <1>0 DEF StepOK, TypeInv, KernelInv, ConstantsOK
<1>2. Calm
  BY <1>1 DEF Calm
<1>3. CASE clean
  <2>1. pc \notin {"idle", "table", "done"}
    BY <1>0, <1>1, <1>3 DEF SearchInv, CleanInv
  <2>2. ~\E q \in Pids : Attached(q) /\ proc[q].state = "run"
    <3> SUFFICES ASSUME NEW q \in Pids, Attached(q), proc[q].state = "run"
                 PROVE  FALSE
      OBVIOUS
    <3>1. CASE proc[q].start = 1
      <4>1. q = Leader
        BY <1>0, <3>1 DEF KernelInv, Entry
      <4> QED
        BY <1>0, <1>2, <2>1, <4>1 DEF HoldInv
    <3>2. CASE proc[q].start # 1
      <4>1. PICK n \in DOMAIN stopped : stopped[n] = Id(q)
        BY <1>0, <1>1, <1>3, <3>2 DEF CleanInv, InStopped
      <4>2. stopped[n].pid = q /\ Is(stopped[n])
        BY <4>1 DEF Id, Is, Exists
      <4> QED
        BY <1>0, <1>2, <4>2, HeldNow
    <3> QED
      BY <3>1, <3>2
  <2>3. Attached(p) /\ proc'[p].start = proc[p].start
    BY <1>0, <2>2, WasAttached
  <2>4. PICK n \in DOMAIN stopped : stopped[n] = Id(p)
    BY <1>0, <1>1, <1>3, <2>3 DEF CleanInv, InStopped
  <2>5. Id(p)' = Id(p)
    BY <2>3 DEF Id
  <2>6. CASE KillStopped
    <3>1. stopped # <<>>
      BY <2>4
    <3>2. /\ Len(stopped') = Len(stopped) - 1 /\ stopped' \in Seq(Ids)
          /\ \A m \in DOMAIN stopped' : stopped'[m] = stopped[m]
      BY <1>0, <2>6, <3>1, KillStoppedEffect
    <3>3. CASE n # Len(stopped)
      <4>1. n \in DOMAIN stopped'
        BY <1>0, <3>2, <3>3, ListTypes
      <4> QED
        BY <2>4, <2>5, <3>2, <4>1 DEF InStopped
    <3>4. CASE n = Len(stopped)
      <4> DEFINE id == stopped[Len(stopped)]
      <4>1. id.pid = p /\ id = stopped[n] /\ Live(p) /\ ~proc[p].eperm
        BY <1>0, <1>1, <2>3, <2>4, <3>4 DEF Id, Attached, KernelInv, Entry
      <4>2. Is(id)
        BY <2>4, <3>4, <4>1 DEF Is, Id, Live, Exists
      <4>3. current.read => id \in current.ids
        BY <1>0, <2>6, <3>4, <4>2 DEF StopInv, KillStopped
      <4>4. \E own \in BOOLEAN : Deaths(p, own)
        <5>1. Signallable(id.pid)
          BY <4>1 DEF Signallable, Live, Exists
        <5>2. \/ Live(id.pid) /\ \E own \in BOOLEAN : ~own /\ Deaths(id.pid, own)
              \/ ~Live(id.pid)
              \/ ~(current.read => id \in current.ids) \/ ~Signallable(id.pid)
          BY <1>0, <2>6, <3>1, KillStoppedEffect
        <5> HIDE DEF id
        <5> QED
          BY <4>1, <4>3, <5>1, <5>2
      <4>5. proc'[p].state \notin {"run", "stop"}
        BY <4>4 DEF Deaths, Freed
      <4> QED
        BY <4>5 DEF Attached, Live
    <3> QED
      BY <3>3, <3>4
  <2>7. CASE ~KillStopped
    <3>1. stopped' = stopped
      BY <1>0, <2>1, <2>7 DEF Next, World, Fork, Stranger, Exit, Reap, Resume, StopApply, ReapLeader,
          Return, killTree, StopLeader, Freeze, Sigstop, Verify, KillLeader, search
    <3> QED
      BY <2>4, <2>5, <3>1 DEF InStopped
  <2> QED
    BY <2>6, <2>7
<1>4. CASE ~clean
  <2>1. Freeze
    BY <1>0, <1>4 DEF Next, World, Fork, Stranger, Exit, Reap, Resume, StopApply, ReapLeader,
        Return, killTree, StopLeader, Sigstop, Verify, KillStopped, KillLeader, search
  <2>2. queue = {} /\ stopped' = stopped /\ proc' = proc /\ pc = "table"
    BY <2>1 DEF Freeze, kernel
  <2>3. {d \in descendants : d.id \notin seen} = {}
    BY <1>4, <2>1 DEF Freeze
  <2>4. Attached(p) /\ proc[p].start # 1
    BY <2>2 DEF Attached, Live
  <2>5. PICK n \in 1..MaxBirths : p \in Generation(Leader)[n]
    BY <1>0, <1>1, <2>2, <2>4, AttachedIsBelow
  <2>6. [id |-> Id(p), depth |-> n] \in descendants
    BY <2>5 DEF descendants
  <2>7. Id(p) \in seen
    BY <2>3, <2>6
  <2>8. Is(Id(p))
    BY <2>4 DEF Attached, Live, Exists, Is, Id
  <2>9. InStopped(Id(p))
    BY <1>0, <1>2, <2>2, <2>7, <2>8 DEF HoldInv, Queued
  <2>10. Id(p)' = Id(p)
    BY <2>2 DEF Id
  <2> QED
    BY <2>2, <2>9, <2>10 DEF InStopped
<1> QED
  BY <1>3, <1>4

\* With the kill of the leader nothing attached is left.
LEMMA KillIsComplete ==
    ASSUME CleanContext, clean', ~suid', resumes' = 0, exit' = "killed", NEW p \in Pids, Attached(p)'
    PROVE  FALSE
<1>0. /\ ConstantsOK /\ TypeInv /\ KernelInv /\ SearchInv /\ CleanInv /\ Next /\ StepOK
  BY NextStepOK DEF CleanContext
<1>1. ~suid /\ resumes = 0 /\ Leader \in Pids
  BY <1>0 DEF StepOK, TypeInv, ConstantsOK
<1>2. CASE exit = "killed"
  <2>1. pc = "done"
    BY <1>0, <1>2 DEF CleanInv
  <2>2. clean
    BY <1>0, <2>1 DEF Next, World, Fork, Stranger, Exit, Reap, Resume, StopApply, ReapLeader, Return,
        killTree, StopLeader, Freeze, Sigstop, Verify, KillStopped, KillLeader, search
  <2> QED
    BY <1>0, <1>1, <1>2, <2>2, WasAttached DEF CleanInv
<1>3. CASE exit # "killed"
  <2>1. KillLeader
    <3>1. ~\E q \in Pids : Exit(q)
      <4> SUFFICES ASSUME NEW q \in Pids, Exit(q)
                   PROVE  FALSE
        OBVIOUS
      <4>1. exit' \in IF q = Leader /\ proc[q].start = 1 THEN {"ok", "fail"} ELSE {exit}
        BY DEF Exit
      <4> QED
        BY <1>3, <4>1
    <3> QED
      BY <1>0, <1>3, <3>1 DEF Next, World, Fork, Stranger, Reap, Resume, StopApply, ReapLeader, Return,
          killTree, StopLeader, Freeze, Sigstop, Verify, KillStopped, kernel
  <2>2. clean' = clean /\ stopped = <<>> /\ births' = births
    BY <1>0, <2>1 DEF KillLeader, search, SearchInv
  <2>3. ~LeaderReaped /\ Live(Leader) /\ \E own \in BOOLEAN : Deaths(Leader, own)
    BY <1>0, <1>3, <2>1, KillLeaderEffect
  <2>4. proc[Leader].start = 1
    BY <2>3 DEF LeaderReaped
  <2>5. exit = "none"
    BY <1>0, <2>3, <2>4 DEF KernelInv
  <2>6. births' # births + 1
    BY <1>0, <2>2 DEF TypeInv
  <2>7. Attached(p)
    BY <1>0, <2>6, WasAttached
  <2>8. proc[p].start = 1
    BY <1>0, <1>1, <2>2, <2>5, <2>7 DEF CleanInv, InStopped
  <2>9. p = Leader
    BY <1>0, <2>8 DEF KernelInv, Entry
  <2>10. proc'[Leader].state \notin {"run", "stop"}
    BY <1>1, <2>3 DEF Deaths, Freed
  <2> QED
    BY <2>9, <2>10 DEF Attached, Live
<1> QED
  BY <1>2, <1>3

\* The promise of a clean search is kept.
LEMMA CleanStep ==
    ASSUME ConstantsOK, TypeInv, KernelInv, AttachedInv, SearchInv, StopInv, HoldInv, CleanInv,
           Next, KernelInv'
    PROVE  CleanInv'
<1>0. CleanContext
  BY DEF CleanContext
<1>1. exit' = "killed" => pc' = "done"
  <2> SUFFICES ASSUME exit' = "killed"
               PROVE  pc' = "done"
    OBVIOUS
  <2>1. CASE KillLeader
    BY <2>1 DEF KillLeader
  <2>2. ASSUME NEW p \in Pids, Exit(p)
        PROVE  exit' = exit /\ pc' = pc
    <3>1. exit' \in IF p = Leader /\ proc[p].start = 1 THEN {"ok", "fail"} ELSE {exit}
      BY <2>2 DEF Exit
    <3> QED
      BY <2>2, <3>1 DEF Exit
  <2>3. CASE ~KillLeader
    <3>1. exit' = exit
      BY <2>2, <2>3 DEF Next, World, Fork, Stranger, Reap, Resume, StopApply, ReapLeader, Return,
          killTree, StopLeader, Freeze, Sigstop, Verify, KillStopped, kernel
    <3>2. pc = "done"
      BY <3>1 DEF CleanInv
    <3> QED
      BY <2>2, <2>3, <3>2 DEF Next, World, Fork, Stranger, Reap, Resume, StopApply, ReapLeader, Return,
          killTree, StopLeader, Freeze, Sigstop, Verify, KillStopped
  <2> QED
    BY <2>1, <2>3
<1>2. ASSUME clean', ~suid', resumes' = 0
      PROVE  /\ pc' = "done" => exit' # "none"
             /\ exit' = "none" =>
                   \A p \in Pids : Attached(p)' /\ proc'[p].start # 1 => InStopped(Id(p))'
             /\ exit' = "killed" => \A p \in Pids : ~Attached(p)'
  BY <1>0, <1>2, DoneIsOver, CleanIsComplete, KillIsComplete
<1> QED
  BY <1>1, <1>2 DEF CleanInv

(***************************************************************************)
(* The theorems                                                            *)
(***************************************************************************)
\* The leader runs alone, and killTree has not begun.
LEMMA InitOK ==
    ASSUME ConstantsOK, Init
    PROVE  TreeInv
<1>0. Leader \in Pids /\ MaxBirths \in Nat \ {0} /\ Gonf \notin Pids /\ InitProc \notin Pids
  BY DEF ConstantsOK
<1>1. PICK e \in BOOLEAN :
         /\ e => suid
         /\ proc = [p \in Pids |->
                     IF p = Leader
                     THEN [state |-> "run", ppid |-> Gonf, start |-> 1, tree |-> TRUE,
                           escaped |-> FALSE, eperm |-> e]
                     ELSE Free]
  BY DEF Init, ConstantsOK
<1>2. /\ proc[Leader] = [state |-> "run", ppid |-> Gonf, start |-> 1, tree |-> TRUE,
                         escaped |-> FALSE, eperm |-> e]
      /\ \A p \in Pids \ {Leader} : proc[p] = Free
  BY <1>0, <1>1
<1>3. TypeInv
  <2>1. proc \in [Pids -> Process]
    BY <1>0, <1>1 DEF Process, Free
  <2>2. current \in [read : BOOLEAN, ids : SUBSET Ids]
    BY DEF Init, NoTable
  <2>3. suid \in BOOLEAN
    BY DEF Init, ConstantsOK
  <2>4. stopped \in Seq(Ids)
    BY DEF Init
  <2> QED
    BY <2>1, <2>2, <2>3, <2>4 DEF Init, TypeInv
<1>4. KernelInv
  <2>1. ASSUME NEW p \in Pids
        PROVE  Entry(p)
    <3>1. CASE p = Leader
      <4>1. /\ proc[p].state = "run" /\ proc[p].ppid = Gonf /\ proc[p].start = 1
            /\ proc[p].tree /\ proc[p].eperm = e /\ births = 1
        BY <1>2, <3>1 DEF Init
      <4>2. proc[p].ppid # InitProc /\ proc[p].ppid \notin Pids
        BY <1>0, <4>1 DEF Gonf, InitProc
      <4>3. proc[p].eperm => suid
        BY <1>1, <4>1
      <4>4. Exists(p) /\ proc[p].start <= births /\ proc[p].start > 0
        BY <4>1 DEF Exists
      <4>5. proc[p].state # "stop" /\ proc[p].state # "zombie"
        BY <4>1
      <4>6. proc[p].ppid = Gonf /\ proc[p].start = 1 /\ proc[p].tree
        BY <4>1
      <4> QED
        BY <3>1, <4>2, <4>3, <4>4, <4>5, <4>6 DEF Entry
    <3>2. CASE p # Leader
      <4>1. /\ proc[p].state = "free" /\ proc[p].ppid = InitProc /\ proc[p].start = 0
            /\ ~proc[p].eperm /\ births = 1
        BY <1>2, <3>2 DEF Init, Free
      <4>2. proc[p].ppid # Gonf /\ proc[p].ppid \notin Pids
        BY <1>0, <4>1 DEF Gonf, InitProc
      <4> QED
        BY <4>1, <4>2 DEF Entry, Exists
    <3> QED
      BY <3>1, <3>2
  <2>2. Live(Leader) /\ proc[Leader].start = 1 /\ ~proc[Leader].escaped
    BY <1>2 DEF Live
  <2> QED
    BY <1>0, <2>1, <2>2 DEF Init, KernelInv
<1>5. AttachedInv
  BY <1>2 DEF AttachedInv, Attached, Live, Free
<1>6. SearchInv
  BY DEF Init, SearchInv
<1>7. StopInv
  BY <1>2 DEF Init, StopInv
<1>8. HoldInv
  BY DEF Init, HoldInv
<1>9. CleanInv
  BY DEF Init, CleanInv
<1>10. VerdictInv
  BY DEF Init, VerdictInv
<1> QED
  BY <1>3, <1>4, <1>5, <1>6, <1>7, <1>8, <1>9, <1>10 DEF TreeInv

\* Nothing that the invariant speaks of depends on anything but the variables.
LEMMA StutterOK ==
    ASSUME TreeInv, UNCHANGED vars
    PROVE  TreeInv'
<1> USE DEF vars, kernel, search
<1>1. TypeInv'
  BY DEF TreeInv, TypeInv
<1>2. KernelInv'
  BY DEF TreeInv, KernelInv, Entry, Exists, Live
<1>3. AttachedInv'
  BY DEF TreeInv, AttachedInv, Attached, Live
<1>4. SearchInv'
  BY DEF TreeInv, SearchInv, InStopped
<1>5. StopInv'
  BY DEF TreeInv, StopInv, Is, Exists, InStopped, Queued
<1>6. HoldInv'
  BY SMTT(30) DEF TreeInv, HoldInv, Calm, Parent, Is, Exists, InStopped, Queued, Id
<1>7. CleanInv'
  BY DEF TreeInv, CleanInv, Attached, Live, InStopped, Id
<1>8. VerdictInv'
  BY DEF TreeInv, VerdictInv, runError
<1> QED
  BY <1>1, <1>2, <1>3, <1>4, <1>5, <1>6, <1>7, <1>8 DEF TreeInv

\* A step keeps the invariant, part by part.
LEMMA StepKeeps ==
    ASSUME ConstantsOK, TreeInv, Next
    PROVE  TreeInv'
<1>0. TypeInv /\ KernelInv /\ AttachedInv /\ SearchInv /\ StopInv /\ HoldInv /\ CleanInv /\ VerdictInv
  BY DEF TreeInv
<1>1. KernelInv'
  BY <1>0, NextStepOK
<1>2. TypeInv'
  BY <1>0, TypeStep
<1>3. AttachedInv'
  BY <1>0, AttachedStep
<1>4. SearchInv'
  BY <1>0, SearchStep
<1>5. StopInv'
  BY <1>0, StopStep
<1>6. HoldInv'
  BY <1>0, <1>1, <1>2, <1>4, HoldStep
<1>7. CleanInv'
  BY <1>0, <1>1, CleanStep
<1>8. VerdictInv'
  BY <1>0, VerdictStep
<1> QED
  BY <1>1, <1>2, <1>3, <1>4, <1>5, <1>6, <1>7, <1>8 DEF TreeInv

\* The inductive invariant of a timeout kill: the process table, what the
\* search has found and stopped, the hold on it, what a clean search has
\* covered, and the verdict.
THEOREM TreeInvariant == ASSUME ConstantsOK PROVE Spec => []TreeInv
<1>1. Init => TreeInv
  BY InitOK
<1>2. TreeInv /\ [Next]_vars => TreeInv'
  BY StepKeeps, StutterOK
<1> QED
  BY <1>1, <1>2, PTL DEF Spec

\* The kill's victims are of the tree while the hold lasts.
LEMMA VictimsOfTree ==
    ASSUME TreeInv
    PROVE  NoStrangerKilled
<1> SUFFICES ASSUME victims # {}, resumes = 0, ~suid, proc[Leader].start = 1
             PROVE  pc \in {"kill", "leader", "done"} /\ ~current.read
  BY DEF NoStrangerKilled, TreeInv, TypeInv
<1> QED
  BY DEF TreeInv, HoldInv, Calm

\* The exit of the leader decides the verdict.
LEMMA VerdictFollows ==
    ASSUME TreeInv
    PROVE  VerdictIsTrue
<1> SUFFICES ASSUME outcome \notin {"none", "stopped"}
             PROVE  outcome = CASE exit = "ok" -> "ok" [] exit = "killed" -> "timeout" [] OTHER -> "fail"
  BY DEF VerdictIsTrue
<1>1. outcome = runError
  BY DEF TreeInv, VerdictInv
<1>2. exit = "killed" => killed
  BY DEF TreeInv, KernelInv
<1> QED
  BY <1>1, <1>2 DEF runError

\* A clean search reaches everything that is not separated from the leader, and
\* whatever killTree stopped is dead or killed when it ends.
LEMMA DealtWith ==
    ASSUME ConstantsOK, TreeInv
    PROVE  TreeDealtWith
<1>1. TreeKilled
  <2> SUFFICES ASSUME clean, exit = "killed", resumes = 0, ~suid, NEW p \in Pids, Live(p), proc[p].tree
               PROVE  proc[p].escaped
    BY DEF TreeKilled
  <2>1. ~Attached(p)
    BY DEF TreeInv, CleanInv
  <2> QED
    BY <2>1 DEF Attached
<1>2. NoneLeftStopped
  <2> SUFFICES ASSUME pc = "done", NEW id \in seen \cup {[pid |-> Leader, start |-> 1]},
                      proc[id.pid].start = id.start, proc[id.pid].state = "stop"
               PROVE  FALSE
    BY DEF NoneLeftStopped
  <2>1. CASE id \in seen
    <3>1. Is(id)
      BY DEF Is, Exists
    <3>2. InStopped(id) \/ Queued(id)
      BY <2>1, <3>1 DEF TreeInv, StopInv
    <3>3. stopped = <<>> /\ queue = {}
      BY DEF TreeInv, SearchInv
    <3> QED
      BY <3>2, <3>3 DEF InStopped, Queued
  <2>2. CASE id = [pid |-> Leader, start |-> 1]
    <3>1. proc[Leader].start = 1 /\ proc[Leader].state = "stop"
      BY <2>2
    <3> QED
      BY <3>1 DEF TreeInv, StopInv
  <2> QED
    BY <2>1, <2>2
<1> QED
  BY <1>1, <1>2 DEF TreeDealtWith

\* The timeout kill hits no process outside the validator's tree, however pids
\* are reused between the table and the signals: what the search has stopped
\* keeps its pid, as a zombie of a stopped parent if it dies, until killStopped
\* comes to it, children first.
THEOREM OnlyTreeKilled == ASSUME ConstantsOK PROVE Spec => []NoStrangerKilled
<1>1. TreeInv => NoStrangerKilled
  BY VictimsOfTree
<1> QED
  BY <1>1, TreeInvariant, PTL

\* The timeout kill leaves nothing of the tree behind: after a search that ended
\* by itself only what an ancestor's own exit had separated is alive, and nothing
\* that killTree found is left stopped.
THEOREM NothingOfTreeLeft == ASSUME ConstantsOK PROVE Spec => []TreeDealtWith
<1>1. TreeInv => TreeDealtWith
  BY DealtWith
<1> QED
  BY <1>1, TreeInvariant, PTL

\* The verdict on a validator is its own, the timeout's only when that killed it.
THEOREM VerdictHolds == ASSUME ConstantsOK PROVE Spec => []VerdictIsTrue
<1>1. TreeInv => VerdictIsTrue
  BY VerdictFollows
<1> QED
  BY <1>1, TreeInvariant, PTL
==============================================================================
