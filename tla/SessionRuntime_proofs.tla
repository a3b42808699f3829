------------------------ MODULE SessionRuntime_proofs ------------------------
(***************************************************************************)
(* Theorems about SessionRuntime, for any number of processes, sessions,   *)
(* events and faults, when a recovery action never overlaps another call   *)
(* (~Overlap), which is what its operator is told.  The two runs that      *)
(* expect a violation show what is lost otherwise, or is lost anyhow.      *)
(***************************************************************************)
EXTENDS SessionRuntime, FiniteSetTheorems, SequenceTheorems, WellFoundedInduction, TLAPS

(* The steps of a command that has announced itself in the audit log.      *)
Announced == {"recheck", "mkdir", "mkraw", "mklog", "write", "unlink", "rmraw",
              "rmdir", "verify", "commit"}
Creating == {"mkraw", "mklog", "write"}

(* Which command a step belongs to.                                        *)
StepOK(p) ==
  /\ pc[p] = "lookup" => cmd[p] \in Commands
  /\ pc[p] \in {"allocate", "mkdir", "mkraw", "mklog"} => cmd[p] = "start"
  /\ pc[p] = "validate" => cmd[p] = "end"
  /\ pc[p] = "read" => cmd[p] \in {"event", "end"}
  /\ pc[p] \in {"unlink", "rmraw", "rmdir"} => cmd[p] = "cleanup"
  /\ pc[p] = "recheck" => cmd[p] # "start"
  /\ pc[p] = "write" => cmd[p] # "cleanup"
  /\ pc[p] \notin {"idle", "lookup", "allocate"} => sid[p] \in Sessions

(* A start that creates its session is the only one to do so: it made the  *)
(* session directory, and nobody else has written metadata.                *)
StartOK(p) ==
  cmd[p] = "start" /\ pc[p] \in Creating =>
    /\ sid[p] \in sessionDirs
    /\ meta[sid[p]] = NoMeta
    /\ pc[p] = "write" => log[sid[p]] # NoLog
    /\ \A q \in Procs :
         cmd[q] = "start" /\ pc[q] \in Creating /\ sid[q] = sid[p] => q = p

(* An event or an end saw an active session, and what an event saw of its  *)
(* log is still there: the lines 1 to n, to which it adds line n + 1.      *)
KnowsOK(p) ==
  cmd[p] \in {"event", "end"} /\ pc[p] \in Announced \union {"intent"} =>
    /\ seen[p] \in Snapshots
    /\ meta[sid[p]] # NoMeta
    /\ seen[p].meta \in Metas /\ seen[p].meta.status = "active"
    /\ cmd[p] = "event" =>
         /\ seen[p].log \in Logs
         /\ NextEventId(seen[p].log) = Len(seen[p].log.lines) + 1
         /\ Len(seen[p].log.lines) < MaxEvents
         /\ Len(seen[p].log.lines) <= Len(Complete(log[sid[p]]))

(* A recovery action is alone, and finds what it saw until it writes.      *)
RecoverOK(p) ==
  cmd[p] \in Recoveries /\ pc[p] # "idle" =>
    /\ seen[p] \in Snapshots
    /\ \A q \in Procs : q # p => pc[q] = "idle"
    /\ cmd[p] = "cleanup" => meta[sid[p]] = NoMeta
    /\ cmd[p] = "repair" /\ pc[p] \in {"intent", "recheck", "write"} =>
         /\ seen[p].log \in Logs
         /\ log[sid[p]] = seen[p].log
         /\ seen[p].log.end # "lf"

CallsOK == \A p \in Procs : StepOK(p) /\ StartOK(p) /\ KnowsOK(p) /\ RecoverOK(p)

(* A log counts from one as far as it can be read: every line has its own  *)
(* number, or there is a line before or at it that does not parse, or a    *)
(* number that occurs twice.                                               *)
Counts(lines) ==
  \A i \in DOMAIN lines :
    \/ lines[i].id = i
    \/ \E j \in 1..i : lines[j].id = 0
    \/ \E j, k \in 1..i : j # k /\ lines[j].id = lines[k].id

FilesOK ==
  \A s \in Sessions :
    /\ meta[s] # NoMeta => log[s] # NoLog /\ s \in sessionDirs
    /\ ended[s] # NoLog => meta[s] # NoMeta /\ meta[s].status = "completed"
    /\ log[s] # NoLog => Counts(log[s].lines)

(* The commands in flight of a kind, and the events that may still commit: *)
(* once the session is completed only those that have been read back.      *)
Pending(s, k) == {p \in Procs : pc[p] \in Announced /\ sid[p] = s /\ cmd[p] = k}
Completed(s) == meta[s] # NoMeta /\ meta[s].status = "completed"
Hopeful(s) ==
  {p \in Pending(s, "event") : pc[p] = "commit" \/ ~Completed(s)}

(* The audit log holds an intent of an event that will never be matched.   *)
Betrayed(s) == Cardinality(Hopeful(s)) < open[s]["event"]

AuditOK ==
  \A s \in Sessions :
    /\ \A k \in Kinds : Cardinality(Pending(s, k)) <= open[s][k]
    /\ log[s] # NoLog /\ log[s].end # "lf" => Betrayed(s)
    /\ ended[s] # NoLog /\ log[s] # ended[s] => Betrayed(s)

Inv == TypeOK /\ CallsOK /\ FilesOK /\ AuditOK

-----------------------------------------------------------------------------
(* Event logs as sequences.                                                *)

(* An upper bound of a set of numbers that belongs to it is its maximum.  *)
LEMMA MaxIs ==
  ASSUME NEW S \in SUBSET Nat, NEW m \in S, \A y \in S : y <= m
  PROVE  Max(S) = m
<1>1. \A y \in S : m >= y
  OBVIOUS
<1>2. ASSUME NEW x \in S, \A y \in S : x >= y
      PROVE  x = m
  BY <1>2
<1> QED BY <1>1, <1>2 DEF Max

(* The first n elements of a sequence, one by one.                        *)
LEMMA SubSeqFacts ==
  ASSUME NEW S, NEW s \in Seq(S), NEW n \in 0..Len(s)
  PROVE  /\ SubSeq(s, 1, n) \in Seq(S)
         /\ Len(SubSeq(s, 1, n)) = n
         /\ \A i \in 1..n : SubSeq(s, 1, n)[i] = s[i]
BY SubSeqProperties

(* The complete lines of a log are all its lines, or all but the last.    *)
LEMMA CompleteFacts ==
  ASSUME NEW l \in Logs
  PROVE  /\ Complete(l) \in Seq(Lines)
         /\ Len(Complete(l)) <= Len(l.lines)
         /\ Len(l.lines) <= Len(Complete(l)) + 1
         /\ l.end # "nolf" => Complete(l) = l.lines
         /\ l.end = "nolf" /\ Len(l.lines) > 0 =>
              Len(l.lines) = Len(Complete(l)) + 1
         /\ \A i \in 1..Len(Complete(l)) : Complete(l)[i] = l.lines[i]
<1>1. l.lines \in Seq(Lines) /\ Len(l.lines) \in Nat
  BY DEF Logs
<1>2. CASE l.end # "nolf"
  BY <1>1, <1>2 DEF Complete
<1>3. CASE l.end = "nolf" /\ Len(l.lines) = 0
  <2>1. Complete(l) = SubSeq(l.lines, 1, 0 - 1)
    BY <1>3 DEF Complete
  <2>2. SubSeq(l.lines, 1, 0 - 1) = << >>
    BY <1>1, SubSeqProperties
  <2> QED BY <1>1, <1>3, <2>1, <2>2
<1>4. CASE l.end = "nolf" /\ Len(l.lines) > 0
  <2>1. Complete(l) = SubSeq(l.lines, 1, Len(l.lines) - 1)
    BY <1>4 DEF Complete
  <2>2. Len(l.lines) - 1 \in 0..Len(l.lines)
    BY <1>1, <1>4
  <2>3. /\ Complete(l) \in Seq(Lines)
        /\ Len(Complete(l)) = Len(l.lines) - 1
        /\ \A i \in 1..(Len(l.lines) - 1) : Complete(l)[i] = l.lines[i]
    BY <1>1, <2>1, <2>2, SubSeqFacts
  <2> QED BY <1>1, <1>4, <2>3
<1> QED BY <1>1, <1>2, <1>3, <1>4

(* New lines go to the end.                                                *)
Extends(l, m) ==
  /\ Len(Complete(l)) <= Len(Complete(m))
  /\ SubSeq(Complete(m), 1, Len(Complete(l))) = Complete(l)

(* A log whose complete lines start with those of another extends it.     *)
LEMMA ExtendsBy ==
  ASSUME NEW l \in Logs, NEW m \in Logs,
         Len(Complete(l)) <= Len(Complete(m)),
         \A i \in 1..Len(Complete(l)) : Complete(m)[i] = Complete(l)[i]
  PROVE  Extends(l, m)
<1> DEFINE a == Complete(l)
           b == Complete(m)
<1>1. a \in Seq(Lines) /\ b \in Seq(Lines) /\ Len(a) \in 0..Len(b)
  BY CompleteFacts
<1> HIDE DEF a, b
<1>2. /\ SubSeq(b, 1, Len(a)) \in Seq(Lines)
      /\ Len(SubSeq(b, 1, Len(a))) = Len(a)
      /\ \A i \in 1..Len(a) : SubSeq(b, 1, Len(a))[i] = b[i]
  BY <1>1, SubSeqFacts
<1>3. \A i \in 1..Len(a) : SubSeq(b, 1, Len(a))[i] = a[i]
  BY <1>2 DEF a, b
<1>4. SubSeq(b, 1, Len(a)) = a
  BY <1>1, <1>2, <1>3, SeqEqual
<1> QED BY <1>4 DEF Extends, a, b

(* Writing one more line keeps the complete lines and ends with a         *)
(* newline.                                                               *)
LEMMA AppendedFacts ==
  ASSUME NEW l \in Logs, NEW e \in Lines, Broken \in Lines
  PROVE  /\ Appended(l, e) \in Logs
         /\ Appended(l, e).end = "lf"
         /\ Extends(l, Appended(l, e))
<1> DEFINE m == Appended(l, e)
<1>1. l.lines \in Seq(Lines) /\ Len(l.lines) \in Nat /\ l.end \in {"lf", "nolf", "fragment"}
  BY DEF Logs
<1>2. ASSUME NEW t \in Seq(Lines), m = [lines |-> t, end |-> "lf"],
             Len(Complete(l)) <= Len(t),
             \A i \in 1..Len(Complete(l)) : t[i] = l.lines[i]
      PROVE  /\ m \in Logs /\ m.end = "lf" /\ Extends(l, m)
  <2>1. m \in Logs /\ m.end = "lf" /\ m.lines = t
    BY <1>2 DEF Logs
  <2> HIDE DEF m
  <2>2. Complete(m) = t
    BY <2>1 DEF Complete
  <2>3. \A i \in 1..Len(Complete(l)) : Complete(m)[i] = Complete(l)[i]
    BY <1>2, <2>2, CompleteFacts
  <2> QED BY <1>2, <2>1, <2>2, <2>3, ExtendsBy
<1>3. CASE l.end \in {"lf", "fragment"}
  <2>1. PICK x \in Lines : m = [lines |-> Append(l.lines, x), end |-> "lf"]
    BY <1>3 DEF Appended
  <2> DEFINE t == Append(l.lines, x)
  <2>2. /\ t \in Seq(Lines) /\ Len(t) = Len(l.lines) + 1
        /\ \A i \in 1..Len(l.lines) : t[i] = l.lines[i]
    BY <1>1, <2>1
  <2>3. /\ Len(Complete(l)) <= Len(t)
        /\ \A i \in 1..Len(Complete(l)) : t[i] = l.lines[i]
    <3>1. Len(Complete(l)) <= Len(l.lines) /\ Len(Complete(l)) \in Nat
      BY CompleteFacts
    <3> QED BY <1>1, <2>2, <3>1
  <2>4. m = [lines |-> t, end |-> "lf"]
    BY <2>1
  <2> HIDE DEF t, m
  <2> QED BY <1>2, <2>2, <2>3, <2>4 DEF m
<1>4. CASE l.end = "nolf"
  <2> DEFINE n == Len(l.lines)
             t == [l.lines EXCEPT ![n] = Broken]
  <2>1. m = [lines |-> t, end |-> "lf"]
    BY <1>4 DEF Appended
  <2>2. t \in Seq(Lines) /\ Len(t) = n /\ \A i \in 1..n : i # n => t[i] = l.lines[i]
    <3>1. l.lines \in [1..n -> Lines] /\ n \in Nat
      BY <1>1
    <3>2. t \in [1..n -> Lines] /\ \A i \in 1..n : i # n => t[i] = l.lines[i]
      BY <3>1
    <3> HIDE DEF t
    <3> QED BY <3>1, <3>2
  <2>3. /\ Len(Complete(l)) <= Len(t)
        /\ \A i \in 1..Len(Complete(l)) : t[i] = l.lines[i]
    <3>1. /\ Len(Complete(l)) <= n /\ Len(Complete(l)) \in Nat
          /\ n > 0 => n = Len(Complete(l)) + 1
      BY <1>4, CompleteFacts
    <3> QED BY <1>1, <2>2, <3>1
  <2> HIDE DEF t, m
  <2> QED BY <1>2, <2>1, <2>2, <2>3 DEF m
<1> QED BY <1>1, <1>3, <1>4

(* A set of numbers that has a bound has a greatest one.                   *)
LEMMA BoundedMax ==
  ASSUME NEW S \in SUBSET Nat, S # {}, NEW n \in Nat, \A y \in S : y <= n
  PROVE  \E m \in S : \A y \in S : y <= m
<1> DEFINE R == {ss \in Nat \X Nat : ss[1] < ss[2]}
           T == {n - y : y \in S}
<1>1. IsWellFoundedOn(R, Nat)
  BY NatLessThanWellFounded DEF OpToRel
<1>2. T \subseteq Nat /\ T # {} /\ \A y \in S : n - y \in T
  <2>1. \A y \in S : n - y \in Nat /\ n - y \in T
    OBVIOUS
  <2>2. PICK y \in S : TRUE
    OBVIOUS
  <2>3. \A t \in T : \E z \in S : t = n - z
    OBVIOUS
  <2> HIDE DEF T
  <2> QED BY <2>1, <2>2, <2>3
<1>3. \A x, y \in Nat : x < y => <<x, y>> \in R
  OBVIOUS
<1> HIDE DEF R
<1>4. PICK x \in T : \A y \in T : ~(<<y, x>> \in R)
  <2> HIDE DEF T
  <2> QED BY <1>1, <1>2, WFMin
<1>5. PICK m \in S : x = n - m
  BY <1>4
<1>6. ASSUME NEW y \in S
      PROVE  y <= m
  <2>1. n - y \in T /\ n - y \in Nat /\ x \in Nat
    BY <1>2, <1>4
  <2> HIDE DEF T
  <2>2. ~(n - y < x)
    BY <1>3, <1>4, <2>1
  <2> QED BY <1>5, <2>1, <2>2
<1> QED BY <1>6

(* A log keeps counting from one under everything that is done to it.      *)
LEMMA CountsPart ==
  ASSUME NEW s \in Seq(Lines), NEW t \in Seq(Lines), Counts(s),
         Len(t) <= Len(s), \A i \in 1..Len(t) : t[i] = s[i]
  PROVE  Counts(t)
<1> SUFFICES ASSUME NEW i \in DOMAIN t
             PROVE  \/ t[i].id = i
                    \/ \E j \in 1..i : t[j].id = 0
                    \/ \E j, k \in 1..i : j # k /\ t[j].id = t[k].id
  BY Zenon DEF Counts
<1>0. i \in 1..Len(t)
  OBVIOUS
<1>1. i \in DOMAIN s /\ \A j \in 1..i : t[j] = s[j]
  OBVIOUS
<1>2. \/ s[i].id = i
      \/ \E j \in 1..i : s[j].id = 0
      \/ \E j, k \in 1..i : j # k /\ s[j].id = s[k].id
  BY <1>1 DEF Counts
<1> HIDE DEF Counts
<1> QED BY <1>1, <1>2

(* A line after the others: its number is the next one, or it is one that  *)
(* does not parse, or it is next to some lines it does not know of.        *)
LEMMA CountsNext ==
  ASSUME NEW s \in Seq(Lines), NEW t \in Seq(Lines), Counts(s),
         Len(t) = Len(s) + 1, \A i \in 1..Len(s) : t[i] = s[i],
         NEW n \in 0..Len(s), t[Len(t)].id \in {0, n + 1}
  PROVE  Counts(t)
<1> SUFFICES ASSUME NEW i \in DOMAIN t
             PROVE  \/ t[i].id = i
                    \/ \E j \in 1..i : t[j].id = 0
                    \/ \E j, k \in 1..i : j # k /\ t[j].id = t[k].id
  BY Zenon DEF Counts
<1>0. i \in 1..Len(t)
  OBVIOUS
<1>1. Len(s) \in Nat /\ \A j \in 1..Len(s) : \A k \in 1..j : t[k] = s[k]
  OBVIOUS
<1>2. ASSUME NEW j \in 1..Len(s)
      PROVE  \/ t[j].id = j
             \/ \E k \in 1..j : t[k].id = 0
             \/ \E k, m \in 1..j : k # m /\ t[k].id = t[m].id
  <2>1. \A k \in 1..j : t[k] = s[k]
    BY <1>1
  <2>2. j \in 1..j /\ j \in DOMAIN s
    OBVIOUS
  <2>3. \/ s[j].id = j
        \/ \E k \in 1..j : s[k].id = 0
        \/ \E k, m \in 1..j : k # m /\ s[k].id = s[m].id
    BY <2>2 DEF Counts
  <2> QED BY <2>1, <2>2, <2>3
<1>3. CASE i \in 1..Len(s)
  BY <1>2, <1>3
<1>4. CASE i = Len(s) + 1 /\ t[i].id = 0
  BY <1>1, <1>4
<1>5. CASE i = Len(s) + 1 /\ t[i].id = n + 1
  <2>1. CASE n = Len(s)
    BY <1>5, <2>1
  <2>2. CASE n # Len(s)
    <3>1. n + 1 \in 1..Len(s) /\ n + 1 \in 1..i /\ n + 1 # i /\ i \in 1..i
          /\ 1..(n + 1) \subseteq 1..i
      BY <1>1, <1>5, <2>2
    <3>2. \/ t[n + 1].id = n + 1
          \/ \E k \in 1..(n + 1) : t[k].id = 0
          \/ \E k, m \in 1..(n + 1) : k # m /\ t[k].id = t[m].id
      BY <1>2, <3>1
    <3>3. CASE t[n + 1].id = n + 1
      BY <1>5, <3>1, <3>3
    <3>4. CASE \E k \in 1..(n + 1) : t[k].id = 0
      BY <3>1, <3>4
    <3>5. CASE \E k, m \in 1..(n + 1) : k # m /\ t[k].id = t[m].id
      BY <3>1, <3>5
    <3> QED BY <3>2, <3>3, <3>4, <3>5
  <2> QED BY <2>1, <2>2
<1> QED BY <1>1, <1>3, <1>4, <1>5

(* The last line turns into one that does not parse.                       *)
LEMMA CountsBroken ==
  ASSUME NEW s \in Seq(Lines), NEW t \in Seq(Lines), Counts(s),
         Len(t) = Len(s), \A i \in 1..Len(s) : i # Len(s) => t[i] = s[i],
         Len(s) > 0 => t[Len(s)].id = 0
  PROVE  Counts(t)
<1> SUFFICES ASSUME NEW i \in DOMAIN t
             PROVE  \/ t[i].id = i
                    \/ \E j \in 1..i : t[j].id = 0
                    \/ \E j, k \in 1..i : j # k /\ t[j].id = t[k].id
  BY Zenon DEF Counts
<1>0. i \in 1..Len(t)
  OBVIOUS
<1>1. Len(s) \in Nat /\ i \in 1..i
  OBVIOUS
<1>2. CASE i = Len(s)
  BY <1>1, <1>2
<1>3. CASE i # Len(s)
  <2>1. \A j \in 1..i : t[j] = s[j]
    BY <1>1, <1>3
  <2>2. i \in DOMAIN s
    BY <1>1
  <2>3. \/ s[i].id = i
        \/ \E k \in 1..i : s[k].id = 0
        \/ \E k, m \in 1..i : k # m /\ s[k].id = s[m].id
    BY <2>2 DEF Counts
  <2> QED BY <1>1, <2>1, <2>3
<1> QED BY <1>2, <1>3

(* A log that parses holds the events 1 to n and numbers the next n + 1.   *)
LEMMA ParsedCounts ==
  ASSUME NEW l \in Logs, Wellformed(l.lines), Counts(l.lines)
  PROVE  /\ \A i \in DOMAIN l.lines : l.lines[i].id = i
         /\ NextEventId(l) = Len(l.lines) + 1
<1> DEFINE n == Len(l.lines)
<1>1. l.lines \in Seq(Lines) /\ n \in Nat /\ DOMAIN l.lines = 1..n
  BY DEF Logs
<1>2. ASSUME NEW i \in 1..n
      PROVE  l.lines[i].id = i
  <2>1. 1..i \subseteq DOMAIN l.lines
    BY <1>1
  <2>2. \A j \in 1..i : l.lines[j].id # 0
    BY <2>1 DEF Wellformed
  <2>3. \A j, k \in 1..i : l.lines[j].id = l.lines[k].id => j = k
    BY <2>1 DEF Wellformed
  <2> QED BY <1>1, <2>2, <2>3 DEF Counts
<1> DEFINE S == {0} \union {l.lines[i].id : i \in DOMAIN l.lines}
<1>3. S \in SUBSET Nat /\ n \in S /\ \A y \in S : y <= n
  <2>1. \A y \in S : y \in 0..n
    BY <1>1, <1>2
  <2>2. n \in S
    BY <1>1, <1>2
  <2> HIDE DEF S
  <2> QED BY <1>1, <2>1, <2>2
<1>4. Max(S) = n
  <2> HIDE DEF S, n
  <2> QED BY <1>3, MaxIs
<1>5. NextEventId(l) = 1 + Max(S)
  BY DEF NextEventId
<1> HIDE DEF S
<1> QED BY <1>1, <1>2, <1>4, <1>5

(* An event goes to the end of a log of which it has seen the first lines. *)
LEMMA AppendedCounts ==
  ASSUME NEW l \in Logs, NEW e \in Lines, Broken \in Lines, Counts(l.lines),
         e.id = 0 \/ (e.id - 1 \in Nat /\ e.id - 1 <= Len(Complete(l)))
  PROVE  Counts(Appended(l, e).lines)
<1> DEFINE s == l.lines
           t == Appended(l, e).lines
<1>1. /\ s \in Seq(Lines) /\ Len(s) \in Nat /\ l.end \in {"lf", "nolf", "fragment"}
      /\ t \in Seq(Lines)
  <2>1. Appended(l, e) \in Logs
    BY AppendedFacts
  <2>2. t \in Seq(Lines)
    BY <2>1 DEF Logs
  <2> QED BY <2>2 DEF Logs
<1>2. e.id \in Nat
  BY DEF Lines
<1>3. CASE l.end \in {"lf", "fragment"}
  <2>1. PICK x \in {e, Broken} : t = Append(s, x)
    BY <1>3 DEF Appended
  <2>2. x \in Lines
    BY <2>1
  <2>3. /\ Len(t) = Len(s) + 1
        /\ \A i \in 1..Len(s) : t[i] = s[i]
        /\ t[Len(t)] = x
    BY <1>1, <2>1, <2>2
  <2>4. PICK n \in 0..Len(s) : x.id \in {0, n + 1}
    <3>1. Broken.id = 0
      BY DEF Broken
    <3>2. Len(Complete(l)) \in Nat /\ Len(Complete(l)) <= Len(s)
      BY CompleteFacts
    <3> QED BY <1>1, <1>2, <2>1, <3>1, <3>2
  <2> HIDE DEF s, t
  <2> QED BY <1>1, <2>3, <2>4, CountsNext DEF s, t
<1>4. CASE l.end = "nolf"
  <2>1. t = [s EXCEPT ![Len(s)] = Broken]
    BY <1>4 DEF Appended
  <2>2. /\ Len(t) = Len(s)
        /\ \A i \in 1..Len(s) : i # Len(s) => t[i] = s[i]
        /\ Len(s) > 0 => t[Len(s)] = Broken
    <3>1. s \in [1..Len(s) -> Lines]
      BY <1>1
    <3>2. /\ t \in [1..Len(s) -> Lines] 
          /\ \A i \in 1..Len(s) : i # Len(s) => t[i] = s[i]
          /\ Len(s) > 0 => t[Len(s)] = Broken
      BY <1>1, <2>1, <3>1
    <3> HIDE DEF t
    <3> QED BY <1>1, <3>2
  <2>3. Broken.id = 0
    BY DEF Broken
  <2> HIDE DEF s, t
  <2> QED BY <1>1, <2>2, <2>3, CountsBroken DEF s, t
<1> QED BY <1>1, <1>3, <1>4

(* A fragment takes the place of what follows the last line feed.          *)
LEMMA FragmentFacts ==
  ASSUME NEW l \in Logs, Counts(l.lines),
         NEW m, m = [lines |-> Complete(l), end |-> "fragment"]
  PROVE  m \in Logs /\ Extends(l, m) /\ Counts(m.lines)
<1>1. /\ Complete(l) \in Seq(Lines) /\ l.lines \in Seq(Lines)
      /\ Len(Complete(l)) <= Len(l.lines)
      /\ \A i \in 1..Len(Complete(l)) : Complete(l)[i] = l.lines[i]
  BY CompleteFacts DEF Logs
<1>2. m \in Logs /\ m.lines = Complete(l) /\ m.end = "fragment"
  BY <1>1 DEF Logs
<1>3. Complete(m) = Complete(l)
  BY <1>2 DEF Complete
<1>4. Extends(l, m)
  <2>1. Len(Complete(l)) \in Nat
    BY <1>1
  <2> QED BY <1>2, <1>3, <2>1, ExtendsBy
<1>5. Counts(m.lines)
  BY <1>1, <1>2, CountsPart
<1> QED BY <1>2, <1>4, <1>5

(* A line arrives without its line feed.                                   *)
LEMMA UnterminatedFacts ==
  ASSUME NEW l \in Logs, NEW e \in Lines, Broken \in Lines, Counts(l.lines),
         e.id - 1 \in Nat, e.id - 1 <= Len(Complete(l)), l.end = "lf",
         NEW m, m = [lines |-> Append(l.lines, e), end |-> "nolf"]
  PROVE  m \in Logs /\ Extends(l, m) /\ Counts(m.lines)
<1>1. l.lines \in Seq(Lines) /\ Len(l.lines) \in Nat
  BY DEF Logs
<1>2. m \in Logs /\ m.lines = Append(l.lines, e) /\ m.end = "nolf"
  BY <1>1 DEF Logs
<1>3. Appended(l, e).lines = m.lines
  BY <1>2 DEF Appended
<1>4. Counts(m.lines)
  BY <1>3, AppendedCounts
<1>5. /\ Len(m.lines) = Len(l.lines) + 1
      /\ \A i \in 1..Len(l.lines) : m.lines[i] = l.lines[i]
  BY <1>1, <1>2
<1>6. Complete(l) = l.lines
  BY CompleteFacts
<1>7. /\ Len(Complete(m)) = Len(l.lines)
      /\ \A i \in 1..Len(l.lines) : Complete(m)[i] = l.lines[i]
  <2>1. /\ Complete(m) \in Seq(Lines)
        /\ Len(m.lines) = Len(Complete(m)) + 1
        /\ \A i \in 1..Len(Complete(m)) : Complete(m)[i] = m.lines[i]
    <3>1. m \in Logs /\ m.end = "nolf" /\ Len(m.lines) > 0
      BY <1>1, <1>2, <1>5
    <3> QED BY <3>1, CompleteFacts
  <2>2. Len(Complete(m)) \in Nat
    BY <2>1
  <2>3. Len(Complete(m)) = Len(l.lines)
    BY <1>1, <1>5, <2>1, <2>2
  <2>4. ASSUME NEW i \in 1..Len(l.lines)
        PROVE  Complete(m)[i] = l.lines[i]
    BY <1>5, <2>1, <2>3
  <2> QED BY <2>3, <2>4
<1>8. Extends(l, m)
  <2>1. Len(Complete(l)) <= Len(Complete(m))
    BY <1>1, <1>6, <1>7
  <2> QED BY <1>2, <1>6, <1>7, <2>1, ExtendsBy
<1> QED BY <1>2, <1>4, <1>8

(* A repair keeps the lines.                                               *)
LEMMA RepairedFacts ==
  ASSUME NEW l \in Logs
  PROVE  /\ Repaired(l) \in Logs /\ Repaired(l).end = "lf"
         /\ Repaired(l).lines = l.lines /\ Extends(l, Repaired(l))
<1>1. /\ Repaired(l) \in Logs /\ Repaired(l).end = "lf"
      /\ Repaired(l).lines = l.lines
  BY DEF Repaired, Logs
<1>2. Complete(Repaired(l)) = l.lines
  BY <1>1 DEF Complete
<1>3. Extends(l, Repaired(l))
  BY <1>1, <1>2, CompleteFacts, ExtendsBy
<1> QED BY <1>1, <1>3

(* The log a start creates.                                               *)
LEMMA EmptyFacts ==
  /\ EmptyLog \in Logs /\ EmptyLog.end = "lf" /\ Counts(EmptyLog.lines)
BY DEF EmptyLog, Logs, Counts

(* A line that does not parse carries no event number.                    *)
LEMMA BrokenFacts == Broken \in Lines /\ Broken.id = 0
BY SessionAssumption DEF Broken, Lines

(* What a call reads of its session.                                      *)
LEMMA SnapshotFacts ==
  ASSUME TypeOK, NEW s \in Sessions
  PROVE  /\ Snapshot(s) \in Snapshots
         /\ Snapshot(s).log = log[s] /\ Snapshot(s).meta = meta[s]
<1>1. log[s] \in Logs \union {NoLog} /\ meta[s] \in Metas \union {NoMeta}
  BY DEF TypeOK
<1>2. (s \in sessionDirs) \in BOOLEAN /\ (s \in rawDirs) \in BOOLEAN
  OBVIOUS
<1>3. Snapshot(s).log = log[s] /\ Snapshot(s).meta = meta[s]
  BY DEF Snapshot
<1>4. ASSUME NEW x \in BOOLEAN, NEW y \in BOOLEAN
      PROVE  [sdir |-> x, rdir |-> y, log |-> log[s], meta |-> meta[s]] \in Snapshots
  BY <1>1 DEF Snapshots
<1>5. Snapshot(s) \in Snapshots
  BY <1>2, <1>4, Zenon DEF Snapshot
<1> QED BY <1>3, <1>5

-----------------------------------------------------------------------------
(* What a step does to the event logs.                                     *)
Grows(l, m) ==
  /\ l \in Logs /\ m \in Logs /\ Extends(l, m)
  /\ Counts(l.lines) => Counts(m.lines)

(* An event gets the number after the lines that were seen.                *)
LEMMA NewEventFacts ==
  ASSUME Inv, NEW p \in Procs, pc[p] = "write", cmd[p] = "event"
  PROVE  /\ NewEvent(p) \in Lines
         /\ NewEvent(p).id - 1 \in Nat
         /\ NewEvent(p).id - 1 <= Len(Complete(log[sid[p]]))
<1>1. /\ seen[p].log \in Logs
      /\ NextEventId(seen[p].log) = Len(seen[p].log.lines) + 1
      /\ Len(seen[p].log.lines) < MaxEvents
      /\ Len(seen[p].log.lines) <= Len(Complete(log[sid[p]]))
  BY DEF Inv, CallsOK, KnowsOK, Announced
<1>2. Len(seen[p].log.lines) \in Nat
  BY <1>1 DEF Logs
<1>3. NewEvent(p).id = Len(seen[p].log.lines) + 1 /\ NewEvent(p).by = p
  BY <1>1 DEF NewEvent
<1>4. NewEvent(p) \in Lines
  <2>1. Len(seen[p].log.lines) + 1 \in 0..MaxEvents
    BY <1>1, <1>2, SessionAssumption
  <2>2. NewEvent(p) = [id |-> Len(seen[p].log.lines) + 1, by |-> p]
    BY <1>1 DEF NewEvent
  <2> QED BY ONLY <2>1, <2>2, p \in Procs DEF Lines
<1>5. /\ NewEvent(p).id - 1 = Len(seen[p].log.lines)
      /\ NewEvent(p).id - 1 \in Nat
  BY ONLY <1>2, <1>3
<1>6. NewEvent(p).id - 1 <= Len(Complete(log[sid[p]]))
  BY ONLY <1>1, <1>5
<1> QED BY ONLY <1>4, <1>5, <1>6

(* An event's append adds at most one line at the end of its log.         *)
LEMMA WriteEventGrows ==
  ASSUME Inv, NEW p \in Procs, WriteEvent(p), log[sid[p]] # NoLog
  PROVE  /\ sid[p] \in Sessions
         /\ Grows(log[sid[p]], log'[sid[p]]) /\ log'[sid[p]].end = "lf"
<1>1. pc[p] = "write" /\ cmd[p] = "event" /\ sid[p] \in Sessions
  BY DEF WriteEvent, At, Runs, Inv, CallsOK, StepOK
<1>2. log[sid[p]] \in Logs /\ Counts(log[sid[p]].lines)
  BY <1>1 DEF Inv, TypeOK, FilesOK
<1>3. log'[sid[p]] = Appended(log[sid[p]], NewEvent(p))
  BY <1>1 DEF WriteEvent, Inv, TypeOK
<1> QED BY <1>1, <1>2, <1>3, NewEventFacts, BrokenFacts, AppendedFacts, AppendedCounts DEF Grows

(* A crash in the middle of an append leaves the lines before it alone.   *)
LEMMA CrashInEventGrows ==
  ASSUME Inv, NEW p \in Procs, CrashInEvent(p)
  PROVE  sid[p] \in Sessions /\ Grows(log[sid[p]], log'[sid[p]])
<1>1. pc[p] = "write" /\ cmd[p] = "event" /\ sid[p] \in Sessions /\ log[sid[p]] # NoLog
  BY DEF CrashInEvent, At, Runs, Inv, CallsOK, StepOK
<1>2. log[sid[p]] \in Logs /\ Counts(log[sid[p]].lines)
  BY <1>1 DEF Inv, TypeOK, FilesOK
<1>3. \/ log'[sid[p]] = [lines |-> Complete(log[sid[p]]), end |-> "fragment"]
      \/ /\ log[sid[p]].end = "lf"
         /\ log'[sid[p]] = [lines |-> Append(log[sid[p]].lines, NewEvent(p)), end |-> "nolf"]
  BY <1>1 DEF CrashInEvent, Inv, TypeOK
<1>4. CASE log'[sid[p]] = [lines |-> Complete(log[sid[p]]), end |-> "fragment"]
  BY <1>1, <1>2, <1>4, FragmentFacts DEF Grows
<1>5. CASE /\ log[sid[p]].end = "lf"
           /\ log'[sid[p]] = [lines |-> Append(log[sid[p]].lines, NewEvent(p)), end |-> "nolf"]
  BY <1>1, <1>2, <1>5, NewEventFacts, BrokenFacts, UnterminatedFacts DEF Grows
<1> QED BY <1>3, <1>4, <1>5

(* A repair ends the log with a newline and leaves the lines before it    *)
(* alone.                                                                 *)
LEMMA WriteRepairGrows ==
  ASSUME Inv, NEW p \in Procs, WriteRepair(p)
  PROVE  /\ sid[p] \in Sessions
         /\ log[sid[p]] \in Logs /\ log[sid[p]].end # "lf"
         /\ Grows(log[sid[p]], log'[sid[p]]) /\ log'[sid[p]].end = "lf"
<1>1. pc[p] = "write" /\ cmd[p] = "repair" /\ sid[p] \in Sessions
  BY DEF WriteRepair, At, Runs, Inv, CallsOK, StepOK
<1>2. /\ log[sid[p]] \in Logs /\ log[sid[p]] = seen[p].log
      /\ log[sid[p]].end # "lf"
  BY <1>1 DEF Inv, CallsOK, RecoverOK, Recoveries
<1>3. log'[sid[p]] = Repaired(log[sid[p]])
  <2>1. log[sid[p]].end \in {"nolf", "fragment"}
    BY <1>2 DEF Logs
  <2>2. log'[sid[p]] =
          IF seen[p].log.end = "fragment" THEN Repaired(seen[p].log)
          ELSE IF log[sid[p]].end = "nolf" THEN Repaired(log[sid[p]])
          ELSE Appended(log[sid[p]], Broken)
    BY <1>1 DEF WriteRepair, Inv, TypeOK
  <2> QED BY <1>2, <2>1, <2>2
<1> QED BY <1>1, <1>2, <1>3, RepairedFacts DEF Grows

-----------------------------------------------------------------------------
(* The actions of a process: those that read, those that record something  *)
(* in the audit log, and those that write the directories of a session.    *)
ReadStep(p) ==
  /\ UNCHANGED <<disk, audit, ended>>
  /\ \/ \E k \in Commands : Begin(p, k)
     \/ LookupForStart(p) \/ LookupActive(p) \/ Allocate(p)
     \/ ValidateLog(p) \/ Read(p)
     \/ \E s \in Sessions, k \in Recoveries : Recover(p, k, s)
     \/ Recheck(p) \/ Verify(p) \/ Crash(p)
RecordStep(p) ==
  /\ UNCHANGED <<disk, ended>>
  /\ AppendIntent(p) \/ AppendCommitted(p) \/ CrashInAudit(p)
WriteStep(p) ==
  /\ UNCHANGED audit
  /\ \/ MakeSessionDir(p) \/ MakeRawDir(p) \/ MakeLog(p)
     \/ WriteMeta(p) \/ WriteEvent(p) \/ WriteRepair(p)
     \/ UnlinkLog(p) \/ RemoveRawDir(p) \/ RemoveSessionDir(p)
     \/ CrashInEvent(p)

(* Every step of a process reads, records in the audit log, or writes a   *)
(* file.                                                                  *)
LEMMA StepKinds ==
  ASSUME NEW p \in Procs, Step(p)
  PROVE  ReadStep(p) \/ RecordStep(p) \/ WriteStep(p)
<1>1. CASE \/ \E k \in Commands : Begin(p, k)
           \/ LookupForStart(p) \/ LookupActive(p) \/ Allocate(p)
           \/ ValidateLog(p) \/ Read(p)
  BY <1>1 DEF ReadStep, Begin, LookupForStart, LookupActive, Allocate, ValidateLog,
     Read, GotoIf, disk, audit
<1>2. CASE \/ \E s \in Sessions, k \in Recoveries : Recover(p, k, s)
           \/ Recheck(p) \/ Verify(p) \/ Crash(p)
  BY <1>2 DEF ReadStep, Recover, Recheck, Verify, Crash, GotoIf, disk, audit
<1>3. CASE AppendIntent(p) \/ AppendCommitted(p) \/ CrashInAudit(p)
  BY <1>3 DEF RecordStep, AppendIntent, AppendCommitted, CrashInAudit, disk
<1>4. CASE \/ MakeSessionDir(p) \/ MakeRawDir(p) \/ MakeLog(p)
           \/ WriteMeta(p) \/ WriteEvent(p) \/ WriteRepair(p)
  BY <1>4 DEF WriteStep, MakeSessionDir, MakeRawDir, MakeLog, WriteMeta, WriteEvent,
     WriteRepair, audit
<1>5. CASE \/ UnlinkLog(p) \/ RemoveRawDir(p) \/ RemoveSessionDir(p)
           \/ CrashInEvent(p)
  BY <1>5 DEF WriteStep, UnlinkLog, RemoveRawDir, RemoveSessionDir, CrashInEvent, audit
<1> QED BY <1>1, <1>2, <1>3, <1>4, <1>5 DEF Step

(* The call of another process goes on as before.                          *)
Same(q) ==
  pc'[q] = pc[q] /\ cmd'[q] = cmd[q] /\ sid'[q] = sid[q] /\ seen'[q] = seen[q]

(* A step of a process leaves the calls of the others where they are.     *)
LEMMA OthersSame ==
  ASSUME TypeOK, NEW p \in Procs, Step(p), NEW q \in Procs, q # p
  PROVE  Same(q)
<1>1. CASE ReadStep(p)
  BY <1>1 DEF ReadStep, Begin, LookupForStart, LookupActive, Allocate, ValidateLog,
     Read, Recover, Recheck, Verify, Crash, GotoIf, Goto, Exit, Move, TypeOK, Same
<1>2. CASE RecordStep(p)
  BY <1>2 DEF RecordStep, AppendIntent, AppendCommitted, CrashInAudit,
     Goto, Exit, Move, TypeOK, Same
<1>3. CASE WriteStep(p)
  BY <1>3 DEF WriteStep, MakeSessionDir, MakeRawDir, MakeLog, WriteMeta, WriteEvent,
     WriteRepair, UnlinkLog, RemoveRawDir, RemoveSessionDir, CrashInEvent,
     Goto, Exit, Move, TypeOK, Same
<1> QED BY <1>1, <1>2, <1>3, StepKinds

(* What happens to the log of a session.                                   *)
LogStep(p, s) ==
  \/ log'[s] = log[s]
  \/ /\ pc[p] = "mklog" /\ s = sid[p]
     /\ log[s] = NoLog /\ log'[s] = EmptyLog
  \/ /\ pc[p] = "write" /\ cmd[p] = "event" /\ s = sid[p]
     /\ log[s] # NoLog /\ Grows(log[s], log'[s])
     /\ \/ WriteEvent(p) /\ log'[s].end = "lf"
        \/ CrashInEvent(p)
  \/ /\ pc[p] = "write" /\ cmd[p] = "repair" /\ s = sid[p]
     /\ log[s] # NoLog /\ Grows(log[s], log'[s])
     /\ log[s].end # "lf" /\ log'[s].end = "lf"
  \/ /\ pc[p] = "unlink" /\ cmd[p] = "cleanup" /\ s = sid[p]
     /\ log[s] = EmptyLog /\ log'[s] = NoLog

(* Every step of a process changes a log in one of the ways of LogStep.   *)
LEMMA LogChange ==
  ASSUME Inv, NEW p \in Procs, Step(p), NEW s \in Sessions
  PROVE  LogStep(p, s)
<1>0. /\ TypeOK /\ StepOK(p) /\ NoLog \notin Logs
      /\ WriteStep(p) /\ sid[p] # s => log'[s] = log[s]
  <2>1. WriteStep(p) /\ sid[p] # s => log'[s] = log[s]
    BY DEF WriteStep, MakeSessionDir, MakeRawDir, MakeLog, WriteMeta, WriteEvent,
       WriteRepair, UnlinkLog, RemoveRawDir, RemoveSessionDir, CrashInEvent, Inv, TypeOK
  <2> QED BY <2>1, SessionAssumption DEF Inv, CallsOK
<1>1. CASE UNCHANGED log
  BY <1>1 DEF LogStep
<1>2. CASE MakeLog(p) /\ sid[p] = s
  BY <1>0, <1>2 DEF MakeLog, LogStep, At, TypeOK
<1>3. CASE WriteEvent(p) /\ sid[p] = s
  <2>1. pc[p] = "write" /\ cmd[p] = "event"
    BY <1>3 DEF WriteEvent, At, Runs
  <2>2. CASE log[s] # NoLog
    BY <1>3, <2>1, <2>2, WriteEventGrows DEF LogStep
  <2>3. CASE log[s] = NoLog
    BY <1>3, <2>3 DEF WriteEvent, LogStep
  <2> QED BY <2>2, <2>3
<1>4. CASE WriteRepair(p) /\ sid[p] = s
  <2>1. pc[p] = "write" /\ cmd[p] = "repair"
    BY <1>4 DEF WriteRepair, At, Runs
  <2> QED BY <1>0, <1>4, <2>1, WriteRepairGrows DEF LogStep
<1>5. CASE UnlinkLog(p) /\ sid[p] = s
  BY <1>0, <1>5 DEF UnlinkLog, LogStep, At, TypeOK, StepOK
<1>6. CASE CrashInEvent(p) /\ sid[p] = s
  <2>1. pc[p] = "write" /\ cmd[p] = "event" /\ log[s] # NoLog
    BY <1>6 DEF CrashInEvent, At, Runs
  <2> QED BY <1>6, <2>1, CrashInEventGrows DEF LogStep
<1>7. ReadStep(p) \/ RecordStep(p) => UNCHANGED log
  BY DEF ReadStep, RecordStep, disk
<1>8. WriteStep(p) => \/ UNCHANGED log \/ MakeLog(p) \/ WriteEvent(p) \/ WriteRepair(p)
                      \/ UnlinkLog(p) \/ CrashInEvent(p)
  BY DEF WriteStep, MakeSessionDir, MakeRawDir, WriteMeta, RemoveRawDir, RemoveSessionDir
<1>9. CASE sid[p] # s
  BY <1>0, <1>1, <1>7, <1>9, StepKinds DEF LogStep
<1> QED BY <1>1, <1>2, <1>3, <1>4, <1>5, <1>6, <1>7, <1>8, <1>9, StepKinds

(* A log that is there stays, unless a cleanup of a session without        *)
(* metadata takes it, and it only grows.                                   *)
LEMMA LogKept ==
  ASSUME Inv, NEW p \in Procs, Step(p), NEW s \in Sessions, log[s] # NoLog
  PROVE  /\ \/ log'[s] # NoLog
            \/ cmd[p] = "cleanup" /\ pc[p] # "idle" /\ s = sid[p]
         /\ log'[s] # NoLog => Grows(log[s], log'[s])
<1>1. LogStep(p, s)
  BY LogChange
<1>2. log[s] \in Logs /\ NoLog \notin Logs
  BY SessionAssumption DEF Inv, TypeOK
<1>3. Grows(log[s], log[s])
  <2>1. Complete(log[s]) \in Seq(Lines)
    BY <1>2, CompleteFacts
  <2>2. Len(Complete(log[s])) <= Len(Complete(log[s]))
    BY <2>1
  <2>3. Extends(log[s], log[s])
    BY <1>2, <2>2, ExtendsBy
  <2> QED BY <1>2, <2>3 DEF Grows
<1> QED BY <1>1, <1>2, <1>3 DEF LogStep, Grows

(* What happens to the metadata.                                           *)
LEMMA MetaChange ==
  ASSUME Inv, NEW p \in Procs, Step(p), NEW s \in Sessions
  PROVE  \/ meta'[s] = meta[s] /\ ended'[s] = ended[s]
         \/ /\ s = sid[p] /\ WriteMeta(p) /\ pc[p] = "write" /\ pc'[p] = "verify"
            /\ cmd[p] \in {"start", "end"} /\ meta'[s] = NewMeta(p)
            /\ UNCHANGED <<sessionDirs, rawDirs, log, audit>>
            /\ ended'[s] = IF cmd[p] = "end" /\ ended[s] = NoLog THEN log[s]
                           ELSE ended[s]
<1>1. ReadStep(p) \/ RecordStep(p) => UNCHANGED <<meta, ended>>
  BY DEF ReadStep, RecordStep, disk
<1>2. WriteStep(p) => UNCHANGED <<meta, ended>> \/ WriteMeta(p)
  BY DEF WriteStep, MakeSessionDir, MakeRawDir, MakeLog, WriteEvent, WriteRepair,
     UnlinkLog, RemoveRawDir, RemoveSessionDir, CrashInEvent
<1>3. CASE WriteMeta(p)
  BY <1>3 DEF WriteMeta, At, Runs, Goto, Move, Inv, TypeOK
<1> QED BY <1>1, <1>2, <1>3, StepKinds

(* A session has its metadata from its start on, and completed it stays.   *)
LEMMA MetaKept ==
  ASSUME Inv, NEW p \in Procs, Step(p), NEW s \in Sessions
  PROVE  /\ meta[s] # NoMeta => meta'[s] # NoMeta
         /\ Completed(s) => Completed(s)'
         /\ meta'[s] # NoMeta /\ meta[s] = NoMeta =>
              s = sid[p] /\ cmd[p] = "start" /\ pc[p] = "write"
         /\ meta'[s] # meta[s] /\ cmd[p] = "start" => meta[s] = NoMeta
         /\ cmd[p] = "end" /\ meta'[s] # meta[s] => Completed(s)'
<1>1. NewMeta(p) \in Metas /\ NewMeta(p) # NoMeta
  BY SessionAssumption DEF NewMeta, Metas
<1>2. cmd[p] = "end" => NewMeta(p).status = "completed"
  BY DEF NewMeta
<1>3. cmd[p] = "start" /\ pc[p] = "write" => meta[sid[p]] = NoMeta
  BY DEF Inv, CallsOK, StartOK, Creating
<1>4. cmd[p] = "end" /\ pc[p] = "write" => meta[sid[p]] # NoMeta
  BY DEF Inv, CallsOK, KnowsOK, Announced
<1> QED BY <1>1, <1>2, <1>3, <1>4, MetaChange DEF Completed

(* A session directory is made by a start and taken by a cleanup.          *)
LEMMA DirChange ==
  ASSUME Inv, NEW p \in Procs, Step(p)
  PROVE  \/ sessionDirs' = sessionDirs
         \/ /\ MakeSessionDir(p) /\ pc[p] = "mkdir" /\ pc'[p] = "mkraw"
            /\ sid[p] \notin sessionDirs /\ sessionDirs' = sessionDirs \union {sid[p]}
         \/ /\ RemoveSessionDir(p) /\ pc[p] = "rmdir" /\ cmd[p] = "cleanup"
            /\ sessionDirs' = sessionDirs \ {sid[p]}
<1>1. ReadStep(p) \/ RecordStep(p) => UNCHANGED sessionDirs
  BY DEF ReadStep, RecordStep, disk
<1>2. WriteStep(p) => \/ UNCHANGED sessionDirs
                      \/ MakeSessionDir(p) \/ RemoveSessionDir(p)
  BY DEF WriteStep, MakeLog, MakeRawDir, WriteMeta, WriteEvent, WriteRepair,
     UnlinkLog, RemoveRawDir, CrashInEvent
<1>3. CASE MakeSessionDir(p)
  BY <1>3 DEF MakeSessionDir, HasDirs, At, Goto, Move, Inv, TypeOK
<1>4. CASE RemoveSessionDir(p)
  BY <1>4 DEF RemoveSessionDir, At, Inv, CallsOK, StepOK
<1> QED BY <1>1, <1>2, <1>3, <1>4, StepKinds

-----------------------------------------------------------------------------
(* The initial states satisfy the invariant.                               *)
LEMMA NobodyPending ==
  ASSUME \A p \in Procs : pc[p] = "idle"
  PROVE  /\ \A s, k : Pending(s, k) = {}
         /\ \A s : Hopeful(s) = {}
BY DEF Pending, Hopeful, Announced

(* A vault without sessions, with nothing in flight, satisfies the        *)
(* invariant.                                                             *)
LEMMA InitInv ==
  ASSUME Init
  PROVE  Inv
<1>1. TypeOK
  BY SessionAssumption DEF Init, TypeOK, Tails, Steps, Kinds, Commands
<1>2. CallsOK
  BY DEF Init, CallsOK, StepOK, StartOK, KnowsOK, RecoverOK, Announced, Creating,
     Recoveries
<1>3. FilesOK
  BY DEF Init, FilesOK
<1>4. AuditOK
  BY NobodyPending, FS_EmptySet DEF Init, AuditOK, Sessions, Kinds
<1> QED BY <1>1, <1>2, <1>3, <1>4 DEF Inv

(* The types.                                                              *)
CallTypes(p) ==
  /\ pc' \in [Procs -> Steps] /\ cmd' \in [Procs -> Kinds]
  /\ sid' \in [Procs -> Sessions \union {0}]
  /\ seen' \in [Procs -> Snapshots \union {Nothing}]

(* Leaving a call and moving on inside it keep the call's variables in    *)
(* type.                                                                  *)
LEMMA MoveTypes ==
  ASSUME TypeOK, NEW p \in Procs
  PROVE  /\ Exit(p) => CallTypes(p)
         /\ \A l \in Steps : Goto(p, l) => CallTypes(p)
<1>1. "idle" \in Steps /\ "start" \in Kinds
  BY DEF Steps, Kinds, Commands
<1>2. Exit(p) => CallTypes(p)
  BY <1>1 DEF Exit, Move, TypeOK, CallTypes
<1>3. ASSUME NEW l \in Steps, Goto(p, l)
      PROVE  CallTypes(p)
  BY <1>3 DEF Goto, Move, TypeOK, CallTypes
<1> QED BY <1>2, <1>3

(* Every step leaves the call's variables in type.                        *)
LEMMA CallsTyped ==
  ASSUME Inv, NEW p \in Procs, Step(p)
  PROVE  CallTypes(p)
<1>0. TypeOK /\ StepOK(p) /\ Commands \subseteq Kinds /\ Recoveries \subseteq Kinds
  BY DEF Inv, CallsOK, Kinds
<1> DEFINE moves == Exit(p) \/ \E l \in Steps : Goto(p, l)
<1>1. ASSUME ReadStep(p)
      PROVE  CallTypes(p)
  <2>1. CASE \/ LookupForStart(p) \/ ValidateLog(p)
             \/ Recheck(p) \/ Verify(p) \/ Crash(p)
    <3>1. moves
      BY <2>1 DEF LookupForStart, ValidateLog, Recheck, Verify, Crash, GotoIf, Steps
    <3> QED BY <1>0, <3>1, MoveTypes
  <2>2. CASE \E k \in Commands : Begin(p, k)
    <3>1. "lookup" \in Steps
      BY DEF Steps
    <3> QED BY <1>0, <2>2, <3>1 DEF Begin, Move, TypeOK, CallTypes
  <2>3. CASE LookupActive(p) \/ Allocate(p)
    <3>1. {"validate", "read", "intent"} \subseteq Steps
      BY DEF Steps
    <3>2. CASE Allocate(p)
      BY <1>0, <3>1, <3>2 DEF Allocate, Move, TypeOK, CallTypes
    <3>3. CASE LookupActive(p) /\ ~Exit(p)
      <4>1. PICK s \in Sessions, l \in Steps :
              /\ pc' = [pc EXCEPT ![p] = l]
              /\ sid' = [sid EXCEPT ![p] = s]
              /\ UNCHANGED <<cmd, seen>>
        BY <3>1, <3>3 DEF LookupActive, Move
      <4> QED BY <1>0, <4>1 DEF TypeOK, CallTypes
    <3> QED BY <1>0, <2>3, <3>2, <3>3, MoveTypes
  <2>4. CASE Read(p)
    <3>1. CASE ~Exit(p)
      <4>1. sid[p] \in Sessions
        BY <1>0, <2>4 DEF Read, At, StepOK
      <4>2. Snapshot(sid[p]) \in Snapshots /\ "intent" \in Steps
        BY <1>0, <4>1, SnapshotFacts DEF Steps
      <4>3. /\ pc' = [pc EXCEPT ![p] = "intent"]
            /\ seen' = [seen EXCEPT ![p] = Snapshot(sid[p])]
            /\ UNCHANGED <<cmd, sid>>
        BY <2>4, <3>1 DEF Read, Move
      <4> QED BY <1>0, <4>2, <4>3 DEF TypeOK, CallTypes
    <3> QED BY <1>0, <3>1, MoveTypes
  <2>5. CASE \E s \in Sessions, k \in Recoveries : Recover(p, k, s)
    <3>1. PICK s \in Sessions, k \in Recoveries : Recover(p, k, s)
      BY <2>5
    <3>2. Snapshot(s) \in Snapshots /\ "intent" \in Steps
      BY <1>0, SnapshotFacts DEF Steps
    <3>3. /\ pc' = [pc EXCEPT ![p] = "intent"]
          /\ cmd' = [cmd EXCEPT ![p] = k]
          /\ sid' = [sid EXCEPT ![p] = s]
          /\ seen' = [seen EXCEPT ![p] = Snapshot(s)]
      BY <3>1 DEF Recover, Move
    <3> QED BY <1>0, <3>2, <3>3 DEF TypeOK, CallTypes
  <2> QED BY <1>1, <2>1, <2>2, <2>3, <2>4, <2>5 DEF ReadStep
<1>2. ASSUME RecordStep(p)
      PROVE  CallTypes(p)
  <2>1. moves
    BY <1>2 DEF RecordStep, AppendIntent, AppendCommitted, CrashInAudit, Steps
  <2> QED BY <1>0, <2>1, MoveTypes
<1>3. ASSUME WriteStep(p)
      PROVE  CallTypes(p)
  <2>1. moves
    BY <1>3 DEF WriteStep, MakeSessionDir, MakeRawDir, MakeLog, WriteMeta,
       WriteEvent, WriteRepair, UnlinkLog, RemoveRawDir, RemoveSessionDir,
       CrashInEvent, Steps
  <2> QED BY <1>0, <2>1, MoveTypes
<1> QED BY <1>1, <1>2, <1>3, StepKinds

(* Every step leaves the session files in type.                           *)
LEMMA DiskTypes ==
  ASSUME Inv, NEW p \in Procs, Step(p)
  PROVE  /\ sessionDirs' \subseteq Sessions /\ rawDirs' \subseteq Sessions
         /\ log' \in [Sessions -> Logs \union {NoLog}]
         /\ meta' \in [Sessions -> Metas \union {NoMeta}]
         /\ ended' \in [Sessions -> Logs \union {NoLog}]
<1>0. TypeOK /\ StepOK(p)
  BY DEF Inv, CallsOK
<1>1. ASSUME NEW s \in Sessions
      PROVE  log'[s] \in Logs \union {NoLog}
  BY <1>0, LogChange, EmptyFacts DEF LogStep, Grows, TypeOK
<1>2. UNCHANGED log \/ \E s, l : log' = [log EXCEPT ![s] = l]
  <2>1. ReadStep(p) \/ RecordStep(p) => UNCHANGED log
    BY DEF ReadStep, RecordStep, disk
  <2>2. WriteStep(p) => UNCHANGED log \/ \E s, l : log' = [log EXCEPT ![s] = l]
    BY DEF WriteStep, MakeSessionDir, MakeRawDir, MakeLog, WriteMeta, WriteEvent,
       WriteRepair, UnlinkLog, RemoveRawDir, RemoveSessionDir, CrashInEvent
  <2> QED BY <2>1, <2>2, StepKinds
<1>3. log' \in [Sessions -> Logs \union {NoLog}]
  BY <1>0, <1>1, <1>2 DEF TypeOK
<1>4. sessionDirs' \subseteq Sessions
  BY <1>0, DirChange DEF TypeOK, StepOK
<1>5. /\ rawDirs' \subseteq Sessions
      /\ UNCHANGED <<meta, ended>> \/ WriteMeta(p)
  <2>1. ReadStep(p) \/ RecordStep(p) => UNCHANGED <<rawDirs, meta, ended>>
    BY DEF ReadStep, RecordStep, disk
  <2>2. WriteStep(p) => /\ rawDirs' \subseteq Sessions
                        /\ UNCHANGED <<meta, ended>> \/ WriteMeta(p)
    BY <1>0 DEF WriteStep, MakeSessionDir, MakeRawDir, MakeLog, WriteMeta, WriteEvent,
       WriteRepair, UnlinkLog, RemoveRawDir, RemoveSessionDir, CrashInEvent,
       TypeOK, StepOK, At
  <2> QED BY <1>0, <2>1, <2>2, StepKinds DEF TypeOK
<1>6. /\ meta' \in [Sessions -> Metas \union {NoMeta}]
      /\ ended' \in [Sessions -> Logs \union {NoLog}]
  <2>1. CASE UNCHANGED <<meta, ended>>
    BY <1>0, <2>1 DEF TypeOK
  <2>2. CASE WriteMeta(p)
    <3>1. sid[p] \in Sessions
      BY <1>0, <2>2 DEF WriteMeta, At, StepOK
    <3>2. log[sid[p]] \in Logs \union {NoLog} /\ ended[sid[p]] \in Logs \union {NoLog}
      BY <1>0, <3>1 DEF TypeOK
    <3>3. NewMeta(p) \in Metas
      BY DEF NewMeta, Metas
    <3>4. meta' \in [Sessions -> Metas \union {NoMeta}]
      BY <1>0, <2>2, <3>3 DEF WriteMeta, TypeOK
    <3>5. PICK l \in Logs \union {NoLog} :
            ended' = [ended EXCEPT ![sid[p]] = l] \/ ended' = ended
      BY <2>2, <3>2 DEF WriteMeta
    <3> QED BY <1>0, <3>4, <3>5 DEF TypeOK
  <2> QED BY <1>5, <2>1, <2>2
<1> QED BY <1>3, <1>4, <1>5, <1>6

(* The number of intents of a kind that are in the audit log.              *)
OpenChange(p) ==
  \/ UNCHANGED open
  \/ /\ pc[p] = "intent" /\ sid[p] \in Sessions
     /\ open' = [open EXCEPT ![sid[p]][cmd[p]] = @ + 1]
  \/ /\ pc[p] = "commit" /\ sid[p] \in Sessions /\ pc'[p] = "idle"
     /\ open' = [open EXCEPT ![sid[p]][cmd[p]] = @ - 1]

(* Every step changes the number of unmatched intents as OpenChange says: *)
(* only an intent and a committed or aborted record do.                   *)
LEMMA OpenIs ==
  ASSUME Inv, NEW p \in Procs, Step(p)
  PROVE  OpenChange(p)
<1>0. TypeOK /\ StepOK(p)
  BY DEF Inv, CallsOK
<1>1. ReadStep(p) \/ WriteStep(p) => UNCHANGED open
  BY DEF ReadStep, WriteStep, audit
<1>2. CASE RecordStep(p)
  BY <1>0, <1>2 DEF RecordStep, AppendIntent, AppendCommitted, CrashInAudit, Announce,
     Commit, OpenChange, StepOK, At, Exit, Move, TypeOK
<1> QED BY <1>1, <1>2, StepKinds DEF OpenChange

(* The calls in flight are finitely many, since the processes are.        *)
LEMMA PendingFacts ==
  ASSUME NEW s \in Sessions, NEW k \in Kinds
  PROVE  /\ IsFiniteSet(Pending(s, k)) /\ Cardinality(Pending(s, k)) \in Nat
         /\ IsFiniteSet(Hopeful(s)) /\ Cardinality(Hopeful(s)) \in Nat
         /\ \A p \in Pending(s, k) : Cardinality(Pending(s, k)) > 0
<1>1. Pending(s, k) \subseteq Procs /\ Hopeful(s) \subseteq Procs
  BY DEF Pending, Hopeful
<1>2. IsFiniteSet(Pending(s, k)) /\ IsFiniteSet(Hopeful(s))
  BY <1>1, FS_Subset, SessionAssumption
<1>3. Cardinality(Pending(s, k)) \in Nat /\ Cardinality(Hopeful(s)) \in Nat
  BY <1>2, FS_CardinalityType
<1>4. Pending(s, k) # {} => Cardinality(Pending(s, k)) # 0
  BY <1>2, FS_EmptySet
<1> QED BY <1>2, <1>3, <1>4

(* Every step keeps the type invariant.                                   *)
LEMMA TypeStep ==
  ASSUME Inv, NEW p \in Procs, Step(p)
  PROVE  TypeOK'
<1>0. TypeOK /\ StepOK(p) /\ cmd[p] \in Kinds
  BY DEF Inv, CallsOK, TypeOK
<1>1. open' \in [Sessions -> [Kinds -> Nat]]
  <2>1. CASE UNCHANGED open
    BY <1>0, <2>1 DEF TypeOK
  <2>2. CASE /\ pc[p] = "intent" /\ sid[p] \in Sessions
             /\ open' = [open EXCEPT ![sid[p]][cmd[p]] = @ + 1]
    BY <1>0, <2>2 DEF TypeOK
  <2>3. CASE /\ pc[p] = "commit" /\ sid[p] \in Sessions
             /\ open' = [open EXCEPT ![sid[p]][cmd[p]] = @ - 1]
    <3>1. p \in Pending(sid[p], cmd[p])
      BY <2>3 DEF Pending, Announced
    <3>2. open[sid[p]][cmd[p]] \in Nat /\ open[sid[p]][cmd[p]] > 0
      <4>1. Cardinality(Pending(sid[p], cmd[p])) <= open[sid[p]][cmd[p]]
        BY <1>0, <2>3 DEF Inv, AuditOK
      <4>2. open[sid[p]][cmd[p]] \in Nat
        BY <1>0, <2>3 DEF TypeOK
      <4> QED BY <1>0, <2>3, <3>1, <4>1, <4>2, PendingFacts
    <3>3. open[sid[p]][cmd[p]] - 1 \in Nat
      BY <3>2
    <3> QED BY <1>0, <2>3, <3>3 DEF TypeOK
  <2> QED BY <2>1, <2>2, <2>3, OpenIs DEF OpenChange
<1>2. started' \subseteq Sessions /\ tail' \in Tails
  <2>1. ReadStep(p) \/ WriteStep(p) => UNCHANGED <<started, tail>>
    BY DEF ReadStep, WriteStep, audit
  <2>2. CASE RecordStep(p)
    BY <1>0, <2>2 DEF RecordStep, AppendIntent, AppendCommitted, CrashInAudit, Commit,
       TailAfterAppend, StepOK, At, TypeOK, Tails
  <2> QED BY <1>0, <2>1, <2>2, StepKinds DEF TypeOK
<1>3. faults' \in 0..MaxFaults
  <2>1. UNCHANGED faults \/ Fault
    BY DEF Step, Begin, LookupForStart, LookupActive, Allocate, ValidateLog,
       Read, Recover, Recheck, Verify, Crash, GotoIf, AppendIntent, AppendCommitted,
       CrashInAudit, MakeSessionDir, MakeRawDir, MakeLog, WriteMeta, WriteEvent,
       WriteRepair, UnlinkLog, RemoveRawDir, RemoveSessionDir, CrashInEvent
  <2> QED BY <1>0, <2>1, SessionAssumption DEF Fault, TypeOK
<1> QED BY <1>1, <1>2, <1>3, CallsTyped, DiskTypes DEF CallTypes, TypeOK

-----------------------------------------------------------------------------
(* Where a call goes from where it is, when it goes on.                    *)
NextSteps(l, k) ==
  CASE l = "lookup"   -> {"allocate"}
    [] l = "validate" -> {"read"}
    [] l = "intent"   -> {IF k = "start" THEN "mkdir" ELSE "recheck"}
    [] l = "recheck"  -> {IF k = "cleanup" THEN "unlink" ELSE "write"}
    [] l = "mkdir"    -> {"mkraw"}
    [] l = "mkraw"    -> {"mklog"}
    [] l = "mklog"    -> {"write"}
    [] l = "write"    -> {"verify"}
    [] l = "unlink"   -> {"rmraw"}
    [] l = "rmraw"    -> {"rmdir"}
    [] l = "rmdir"    -> {"verify"}
    [] l = "verify"   -> {"commit"}
    [] OTHER          -> {}

(* Leaving a call and moving on inside it, variable by variable.          *)
LEMMA MoveIs ==
  ASSUME TypeOK, NEW p \in Procs
  PROVE  /\ Exit(p) => pc'[p] = "idle" /\ cmd'[p] = "start"
         /\ \A l : Goto(p, l) =>
              /\ pc'[p] = l /\ cmd'[p] = cmd[p]
              /\ sid'[p] = sid[p] /\ seen'[p] = seen[p]
BY DEF Exit, Goto, Move, TypeOK

OwnStep(p) ==
  \/ pc'[p] = "idle" /\ cmd'[p] = "start"
  \/ /\ pc'[p] \in NextSteps(pc[p], cmd[p])
     /\ pc[p] = "lookup" => cmd[p] = "start" /\ Active = {}
     /\ pc[p] = "validate" => Parses(log[sid[p]])
     /\ pc[p] = "write" /\ cmd[p] \in {"start", "end"} => meta'[sid[p]] = NewMeta(p)
     /\ cmd'[p] = cmd[p] /\ sid'[p] = sid[p] /\ seen'[p] = seen[p]
     /\ pc[p] = "mkdir" => MakeSessionDir(p)
     /\ pc[p] = "mklog" => MakeLog(p)
     /\ pc[p] = "recheck" => Recheck(p)
     /\ pc[p] = "verify" => Verify(p) /\ Verified(p)
     /\ pc[p] = "write" /\ cmd[p] = "event" => WriteEvent(p)
  \/ /\ pc[p] = "idle" /\ pc'[p] = "lookup" /\ cmd'[p] \in Commands
  \/ /\ LookupActive(p) /\ cmd'[p] = cmd[p] /\ cmd[p] \in {"event", "end"}
     /\ pc'[p] = IF cmd[p] = "end" THEN "validate" ELSE "read"
     /\ sid'[p] \in Sessions
  \/ /\ Allocate(p) /\ pc'[p] = "intent" /\ cmd'[p] = cmd[p] /\ sid'[p] \in Sessions
  \/ /\ Read(p) /\ pc[p] = "read" /\ Usable(p)
     /\ cmd[p] = "event" => Len(log[sid[p]].lines) < MaxEvents
     /\ pc'[p] = "intent" /\ cmd'[p] = cmd[p] /\ sid'[p] = sid[p]
     /\ seen'[p] = Snapshot(sid[p])
  \/ /\ pc'[p] = "intent" /\ cmd'[p] \in Recoveries /\ sid'[p] \in Sessions
     /\ Recover(p, cmd'[p], sid'[p]) /\ seen'[p] = Snapshot(sid'[p])

(* Every step moves its own call in one of the ways of OwnStep.           *)
LEMMA OwnMove ==
  ASSUME Inv, NEW p \in Procs, Step(p)
  PROVE  OwnStep(p)
<1>0. TypeOK /\ StepOK(p)
  BY DEF Inv, CallsOK
<1>1. ASSUME Exit(p)
      PROVE  OwnStep(p)
  BY <1>0, <1>1, MoveIs DEF OwnStep
<1>2. ASSUME NEW l, Goto(p, l), l \in NextSteps(pc[p], cmd[p]),
             pc[p] = "lookup" => cmd[p] = "start" /\ Active = {},
             pc[p] = "validate" => Parses(log[sid[p]]),
             pc[p] = "write" /\ cmd[p] \in {"start", "end"} => meta'[sid[p]] = NewMeta(p),
             pc[p] = "mkdir" => MakeSessionDir(p),
             pc[p] = "mklog" => MakeLog(p),
             pc[p] = "recheck" => Recheck(p),
             pc[p] = "verify" => Verify(p) /\ Verified(p),
             pc[p] = "write" /\ cmd[p] = "event" => WriteEvent(p)
      PROVE  OwnStep(p)
  BY <1>0, <1>2, MoveIs DEF OwnStep
<1>3. CASE ReadStep(p)
  <2>1. CASE LookupForStart(p)
    BY <1>1, <1>2, <2>1 DEF LookupForStart, GotoIf, At, Runs, NextSteps
  <2>2. CASE ValidateLog(p)
    BY <1>1, <1>2, <2>2 DEF ValidateLog, GotoIf, At, NextSteps
  <2>3. CASE Recheck(p)
    BY <1>1, <1>2, <2>3 DEF Recheck, GotoIf, At, NextSteps
  <2>4. CASE Verify(p)
    BY <1>1, <1>2, <2>4 DEF Verify, GotoIf, At, NextSteps
  <2>5. CASE Crash(p)
    BY <1>1, <2>5 DEF Crash
  <2>6. CASE \E k \in Commands : Begin(p, k)
    BY <1>0, <2>6 DEF Begin, At, Move, OwnStep, TypeOK
  <2>7. CASE LookupActive(p)
    <3>1. CASE ~Exit(p)
      BY <1>0, <2>7, <3>1 DEF LookupActive, At, Runs, Move, OwnStep, TypeOK
    <3> QED BY <1>1, <3>1
  <2>8. CASE Allocate(p)
    BY <1>0, <2>8 DEF Allocate, At, Move, OwnStep, TypeOK
  <2>9. CASE Read(p)
    <3>1. CASE ~Exit(p)
      BY <1>0, <2>9, <3>1 DEF Read, At, Move, OwnStep, TypeOK
    <3> QED BY <1>1, <3>1
  <2>10. CASE \E s \in Sessions, k \in Recoveries : Recover(p, k, s)
    <3>1. PICK s \in Sessions, k \in Recoveries : Recover(p, k, s)
      BY <2>10
    <3>2. pc'[p] = "intent" /\ cmd'[p] = k /\ sid'[p] = s /\ seen'[p] = Snapshot(s)
      BY <1>0, <3>1 DEF Recover, Move, TypeOK
    <3> QED BY <3>1, <3>2 DEF OwnStep
  <2> QED BY <1>3, <2>1, <2>2, <2>3, <2>4, <2>5, <2>6, <2>7, <2>8, <2>9, <2>10
          DEF ReadStep
<1>4. CASE RecordStep(p)
  <2>1. CASE AppendIntent(p)
    BY <1>2, <2>1 DEF AppendIntent, At, NextSteps
  <2>2. CASE AppendCommitted(p) \/ CrashInAudit(p)
    BY <1>1, <2>2 DEF AppendCommitted, CrashInAudit
  <2> QED BY <1>4, <2>1, <2>2 DEF RecordStep
<1>5. CASE WriteStep(p)
  <2>1. CASE MakeSessionDir(p)
    BY <1>1, <1>2, <2>1 DEF MakeSessionDir, At, NextSteps
  <2>2. CASE MakeRawDir(p)
    BY <1>1, <1>2, <2>2 DEF MakeRawDir, At, NextSteps
  <2>3. CASE MakeLog(p)
    <3>1. pc[p] = "mklog" /\ (Exit(p) \/ Goto(p, "write"))
      BY <2>3 DEF MakeLog, At
    <3> QED BY <1>1, <1>2, <2>3, <3>1 DEF NextSteps
  <2>4. CASE WriteMeta(p)
    <3>1. /\ pc[p] = "write" /\ cmd[p] # "event" /\ (Exit(p) \/ Goto(p, "verify"))
          /\ Exit(p) \/ meta' = [meta EXCEPT ![sid[p]] = NewMeta(p)]
      BY <2>4 DEF WriteMeta, At, Runs
    <3>2. Exit(p) \/ meta'[sid[p]] = NewMeta(p)
      BY <1>0, <3>1 DEF StepOK, TypeOK
    <3> QED BY <1>1, <1>2, <3>1, <3>2 DEF NextSteps
  <2>5. CASE WriteEvent(p)
    <3>1. /\ pc[p] = "write" /\ cmd[p] = "event"
          /\ Exit(p) \/ Goto(p, "verify")
      BY <2>5 DEF WriteEvent, At, Runs
    <3> QED BY <1>1, <1>2, <2>5, <3>1 DEF NextSteps
  <2>6. CASE WriteRepair(p)
    <3>1. pc[p] = "write" /\ cmd[p] = "repair" /\ Goto(p, "verify")
      BY <2>6 DEF WriteRepair, At, Runs
    <3> QED BY <1>2, <3>1 DEF NextSteps
  <2>7. CASE UnlinkLog(p)
    <3>1. pc[p] = "unlink" /\ (Exit(p) \/ Goto(p, "rmraw"))
      BY <2>7 DEF UnlinkLog, At
    <3> QED BY <1>1, <1>2, <3>1 DEF NextSteps
  <2>8. CASE RemoveRawDir(p) \/ RemoveSessionDir(p)
    BY <1>1, <1>2, <2>8 DEF RemoveRawDir, RemoveSessionDir, At, NextSteps
  <2>9. CASE CrashInEvent(p)
    BY <1>1, <2>9 DEF CrashInEvent
  <2> QED BY <1>5, <2>1, <2>2, <2>3, <2>4, <2>5, <2>6, <2>7, <2>8, <2>9 DEF WriteStep
<1> QED BY <1>3, <1>4, <1>5, StepKinds

(* The invariant of the calls that do not move.                            *)
LEMMA CreatingFrom ==
  ASSUME Inv, NEW p \in Procs, Step(p), cmd'[p] = "start", pc'[p] \in Creating
  PROVE  /\ cmd[p] = "start" /\ sid'[p] = sid[p]
         /\ \/ pc[p] \in Creating
            \/ pc[p] = "mkdir" /\ MakeSessionDir(p)
<1>1. OwnStep(p) /\ StepOK(p)
  BY OwnMove DEF Inv, CallsOK
<1> QED BY <1>1 DEF OwnStep, NextSteps, Creating, Recoveries, StepOK

(* A step of one process keeps what the invariant says of the calls of    *)
(* the others: the files they rely on are not taken away.                 *)
LEMMA OtherCalls ==
  ASSUME Inv, ~Overlap, NEW p \in Procs, Step(p), NEW q \in Procs, q # p
  PROVE  StepOK(q)' /\ StartOK(q)' /\ KnowsOK(q)' /\ RecoverOK(q)'
<1>1. /\ pc'[q] = pc[q] /\ cmd'[q] = cmd[q] /\ sid'[q] = sid[q] /\ seen'[q] = seen[q]
      /\ \A r \in Procs : r # p => pc'[r] = pc[r] /\ cmd'[r] = cmd[r] /\ sid'[r] = sid[r]
  BY OthersSame DEF Inv, Same
<1>2. StepOK(q) /\ StartOK(q) /\ KnowsOK(q) /\ RecoverOK(q) /\ RecoverOK(p) /\ TypeOK
      /\ StepOK(p)
  BY DEF Inv, CallsOK
<1>3. ASSUME cmd[p] \in Recoveries, pc[p] # "idle"
      PROVE  pc[q] = "idle"
  BY <1>2, <1>3 DEF RecoverOK
<1>4. StepOK(q)'
  BY <1>1, <1>2 DEF StepOK
<1>5. StartOK(q)'
  <2> SUFFICES ASSUME cmd[q] = "start", pc[q] \in Creating
               PROVE  /\ sid[q] \in sessionDirs' /\ meta'[sid[q]] = NoMeta
                      /\ pc[q] = "write" => log'[sid[q]] # NoLog
                      /\ \A r \in Procs :
                           cmd'[r] = "start" /\ pc'[r] \in Creating /\ sid'[r] = sid[q]
                             => r = q
    BY <1>1 DEF StartOK
  <2>1. /\ sid[q] \in sessionDirs /\ meta[sid[q]] = NoMeta
        /\ pc[q] = "write" => log[sid[q]] # NoLog
        /\ \A r \in Procs : cmd[r] = "start" /\ pc[r] \in Creating /\ sid[r] = sid[q]
                              => r = q
        /\ sid[q] \in Sessions
    BY <1>2 DEF StartOK, StepOK, Creating
  <2>2. cmd[p] # "cleanup" \/ pc[p] = "idle"
    BY <1>3 DEF Recoveries, Creating
  <2>3. sid[q] \in sessionDirs'
    BY <2>1, <2>2, DirChange
  <2>4. meta'[sid[q]] = NoMeta
    BY <2>1, MetaKept DEF Creating
  <2>5. pc[q] = "write" => log'[sid[q]] # NoLog
    BY <2>1, <2>2, LogKept
  <2>6. ASSUME NEW r \in Procs, cmd'[r] = "start", pc'[r] \in Creating, sid'[r] = sid[q]
        PROVE  r = q
    <3>1. CASE r # p
      BY <1>1, <2>1, <2>6, <3>1
    <3>2. CASE r = p
      <4>1. /\ cmd[p] = "start" /\ sid'[p] = sid[p]
            /\ pc[p] \in Creating \/ (pc[p] = "mkdir" /\ MakeSessionDir(p))
        BY <2>6, <3>2, CreatingFrom
      <4>2. pc[p] = "mkdir" /\ MakeSessionDir(p) => sid[p] \notin sessionDirs
        <5>1. "mkraw" # "idle"
          OBVIOUS
        <5> QED BY <1>2, <2>6, <3>2, <5>1, MoveIs DEF MakeSessionDir, HasDirs, Creating
      <4> QED BY <2>1, <2>6, <3>2, <4>1, <4>2
    <3> QED BY <3>1, <3>2
  <2> QED BY <2>3, <2>4, <2>5, <2>6
<1>6. KnowsOK(q)'
  <2> SUFFICES ASSUME cmd[q] \in {"event", "end"}, pc[q] \in Announced \union {"intent"}
               PROVE  /\ seen[q] \in Snapshots /\ meta'[sid[q]] # NoMeta
                      /\ seen[q].meta \in Metas /\ seen[q].meta.status = "active"
                      /\ cmd[q] = "event" =>
                           /\ seen[q].log \in Logs
                           /\ NextEventId(seen[q].log) = Len(seen[q].log.lines) + 1
                           /\ Len(seen[q].log.lines) < MaxEvents
                           /\ Len(seen[q].log.lines) <= Len(Complete(log'[sid[q]]))
    BY <1>1 DEF KnowsOK
  <2>1. /\ seen[q] \in Snapshots /\ meta[sid[q]] # NoMeta
        /\ seen[q].meta \in Metas /\ seen[q].meta.status = "active"
        /\ cmd[q] = "event" =>
             /\ seen[q].log \in Logs
             /\ NextEventId(seen[q].log) = Len(seen[q].log.lines) + 1
             /\ Len(seen[q].log.lines) < MaxEvents
             /\ Len(seen[q].log.lines) <= Len(Complete(log[sid[q]]))
        /\ sid[q] \in Sessions /\ pc[q] # "idle"
    BY <1>2 DEF KnowsOK, StepOK, Announced
  <2>2. cmd[p] # "cleanup" \/ pc[p] = "idle"
    BY <1>3, <2>1 DEF Recoveries
  <2>3. log[sid[q]] # NoLog
    BY <2>1 DEF Inv, FilesOK
  <2>4. Grows(log[sid[q]], log'[sid[q]])
    BY <2>1, <2>2, <2>3, LogKept
  <2>5. /\ Len(Complete(log[sid[q]])) <= Len(Complete(log'[sid[q]]))
        /\ Complete(log[sid[q]]) \in Seq(Lines)
        /\ Complete(log'[sid[q]]) \in Seq(Lines)
    BY <2>4, CompleteFacts DEF Grows, Extends
  <2>6. cmd[q] = "event" => Len(seen[q].log.lines) \in Nat
    BY <2>1 DEF Logs
  <2>7. cmd[q] = "event" => Len(seen[q].log.lines) <= Len(Complete(log'[sid[q]]))
    BY <2>1, <2>5, <2>6
  <2> QED BY <2>1, <2>7, MetaKept
<1>7. RecoverOK(q)'
  <2>1. CASE cmd[q] \in Recoveries /\ pc[q] # "idle"
    <3>1. pc[p] = "idle" /\ Recovering /\ ~Quiet
      BY <1>2, <2>1 DEF RecoverOK, Recovering, Quiet
    <3> QED BY <3>1 DEF Step, Begin, Recover, LookupForStart, LookupActive, Allocate,
       ValidateLog, Read, AppendIntent, Recheck, MakeSessionDir, MakeRawDir, MakeLog,
       WriteMeta, WriteEvent, WriteRepair, UnlinkLog, RemoveRawDir, RemoveSessionDir,
       Verify, AppendCommitted, Crash, CrashInAudit, CrashInEvent, At
  <2>2. CASE ~(cmd[q] \in Recoveries /\ pc[q] # "idle")
    BY <1>1, <2>2 DEF RecoverOK
  <2> QED BY <2>1, <2>2
<1> QED BY <1>4, <1>5, <1>6, <1>7

(* The invariant of the call that moves.                                   *)
LEMMA OwnStepOK ==
  ASSUME Inv, NEW p \in Procs, Step(p)
  PROVE  StepOK(p)'
<1>1. OwnStep(p) /\ StepOK(p)
  BY OwnMove DEF Inv, CallsOK
<1>2. Allocate(p) => pc[p] = "allocate"
  BY DEF Allocate, At
<1> QED BY <1>1, <1>2 DEF OwnStep, NextSteps, StepOK, Commands, Recoveries

(* A start that has made its session directory is alone in creating the   *)
(* session, because making the directory fails when it exists.            *)
LEMMA OwnStartOK ==
  ASSUME Inv, ~Overlap, NEW p \in Procs, Step(p)
  PROVE  StartOK(p)'
<1> SUFFICES ASSUME cmd'[p] = "start", pc'[p] \in Creating
             PROVE  /\ sid'[p] \in sessionDirs' /\ meta'[sid'[p]] = NoMeta
                    /\ pc'[p] = "write" => log'[sid'[p]] # NoLog
                    /\ \A q \in Procs :
                         cmd'[q] = "start" /\ pc'[q] \in Creating /\ sid'[q] = sid'[p]
                           => q = p
  BY DEF StartOK
<1>1. /\ cmd[p] = "start" /\ sid'[p] = sid[p] /\ sid[p] \in Sessions
      /\ \/ pc[p] \in Creating
         \/ pc[p] = "mkdir" /\ MakeSessionDir(p) /\ sid[p] \notin sessionDirs
  <2>1. /\ cmd[p] = "start" /\ sid'[p] = sid[p]
        /\ pc[p] \in Creating \/ (pc[p] = "mkdir" /\ MakeSessionDir(p))
    BY CreatingFrom
  <2>2. MakeSessionDir(p) => sid[p] \notin sessionDirs
    BY MoveIs DEF MakeSessionDir, HasDirs, Creating, Inv
  <2> QED BY <2>1, <2>2 DEF Inv, CallsOK, StepOK, Creating
<1>2. \A q \in Procs : q # p =>
        pc'[q] = pc[q] /\ cmd'[q] = cmd[q] /\ sid'[q] = sid[q] /\ StartOK(q)
  BY OthersSame DEF Inv, Same, CallsOK
<1>3. StartOK(p) /\ StepOK(p) /\ TypeOK
  BY DEF Inv, CallsOK
<1>4. CASE pc[p] \in Creating
  <2>1. sid[p] \in sessionDirs'
    BY <1>1, <1>3, <1>4, DirChange DEF StartOK
  <2>2. pc'[p] \in NextSteps(pc[p], cmd[p])
    BY <1>4, OwnMove DEF OwnStep, Creating, LookupActive, Allocate, Recover, At
  <2>3. pc[p] # "write" /\ (pc'[p] = "write" => pc[p] = "mklog")
    BY <1>4, <2>2 DEF NextSteps, Creating
  <2>4. meta'[sid[p]] = NoMeta
    BY <1>1, <1>3, <1>4, <2>3, MetaKept DEF StartOK
  <2>5. pc[p] = "mklog" => MakeLog(p) /\ ~Exit(p)
    <3>1. pc[p] = "mklog" => MakeLog(p)
      BY OwnMove DEF OwnStep, LookupActive, Allocate, Recover, At, Creating
    <3> QED BY <1>3, <3>1, MoveIs DEF Creating
  <2>6. pc'[p] = "write" => log'[sid[p]] # NoLog
    <3>1. ASSUME MakeLog(p), ~Exit(p)
          PROVE  log'[sid[p]] = EmptyLog
      BY <1>1, <1>3, <3>1 DEF MakeLog, TypeOK
    <3> QED BY <2>3, <2>5, <3>1, EmptyFacts, SessionAssumption
  <2>7. ASSUME NEW q \in Procs, cmd'[q] = "start", pc'[q] \in Creating, sid'[q] = sid[p]
        PROVE  q = p
    BY <1>1, <1>2, <1>3, <1>4, <2>7 DEF StartOK
  <2> QED BY <1>1, <2>1, <2>4, <2>6, <2>7
<1>5. CASE pc[p] = "mkdir" /\ MakeSessionDir(p) /\ sid[p] \notin sessionDirs
  <2>1. ~Exit(p)
    BY <1>3, MoveIs DEF Creating
  <2>2. /\ sessionDirs' = sessionDirs \union {sid[p]} /\ UNCHANGED meta
        /\ pc'[p] = "mkraw"
    BY <1>3, <1>5, <2>1, MoveIs DEF MakeSessionDir
  <2>3. meta[sid[p]] = NoMeta
    BY <1>1, <1>5 DEF Inv, FilesOK
  <2>4. ASSUME NEW q \in Procs, cmd'[q] = "start", pc'[q] \in Creating, sid'[q] = sid[p]
        PROVE  q = p
    <3> SUFFICES ASSUME q # p PROVE FALSE
      OBVIOUS
    <3>1. StartOK(q) /\ cmd[q] = "start" /\ pc[q] \in Creating /\ sid[q] = sid[p]
      BY <1>2, <2>4
    <3> QED BY <1>5, <3>1 DEF StartOK
  <2> QED BY <1>1, <2>2, <2>3, <2>4
<1> QED BY <1>1, <1>4, <1>5

(* An event or an end goes on only with an active session in its          *)
(* snapshot, and the complete lines an event read are only ever added to. *)
LEMMA OwnKnowsOK ==
  ASSUME Inv, NEW p \in Procs, Step(p)
  PROVE  KnowsOK(p)'
<1> SUFFICES ASSUME cmd'[p] \in {"event", "end"}, pc'[p] \in Announced \union {"intent"}
             PROVE  /\ seen'[p] \in Snapshots /\ meta'[sid'[p]] # NoMeta
                    /\ seen'[p].meta \in Metas /\ seen'[p].meta.status = "active"
                    /\ cmd'[p] = "event" =>
                         /\ seen'[p].log \in Logs
                         /\ NextEventId(seen'[p].log) = Len(seen'[p].log.lines) + 1
                         /\ Len(seen'[p].log.lines) < MaxEvents
                         /\ Len(seen'[p].log.lines) <= Len(Complete(log'[sid'[p]]))
  BY DEF KnowsOK
<1>0. TypeOK /\ StepOK(p) /\ KnowsOK(p) /\ OwnStep(p)
  BY OwnMove DEF Inv, CallsOK
<1>1. CASE /\ pc'[p] \in NextSteps(pc[p], cmd[p])
           /\ cmd'[p] = cmd[p] /\ sid'[p] = sid[p] /\ seen'[p] = seen[p]
  <2>1. pc[p] \in Announced \union {"intent"}
    BY <1>1 DEF NextSteps, Announced
  <2>2. /\ seen[p] \in Snapshots /\ meta[sid[p]] # NoMeta
        /\ seen[p].meta \in Metas /\ seen[p].meta.status = "active"
        /\ cmd[p] = "event" =>
             /\ seen[p].log \in Logs
             /\ NextEventId(seen[p].log) = Len(seen[p].log.lines) + 1
             /\ Len(seen[p].log.lines) < MaxEvents
             /\ Len(seen[p].log.lines) <= Len(Complete(log[sid[p]]))
        /\ sid[p] \in Sessions
    BY <1>0, <1>1, <2>1 DEF KnowsOK, StepOK, Announced
  <2>3. Grows(log[sid[p]], log'[sid[p]])
    <3>1. log[sid[p]] # NoLog
      BY <2>2 DEF Inv, FilesOK
    <3> QED BY <1>1, <2>2, <3>1, LogKept
  <2>4. /\ Len(Complete(log[sid[p]])) <= Len(Complete(log'[sid[p]]))
        /\ Complete(log[sid[p]]) \in Seq(Lines)
        /\ Complete(log'[sid[p]]) \in Seq(Lines)
    BY <2>3, CompleteFacts DEF Grows, Extends
  <2>5. cmd[p] = "event" => Len(seen[p].log.lines) \in Nat
    BY <2>2 DEF Logs
  <2>6. cmd[p] = "event" => Len(seen[p].log.lines) <= Len(Complete(log'[sid[p]]))
    BY <2>2, <2>4, <2>5
  <2> QED BY <1>1, <2>2, <2>6, MetaKept
<1>2. CASE /\ Read(p) /\ pc[p] = "read" /\ Usable(p)
           /\ cmd[p] = "event" => Len(log[sid[p]].lines) < MaxEvents
           /\ pc'[p] = "intent" /\ cmd'[p] = cmd[p] /\ sid'[p] = sid[p]
           /\ seen'[p] = Snapshot(sid[p])
  <2>1. sid[p] \in Sessions
    BY <1>0, <1>2 DEF StepOK
  <2>2. /\ seen'[p] \in Snapshots
        /\ seen'[p].log = log[sid[p]] /\ seen'[p].meta = meta[sid[p]]
    BY <1>0, <1>2, <2>1, SnapshotFacts
  <2>3. /\ meta[sid[p]] \in Metas /\ meta[sid[p]].status = "active"
        /\ log[sid[p]] \in Logs /\ meta[sid[p]] # NoMeta
    BY <1>0, <1>2, <2>1 DEF Usable, TypeOK
  <2>4. UNCHANGED <<log, meta>>
    BY <1>2 DEF Read, disk
  <2>5. ASSUME cmd[p] = "event"
        PROVE  /\ NextEventId(log[sid[p]]) = Len(log[sid[p]].lines) + 1
               /\ Complete(log[sid[p]]) = log[sid[p]].lines
               /\ Len(log[sid[p]].lines) \in Nat
    <3>1. Wellformed(log[sid[p]].lines) /\ log[sid[p]].end = "lf"
      BY <1>2, <2>5 DEF Usable, Parses
    <3>2. Counts(log[sid[p]].lines)
      BY <2>1, <2>3, SessionAssumption DEF Inv, FilesOK
    <3>3. NextEventId(log[sid[p]]) = Len(log[sid[p]].lines) + 1
      BY <2>3, <3>1, <3>2, ParsedCounts
    <3>4. Complete(log[sid[p]]) = log[sid[p]].lines
      BY <2>3, <3>1, CompleteFacts
    <3>5. Len(log[sid[p]].lines) \in Nat
      BY <2>3 DEF Logs
    <3> QED BY <3>3, <3>4, <3>5
  <2>6. cmd[p] = "event" => Len(log[sid[p]].lines) <= Len(Complete(log'[sid[p]]))
    BY <2>4, <2>5
  <2> QED BY <1>2, <2>2, <2>3, <2>4, <2>5, <2>6
<1>3. ~Allocate(p)
  BY <1>0, OthersSame DEF Allocate, At, StepOK, OwnStep, NextSteps, LookupActive, Read, Recover,
     Commands, Recoveries, Announced
<1> QED BY <1>0, <1>1, <1>2, <1>3 DEF OwnStep, Announced, Recoveries

(* A recovery action starts when nobody else is at work, and nobody       *)
(* begins while it runs.                                                  *)
LEMMA OwnRecoverOK ==
  ASSUME Inv, ~Overlap, NEW p \in Procs, Step(p)
  PROVE  RecoverOK(p)'
<1> SUFFICES ASSUME cmd'[p] \in Recoveries, pc'[p] # "idle"
             PROVE  /\ seen'[p] \in Snapshots
                    /\ \A q \in Procs : q # p => pc'[q] = "idle"
                    /\ cmd'[p] = "cleanup" => meta'[sid'[p]] = NoMeta
                    /\ cmd'[p] = "repair" /\ pc'[p] \in {"intent", "recheck", "write"} =>
                         /\ seen'[p].log \in Logs
                         /\ log'[sid'[p]] = seen'[p].log
                         /\ seen'[p].log.end # "lf"
  BY DEF RecoverOK
<1>0. TypeOK /\ StepOK(p) /\ RecoverOK(p) /\ OwnStep(p)
  BY OwnMove DEF Inv, CallsOK
<1>1. \A q \in Procs : q # p => pc'[q] = pc[q]
  BY OthersSame DEF Inv, Same
<1>2. CASE /\ pc'[p] \in NextSteps(pc[p], cmd[p])
           /\ cmd'[p] = cmd[p] /\ sid'[p] = sid[p] /\ seen'[p] = seen[p]
  <2>1. pc[p] \notin {"idle", "lookup", "allocate"} /\ sid[p] \in Sessions
    <3>1. pc[p] \notin {"idle", "allocate"}
      BY <1>2 DEF NextSteps
    <3>2. pc[p] # "lookup"
      BY <1>0, <1>2 DEF StepOK, Commands, Recoveries
    <3> QED BY <1>0, <3>1, <3>2 DEF StepOK
  <2>2. /\ seen[p] \in Snapshots
        /\ \A q \in Procs : q # p => pc[q] = "idle"
        /\ cmd[p] = "cleanup" => meta[sid[p]] = NoMeta
        /\ cmd[p] = "repair" /\ pc[p] \in {"intent", "recheck", "write"} =>
             /\ seen[p].log \in Logs
             /\ log[sid[p]] = seen[p].log
             /\ seen[p].log.end # "lf"
    BY <1>0, <1>2, <2>1 DEF RecoverOK
  <2>3. cmd[p] = "cleanup" => meta'[sid[p]] = NoMeta
    BY <2>1, <2>2, MetaKept
  <2>4. cmd[p] = "repair" /\ pc'[p] \in {"intent", "recheck", "write"} =>
          pc[p] \in {"intent", "recheck"}
    BY <1>0, <1>2, <2>1 DEF NextSteps, StepOK
  <2>5. pc[p] \in {"intent", "recheck"} => log'[sid[p]] = log[sid[p]]
    BY <2>1, LogChange DEF LogStep
  <2> QED BY <1>1, <1>2, <2>2, <2>3, <2>4, <2>5
<1>3. CASE /\ pc'[p] = "intent" /\ sid'[p] \in Sessions
           /\ Recover(p, cmd'[p], sid'[p]) /\ seen'[p] = Snapshot(sid'[p])
  <2>1. PICK k \in Recoveries, s \in Sessions :
           k = cmd'[p] /\ s = sid'[p]
    BY <1>3
  <2>2. /\ Quiet /\ UNCHANGED <<log, meta>>
        /\ k = "cleanup" => SafePartialStart(s)
        /\ k = "repair" => EventTailRepairable(s)
    BY <1>3, <2>1 DEF Recover, disk
  <2>3. /\ seen'[p] \in Snapshots
        /\ seen'[p].log = log[s] /\ seen'[p].meta = meta[s]
    BY <1>0, <1>3, <2>1, SnapshotFacts
  <2>4. \A q \in Procs : q # p => pc'[q] = "idle"
    BY <1>1, <2>2 DEF Quiet
  <2>5. k = "cleanup" => meta'[s] = NoMeta
    BY <2>2 DEF SafePartialStart
  <2>6. k = "repair" => log[s] \in Logs /\ log[s].end # "lf"
    BY <1>0, <2>1, <2>2 DEF EventTailRepairable, TypeOK
  <2> QED BY <2>1, <2>2, <2>3, <2>4, <2>5, <2>6
<1>4. /\ Allocate(p) => cmd[p] = "start"
      /\ Read(p) => cmd[p] \in {"event", "end"}
  BY <1>0 DEF Allocate, Read, At, StepOK
<1>5. /\ Commands \intersect Recoveries = {} /\ {"start", "event", "end"} = Commands
  BY DEF Commands, Recoveries
<1> QED BY <1>0, <1>2, <1>3, <1>4, <1>5 DEF OwnStep

(* Every step keeps what the invariant says of all the calls.             *)
LEMMA CallsStep ==
  ASSUME Inv, ~Overlap, NEW p \in Procs, Step(p)
  PROVE  CallsOK'
<1>1. ASSUME NEW q \in Procs
      PROVE  StepOK(q)' /\ StartOK(q)' /\ KnowsOK(q)' /\ RecoverOK(q)'
  BY OtherCalls, OwnStepOK, OwnStartOK, OwnKnowsOK, OwnRecoverOK
<1> QED BY <1>1 DEF CallsOK

(* The files of the sessions.                                              *)
LEMMA FilesStep ==
  ASSUME Inv, NEW p \in Procs, Step(p)
  PROVE  FilesOK'
<1> SUFFICES ASSUME NEW s \in Sessions
             PROVE  /\ meta'[s] # NoMeta => log'[s] # NoLog /\ s \in sessionDirs'
                    /\ ended'[s] # NoLog => meta'[s] # NoMeta /\ meta'[s].status = "completed"
                    /\ log'[s] # NoLog => Counts(log'[s].lines)
  BY DEF FilesOK
<1>0. /\ TypeOK /\ StepOK(p) /\ StartOK(p) /\ RecoverOK(p)
      /\ meta[s] # NoMeta => log[s] # NoLog /\ s \in sessionDirs
      /\ ended[s] # NoLog => meta[s] # NoMeta /\ meta[s].status = "completed"
      /\ log[s] # NoLog => Counts(log[s].lines)
  BY DEF Inv, CallsOK, FilesOK
<1>1. ASSUME meta'[s] # NoMeta
      PROVE  log'[s] # NoLog /\ s \in sessionDirs'
  <2>1. CASE meta[s] # NoMeta
    <3>1. ~(cmd[p] = "cleanup" /\ pc[p] # "idle" /\ s = sid[p])
      BY <1>0, <2>1 DEF RecoverOK, Recoveries
    <3> QED BY <1>0, <2>1, <3>1, LogKept, DirChange
  <2>2. CASE meta[s] = NoMeta
    <3>1. s = sid[p] /\ cmd[p] = "start" /\ pc[p] = "write"
      BY <1>1, <2>2, MetaKept
    <3>2. log[s] # NoLog /\ s \in sessionDirs
      BY <1>0, <3>1 DEF StartOK, Creating
    <3> QED BY <3>1, <3>2, LogKept, DirChange
  <2> QED BY <2>1, <2>2
<1>2. ASSUME ended'[s] # NoLog
      PROVE  meta'[s] # NoMeta /\ meta'[s].status = "completed"
  <2>1. CASE ended[s] # NoLog
    BY <1>0, <2>1, MetaKept DEF Completed
  <2>2. CASE ended[s] = NoLog
    <3>1. WriteMeta(p) /\ cmd[p] = "end" /\ meta'[s] = NewMeta(p)
      BY <1>2, <2>2, MetaChange
    <3>2. NewMeta(p) \in Metas /\ NewMeta(p).status = "completed"
      BY <3>1 DEF NewMeta, Metas
    <3> QED BY <3>1, <3>2, SessionAssumption
  <2> QED BY <2>1, <2>2
<1>3. ASSUME log'[s] # NoLog
      PROVE  Counts(log'[s].lines)
  BY <1>0, <1>3, LogChange, EmptyFacts DEF LogStep, Grows
<1> QED BY <1>1, <1>2, <1>3

-----------------------------------------------------------------------------
(* Counting the calls in flight.                                           *)
LEMMA Counting ==
  ASSUME NEW S, IsFiniteSet(S), NEW T, NEW x
  PROVE  /\ T \subseteq S => IsFiniteSet(T) /\ Cardinality(T) <= Cardinality(S)
         /\ T \subseteq S \union {x} =>
              IsFiniteSet(T) /\ Cardinality(T) <= Cardinality(S) + 1
         /\ T \subseteq S \ {x} /\ x \in S =>
              IsFiniteSet(T) /\ Cardinality(T) <= Cardinality(S) - 1
         /\ Cardinality(S) \in Nat
<1>1. Cardinality(S) \in Nat
  BY FS_CardinalityType
<1>2. ASSUME T \subseteq S
      PROVE  IsFiniteSet(T) /\ Cardinality(T) <= Cardinality(S)
  BY <1>2, FS_Subset
<1>3. ASSUME T \subseteq S \union {x}
      PROVE  IsFiniteSet(T) /\ Cardinality(T) <= Cardinality(S) + 1
  <2>1. /\ IsFiniteSet(S \union {x})
        /\ \/ Cardinality(S \union {x}) = Cardinality(S)
           \/ Cardinality(S \union {x}) = Cardinality(S) + 1
    BY FS_AddElement
  <2>2. IsFiniteSet(T) /\ Cardinality(T) <= Cardinality(S \union {x})
    BY <1>3, <2>1, FS_Subset
  <2>3. Cardinality(T) \in Nat
    BY <2>2, FS_CardinalityType
  <2> QED BY <1>1, <2>1, <2>2, <2>3
<1>4. ASSUME T \subseteq S \ {x}, x \in S
      PROVE  IsFiniteSet(T) /\ Cardinality(T) <= Cardinality(S) - 1
  <2>1. IsFiniteSet(S \ {x}) /\ Cardinality(S \ {x}) = Cardinality(S) - 1
    BY <1>4, FS_RemoveElement
  <2>2. IsFiniteSet(T) /\ Cardinality(T) <= Cardinality(S \ {x})
    BY <1>4, <2>1, FS_Subset
  <2> QED BY <2>1, <2>2
<1> QED BY <1>1, <1>2, <1>3, <1>4

(* Counting: when a set of calls gains at most one, and gains one only if *)
(* a counter does, and the counter loses one only if the set does, then   *)
(* the set grows no faster than the counter.                              *)
LEMMA CountMoves ==
  ASSUME NEW S, IsFiniteSet(S), NEW T, NEW x, T \subseteq S \union {x},
         NEW n \in Nat, NEW m \in Nat,
         x \in T /\ x \notin S => m = n + 1,
         m >= n \/ (m = n - 1 /\ x \in S /\ x \notin T)
  PROVE  /\ Cardinality(S) \in Nat /\ Cardinality(T) \in Nat
         /\ Cardinality(T) + n <= Cardinality(S) + m
<1>1. Cardinality(S) \in Nat /\ IsFiniteSet(T)
  BY Counting
<1>2. Cardinality(T) \in Nat
  BY <1>1, FS_CardinalityType
<1>3. CASE x \in T /\ x \notin S
  <2>1. Cardinality(T) <= Cardinality(S) + 1
    BY Counting
  <2> QED BY <1>1, <1>2, <1>3, <2>1
<1>4. CASE ~(x \in T /\ x \notin S) /\ m >= n
  <2>1. T \subseteq S
    BY <1>4
  <2>2. Cardinality(T) <= Cardinality(S)
    BY <2>1, Counting
  <2> QED BY <1>1, <1>2, <1>4, <2>2
<1>5. CASE m = n - 1 /\ x \in S /\ x \notin T
  <2>1. T \subseteq S \ {x}
    BY <1>5
  <2>2. Cardinality(T) <= Cardinality(S) - 1
    BY <1>5, <2>1, Counting
  <2> QED BY <1>1, <1>2, <1>5, <2>2
<1> QED BY <1>1, <1>2, <1>3, <1>4, <1>5

(* The number of open intents grows with a call that becomes pending, and  *)
(* shrinks only with one that commits.                                     *)
LEMMA OpenMoves ==
  ASSUME Inv, NEW p \in Procs, Step(p), NEW s \in Sessions, NEW k \in Kinds
  PROVE  /\ open[s][k] \in Nat /\ open'[s][k] \in Nat
         /\ \/ open'[s][k] >= open[s][k]
            \/ /\ open'[s][k] = open[s][k] - 1
               /\ pc[p] = "commit" /\ sid[p] = s /\ cmd[p] = k
<1>1. /\ open[s][k] \in Nat /\ cmd[p] \in Kinds
      /\ open \in [Sessions -> [Kinds -> Nat]]
  BY DEF Inv, TypeOK
<1>2. open'[s][k] \in Nat
  BY TypeStep DEF TypeOK
<1>3. CASE UNCHANGED open
  BY <1>1, <1>2, <1>3
<1>4. CASE /\ pc[p] = "intent" /\ sid[p] \in Sessions
           /\ open' = [open EXCEPT ![sid[p]][cmd[p]] = @ + 1]
  BY <1>1, <1>2, <1>4
<1>5. CASE /\ pc[p] = "commit" /\ sid[p] \in Sessions
           /\ open' = [open EXCEPT ![sid[p]][cmd[p]] = @ - 1]
  <2>1. CASE sid[p] = s /\ cmd[p] = k
    <3>1. open' = [open EXCEPT ![s][k] = open[s][k] - 1]
      BY <1>5, <2>1
    <3>2. open'[s] = [open[s] EXCEPT ![k] = open[s][k] - 1]
      BY <1>1, <3>1
    <3>3. open[s] \in [Kinds -> Nat]
      BY <1>1
    <3>4. open'[s][k] = open[s][k] - 1
      BY <3>2, <3>3
    <3> QED BY <1>1, <1>2, <1>5, <2>1, <3>4
  <2>2. CASE ~(sid[p] = s /\ cmd[p] = k)
    <3>1. open'[s][k] = open[s][k]
      BY <1>1, <1>5, <2>2
    <3> QED BY <1>1, <1>2, <3>1
  <2> QED BY <2>1, <2>2
<1> QED BY <1>1, <1>2, <1>3, <1>4, <1>5, OpenIs DEF OpenChange

(* A call becomes pending with its intent, and only then.                  *)
LEMMA IntentIs ==
  ASSUME Inv, NEW p \in Procs, Step(p), pc[p] = "intent", pc'[p] # "idle"
  PROVE  open' = [open EXCEPT ![sid[p]][cmd[p]] = @ + 1]
<1>1. ~Crash(p) /\ ~CrashInAudit(p)
  BY MoveIs DEF Crash, CrashInAudit, Inv
<1>2. AppendIntent(p)
  BY <1>1 DEF Step, Begin, Recover, LookupForStart, LookupActive, Allocate,
     ValidateLog, Read, Recheck, MakeSessionDir, MakeRawDir, MakeLog,
     WriteMeta, WriteEvent, WriteRepair, UnlinkLog, RemoveRawDir, RemoveSessionDir,
     Verify, AppendCommitted, CrashInEvent, At
<1> QED BY <1>2 DEF AppendIntent, Announce

(* A step adds to the calls in flight its own at most, with its intent.   *)
LEMMA PendingChange ==
  ASSUME Inv, NEW p \in Procs, Step(p), NEW s \in Sessions, NEW k \in Kinds
  PROVE  /\ Pending(s, k)' \subseteq Pending(s, k) \union {p}
         /\ p \in Pending(s, k)' => pc[p] # "commit"
         /\ p \in Pending(s, k)' /\ p \notin Pending(s, k) =>
              /\ pc[p] = "intent" /\ sid[p] = s /\ cmd[p] = k
              /\ open' = [open EXCEPT ![s][k] = @ + 1]
<1>1. ASSUME NEW q \in Procs, q # p
      PROVE  q \in Pending(s, k)' => q \in Pending(s, k)
  <2>1. Same(q)
    BY <1>1, OthersSame DEF Inv
  <2> QED BY <2>1 DEF Pending, Same
<1>2. Pending(s, k)' \subseteq Procs
  BY DEF Pending
<1>3. ASSUME p \in Pending(s, k)'
      PROVE  /\ pc[p] \in Announced \union {"intent"} /\ pc[p] # "commit"
             /\ sid[p] = s /\ cmd[p] = k /\ pc'[p] # "idle"
  <2>1. pc'[p] \in Announced /\ sid'[p] = s /\ cmd'[p] = k
    BY <1>3 DEF Pending
  <2>2. pc'[p] \in NextSteps(pc[p], cmd[p]) /\ cmd'[p] = cmd[p] /\ sid'[p] = sid[p]
    BY <2>1, OwnMove DEF OwnStep, Announced
  <2>3. pc[p] \in Announced \union {"intent"} /\ pc[p] # "commit"
    BY <2>1, <2>2 DEF NextSteps, Announced
  <2> QED BY <2>1, <2>2, <2>3 DEF Announced
<1>4. ASSUME p \in Pending(s, k)', p \notin Pending(s, k)
      PROVE  /\ pc[p] = "intent" /\ sid[p] = s /\ cmd[p] = k
             /\ open' = [open EXCEPT ![s][k] = @ + 1]
  <2>1. pc[p] = "intent" /\ sid[p] = s /\ cmd[p] = k
    BY <1>3, <1>4 DEF Pending
  <2> QED BY <1>3, <1>4, <2>1, IntentIs
<1> QED BY <1>1, <1>2, <1>3, <1>4

(* No more calls are in flight than there are unmatched intents.          *)
LEMMA PendingBound ==
  ASSUME Inv, NEW p \in Procs, Step(p), NEW s \in Sessions, NEW k \in Kinds
  PROVE  Cardinality(Pending(s, k)') <= open'[s][k]
<1> DEFINE n == open[s][k]
           m == open'[s][k]
<1>1. PICK P : P = Pending(s, k)
  OBVIOUS
<1>2. PICK Q : Q = Pending(s, k)'
  OBVIOUS
<1>3. IsFiniteSet(P) /\ Cardinality(P) <= n /\ n \in Nat /\ m \in Nat
  BY <1>1, PendingFacts, OpenMoves DEF Inv, AuditOK
<1>4. Q \subseteq P \union {p}
  BY <1>1, <1>2, PendingChange
<1>5. p \in Q /\ p \notin P => m = n + 1
  BY <1>1, <1>2, PendingChange DEF Inv, TypeOK
<1>6. m >= n \/ (m = n - 1 /\ p \in P /\ p \notin Q)
  BY <1>1, <1>2, OpenMoves, PendingChange DEF Pending, Announced
<1> HIDE DEF n, m
<1>7. /\ Cardinality(P) \in Nat /\ Cardinality(Q) \in Nat
      /\ Cardinality(Q) + n <= Cardinality(P) + m
  BY <1>3, <1>4, <1>5, <1>6, CountMoves
<1>8. Cardinality(Q) <= m
  BY <1>3, <1>7
<1> QED BY <1>2, <1>8 DEF m

(* An event that finds its session completed is not read back.             *)
LEMMA HopefulChange ==
  ASSUME Inv, NEW p \in Procs, Step(p), NEW s \in Sessions
  PROVE  /\ Hopeful(s)' \subseteq Hopeful(s) \union {p}
         /\ p \in Hopeful(s)' => pc[p] # "commit"
         /\ p \in Hopeful(s)' /\ p \notin Hopeful(s) =>
              open' = [open EXCEPT ![s]["event"] = @ + 1]
<1>0. "event" \in Kinds
  BY DEF Kinds, Commands
<1>1. /\ Hopeful(s) \subseteq Pending(s, "event")
      /\ Hopeful(s)' \subseteq Pending(s, "event")'
  BY DEF Hopeful
<1>2. Completed(s) => Completed(s)'
  BY MetaKept
<1>3. ASSUME NEW q \in Procs, q # p, q \in Hopeful(s)'
      PROVE  q \in Hopeful(s)
  <2>1. q \in Pending(s, "event") /\ pc'[q] = pc[q]
    BY <1>0, <1>1, <1>3, PendingChange, OthersSame DEF Inv, Same
  <2> QED BY <1>2, <1>3, <2>1 DEF Hopeful
<1>4. ASSUME p \in Hopeful(s)', p \in Pending(s, "event")
      PROVE  p \in Hopeful(s)
  <2>1. CASE ~Completed(s)
    BY <1>4, <2>1 DEF Hopeful
  <2>2. CASE Completed(s)
    <3>1. pc'[p] = "commit"
      BY <1>2, <1>4, <2>2 DEF Hopeful
    <3>2. pc[p] \in Announced /\ cmd[p] = "event" /\ sid[p] = s
      BY <1>4 DEF Pending
    <3>3. pc'[p] \in NextSteps(pc[p], cmd[p]) /\ (pc[p] = "verify" => Verified(p))
      BY <3>1, OwnMove DEF OwnStep
    <3>4. pc[p] = "verify"
      BY <3>1, <3>3 DEF NextSteps
    <3>5. meta[s] = seen[p].meta
      BY <3>2, <3>3, <3>4 DEF Verified
    <3>6. seen[p].meta.status = "active"
      BY <3>2 DEF Inv, CallsOK, KnowsOK
    <3> QED BY <2>2, <3>5, <3>6 DEF Completed
  <2> QED BY <2>1, <2>2
<1>5. Hopeful(s)' \subseteq Procs
  BY DEF Hopeful, Pending
<1> QED BY <1>0, <1>1, <1>3, <1>4, <1>5, PendingChange

(* An intent that will never be matched stays unmatched: a later event    *)
(* that could match it has brought an intent of its own.                  *)
LEMMA BetrayedKept ==
  ASSUME Inv, NEW p \in Procs, Step(p), NEW s \in Sessions, Betrayed(s)
  PROVE  Betrayed(s)'
<1> DEFINE n == open[s]["event"]
           m == open'[s]["event"]
<1>0. "event" \in Kinds
  BY DEF Kinds, Commands
<1>1. PICK H : H = Hopeful(s)
  OBVIOUS
<1>2. PICK K : K = Hopeful(s)'
  OBVIOUS
<1>3. IsFiniteSet(H) /\ Cardinality(H) < n /\ n \in Nat /\ m \in Nat
  BY <1>0, <1>1, PendingFacts, OpenMoves DEF Betrayed
<1>4. K \subseteq H \union {p}
  BY <1>1, <1>2, HopefulChange
<1>5. p \in K /\ p \notin H => m = n + 1
  BY <1>0, <1>1, <1>2, HopefulChange DEF Inv, TypeOK
<1>6. m >= n \/ (m = n - 1 /\ p \in H /\ p \notin K)
  BY <1>0, <1>1, <1>2, OpenMoves, HopefulChange DEF Hopeful, Pending, Announced
<1> HIDE DEF n, m
<1>7. /\ Cardinality(H) \in Nat /\ Cardinality(K) \in Nat
      /\ Cardinality(K) + n <= Cardinality(H) + m
  BY <1>3, <1>4, <1>5, <1>6, CountMoves
<1>8. Cardinality(K) < m
  BY <1>3, <1>7
<1> QED BY <1>2, <1>8 DEF m, Betrayed

(* An event that has written and can no longer commit leaves its intent   *)
(* behind.                                                                *)
LEMMA BetrayedNow ==
  ASSUME Inv, NEW p \in Procs, Step(p), NEW s \in Sessions, s = sid[p],
         pc[p] = "write", cmd[p] = "event", p \notin Hopeful(s)'
  PROVE  Betrayed(s)'
<1> DEFINE P == Pending(s, "event")
           K == Hopeful(s)'
<1>0. "event" \in Kinds
  BY DEF Kinds, Commands
<1>1. /\ IsFiniteSet(P) /\ Cardinality(P) \in Nat
      /\ Cardinality(P) <= open[s]["event"] /\ open[s]["event"] \in Nat
  BY <1>0, PendingFacts DEF Inv, AuditOK, TypeOK
<1>2. p \in P /\ Hopeful(s) \subseteq P
  BY DEF Pending, Announced, Hopeful
<1>3. K \subseteq P \ {p}
  BY <1>2, HopefulChange
<1>4. open' = open
  BY OpenIs DEF OpenChange
<1>5. Betrayed(s)' <=> Cardinality(K) < open'[s]["event"]
  BY DEF Betrayed
<1> HIDE DEF P, K
<1>6. Cardinality(K) <= Cardinality(P) - 1 /\ Cardinality(K) \in Nat
  BY <1>1, <1>2, <1>3, Counting, FS_CardinalityType
<1> QED BY <1>1, <1>4, <1>5, <1>6

(* A damaged log, and a completed log that was changed, always come with  *)
(* an intent that will never be matched.                                  *)
LEMMA AuditStep ==
  ASSUME Inv, NEW p \in Procs, Step(p)
  PROVE  AuditOK'
<1> SUFFICES ASSUME NEW s \in Sessions
             PROVE  /\ \A k \in Kinds : Cardinality(Pending(s, k)') <= open'[s][k]
                    /\ log'[s] # NoLog /\ log'[s].end # "lf" => Betrayed(s)'
                    /\ ended'[s] # NoLog /\ log'[s] # ended'[s] => Betrayed(s)'
  BY DEF AuditOK
<1>1. \A k \in Kinds : Cardinality(Pending(s, k)') <= open'[s][k]
  BY PendingBound
<1>2. /\ log[s] # NoLog /\ log[s].end # "lf" => Betrayed(s)
      /\ ended[s] # NoLog /\ log[s] # ended[s] => Betrayed(s)
      /\ meta[s] # NoMeta => log[s] # NoLog
      /\ ended[s] # NoLog => Completed(s)
      /\ TypeOK /\ RecoverOK(p)
  BY DEF Inv, AuditOK, FilesOK, Completed, CallsOK
<1>3. CrashInEvent(p) => p \notin Hopeful(s)'
  BY <1>2, MoveIs DEF CrashInEvent, Hopeful, Pending, Announced
<1>4. ASSUME log'[s] # NoLog, log'[s].end # "lf"
      PROVE  Betrayed(s)'
  BY <1>2, <1>3, <1>4, LogChange, BetrayedKept, BetrayedNow, EmptyFacts DEF LogStep
<1>5. ASSUME ended'[s] # NoLog, log'[s] # ended'[s]
      PROVE  Betrayed(s)'
  <2>1. CASE ended'[s] = ended[s] /\ log'[s] = log[s]
    BY <1>2, <1>5, <2>1, BetrayedKept
  <2>2. CASE ended'[s] = ended[s] /\ log'[s] # log[s]
    <3>1. Completed(s) /\ Completed(s)' /\ log[s] # NoLog /\ meta[s] # NoMeta
      BY <1>2, <1>5, <2>2, MetaKept DEF Completed
    <3>2. cmd[p] = "cleanup" /\ pc[p] = "unlink" => s # sid[p]
      BY <1>2, <3>1 DEF RecoverOK, Recoveries
    <3>3. ASSUME WriteEvent(p), log[sid[p]] # NoLog, s = sid[p]
          PROVE  p \notin Hopeful(s)'
      BY <1>2, <3>1, <3>3, MoveIs DEF WriteEvent, Hopeful, Pending
    <3>4. CASE pc[p] = "write" /\ cmd[p] = "event" /\ s = sid[p]
      BY <1>3, <2>2, <3>1, <3>3, <3>4, LogChange, BetrayedNow DEF LogStep
    <3>5. CASE log[s].end # "lf"
      BY <1>2, <3>1, <3>5, BetrayedKept
    <3> QED BY <2>2, <3>1, <3>2, <3>4, <3>5, LogChange DEF LogStep
  <2>3. CASE ended'[s] # ended[s]
    BY <1>5, <2>3, MetaChange
  <2> QED BY <2>1, <2>2, <2>3
<1> QED BY <1>1, <1>4, <1>5

-----------------------------------------------------------------------------
(* The repair of the audit log changes none of this.                       *)
LEMMA TailStep ==
  ASSUME Inv, UNCHANGED <<disk, open, started, callVars, ended, faults>>, tail' \in Tails
  PROVE  Inv'
<1>1. UNCHANGED <<sessionDirs, rawDirs, log, meta, open, started, pc, cmd, sid, seen,
                  ended, faults>>
  BY DEF disk, callVars
<1>2. TypeOK'
  BY <1>1 DEF Inv, TypeOK
<1>3. CallsOK'
  <2>1. ASSUME NEW p \in Procs
        PROVE  StepOK(p)' /\ StartOK(p)' /\ KnowsOK(p)' /\ RecoverOK(p)'
    <3>1. StepOK(p) /\ StartOK(p) /\ KnowsOK(p) /\ RecoverOK(p)
      BY DEF Inv, CallsOK
    <3>2. StepOK(p)' /\ StartOK(p)'
      BY <1>1, <3>1 DEF StepOK, StartOK
    <3>3. KnowsOK(p)' /\ RecoverOK(p)'
      BY <1>1, <3>1 DEF KnowsOK, RecoverOK
    <3> QED BY <3>2, <3>3
  <2> QED BY <2>1 DEF CallsOK
<1>4. FilesOK'
  BY <1>1 DEF Inv, FilesOK
<1>5. AuditOK'
  <2>1. /\ \A s \in Sessions, k \in Kinds : Pending(s, k)' = Pending(s, k)
        /\ \A s \in Sessions : Hopeful(s)' = Hopeful(s)
    BY <1>1 DEF Pending, Hopeful, Completed
  <2>2. \A s \in Sessions : Betrayed(s)' <=> Betrayed(s)
    BY <1>1, <2>1 DEF Betrayed
  <2> QED BY <1>1, <2>1, <2>2 DEF Inv, AuditOK
<1> QED BY <1>2, <1>3, <1>4, <1>5 DEF Inv

(* Every step keeps the invariant when no recovery action overlaps        *)
(* another call.                                                          *)
LEMMA InvStep ==
  ASSUME Inv, ~Overlap, [Next]_vars
  PROVE  Inv'
<1>1. ASSUME NEW p \in Procs, Step(p)
      PROVE  Inv'
  BY <1>1, TypeStep, CallsStep, FilesStep, AuditStep DEF Inv
<1>2. CASE RepairAuditTail
  BY <1>2, TailStep DEF RepairAuditTail, Tails
<1>3. CASE UNCHANGED vars
  BY <1>3, TailStep DEF vars, audit, Inv, TypeOK
<1> QED BY <1>1, <1>2, <1>3 DEF Next

(* The inductive invariant holds in every reachable state.                *)
THEOREM Invariance ==
  ASSUME ~Overlap
  PROVE  Spec => []Inv
<1>1. Init => Inv
  BY InitInv
<1>2. Inv /\ [Next]_vars => Inv'
  BY InvStep
<1> QED BY <1>1, <1>2, PTL DEF Spec

-----------------------------------------------------------------------------
(* Each variable stays in its type; in particular an event number never    *)
(* exceeds the bound that its log's length stays under, and no record is   *)
(* committed more often than it was announced.                             *)
THEOREM TypesCorrect ==
  ASSUME ~Overlap
  PROVE  Spec => []TypeOK
<1>1. Inv => TypeOK
  BY DEF Inv
<1> QED BY <1>1, Invariance, PTL

(* Whatever overlapped, crashed or was written short: when nothing is in   *)
(* flight and the preflight passes, one session at most is active, each    *)
(* session has its log with the events 1, 2, 3 and so on, and the log of a *)
(* completed session is what it was at its end.  An event that got into    *)
(* the log of a completed session left an intent without a committed       *)
(* record, which the preflight reports for ever.                           *)
LEMMA Detected ==
  ASSUME Inv, Quiet, PreflightPasses
  PROVE  /\ Cardinality(Active) <= 1
         /\ \A s \in Sessions : meta[s] # NoMeta => NumberedLog(s)
         /\ \A s \in Sessions : ended[s] # NoLog =>
              meta[s].status = "completed" /\ log[s] = ended[s]
<1>1. Cardinality(Active) <= 1
  BY DEF PreflightPasses
<1>2. ASSUME NEW s \in Sessions, meta[s] # NoMeta
      PROVE  log[s] \in Logs /\ Parses(log[s]) /\ ~Betrayed(s)
  <2>1. /\ log[s] # NoLog => Parses(log[s])
        /\ \A k \in Kinds : open[s][k] = 0
    BY <1>2 DEF PreflightPasses, SessionSound
  <2>2. log[s] # NoLog /\ log[s] \in Logs
    BY <1>2 DEF Inv, FilesOK, TypeOK
  <2>3. Hopeful(s) = {}
    BY NobodyPending DEF Quiet
  <2>4. open[s]["event"] = 0
    BY <2>1 DEF Kinds, Commands
  <2>5. Cardinality({}) = 0 /\ ~(0 < 0)
    BY FS_EmptySet
  <2>6. ~Betrayed(s)
    BY <2>3, <2>4, <2>5 DEF Betrayed
  <2> QED BY <2>1, <2>2, <2>6
<1>3. ASSUME NEW s \in Sessions, meta[s] # NoMeta
      PROVE  NumberedLog(s)
  <2>1. /\ log[s] \in Logs /\ log[s] # NoLog
        /\ Wellformed(log[s].lines) /\ Counts(log[s].lines)
    BY <1>2, <1>3, SessionAssumption DEF Parses, Inv, FilesOK
  <2>2. \A i \in DOMAIN log[s].lines : log[s].lines[i].id = i
    BY <2>1, ParsedCounts
  <2> QED BY <2>1, <2>2 DEF NumberedLog
<1>4. ASSUME NEW s \in Sessions, ended[s] # NoLog
      PROVE  meta[s].status = "completed" /\ log[s] = ended[s]
  <2>1. meta[s] # NoMeta /\ meta[s].status = "completed"
    BY <1>4 DEF Inv, FilesOK
  <2> QED BY <1>2, <1>4, <2>1 DEF Inv, AuditOK
<1> QED BY <1>1, <1>3, <1>4

(* Whenever nothing is in flight and the preflight passes, the files of   *)
(* every session are whole.                                               *)
THEOREM DamageDetected ==
  ASSUME ~Overlap
  PROVE  Spec => []DamageIsDetected
<1>1. Inv => DamageIsDetected
  BY Detected DEF DamageIsDetected
<1> QED BY <1>1, Invariance, PTL

(* No interleaving, crash or repair changes or reorders the complete lines *)
(* of an event log.                                                        *)
LEMMA LogsGrow ==
  ASSUME Inv, Next, NEW s \in Sessions, log[s] # NoLog, log'[s] # NoLog
  PROVE  Extends(log[s], log'[s])
<1>1. ASSUME NEW p \in Procs, Step(p)
      PROVE  Extends(log[s], log'[s])
  BY <1>1, LogKept DEF Grows
<1>2. CASE RepairAuditTail
  <2>1. log'[s] = log[s] /\ log[s] \in Logs
    BY <1>2 DEF RepairAuditTail, disk, Inv, TypeOK
  <2>2. Complete(log[s]) \in Seq(Lines)
    BY <2>1, CompleteFacts
  <2>3. Len(Complete(log[s])) <= Len(Complete(log[s]))
    BY <2>2
  <2> QED BY <2>1, <2>3, ExtendsBy
<1> QED BY <1>1, <1>2 DEF Next

(* The complete lines of an event log are only ever added to.             *)
THEOREM LogsAppendOnly ==
  ASSUME ~Overlap
  PROVE  Spec => AppendOnly
<1> DEFINE A == \A s \in Sessions : log[s] # NoLog /\ log'[s] # NoLog =>
                  LET old == Complete(log[s]) new == Complete(log'[s]) IN
                  Len(old) <= Len(new) /\ SubSeq(new, 1, Len(old)) = old
<1>1. Inv /\ [Next]_vars => [A]_log
  <2>1. ASSUME Inv, Next
        PROVE  A
    BY <2>1, LogsGrow DEF Extends
  <2>2. UNCHANGED vars => UNCHANGED log
    BY DEF vars, disk
  <2> QED BY <2>1, <2>2
<1> QED BY <1>1, Invariance, PTL DEF Spec, AppendOnly

(* A session with metadata keeps its log and its directories: a cleanup    *)
(* takes only what has no metadata, and none arrives while it runs.        *)
LEMMA Kept ==
  ASSUME Inv, NEW p \in Procs, Step(p), NEW s \in Sessions, meta[s] # NoMeta
  PROVE  /\ meta'[s] # NoMeta
         /\ log[s] # NoLog => log'[s] # NoLog
         /\ s \in sessionDirs => s \in sessionDirs'
         /\ s \in rawDirs => s \in rawDirs'
<1>1. cmd[p] = "cleanup" /\ pc[p] # "idle" => s # sid[p]
  BY DEF Inv, CallsOK, RecoverOK, Recoveries
<1>2. ReadStep(p) \/ RecordStep(p) => UNCHANGED rawDirs
  BY DEF ReadStep, RecordStep, disk
<1>3. WriteStep(p) => rawDirs \subseteq rawDirs' \/ RemoveRawDir(p)
  BY DEF WriteStep, MakeSessionDir, MakeRawDir, MakeLog, WriteMeta, WriteEvent,
     WriteRepair, UnlinkLog, RemoveSessionDir, CrashInEvent
<1>4. RemoveRawDir(p) => /\ cmd[p] = "cleanup" /\ pc[p] # "idle"
                         /\ rawDirs \ {sid[p]} \subseteq rawDirs'
  BY DEF RemoveRawDir, At, Inv, CallsOK, StepOK
<1>5. s \in rawDirs => s \in rawDirs'
  BY <1>1, <1>2, <1>3, <1>4, StepKinds
<1> QED BY <1>1, <1>5, MetaKept, LogKept, DirChange

(* Once a session has metadata, no step takes its metadata, log or        *)
(* directories.                                                           *)
THEOREM SessionsKept ==
  ASSUME ~Overlap
  PROVE  Spec => SessionKept
<1> DEFINE A == \A s \in Sessions : meta[s] # NoMeta =>
                  /\ meta'[s] # NoMeta
                  /\ log[s] # NoLog => log'[s] # NoLog
                  /\ s \in sessionDirs => s \in sessionDirs'
                  /\ s \in rawDirs => s \in rawDirs'
<1>1. Inv /\ [Next]_vars => [A]_vars
  <2>1. ASSUME Inv, NEW p \in Procs, Step(p)
        PROVE  A
    BY <2>1, Kept
  <2>2. RepairAuditTail => A
    BY DEF RepairAuditTail, disk
  <2> QED BY <2>1, <2>2 DEF Next
<1> QED BY <1>1, Invariance, PTL DEF Spec, SessionKept

-----------------------------------------------------------------------------
(* One process at a time: SessionLifecycle.  A start that is under way     *)
(* found no active session, and takes the number after all the others; an  *)
(* event or an end finds its session as it was.                            *)
OneProcess == \A p, q \in Procs : p = q
IsActive(s) == meta[s] # NoMeta /\ meta[s].status = "active"

AloneOK(p) ==
  /\ pc[p] \in {"lookup", "allocate"} => \A s \in Sessions : HasDirs(s) => meta[s] # NoMeta
  /\ cmd[p] = "start" /\ pc[p] \in {"allocate", "intent", "mkdir", "mkraw", "mklog", "write"} =>
       Active = {}
  /\ cmd[p] = "start" /\ pc[p] \in {"intent", "mkdir", "mkraw", "mklog", "write"} =>
       \A s \in Sessions : meta[s] # NoMeta <=> s < sid[p]
  /\ cmd[p] = "start" /\ pc[p] \in {"verify", "commit"} => meta[sid[p]] # NoMeta
  /\ cmd[p] \in {"event", "end"}
     /\ pc[p] \in {"validate", "read", "intent", "recheck", "write"} => IsActive(sid[p])
  /\ cmd[p] = "end" /\ pc[p] \in {"read", "intent", "recheck", "write"} =>
       log[sid[p]].end = "lf"
  /\ cmd[p] = "event" /\ pc[p] \in {"intent", "recheck", "write"} =>
       log[sid[p]] = seen[p].log /\ log[sid[p]].end = "lf"

LogsNumbered ==
  \A s \in Sessions : log[s] # NoLog =>
    /\ \A i \in DOMAIN log[s].lines : log[s].lines[i].id = i
    /\ log[s].end = "nolf" => Len(log[s].lines) > 0
    /\ log[s].end # "lf" => IsActive(s)

OneAfterTheOther ==
  /\ \A s \in started : meta[s] # NoMeta
  /\ \A s, t \in Sessions : s < t /\ meta[t] # NoMeta => meta[s] # NoMeta

SoloInv == (\A p \in Procs : AloneOK(p)) /\ LogsNumbered /\ OneAfterTheOther

(* Only a call that writes changes the directories of a session.           *)
LEMMA DiskSame ==
  ASSUME NEW p \in Procs, Step(p),
         pc[p] \notin {"mkdir", "mkraw", "mklog", "write", "unlink", "rmraw", "rmdir"}
  PROVE  UNCHANGED <<sessionDirs, rawDirs, log, meta>>
<1>1. ~WriteStep(p)
  BY DEF WriteStep, MakeSessionDir, MakeRawDir, MakeLog, WriteMeta, WriteEvent,
     WriteRepair, UnlinkLog, RemoveRawDir, RemoveSessionDir, CrashInEvent, At
<1> QED BY <1>1, StepKinds DEF ReadStep, RecordStep, disk

(* Only the last write of a start or an end touches the metadata.         *)
LEMMA MetaSame ==
  ASSUME Inv, NEW p \in Procs, Step(p), pc[p] # "write" \/ cmd[p] \in {"event", "repair"}
  PROVE  meta' = meta
<1>1. \A s \in Sessions : meta'[s] = meta[s]
  BY MetaChange
<1>2. meta \in [Sessions -> Metas \union {NoMeta}] /\ meta' \in [Sessions -> Metas \union {NoMeta}]
  BY DiskTypes DEF Inv, TypeOK
<1> QED BY <1>1, <1>2

(* A preflight that passes finds no remains of a start.                    *)
LEMMA BeginsClean ==
  ASSUME PreflightPasses, OneAfterTheOther, NEW s \in Sessions, HasDirs(s)
  PROVE  meta[s] # NoMeta
BY DEF PreflightPasses, SessionSound, OneAfterTheOther

(* The number of a new session is greater than all those in use.           *)
LEMMA AllocateNext ==
  ASSUME Inv, OneAfterTheOther, NEW p \in Procs, Allocate(p),
         \A s \in Sessions : HasDirs(s) => meta[s] # NoMeta
  PROVE  \A s \in Sessions : meta[s] # NoMeta <=> s < sid'[p]
<1> DEFINE S == {0} \union sessionDirs \union rawDirs
<1>1. S \subseteq 0..MaxSessions /\ 0 \in S /\ MaxSessions \in Nat
  BY SessionAssumption DEF Inv, TypeOK, Sessions
<1>2. PICK m \in S : \A y \in S : y <= m
  <2>1. S \in SUBSET Nat /\ S # {} /\ \A y \in S : y <= MaxSessions
    BY <1>1
  <2> HIDE DEF S
  <2> QED BY <1>1, <2>1, BoundedMax
<1>3. Max(S) = m /\ m \in Nat
  <2> HIDE DEF S
  <2>1. S \in SUBSET Nat
    BY <1>1
  <2> QED BY <1>2, <2>1, MaxIs
<1>4. sid'[p] = 1 + m
  <2>1. sid' = [sid EXCEPT ![p] = 1 + Max(S)]
    BY DEF Allocate
  <2> HIDE DEF S
  <2> QED BY <1>3, <2>1 DEF Inv, TypeOK
<1>5. ASSUME NEW s \in Sessions, meta[s] # NoMeta
      PROVE  s < sid'[p]
  <2>1. s \in S /\ s \in Nat
    BY <1>5 DEF Inv, FilesOK, Sessions
  <2> QED BY <1>2, <1>3, <1>4, <2>1
<1>6. ASSUME NEW s \in Sessions, s < sid'[p]
      PROVE  meta[s] # NoMeta
  <2>1. s \in Nat /\ s > 0 /\ s <= m
    BY <1>3, <1>4, <1>6 DEF Sessions
  <2>2. m \in Sessions /\ HasDirs(m)
    BY <1>1, <1>2, <1>3, <2>1 DEF HasDirs, Sessions
  <2>3. meta[m] # NoMeta
    BY <2>2
  <2> QED BY <1>3, <2>1, <2>2, <2>3 DEF OneAfterTheOther
<1> QED BY <1>5, <1>6

(* With one process, every step keeps what a call relies on: nobody else  *)
(* has changed the files since it read them.                              *)
LEMMA AloneStep ==
  ASSUME Inv, SoloInv, NEW p \in Procs, Step(p)
  PROVE  AloneOK(p)'
<1>0. /\ TypeOK /\ StepOK(p) /\ StartOK(p) /\ OwnStep(p) /\ AloneOK(p) /\ OneAfterTheOther
      /\ \A s \in Sessions : meta[s] # NoMeta => meta'[s] # NoMeta
  BY OwnMove, MetaKept DEF Inv, CallsOK, SoloInv
<1>1. CASE pc'[p] = "idle" /\ cmd'[p] = "start"
  BY <1>1 DEF AloneOK
<1>2. CASE /\ pc[p] = "idle" /\ pc'[p] = "lookup" /\ cmd'[p] \in Commands
  <2>1. PreflightPasses
    <3>1. \E k \in Commands : Begin(p, k)
      <4>1. ~\E s \in Sessions, k \in Recoveries : Recover(p, k, s)
        BY <1>0, <1>2 DEF Recover, Move, TypeOK
      <4> QED BY <1>2, <4>1 DEF Step, LookupForStart, LookupActive, Allocate,
         ValidateLog, Read, AppendIntent, Recheck, MakeSessionDir, MakeRawDir, MakeLog,
         WriteMeta, WriteEvent, WriteRepair, UnlinkLog, RemoveRawDir, RemoveSessionDir,
         Verify, AppendCommitted, Crash, CrashInAudit, CrashInEvent, At
    <3> QED BY <3>1 DEF Begin
  <2>2. \A s \in Sessions : HasDirs(s) => meta[s] # NoMeta
    BY <1>0, <2>1, BeginsClean
  <2>3. UNCHANGED <<sessionDirs, rawDirs, meta>>
    BY <1>2, DiskSame
  <2>4. \A s \in Sessions : HasDirs(s)' => meta'[s] # NoMeta
    BY <2>2, <2>3 DEF HasDirs
  <2> QED BY <1>2, <2>4 DEF AloneOK
<1>3. CASE /\ LookupActive(p) /\ cmd'[p] = cmd[p] /\ cmd[p] \in {"event", "end"}
           /\ pc'[p] = IF cmd[p] = "end" THEN "validate" ELSE "read"
  <2>1. pc[p] = "lookup"
    BY <1>3 DEF LookupActive, At
  <2>2. PICK s \in Sessions : Active = {s} /\ sid'[p] = s
    <3>1. ~Exit(p)
      BY <1>0, <1>3, MoveIs
    <3> QED BY <1>0, <1>3, <3>1 DEF LookupActive, TypeOK
  <2>3. UNCHANGED meta
    BY <2>1, DiskSame
  <2>4. IsActive(s)'
    BY <2>2, <2>3 DEF Active, IsActive
  <2>5. IsActive(sid[p])'
    BY <2>2, <2>4 DEF IsActive
  <2> QED BY <1>3, <2>5 DEF AloneOK
<1>4. CASE Allocate(p) /\ pc'[p] = "intent" /\ cmd'[p] = cmd[p]
  <2>1. pc[p] = "allocate" /\ cmd[p] = "start"
    BY <1>0, <1>4 DEF Allocate, At, StepOK
  <2>2. /\ \A s \in Sessions : HasDirs(s) => meta[s] # NoMeta
        /\ Active = {}
    BY <1>0, <2>1 DEF AloneOK
  <2>3. \A s \in Sessions : meta[s] # NoMeta <=> s < sid'[p]
    BY <1>0, <1>4, <2>2, AllocateNext
  <2>4. UNCHANGED meta
    BY <2>1, DiskSame
  <2>5. Active' = {}
    BY <2>2, <2>4 DEF Active
  <2> QED BY <1>4, <2>1, <2>3, <2>4, <2>5 DEF AloneOK
<1>5. CASE /\ Read(p) /\ pc[p] = "read" /\ Usable(p)
           /\ pc'[p] = "intent" /\ cmd'[p] = cmd[p] /\ sid'[p] = sid[p]
           /\ seen'[p] = Snapshot(sid[p])
  <2>1. cmd[p] \in {"event", "end"} /\ sid[p] \in Sessions
    BY <1>0, <1>5 DEF StepOK
  <2>2. UNCHANGED <<log, meta>>
    BY <1>5, DiskSame
  <2>3. IsActive(sid[p])'
    BY <1>5, <2>2 DEF Usable, IsActive
  <2>4. /\ cmd[p] = "end" => log[sid[p]].end = "lf"
        /\ cmd[p] = "event" => log[sid[p]].end = "lf" /\ seen'[p].log = log[sid[p]]
    BY <1>0, <1>5, <2>1, SnapshotFacts DEF AloneOK, Usable, Parses
  <2> QED BY <1>5, <2>1, <2>2, <2>3, <2>4 DEF AloneOK
<1>6. CASE pc'[p] = "intent" /\ cmd'[p] \in Recoveries
  BY <1>6 DEF AloneOK, Recoveries
<1>7. CASE /\ pc'[p] \in NextSteps(pc[p], cmd[p])
           /\ pc[p] = "lookup" => cmd[p] = "start" /\ Active = {}
           /\ pc[p] = "validate" => Parses(log[sid[p]])
           /\ pc[p] = "write" /\ cmd[p] \in {"start", "end"} => meta'[sid[p]] = NewMeta(p)
           /\ cmd'[p] = cmd[p] /\ sid'[p] = sid[p] /\ seen'[p] = seen[p]
  <2>1. CASE pc[p] = "lookup"
    <3>1. pc'[p] = "allocate" /\ cmd[p] = "start" /\ Active = {}
      BY <1>7, <2>1 DEF NextSteps
    <3>2. UNCHANGED <<sessionDirs, rawDirs, meta>>
      BY <2>1, DiskSame
    <3>3. Active' = {} /\ \A s \in Sessions : HasDirs(s)' => meta'[s] # NoMeta
      BY <1>0, <2>1, <3>1, <3>2 DEF Active, HasDirs, AloneOK
    <3> QED BY <1>7, <3>1, <3>3 DEF AloneOK
  <2>2. CASE cmd[p] = "start" /\ pc'[p] \in {"mkdir", "mkraw", "mklog", "write"}
    <3>1. pc[p] \in {"intent", "mkdir", "mkraw", "mklog"}
      BY <1>0, <1>7, <2>2 DEF NextSteps, StepOK
    <3>2. UNCHANGED meta
      BY <3>1, MetaSame
    <3>3. /\ Active' = {}
          /\ \A s \in Sessions : meta[s] # NoMeta <=> s < sid[p]
      BY <1>0, <2>2, <3>1, <3>2 DEF Active, AloneOK
    <3> QED BY <1>7, <2>2, <3>2, <3>3 DEF AloneOK
  <2>3. CASE cmd[p] = "start" /\ pc'[p] \in {"verify", "commit"}
    <3>1. pc[p] \in {"write", "verify"} /\ sid[p] \in Sessions
      BY <1>0, <1>7, <2>3 DEF NextSteps, StepOK
    <3>2. meta'[sid[p]] # NoMeta
      <4>1. NewMeta(p) # NoMeta
        BY SessionAssumption DEF NewMeta, Metas
      <4> QED BY <1>0, <1>7, <2>3, <3>1, <4>1 DEF AloneOK
    <3> QED BY <1>7, <2>3, <3>2 DEF AloneOK
  <2>4. CASE cmd[p] \in {"event", "end"} /\ pc'[p] \in {"read", "intent", "recheck", "write"}
    <3>1. pc[p] \in {"validate", "intent", "recheck"}
      BY <1>0, <1>7, <2>4 DEF NextSteps, StepOK
    <3>2. UNCHANGED <<log, meta>>
      BY <3>1, DiskSame
    <3>3. IsActive(sid[p])'
      BY <1>0, <1>7, <2>4, <3>1, <3>2 DEF AloneOK, IsActive
    <3>4. cmd[p] = "end" => log[sid[p]].end = "lf"
      BY <1>0, <1>7, <2>4, <3>1 DEF AloneOK, Parses
    <3>5. cmd[p] = "event" /\ pc'[p] \in {"intent", "recheck", "write"} =>
            log[sid[p]] = seen[p].log /\ log[sid[p]].end = "lf"
      BY <1>0, <1>7, <2>4, <3>1 DEF AloneOK, NextSteps, StepOK
    <3> QED BY <1>7, <2>4, <3>2, <3>3, <3>4, <3>5 DEF AloneOK
  <2>5. pc'[p] \notin {"lookup", "validate"} /\ (pc'[p] = "allocate" => pc[p] = "lookup")
        /\ pc'[p] # "intent"
    BY <1>7 DEF NextSteps
  <2> QED BY <1>7, <2>1, <2>2, <2>3, <2>4, <2>5 DEF AloneOK
<1> QED BY <1>0, <1>1, <1>2, <1>3, <1>4, <1>5, <1>6, <1>7 DEF OwnStep

(* How many complete lines a log has; the lines count from one, so that is *)
(* all there is to know of them.                                           *)
Numbered(l) == \A i \in DOMAIN l.lines : l.lines[i].id = i
LineCount(l) == IF l = NoLog THEN 0 ELSE Len(Complete(l))

(* With one process, an event's append adds the next number to an active  *)
(* session's log.                                                         *)
LEMMA EventNumber ==
  ASSUME Inv, SoloInv, NEW p \in Procs, pc[p] = "write", cmd[p] = "event"
  PROVE  /\ sid[p] \in Sessions /\ IsActive(sid[p])
         /\ log[sid[p]] \in Logs /\ log[sid[p]] # NoLog /\ log[sid[p]].end = "lf"
         /\ Numbered(log[sid[p]])
         /\ NewEvent(p) \in Lines
         /\ NewEvent(p).id = Len(log[sid[p]].lines) + 1
<1>1. /\ sid[p] \in Sessions /\ IsActive(sid[p])
      /\ log[sid[p]] = seen[p].log /\ log[sid[p]].end = "lf"
  BY DEF Inv, CallsOK, StepOK, SoloInv, AloneOK
<1>2. /\ log[sid[p]] \in Logs /\ log[sid[p]] # NoLog
      /\ NextEventId(seen[p].log) = Len(seen[p].log.lines) + 1
  BY <1>1, SessionAssumption DEF Inv, CallsOK, KnowsOK, Announced
<1>3. Numbered(log[sid[p]])
  BY <1>1, <1>2 DEF SoloInv, LogsNumbered, Numbered
<1>4. NewEvent(p).id = Len(log[sid[p]].lines) + 1
  BY <1>1, <1>2 DEF NewEvent
<1> QED BY <1>1, <1>2, <1>3, <1>4, NewEventFacts

(* Logs of a line more.                                                    *)
LEMMA OneMore ==
  ASSUME NEW l \in Logs, Numbered(l), NEW e \in Lines, e.id = Len(l.lines) + 1,
         NEW m \in Logs, m.lines = Append(l.lines, e), l.end = "lf"
  PROVE  /\ Numbered(m) /\ Len(m.lines) > 0
         /\ Complete(l) = l.lines /\ Len(l.lines) \in Nat
         /\ m.end = "lf" => Len(Complete(m)) = Len(l.lines) + 1
         /\ m.end = "nolf" => Len(Complete(m)) = Len(l.lines)
<1>1. l.lines \in Seq(Lines) /\ m.lines \in Seq(Lines) /\ Len(l.lines) \in Nat
  BY DEF Logs
<1>2. Len(m.lines) = Len(l.lines) + 1
  BY <1>1
<1>3. ASSUME NEW i \in 1..Len(m.lines)
      PROVE  m.lines[i].id = i
  <2>1. CASE i \in 1..Len(l.lines)
    <3>1. m.lines[i] = l.lines[i]
      BY <1>1, <2>1
    <3> QED BY <2>1, <3>1 DEF Numbered
  <2>2. CASE i = Len(l.lines) + 1
    <3>1. m.lines[i] = e
      BY <1>1, <2>2
    <3> QED BY <2>2, <3>1
  <2> QED BY <1>1, <1>2, <2>1, <2>2
<1>4. Numbered(m)
  BY <1>1, <1>3 DEF Numbered
<1>5. Complete(l) = l.lines /\ (m.end = "lf" => Complete(m) = m.lines)
  BY DEF Complete
<1>6. ASSUME m.end = "nolf"
      PROVE  Len(Complete(m)) = Len(l.lines)
  <2>1. Len(m.lines) > 0
    BY <1>1, <1>2
  <2>2. Len(m.lines) = Len(Complete(m)) + 1 /\ Complete(m) \in Seq(Lines)
    BY <1>6, <2>1, CompleteFacts
  <2>3. Len(Complete(m)) \in Nat
    BY <2>2
  <2> QED BY <1>1, <1>2, <2>2, <2>3
<1> QED BY <1>1, <1>2, <1>4, <1>5, <1>6

(* What a step does to a log when nobody else is there: a complete line    *)
(* more in an active session, or no complete line more.                    *)
SoloLog(p, s) ==
  /\ log'[s] # NoLog /\ log'[s] # log[s] =>
       /\ Numbered(log'[s])
       /\ log'[s].end = "nolf" => Len(log'[s].lines) > 0
       /\ log'[s].end # "lf" => IsActive(s)
  /\ \/ LineCount(log'[s]) = LineCount(log[s])
     \/ LineCount(log'[s]) = LineCount(log[s]) + 1 /\ IsActive(s)
  /\ log'[s] # log[s] => ~(pc[p] = "write" /\ cmd[p] \in {"start", "end"})

(* With one process, every step changes a log in one of the ways of       *)
(* SoloLog.                                                               *)
LEMMA SoloLogStep ==
  ASSUME Inv, SoloInv, NEW p \in Procs, Step(p), NEW s \in Sessions
  PROVE  SoloLog(p, s)
<1>0. LogStep(p, s) /\ TypeOK /\ NoLog \notin Logs
  BY LogChange, SessionAssumption DEF Inv
<1>1. CASE log'[s] = log[s]
  BY <1>1 DEF SoloLog
<1>2. CASE pc[p] = "mklog" /\ log[s] = NoLog /\ log'[s] = EmptyLog
  <2>1. /\ EmptyLog \in Logs /\ EmptyLog.end = "lf" /\ Numbered(EmptyLog)
        /\ Complete(EmptyLog) = <<>>
    BY DEF EmptyLog, Logs, Numbered, Complete
  <2> QED BY <1>0, <1>2, <2>1 DEF SoloLog, LineCount
<1>3. CASE pc[p] = "unlink" /\ log[s] = EmptyLog /\ log'[s] = NoLog
  <2>1. EmptyLog \in Logs /\ Complete(EmptyLog) = <<>>
    BY DEF EmptyLog, Logs, Complete
  <2> QED BY <1>0, <1>3, <2>1 DEF SoloLog, LineCount
<1>4. CASE pc[p] = "write" /\ cmd[p] = "event" /\ s = sid[p]
  <2> DEFINE l == log[s]
             m == log'[s]
  <2>1. /\ IsActive(s) /\ l \in Logs /\ l # NoLog /\ l.end = "lf"
        /\ Numbered(l) /\ NewEvent(p) \in Lines
        /\ NewEvent(p).id = Len(l.lines) + 1
    BY <1>4, EventNumber
  <2>2. CASE WriteEvent(p)
    <3>1. m = [lines |-> Append(l.lines, NewEvent(p)), end |-> "lf"]
      BY <1>0, <1>4, <2>1, <2>2 DEF WriteEvent, Appended, TypeOK
    <3>2. m \in Logs /\ m.lines = Append(l.lines, NewEvent(p)) /\ m.end = "lf"
      <4>1. l.lines \in Seq(Lines)
        BY <2>1 DEF Logs
      <4> HIDE DEF l, m
      <4> QED BY <2>1, <3>1, <4>1 DEF Logs
    <3>3. /\ Numbered(m) /\ Complete(l) = l.lines
          /\ Len(Complete(m)) = Len(l.lines) + 1
      <4> HIDE DEF l, m
      <4> QED BY <2>1, <3>2, OneMore
    <3> QED BY <1>0, <1>4, <2>1, <3>2, <3>3 DEF SoloLog, LineCount
  <2>3. CASE CrashInEvent(p)
    <3>1. \/ m = [lines |-> Complete(l), end |-> "fragment"]
          \/ m = [lines |-> Append(l.lines, NewEvent(p)), end |-> "nolf"]
      BY <1>0, <1>4, <2>3 DEF CrashInEvent, TypeOK
    <3>2. l.lines \in Seq(Lines) /\ Complete(l) = l.lines
      BY <2>1 DEF Logs, Complete
    <3> HIDE DEF l, m
    <3>3. CASE m = [lines |-> Complete(l), end |-> "fragment"]
      <4>1. m \in Logs /\ m.lines = l.lines /\ m.end = "fragment"
        BY <3>2, <3>3 DEF Logs
      <4>2. Numbered(m) /\ Complete(m) = l.lines
        BY <2>1, <4>1 DEF Numbered, Complete
      <4> QED BY <1>0, <1>4, <2>1, <3>2, <4>1, <4>2 DEF SoloLog, LineCount, l, m
    <3>4. CASE m = [lines |-> Append(l.lines, NewEvent(p)), end |-> "nolf"]
      <4>1. m \in Logs /\ m.lines = Append(l.lines, NewEvent(p)) /\ m.end = "nolf"
        BY <2>1, <3>2, <3>4 DEF Logs
      <4>2. /\ Numbered(m) /\ Len(m.lines) > 0
            /\ Len(Complete(m)) = Len(Complete(l))
        BY <2>1, <3>2, <4>1, OneMore
      <4> QED BY <1>0, <1>4, <2>1, <4>1, <4>2 DEF SoloLog, LineCount, l, m
    <3> QED BY <3>1, <3>3, <3>4
  <2>4. CASE m = l
    BY <2>4, <1>1
  <2> QED BY <1>0, <1>4, <2>2, <2>3, <2>4 DEF LogStep
<1>5. CASE pc[p] = "write" /\ cmd[p] = "repair" /\ s = sid[p]
  <2> DEFINE l == log[s]
             m == log'[s]
  <2>1. /\ l \in Logs /\ l # NoLog /\ l.end # "lf" /\ l = seen[p].log
    BY <1>0, <1>5 DEF Inv, CallsOK, RecoverOK, Recoveries
  <2>2. /\ Numbered(l) /\ IsActive(s)
        /\ l.end = "nolf" => Len(l.lines) > 0
    BY <2>1 DEF SoloInv, LogsNumbered, Numbered
  <2>3. m = l \/ m = Repaired(l)
    <3>1. UNCHANGED log \/ WriteRepair(p)
      <4>1. ReadStep(p) \/ RecordStep(p) => UNCHANGED log
        BY DEF ReadStep, RecordStep, disk
      <4>2. WriteStep(p) => WriteRepair(p)
        BY <1>5 DEF WriteStep, MakeSessionDir, MakeRawDir, MakeLog, WriteMeta,
           WriteEvent, UnlinkLog, RemoveRawDir, RemoveSessionDir, CrashInEvent, At, Runs
      <4> QED BY <4>1, <4>2, StepKinds
    <3>2. CASE WriteRepair(p)
      <4>1. m = IF l.end = "fragment" THEN Repaired(l)
                ELSE IF l.end = "nolf" THEN Repaired(l) ELSE Appended(l, Broken)
        BY <1>0, <1>5, <2>1, <3>2 DEF WriteRepair, TypeOK
      <4>2. l.end \in {"nolf", "fragment"}
        BY <2>1 DEF Logs
      <4> QED BY <4>1, <4>2
    <3> QED BY <3>1, <3>2
  <2>4. CASE m = Repaired(l)
    <3>1. /\ m \in Logs /\ m.lines = l.lines /\ m.end = "lf"
      BY <2>1, <2>4, RepairedFacts
    <3> HIDE DEF l, m
    <3>2. Numbered(m) /\ Complete(m) = l.lines
      BY <2>2, <3>1 DEF Numbered, Complete
    <3>3. /\ Len(l.lines) = Len(Complete(l)) \/ Len(l.lines) = Len(Complete(l)) + 1
      <4>1. /\ l.end # "nolf" => Complete(l) = l.lines
            /\ l.end = "nolf" /\ Len(l.lines) > 0 =>
                 Len(l.lines) = Len(Complete(l)) + 1
        BY <2>1, CompleteFacts
      <4> QED BY <2>2, <4>1
    <3> QED BY <1>0, <1>5, <2>1, <2>2, <3>1, <3>2, <3>3 DEF SoloLog, LineCount, l, m
  <2> QED BY <1>1, <2>3, <2>4
<1> QED BY <1>0, <1>1, <1>2, <1>3, <1>4, <1>5 DEF LogStep

(* With one process, every step keeps the strengthened invariant.         *)
LEMMA SoloStep ==
  ASSUME Inv, SoloInv, OneProcess, NEW p \in Procs, Step(p)
  PROVE  SoloInv'
<1>0. /\ TypeOK /\ StepOK(p) /\ StartOK(p) /\ AloneOK(p) /\ LogsNumbered /\ OneAfterTheOther
      /\ \A s \in Sessions : meta[s] # NoMeta => meta'[s] # NoMeta
  BY MetaKept DEF Inv, CallsOK, SoloInv
<1>1. \A q \in Procs : AloneOK(q)'
  BY AloneStep DEF OneProcess
<1>2. LogsNumbered'
  <2> SUFFICES ASSUME NEW s \in Sessions, log'[s] # NoLog
               PROVE  /\ Numbered(log'[s])
                      /\ log'[s].end = "nolf" => Len(log'[s].lines) > 0
                      /\ log'[s].end # "lf" => IsActive(s)'
    BY DEF LogsNumbered, Numbered
  <2>1. SoloLog(p, s)
    BY SoloLogStep
  <2>2. /\ Numbered(log'[s])
        /\ log'[s].end = "nolf" => Len(log'[s].lines) > 0
        /\ log'[s].end # "lf" => IsActive(s)
    BY <1>0, <2>1 DEF SoloLog, LogsNumbered, Numbered
  <2>3. IsActive(s) /\ log'[s].end # "lf" => meta'[s] = meta[s]
    <3>1. SUFFICES ASSUME IsActive(s), log'[s].end # "lf", meta'[s] # meta[s]
                   PROVE  FALSE
      OBVIOUS
    <3>2. pc[p] = "write" /\ cmd[p] \in {"start", "end"} /\ s = sid[p]
      BY <3>1, MetaChange
    <3>3. log'[s] = log[s]
      BY <2>1, <3>2 DEF SoloLog
    <3>4. CASE cmd[p] = "end"
      BY <1>0, <3>1, <3>2, <3>3, <3>4 DEF AloneOK
    <3>5. CASE cmd[p] = "start"
      BY <1>0, <3>1, <3>2, <3>5 DEF StartOK, Creating, IsActive
    <3> QED BY <3>2, <3>4, <3>5
  <2> QED BY <2>2, <2>3 DEF IsActive
<1>3. OneAfterTheOther'
  <2>1. ASSUME NEW s \in started'
        PROVE  meta'[s] # NoMeta
    <3>1. \/ started' = started
          \/ started' = started \union {sid[p]} /\ pc[p] = "commit" /\ cmd[p] = "start"
      <4>1. ReadStep(p) \/ WriteStep(p) => UNCHANGED started
        BY DEF ReadStep, WriteStep, audit
      <4>2. RecordStep(p) => \/ started' = started
                             \/ /\ started' = started \union {sid[p]}
                                /\ pc[p] = "commit" /\ cmd[p] = "start"
        BY DEF RecordStep, AppendIntent, AppendCommitted, CrashInAudit, Commit, At
      <4> QED BY <4>1, <4>2, StepKinds
    <3>2. started \subseteq Sessions /\ (pc[p] = "commit" => sid[p] \in Sessions)
      BY <1>0 DEF TypeOK, StepOK
    <3> QED BY <1>0, <2>1, <3>1, <3>2 DEF OneAfterTheOther, AloneOK
  <2>2. ASSUME NEW s \in Sessions, NEW t \in Sessions, s < t, meta'[t] # NoMeta
        PROVE  meta'[s] # NoMeta
    <3>1. CASE meta[t] # NoMeta
      BY <1>0, <2>2, <3>1 DEF OneAfterTheOther
    <3>2. CASE meta[t] = NoMeta
      <4>1. t = sid[p] /\ cmd[p] = "start" /\ pc[p] = "write"
        BY <2>2, <3>2, MetaKept
      <4> QED BY <1>0, <2>2, <4>1 DEF AloneOK
    <3> QED BY <3>1, <3>2
  <2> QED BY <2>1, <2>2 DEF OneAfterTheOther
<1> QED BY <1>1, <1>2, <1>3 DEF SoloInv

(* A vault without sessions satisfies the strengthened invariant.         *)
LEMMA SoloInit ==
  ASSUME Init
  PROVE  SoloInv
BY DEF Init, SoloInv, AloneOK, LogsNumbered, OneAfterTheOther

(* Repairing the audit log's tail touches nothing the strengthened        *)
(* invariant is about.                                                    *)
LEMMA SoloTail ==
  ASSUME SoloInv, UNCHANGED <<disk, open, started, callVars, ended, faults>>
  PROVE  SoloInv'
<1>1. UNCHANGED <<sessionDirs, rawDirs, log, meta, started, pc, cmd, sid, seen>>
  BY DEF disk, callVars
<1>2. ASSUME NEW p \in Procs
      PROVE  AloneOK(p)'
  <2>1. AloneOK(p)
    BY DEF SoloInv
  <2> QED BY <1>1, <2>1 DEF AloneOK, HasDirs, Active, IsActive
<1>3. LogsNumbered'
  BY <1>1 DEF SoloInv, LogsNumbered, IsActive
<1>4. OneAfterTheOther'
  BY <1>1 DEF SoloInv, OneAfterTheOther
<1> QED BY <1>2, <1>3, <1>4 DEF SoloInv

(* With one process, sessions are played one after the other and every    *)
(* event log is numbered from one, whatever crashed in between.           *)
THEOREM SoloInvariance ==
  ASSUME ~Overlap, OneProcess
  PROVE  Spec => [](Inv /\ SoloInv)
<1>1. Init => Inv /\ SoloInv
  BY InitInv, SoloInit
<1>2. Inv /\ SoloInv /\ [Next]_vars => (Inv /\ SoloInv)'
  <2> SUFFICES ASSUME Inv, SoloInv, [Next]_vars
               PROVE  SoloInv'
    BY InvStep
  <2>1. ASSUME NEW p \in Procs, Step(p)
        PROVE  SoloInv'
    BY <2>1, SoloStep
  <2>2. CASE RepairAuditTail
    BY <2>2, SoloTail DEF RepairAuditTail
  <2>3. CASE UNCHANGED vars
    BY <2>3, SoloTail DEF vars, audit
  <2> QED BY <2>1, <2>2, <2>3 DEF Next
<1> QED BY <1>1, <1>2, PTL DEF Spec

(* The variables of SessionLifecycle.                                      *)
statusOf == [s \in Sessions |-> IF meta[s] = NoMeta THEN "none" ELSE meta[s].status]
journalOf == [s \in Sessions |->
  IF log[s] = NoLog THEN <<>>
  ELSE [i \in DOMAIN Complete(log[s]) |-> Complete(log[s])[i].id]]

Upto(n) == [i \in 1..n |-> i]

(* The sequence 1, 2, ..., n.                                             *)
LEMMA UptoFacts ==
  ASSUME NEW n \in Nat
  PROVE  /\ Upto(n) \in Seq(Nat) /\ Len(Upto(n)) = n
         /\ Append(Upto(n), Len(Upto(n)) + 1) = Upto(n + 1)
<1>1. Upto(n) \in Seq(Nat) /\ Len(Upto(n)) = n
  BY DEF Upto
<1>2. Upto(n + 1) \in Seq(Nat) /\ Len(Upto(n + 1)) = n + 1
  BY DEF Upto
<1>3. PICK t : t = Append(Upto(n), n + 1)
  OBVIOUS
<1>4. t \in Seq(Nat) /\ Len(t) = n + 1
  BY <1>1, <1>3
<1>5. ASSUME NEW i \in 1..(n + 1)
      PROVE  t[i] = Upto(n + 1)[i]
  <2>1. CASE i \in 1..n
    BY <1>1, <1>3, <2>1 DEF Upto
  <2>2. CASE i = n + 1
    BY <1>1, <1>3, <2>2 DEF Upto
  <2> QED BY <2>1, <2>2
<1>6. t = Upto(n + 1)
  BY <1>2, <1>4, <1>5, SeqEqual
<1> QED BY <1>1, <1>3, <1>6

JournalCounts == journalOf = [s \in Sessions |-> Upto(LineCount(log[s]))]

(* The journal of a session whose log is numbered is 1, 2, ..., n.        *)
LEMMA JournalIs ==
  ASSUME TypeOK, LogsNumbered
  PROVE  /\ \A s \in Sessions : LineCount(log[s]) \in Nat
         /\ JournalCounts
<1>1. ASSUME NEW s \in Sessions
      PROVE  LineCount(log[s]) \in Nat /\ journalOf[s] = Upto(LineCount(log[s]))
  <2>1. CASE log[s] = NoLog
    <3>1. journalOf[s] = <<>> /\ LineCount(log[s]) = 0
      BY <2>1 DEF journalOf, LineCount
    <3>2. Upto(0) = <<>>
      <4>1. Upto(0) \in Seq(Nat) /\ Len(Upto(0)) = 0
        BY UptoFacts
      <4> QED BY <4>1
    <3> QED BY <3>1, <3>2
  <2>2. CASE log[s] # NoLog
    <3>1. log[s] \in Logs
      BY <2>2 DEF TypeOK
    <3>2. PICK c : c = Complete(log[s])
      OBVIOUS
    <3>3. /\ c \in Seq(Lines) /\ Len(c) <= Len(log[s].lines)
          /\ \A i \in 1..Len(c) : c[i] = log[s].lines[i]
          /\ log[s].lines \in Seq(Lines)
      BY <3>1, <3>2, CompleteFacts DEF Logs
    <3>4. Len(c) \in Nat /\ DOMAIN c = 1..Len(c)
      BY <3>3
    <3>5. \A i \in 1..Len(c) : c[i].id = i
      <4>1. \A i \in 1..Len(c) : i \in DOMAIN log[s].lines
        BY <3>3
      <4> QED BY <2>2, <3>3, <4>1 DEF LogsNumbered
    <3>6. journalOf[s] = [i \in 1..Len(c) |-> c[i].id]
      BY <2>2, <3>2, <3>4 DEF journalOf
    <3>7. [i \in 1..Len(c) |-> c[i].id] = Upto(Len(c))
      BY <3>5 DEF Upto
    <3> QED BY <2>2, <3>2, <3>4, <3>6, <3>7 DEF LineCount
  <2> QED BY <2>1, <2>2
<1>2. journalOf = [s \in Sessions |-> journalOf[s]]
  BY DEF journalOf
<1>3. [s \in Sessions |-> journalOf[s]] = [s \in Sessions |-> Upto(LineCount(log[s]))]
  BY <1>1
<1> QED BY <1>1, <1>2, <1>3 DEF JournalCounts

(* A step of the only process is one step of SessionLifecycle, or none.    *)
LEMMA LifecycleStep ==
  ASSUME Inv, SoloInv, NEW p \in Procs, Step(p), JournalCounts'
  PROVE  \/ UNCHANGED <<statusOf, journalOf>>
         \/ \E s \in Sessions :
              \/ /\ statusOf[s] = "none"
                 /\ \A t \in Sessions : t < s => statusOf[t] = "completed"
                 /\ \A t \in Sessions : t > s => statusOf[t] = "none"
                 /\ statusOf' = [statusOf EXCEPT ![s] = "active"]
                 /\ journalOf' = journalOf
              \/ /\ statusOf[s] = "active"
                 /\ journalOf' = [journalOf EXCEPT ![s] = Append(@, Len(@) + 1)]
                 /\ statusOf' = statusOf
              \/ /\ statusOf[s] = "active"
                 /\ statusOf' = [statusOf EXCEPT ![s] = "completed"]
                 /\ journalOf' = journalOf
<1>0. /\ TypeOK /\ LogsNumbered /\ AloneOK(p) /\ StepOK(p) /\ StartOK(p)
      /\ Sessions \subseteq Nat
  BY DEF Inv, SoloInv, CallsOK, Sessions
<1>1. /\ \A s \in Sessions : LineCount(log[s]) \in Nat
      /\ journalOf = [s \in Sessions |-> Upto(LineCount(log[s]))]
      /\ journalOf' = [s \in Sessions |-> Upto(LineCount(log'[s]))]
  BY <1>0, JournalIs DEF JournalCounts
<1>2. CASE UNCHANGED meta /\ \A s \in Sessions : LineCount(log'[s]) = LineCount(log[s])
  <2>1. journalOf' = journalOf
    BY <1>1, <1>2
  <2>2. statusOf' = statusOf
    BY <1>2 DEF statusOf
  <2> QED BY <2>1, <2>2
<1>3. ASSUME NEW s \in Sessions, LineCount(log'[s]) # LineCount(log[s])
      PROVE  /\ statusOf[s] = "active"
             /\ journalOf' = [journalOf EXCEPT ![s] = Append(@, Len(@) + 1)]
             /\ statusOf' = statusOf
  <2>1. LineCount(log'[s]) = LineCount(log[s]) + 1 /\ IsActive(s)
    BY <1>3, SoloLogStep DEF SoloLog
  <2>2. /\ log'[s] # log[s] /\ s = sid[p]
        /\ \A t \in Sessions : t # s => log'[t] = log[t]
    BY <1>3, LogChange DEF LogStep
  <2>3. meta' = meta
    <3>1. ~(pc[p] = "write" /\ cmd[p] \in {"start", "end"})
      BY <2>2, SoloLogStep DEF SoloLog
    <3> QED BY <1>0, <3>1, MetaSame DEF StepOK, TypeOK, Kinds, Commands, Recoveries
  <2>4. statusOf' = statusOf /\ statusOf[s] = "active"
    BY <2>1, <2>3 DEF statusOf, IsActive
  <2>5. PICK n \in Nat : n = LineCount(log[s])
    BY <1>1
  <2>6. journalOf[s] = Upto(n) /\ Append(journalOf[s], Len(journalOf[s]) + 1) = Upto(n + 1)
    BY <1>1, <2>5, UptoFacts
  <2>7. journalOf'[s] = Upto(n + 1) /\ \A t \in Sessions : t # s => journalOf'[t] = journalOf[t]
    BY <1>1, <2>1, <2>2, <2>5
  <2>8. /\ journalOf' = [t \in Sessions |-> journalOf'[t]]
        /\ journalOf = [t \in Sessions |-> journalOf[t]]
    BY <1>1
  <2>9. journalOf' = [journalOf EXCEPT ![s] = Append(journalOf[s], Len(journalOf[s]) + 1)]
    BY <2>6, <2>7, <2>8
  <2> QED BY <2>4, <2>9
<1>4. ASSUME NEW s \in Sessions, meta'[s] # meta[s]
      PROVE  /\ statusOf[s] \in {"none", "active"}
             /\ statusOf[s] = "none" =>
                  /\ \A t \in Sessions : t < s => statusOf[t] = "completed"
                  /\ \A t \in Sessions : t > s => statusOf[t] = "none"
             /\ statusOf' = [statusOf EXCEPT ![s] =
                               IF statusOf[s] = "none" THEN "active" ELSE "completed"]
             /\ journalOf' = journalOf
  <2>1. /\ s = sid[p] /\ pc[p] = "write" /\ cmd[p] \in {"start", "end"}
        /\ meta'[s] = NewMeta(p) /\ UNCHANGED log
        /\ \A t \in Sessions : t # s => meta'[t] = meta[t]
    BY <1>4, MetaChange
  <2>2. journalOf' = journalOf
    BY <1>1, <2>1
  <2>3. /\ NewMeta(p) # NoMeta
        /\ NewMeta(p).status = IF cmd[p] = "start" THEN "active" ELSE "completed"
    BY SessionAssumption DEF NewMeta, Metas
  <2>4. statusOf[s] = IF cmd[p] = "start" THEN "none" ELSE "active"
    BY <1>0, <2>1 DEF StartOK, Creating, AloneOK, IsActive, statusOf
  <2>5. /\ statusOf'[s] = IF cmd[p] = "start" THEN "active" ELSE "completed"
        /\ \A t \in Sessions : t # s => statusOf'[t] = statusOf[t]
    BY <2>1, <2>3 DEF statusOf
  <2>6. statusOf' = [statusOf EXCEPT ![s] = IF statusOf[s] = "none" THEN "active"
                                            ELSE "completed"]
    BY <2>1, <2>4, <2>5 DEF statusOf
  <2>7. ASSUME cmd[p] = "start"
        PROVE  /\ \A t \in Sessions : t < s => statusOf[t] = "completed"
               /\ \A t \in Sessions : t > s => statusOf[t] = "none"
    <3>1. /\ \A t \in Sessions : meta[t] # NoMeta <=> t < s
          /\ \A t \in Sessions : ~IsActive(t)
      BY <1>0, <2>1, <2>7 DEF AloneOK, Active, IsActive
    <3>2. \A t \in Sessions : meta[t] # NoMeta => meta[t].status \in {"active", "completed"}
      BY <1>0 DEF TypeOK, Metas
    <3>3. \A t \in Sessions : t > s => ~(t < s)
      BY <1>0
    <3> QED BY <3>1, <3>2, <3>3 DEF statusOf, IsActive
  <2> QED BY <2>1, <2>2, <2>4, <2>6, <2>7
<1>5. CASE \E s \in Sessions : meta'[s] # meta[s]
  <2>1. PICK s \in Sessions : meta'[s] # meta[s]
    BY <1>5
  <2>2. CASE statusOf[s] = "none"
    BY <1>4, <2>1, <2>2
  <2>3. CASE statusOf[s] = "active"
    BY <1>4, <2>1, <2>3
  <2> QED BY <1>4, <2>1, <2>2, <2>3
<1>6. CASE \A s \in Sessions : meta'[s] = meta[s]
  <2>1. meta' = meta
    <3>1. /\ meta \in [Sessions -> Metas \union {NoMeta}]
          /\ meta' \in [Sessions -> Metas \union {NoMeta}]
      BY <1>0, DiskTypes DEF TypeOK
    <3> QED BY <1>6, <3>1
  <2>2. CASE \E s \in Sessions : LineCount(log'[s]) # LineCount(log[s])
    BY <1>3, <2>2
  <2> QED BY <1>2, <2>1, <2>2
<1> QED BY <1>5, <1>6

(* With one process the runtime implements SessionLifecycle, through every *)
(* crash and repair: sessions are played one after the other, events are   *)
(* numbered from one without gaps, and an ended session stays as it is.    *)
THEOREM RuntimeFollowsLifecycle ==
  ASSUME ~Overlap, OneProcess
  PROVE  Spec => FollowsLifecycle
<1> DEFINE I == Inv /\ SoloInv
<1>1. Init => Promise!Init
  BY DEF Init, Promise!Init
<1>2. I /\ JournalCounts' /\ [Next]_vars =>
        [Promise!Next]_<<[s \in Sessions |-> IF meta[s] = NoMeta THEN "none" ELSE meta[s].status],
                         [s \in Sessions |->
                            IF log[s] = NoLog THEN <<>>
                            ELSE [i \in DOMAIN Complete(log[s]) |-> Complete(log[s])[i].id]]>>
  <2> SUFFICES ASSUME I, JournalCounts', [Next]_vars
               PROVE  \/ UNCHANGED <<statusOf, journalOf>>
                      \/ Promise!Next
    BY DEF statusOf, journalOf
  <2>1. ASSUME NEW p \in Procs, Step(p)
        PROVE  UNCHANGED <<statusOf, journalOf>> \/ Promise!Next
    BY <2>1, LifecycleStep DEF Promise!Next, Promise!Start, Promise!Record, Promise!End,
       statusOf, journalOf
  <2>2. RepairAuditTail \/ UNCHANGED vars => UNCHANGED <<statusOf, journalOf>>
    BY DEF RepairAuditTail, vars, disk, statusOf, journalOf
  <2> QED BY <2>1, <2>2 DEF Next
<1>3. I => JournalCounts
  BY JournalIs DEF Inv, SoloInv
<1> QED BY <1>1, <1>2, <1>3, SoloInvariance, PTL DEF Spec, FollowsLifecycle, Promise!Spec
=============================================================================
