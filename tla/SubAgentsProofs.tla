------------------------- MODULE SubAgentsProofs --------------------------
(***************************************************************************)
(* Theorems about SubAgents for any number of calls, messages, waiters and *)
(* crashes: who is on the roster, and whose messages a transcript holds.   *)
(***************************************************************************)
EXTENDS SubAgents, SequenceTheorems, FiniteSetTheorems, TLAPS

-----------------------------------------------------------------------------
(* The inductive invariant.                                                *)

\* A run of an agent that is known, and its messages.
RunOK(c) ==
  /\ DOMAIN act[c] = DOMAIN NoRun
  /\ act[c].seeds \in Seq(Calls) /\ act[c].msgs \in Seq(Calls)
  /\ {act[c].spawned, act[c].told, act[c].kill} \subseteq BOOLEAN
  /\ IF act[c].pc = "none" THEN ~act[c].kill /\ ~act[c].spawned
     ELSE act[c].agent \in DOMAIN row
  /\ act[c].spawned => act[c].agent = c
  /\ act[c].pc \in {"none", "hook", "turns"} => ~act[c].told

RowOK(a) ==
  /\ DOMAIN row[a] = {"status", "msgs"} /\ row[a].msgs \in Seq(Calls)
  /\ act[a].pc # "none"

Shape ==
  /\ DOMAIN act = Calls /\ \A c \in Calls : RunOK(c)
  /\ DOMAIN row \subseteq Calls /\ \A a \in DOMAIN row : RowOK(a)
  /\ DOMAIN last = {"ctx", "seeded"} /\ last.seeded \in Nat
  /\ last.ctx = NoCtx \/ last.ctx \in Seq(Calls)
  /\ mixed \in BOOLEAN

\* The roster says running no longer than until the report of the last run.
OnRoster(c) == act[c].pc \in {"hook", "turns"} \/ act[c].kill \/ act[c].pc = "gone"
RosterOK ==
  \A a \in DOMAIN roster : roster[a] = "running" => \E c \in Runs(a) : OnRoster(c)

\* One graph at a time, and the runner has the seeded count of its run, whose
\* own messages come after the seeds.
TurnsAlone ==
  \A c \in Calls : act[c].pc = "turns" =>
    /\ \A d \in Calls : act[d].pc = "turns" => d = c
    /\ last.seeded = Len(act[c].seeds) /\ Len(act[c].msgs) > Len(act[c].seeds)
    /\ \A i \in (Len(act[c].seeds) + 1)..Len(act[c].msgs) : act[c].msgs[i] = c

\* The messages of a transcript are those of runs of the agent that reported.
OwnMessages(a) ==
  \A i \in DOMAIN row[a].msgs :
    /\ act[row[a].msgs[i]].agent = a
    /\ act[row[a].msgs[i]].pc \in {"stop", "done", "gone"}

Complete(c) ==
  act[c].told /\ act[c].pc # "gone" =>
    Cardinality(Told(c)) = Len(act[c].msgs) - Len(act[c].seeds)

Alone == TurnsAlone /\ (\A a \in DOMAIN row : OwnMessages(a)) /\ (\A c \in Calls : Complete(c))

IInv == Shape /\ RosterOK /\ (~mixed => Alone)

-----------------------------------------------------------------------------
(* Sequences.                                                              *)

\* What a report appends to a transcript.
LEMMA Appended ==
  ASSUME NEW m \in Seq(Calls), NEW own \in Seq(Calls)
  PROVE  /\ m \o own \in Seq(Calls) /\ DOMAIN (m \o own) = 1..(Len(m) + Len(own))
         /\ DOMAIN m = 1..Len(m) /\ DOMAIN own = 1..Len(own) /\ Len(m) \in Nat /\ Len(own) \in Nat
         /\ \A i \in 1..Len(m) : (m \o own)[i] = m[i]
         /\ \A i \in (Len(m) + 1)..(Len(m) + Len(own)) :
              i - Len(m) \in 1..Len(own) /\ (m \o own)[i] = own[i - Len(m)]
<1>1. /\ m \o own \in Seq(Calls) /\ Len(m \o own) = Len(m) + Len(own)
      /\ \A i \in 1..(Len(m) + Len(own)) :
           (m \o own)[i] = IF i <= Len(m) THEN m[i] ELSE own[i - Len(m)]
  BY ConcatProperties
<1>2. Len(m) \in Nat /\ Len(own) \in Nat /\ DOMAIN m = 1..Len(m) /\ DOMAIN own = 1..Len(own)
  BY LenProperties
<1>3. DOMAIN (m \o own) = 1..Len(m \o own)
  BY <1>1, LenProperties
<1>4. \A i \in (Len(m) + 1)..(Len(m) + Len(own)) :
        i \in 1..(Len(m) + Len(own)) /\ ~(i <= Len(m)) /\ i - Len(m) \in 1..Len(own)
  BY <1>2
<1>5. \A i \in 1..Len(m) : i \in 1..(Len(m) + Len(own)) /\ i <= Len(m)
  BY <1>2
<1>6. QED
  BY <1>1, <1>2, <1>3, <1>4, <1>5

\* The part of a context after its first k messages.
LEMMA Rest ==
  ASSUME NEW s \in Seq(Calls), NEW k \in Nat
  PROVE  LET own == SubSeq(s, k + 1, Len(s)) IN
         /\ own \in Seq(Calls)
         /\ k <= Len(s) => /\ Len(own) = Len(s) - k
                           /\ \A i \in 1..Len(own) : k + i \in (k + 1)..Len(s) /\ own[i] = s[k + i]
<1> DEFINE n == Len(s)
           own == SubSeq(s, k + 1, Len(s))
<1>1. n \in Nat
  BY LenProperties
<1>2. /\ own \in Seq(Calls)
      /\ Len(own) = IF k + 1 <= n THEN n - (k + 1) + 1 ELSE 0
      /\ \A i \in 1..(n - (k + 1) + 1) : own[i] = s[(k + 1) + i - 1]
  <2>1. \A i \in (k + 1)..n : s[i] \in Calls
    <3>1. \A i \in (k + 1)..n : i \in 1..n
      BY <1>1
    <3>2. QED
      BY <3>1, ElementOfSeq DEF n
  <2>2. k + 1 \in Int /\ n \in Int
    BY <1>1
  <2>3. QED
    BY <2>1, <2>2, SubSeqProperties DEF n
<1> HIDE DEF n, own
<1>3. ASSUME k <= n PROVE Len(own) = n - k
  BY <1>1, <1>2, <1>3
<1>4. ASSUME k <= n, NEW i \in 1..(n - k) PROVE k + i \in (k + 1)..n /\ own[i] = s[k + i]
  <2>1. (k + 1) + i - 1 = k + i /\ i \in 1..(n - (k + 1) + 1) /\ k + i \in (k + 1)..n
    BY <1>1, <1>4
  <2>2. QED
    BY <1>2, <2>1
<1>5. QED
  BY <1>2, <1>3, <1>4 DEF n, own

\* The places of c in a transcript after a report: none of c before, all of c
\* in what is appended; or none of c in what is appended.
LEMMA PlacesOwn ==
  ASSUME NEW m \in Seq(Calls), NEW own \in Seq(Calls), NEW c,
         \A i \in 1..Len(m) : m[i] # c, \A i \in 1..Len(own) : own[i] = c
  PROVE  Cardinality({i \in DOMAIN (m \o own) : (m \o own)[i] = c}) = Len(own)
<1> DEFINE a == Len(m)
           b == Len(own)
           P == {i \in DOMAIN (m \o own) : (m \o own)[i] = c}
<1>1. a \in Nat /\ b \in Nat
  BY LenProperties
<1>2. \A i \in 1..(a + b) : i \in 1..a \/ i \in (a + 1)..(a + b)
  BY <1>1
<1>3. \A i \in (a + 1)..(a + b) : i \in 1..(a + b)
  BY <1>1
<1>4. P = (a + 1)..(a + b)
  <2>1. ASSUME NEW i \in P PROVE i \in (a + 1)..(a + b)
    BY <1>2, Appended
  <2>2. ASSUME NEW i \in (a + 1)..(a + b) PROVE i \in P
    BY <1>3, Appended
  <2>3. QED
    BY <2>1, <2>2
<1> HIDE DEF a, b, P
<1>5. Cardinality((a + 1)..(a + b)) = b
  <2>1. Cardinality((a + 1)..(a + b)) = IF a + 1 > a + b THEN 0 ELSE (a + b) - (a + 1) + 1
    BY <1>1, FS_Interval
  <2>2. QED
    BY <1>1, <2>1
<1>6. QED
  BY <1>4, <1>5 DEF P, b

LEMMA PlacesOther ==
  ASSUME NEW m \in Seq(Calls), NEW own \in Seq(Calls), NEW c,
         \A i \in 1..Len(own) : own[i] # c
  PROVE  {i \in DOMAIN (m \o own) : (m \o own)[i] = c} = {i \in DOMAIN m : m[i] = c}
<1> DEFINE a == Len(m)
           b == Len(own)
<1>1. a \in Nat /\ b \in Nat
  BY LenProperties
<1>2. \A i \in 1..(a + b) : i \in 1..a \/ i \in (a + 1)..(a + b)
  BY <1>1
<1>3. \A i \in 1..a : i \in 1..(a + b)
  BY <1>1
<1>4. QED
  BY <1>2, <1>3, Appended

-----------------------------------------------------------------------------
(* What the steps are made of.                                             *)

\* A step of call c, and of nobody else.
OnlyRun(c) == DOMAIN act' = Calls /\ \A d \in Calls \ {c} : act'[d] = act[d]

LEMMA ShapeKept ==
  ASSUME Shape, NEW c \in Calls, OnlyRun(c), RunOK(c)', act'[c].pc # "none",
         DOMAIN row \subseteq DOMAIN row', DOMAIN row' \subseteq DOMAIN row \cup {c},
         \A a \in DOMAIN row' : DOMAIN row'[a] = {"status", "msgs"} /\ row'[a].msgs \in Seq(Calls),
         DOMAIN last' = {"ctx", "seeded"}, last'.seeded \in Nat,
         last'.ctx = NoCtx \/ last'.ctx \in Seq(Calls), mixed' \in BOOLEAN
  PROVE  Shape'
<1>1. ASSUME NEW d \in Calls, d # c PROVE RunOK(d)'
  <2>1. RunOK(d) /\ act'[d] = act[d]
    BY <1>1 DEF Shape, OnlyRun
  <2>2. QED
    BY <2>1 DEF RunOK
<1>2. ASSUME NEW a \in DOMAIN row' PROVE RowOK(a)'
  BY <1>2 DEF Shape, RowOK, OnlyRun
<1>3. QED
  BY <1>1, <1>2 DEF Shape, OnlyRun

\* The transcripts are as they were, but for the empty one of a new agent.
TranscriptsStay ==
  /\ DOMAIN row \subseteq DOMAIN row'
  /\ \A a \in DOMAIN row : row'[a].msgs = row[a].msgs
  /\ \A a \in DOMAIN row' \ DOMAIN row : row'[a].msgs = <<>>

\* Run c goes on: what it has told and whose it is does not change.
GoesOn(c) ==
  /\ act[c].pc # "none" => act'[c].agent = act[c].agent
  /\ act[c].pc \in {"stop", "done", "gone"} => act'[c].pc \in {"stop", "done", "gone"}
  /\ act'[c].told => /\ act[c].told /\ act'[c].msgs = act[c].msgs /\ act'[c].seeds = act[c].seeds
                     /\ act[c].pc = "gone" => act'[c].pc = "gone"

LEMMA AloneKept ==
  ASSUME Shape, Alone, NEW c \in Calls, OnlyRun(c), TranscriptsStay, GoesOn(c), TurnsAlone'
  PROVE  Alone'
<1>1. ASSUME NEW a \in DOMAIN row' PROVE OwnMessages(a)'
  <2>1. CASE a \in DOMAIN row
    <3>1. row'[a].msgs = row[a].msgs /\ row[a].msgs \in Seq(Calls) /\ OwnMessages(a)
      BY <2>1 DEF TranscriptsStay, Shape, RowOK, Alone
    <3>2. \A i \in DOMAIN row[a].msgs : row[a].msgs[i] \in Calls
      BY <3>1, ElementOfSeq, LenProperties
    <3>3. \A d \in Calls : act[d].pc \in {"stop", "done", "gone"} =>
            act'[d].agent = act[d].agent /\ act'[d].pc \in {"stop", "done", "gone"}
      BY DEF OnlyRun, GoesOn
    <3>4. QED
      BY <3>1, <3>2, <3>3 DEF OwnMessages
  <2>2. CASE a \notin DOMAIN row
    BY <1>1, <2>2, EmptySeq DEF TranscriptsStay, OwnMessages
  <2>3. QED
    BY <2>1, <2>2
<1>2. ASSUME NEW d \in Calls PROVE Complete(d)'
  <2>1. SUFFICES ASSUME act'[d].told, act'[d].pc # "gone"
                 PROVE  Cardinality(Told(d))' = (Len(act[d].msgs) - Len(act[d].seeds))'
    BY DEF Complete
  <2>2. /\ act[d].told /\ act[d].pc # "gone" /\ act'[d].agent = act[d].agent
        /\ act'[d].msgs = act[d].msgs /\ act'[d].seeds = act[d].seeds
    BY <2>1 DEF OnlyRun, GoesOn, Shape, RunOK
  <2>3. act[d].agent \in DOMAIN row
    BY <2>2 DEF Shape, RunOK
  <2>4. Told(d)' = Told(d)
    BY <2>2, <2>3 DEF Told, TranscriptsStay
  <2>5. QED
    BY <2>2, <2>4 DEF Alone, Complete
<1>3. QED
  BY <1>1, <1>2 DEF Alone

\* The roster, when run c goes on and nothing is written to it.
LEMMA RosterKept ==
  ASSUME Shape, RosterOK, NEW c \in Calls, OnlyRun(c), roster' = roster,
         OnRoster(c) => OnRoster(c)' /\ act'[c].agent = act[c].agent
  PROVE  RosterOK'
<1>1. ASSUME NEW a \in DOMAIN roster, roster[a] = "running"
      PROVE  \E d \in Runs(a)' : OnRoster(d)'
  <2>1. PICK d \in Runs(a) : OnRoster(d)
    BY <1>1 DEF RosterOK
  <2>2. d \in Runs(a)' /\ OnRoster(d)'
    BY <2>1 DEF Runs, OnRoster, OnlyRun
  <2>3. QED
    BY <2>2
<1>2. QED
  BY <1>1 DEF RosterOK

-----------------------------------------------------------------------------
(* A run enters.                                                           *)

LEMMA EntersKeeps ==
  ASSUME IInv, NEW c \in Calls, NEW a \in Calls, NEW spawned \in BOOLEAN, NEW seeds \in Seq(Calls),
         Enters(c, a, spawned, seeds), spawned => a = c,
         \/ a = c /\ row' = With(row, c, [status |-> "running", msgs |-> <<>>])
         \/ a \in DOMAIN row /\ row' = row
  PROVE  IInv'
<1> DEFINE n == [NoRun EXCEPT !.pc = "hook", !.agent = a, !.spawned = spawned, !.seeds = seeds]
<1>1. /\ act[c].pc = "none" /\ act' = [act EXCEPT ![c] = n] /\ UNCHANGED <<last, mixed>>
      /\ roster' = With(roster, a, "running") /\ Shape /\ RosterOK
  BY DEF Enters, IInv
<1>2. /\ DOMAIN n = DOMAIN NoRun /\ n.pc = "hook" /\ n.agent = a /\ n.spawned = spawned
      /\ n.seeds = seeds /\ n.msgs = <<>> /\ n.kill = FALSE /\ n.told = FALSE
  BY DEF NoRun
<1> HIDE DEF n
<1>3. OnlyRun(c) /\ act'[c] = n
  BY <1>1 DEF Shape, OnlyRun
<1>4. c \notin DOMAIN row /\ ~act[c].kill
  BY <1>1 DEF Shape, RunOK, RowOK
<1>5. /\ DOMAIN row \subseteq DOMAIN row' /\ DOMAIN row' \subseteq DOMAIN row \cup {c}
      /\ a \in DOMAIN row' /\ \A b \in DOMAIN row : row'[b] = row[b]
      /\ \A b \in DOMAIN row' \ DOMAIN row : row'[b] = [status |-> "running", msgs |-> <<>>]
  BY <1>4 DEF With
<1>6. Shape'
  <2>1. RunOK(c)'
    <3>1. {n.spawned, n.told, n.kill} \subseteq BOOLEAN /\ ~n.told
      BY <1>2, Zenon
    <3>2. n.seeds \in Seq(Calls) /\ n.msgs \in Seq(Calls)
      BY <1>2, EmptySeq
    <3>3. n.spawned => n.agent = c
      BY <1>2
    <3>4. QED
      BY <1>2, <1>3, <1>5, <3>1, <3>2, <3>3 DEF RunOK
  <2>2. ASSUME NEW b \in DOMAIN row'
        PROVE  DOMAIN row'[b] = {"status", "msgs"} /\ row'[b].msgs \in Seq(Calls)
    <3>1. CASE b \in DOMAIN row
      BY <1>1, <1>5, <3>1 DEF Shape, RowOK
    <3>2. CASE b \notin DOMAIN row
      <4>1. row'[b] = [status |-> "running", msgs |-> <<>>]
        BY <1>5, <2>2, <3>2
      <4>2. DOMAIN row'[b] = {"status", "msgs"} /\ row'[b].msgs = <<>>
        BY <4>1
      <4>3. QED
        BY <4>2, EmptySeq
    <3>3. QED
      BY <3>1, <3>2
  <2>3. QED
    BY <1>1, <1>2, <1>3, <1>5, <2>1, <2>2, ShapeKept DEF Shape
<1>7. RosterOK'
  <2>1. ASSUME NEW b \in DOMAIN roster', roster'[b] = "running"
        PROVE  \E d \in Runs(b)' : OnRoster(d)'
    <3>1. CASE b = a
      <4>1. c \in Runs(b)' /\ OnRoster(c)'
        BY <1>2, <1>3, <3>1 DEF Runs, OnRoster
      <4>2. QED
        BY <4>1
    <3>2. CASE b # a
      <4>1. b \in DOMAIN roster /\ roster[b] = "running"
        BY <1>1, <2>1, <3>2 DEF With
      <4>2. PICK d \in Runs(b) : OnRoster(d)
        BY <1>1, <4>1 DEF RosterOK
      <4>3. d # c
        BY <1>1, <1>4, <4>2 DEF OnRoster
      <4>4. d \in Runs(b)' /\ OnRoster(d)'
        BY <1>3, <4>2, <4>3 DEF Runs, OnRoster, OnlyRun
      <4>5. QED
        BY <4>4
    <3>3. QED
      BY <3>1, <3>2
  <2>2. QED
    BY <2>1 DEF RosterOK
<1>8. ASSUME ~mixed' PROVE Alone'
  <2>1. Alone
    BY <1>1, <1>8 DEF IInv
  <2>2. TurnsAlone'
    BY <1>1, <1>2, <1>3, <2>1 DEF Alone, TurnsAlone, OnlyRun
  <2>3. TranscriptsStay /\ GoesOn(c)
    BY <1>1, <1>2, <1>3, <1>5 DEF TranscriptsStay, GoesOn
  <2>4. QED
    BY <1>1, <1>3, <2>1, <2>2, <2>3, AloneKept
<1>9. QED
  BY <1>6, <1>7, <1>8 DEF IInv

LEMMA CallsKeep ==
  ASSUME IInv, NEW c \in Calls,
         subagent_run(c) \/ spawn(c) \/ \E a \in Calls : resume(c, a)
  PROVE  IInv'
<1>1. CASE subagent_run(c) \/ spawn(c)
  <2>1. <<>> \in Seq(Calls)
    BY EmptySeq
  <2>2. QED
    BY <1>1, <2>1, EntersKeeps DEF subagent_run, spawn, Created
<1>2. ASSUME NEW a \in Calls, resume(c, a) PROVE IInv'
  <2>1. a \in DOMAIN row /\ row' = row /\ Enters(c, a, FALSE, Append(row[a].msgs, c))
    BY <1>2 DEF resume
  <2>2. Append(row[a].msgs, c) \in Seq(Calls)
    BY <2>1, AppendProperties DEF IInv, Shape, RowOK
  <2>3. QED
    BY <2>1, <2>2, EntersKeeps
<1>3. QED
  BY <1>1, <1>2

-----------------------------------------------------------------------------
(* A run reports.                                                          *)

\* What the runner holds when run c reports: its own context and where that
\* begins, or, while nothing is mixed, no context at all.
ReportOf(c, l) ==
  /\ DOMAIN l = {"ctx", "seeded"} /\ l.seeded \in Nat /\ (l.ctx = NoCtx \/ l.ctx \in Seq(Calls))
  /\ mixed' \in BOOLEAN /\ (~mixed' => ~mixed)
  /\ \/ ~mixed' => l.ctx = NoCtx
     \/ act[c].pc = "turns" /\ l.ctx = act[c].msgs /\ l.seeded = last.seeded
  /\ \/ act[c].pc = "turns"
     \/ act[c].pc = "hook" /\ l = last

LEMMA ReportKeeps ==
  ASSUME IInv, NEW c \in Calls, NEW status, NEW l, Report(c, status, l), ReportOf(c, l)
  PROVE  IInv'
<1> DEFINE a == act[c].agent
           m == row[a].msgs
           own == OwnPart(l)
           told == act[c].msgs = l.ctx
<1>1. /\ Shape /\ RosterOK /\ RunOK(c) /\ act[c].pc \in {"hook", "turns"} /\ a \in DOMAIN row
      /\ m \in Seq(Calls) /\ DOMAIN row[a] = {"status", "msgs"} /\ ~act[c].told
  BY DEF IInv, Shape, RunOK, RowOK, ReportOf
<1>2. own \in Seq(Calls)
  <2>1. CASE l.ctx = NoCtx
    BY <2>1, EmptySeq DEF OwnPart
  <2>2. CASE l.ctx # NoCtx
    BY <2>2, Rest DEF OwnPart, ReportOf
  <2>3. QED
    BY <2>1, <2>2
<1>3. /\ DOMAIN row' = DOMAIN row /\ row'[a].msgs = m \o own /\ DOMAIN row'[a] = {"status", "msgs"}
      /\ \A b \in DOMAIN row \ {a} : row'[b] = row[b]
  <2>1. row' = [row EXCEPT ![a] = [status |-> status, msgs |-> m \o own]]
    BY DEF Report
  <2> HIDE DEF own, m
  <2>2. row'[a] = [status |-> status, msgs |-> m \o own]
    BY <1>1, <2>1
  <2>3. row'[a].msgs = m \o own /\ DOMAIN row'[a] = {"status", "msgs"}
    BY <2>2
  <2>4. QED
    BY <2>1, <2>3
<1>4. /\ OnlyRun(c) /\ DOMAIN act'[c] = DOMAIN NoRun /\ act'[c].pc = "stop"
      /\ act'[c].told = told /\ act'[c].msgs = act[c].msgs /\ act'[c].seeds = act[c].seeds
      /\ act'[c].agent = a /\ act'[c].spawned = act[c].spawned /\ act'[c].kill = act[c].kill
      /\ last' = l
  BY <1>1 DEF Report, Shape, RunOK, NoRun, OnlyRun
<1> HIDE DEF own
<1>5. Shape'
  <2>1. m \o own \in Seq(Calls)
    BY <1>1, <1>2, ConcatProperties
  <2>2. RunOK(c)'
    <3>1. {act'[c].spawned, act'[c].told, act'[c].kill} \subseteq BOOLEAN
      BY <1>1, <1>4 DEF RunOK
    <3>2. QED
      BY <1>1, <1>3, <1>4, <3>1 DEF RunOK
  <2>3. ASSUME NEW b \in DOMAIN row'
        PROVE  DOMAIN row'[b] = {"status", "msgs"} /\ row'[b].msgs \in Seq(Calls)
    BY <1>1, <1>3, <2>1 DEF Shape, RowOK
  <2>4. QED
    BY <1>1, <1>3, <1>4, <2>2, <2>3, ShapeKept DEF ReportOf
<1>6. RosterOK'
  <2>1. ASSUME NEW b \in DOMAIN roster', roster'[b] = "running"
        PROVE  \E d \in Runs(b)' : OnRoster(d)'
    <3>1. b \in DOMAIN roster /\ b # a /\ roster[b] = "running"
      BY <2>1 DEF Report, RosterStatus
    <3>2. PICK d \in Runs(b) : OnRoster(d)
      BY <1>1, <3>1 DEF RosterOK
    <3>3. d # c
      BY <3>1, <3>2 DEF Runs
    <3>4. d \in Runs(b)' /\ OnRoster(d)'
      BY <1>4, <3>2, <3>3 DEF Runs, OnRoster, OnlyRun
    <3>5. QED
      BY <3>4
  <2>2. QED
    BY <2>1 DEF RosterOK
<1>7. ASSUME ~mixed' PROVE Alone'
  <2>1. Alone /\ TurnsAlone
    BY <1>7 DEF IInv, ReportOf, Alone
  <2>2. \A i \in 1..Len(m) : m[i] # c /\ m[i] \in Calls
    <3>1. \A i \in DOMAIN m : act[m[i]].pc \in {"stop", "done", "gone"}
      BY <1>1, <2>1 DEF Alone, OwnMessages
    <3>2. QED
      BY <1>1, <3>1, LenProperties, ElementOfSeq
  <2>3. /\ \A i \in 1..Len(own) : own[i] = c
        /\ told => Len(own) = Len(act[c].msgs) - Len(act[c].seeds)
    <3>1. CASE l.ctx = NoCtx
      <4>1. own = <<>>
        BY <3>1 DEF own, OwnPart
      <4>2. ~told
        BY <1>1, <3>1, ContextAssumption DEF RunOK
      <4>3. QED
        BY <4>1, <4>2, EmptySeq
    <3>2. CASE l.ctx # NoCtx
      <4>1. act[c].pc = "turns" /\ l.ctx = act[c].msgs /\ l.seeded = Len(act[c].seeds)
        BY <1>7, <2>1, <3>2 DEF ReportOf, TurnsAlone
      <4> DEFINE s == act[c].msgs
                 k == Len(act[c].seeds)
      <4>2. /\ s \in Seq(Calls) /\ k \in Nat /\ Len(s) \in Nat /\ k <= Len(s)
            /\ \A i \in (k + 1)..Len(s) : s[i] = c
        BY <1>1, <2>1, <4>1, LenProperties DEF RunOK, TurnsAlone
      <4>3. own = SubSeq(s, k + 1, Len(s))
        BY <3>2, <4>1 DEF own, OwnPart
      <4> HIDE DEF s, k
      <4>4. /\ Len(own) = Len(s) - k
            /\ \A i \in 1..Len(own) : k + i \in (k + 1)..Len(s) /\ own[i] = s[k + i]
        BY <4>2, <4>3, Rest
      <4>5. QED
        BY <4>2, <4>4 DEF s, k
    <3>3. QED
      BY <3>1, <3>2
  <2>4. TurnsAlone'
    <3>1. CASE act[c].pc = "turns"
      <4>1. \A d \in Calls : act'[d].pc # "turns"
        BY <1>4, <2>1, <3>1 DEF TurnsAlone, OnlyRun
      <4>2. QED
        BY <4>1 DEF TurnsAlone
    <3>2. CASE act[c].pc # "turns"
      BY <1>4, <2>1, <3>2 DEF TurnsAlone, OnlyRun, ReportOf
    <3>3. QED
      BY <3>1, <3>2
  <2>5. ASSUME NEW b \in DOMAIN row' PROVE OwnMessages(b)'
    <3>1. CASE b = a
      <4>1. ASSUME NEW i \in 1..Len(m)
            PROVE  act'[m[i]].agent = a /\ act'[m[i]].pc \in {"stop", "done", "gone"}
        <5>1. act[m[i]].agent = a /\ act[m[i]].pc \in {"stop", "done", "gone"}
          BY <1>1, <2>1, LenProperties DEF Alone, OwnMessages
        <5>2. QED
          BY <1>4, <2>2, <5>1 DEF OnlyRun
      <4>2. ASSUME NEW i \in DOMAIN (m \o own)
            PROVE  LET e == (m \o own)[i] IN
                   act'[e].agent = a /\ act'[e].pc \in {"stop", "done", "gone"}
        <5>1. /\ i \in 1..(Len(m) + Len(own)) /\ Len(m) \in Nat /\ Len(own) \in Nat
          BY <1>1, <1>2, Appended
        <5>2. CASE i \in 1..Len(m)
          BY <1>1, <1>2, <4>1, <5>2, Appended
        <5>3. CASE i \in (Len(m) + 1)..(Len(m) + Len(own))
          <6>1. (m \o own)[i] = c
            BY <1>1, <1>2, <2>3, <5>3, Appended
          <6>2. QED
            BY <1>4, <6>1
        <5> HIDE DEF own, m
        <5>4. \A x, y \in Nat : i \in 1..(x + y) => i \in 1..x \/ i \in (x + 1)..(x + y)
          OBVIOUS
        <5>5. i \in 1..Len(m) \/ i \in (Len(m) + 1)..(Len(m) + Len(own))
          BY <5>1, <5>4
        <5>6. QED
          BY <5>2, <5>3, <5>5
      <4>3. QED
        BY <1>3, <3>1, <4>2 DEF OwnMessages
    <3>2. CASE b # a
      <4>1. row'[b] = row[b] /\ row[b].msgs \in Seq(Calls) /\ OwnMessages(b)
        BY <1>1, <1>3, <2>1, <2>5, <3>2 DEF Shape, RowOK, Alone
      <4>2. \A i \in DOMAIN row[b].msgs : row[b].msgs[i] \in Calls
        BY <4>1, ElementOfSeq, LenProperties
      <4>3. \A i \in DOMAIN row[b].msgs : row[b].msgs[i] # c
        BY <1>1, <4>1 DEF OwnMessages
      <4>4. QED
        BY <1>4, <4>1, <4>2, <4>3 DEF OwnMessages, OnlyRun
    <3>3. QED
      BY <3>1, <3>2
  <2>6. ASSUME NEW d \in Calls PROVE Complete(d)'
    <3>1. CASE d = c
      <4>1. SUFFICES ASSUME told
                     PROVE  Cardinality(Told(c))' = Len(act[c].msgs) - Len(act[c].seeds)
        BY <1>4, <3>1 DEF Complete
      <4>2. Told(c)' = {i \in DOMAIN (m \o own) : (m \o own)[i] = c}
        BY <1>3, <1>4 DEF Told
      <4>3. Cardinality({i \in DOMAIN (m \o own) : (m \o own)[i] = c}) = Len(own)
        <5>1. /\ m \in Seq(Calls) /\ own \in Seq(Calls)
              /\ \A i \in 1..Len(m) : m[i] # c
              /\ \A i \in 1..Len(own) : own[i] = c
          BY <1>1, <1>2, <2>2, <2>3
        <5> HIDE DEF m
        <5>2. QED
          BY <5>1, PlacesOwn, Zenon
      <4>4. QED
        BY <2>3, <4>1, <4>2, <4>3
    <3>2. CASE d # c
      <4>1. SUFFICES ASSUME act[d].told, act[d].pc # "gone"
                     PROVE  Cardinality(Told(d))' = Len(act[d].msgs) - Len(act[d].seeds)
        BY <1>4, <3>2 DEF Complete, OnlyRun
      <4>2. act'[d] = act[d] /\ act[d].agent \in DOMAIN row
        BY <1>1, <1>4, <3>2, <4>1 DEF OnlyRun, Shape, RunOK
      <4>3. Told(d)' = Told(d)
        <5>1. CASE act[d].agent = a
          <6>1. \A i \in 1..Len(own) : own[i] # d
            BY <2>3, <3>2
          <6>2. {i \in DOMAIN (m \o own) : (m \o own)[i] = d} = {i \in DOMAIN m : m[i] = d}
            BY <1>1, <1>2, <6>1, PlacesOther
          <6>3. QED
            BY <1>3, <4>2, <5>1, <6>2 DEF Told
        <5>2. CASE act[d].agent # a
          BY <1>3, <4>2, <5>2 DEF Told
        <5>3. QED
          BY <5>1, <5>2
      <4>4. QED
        BY <2>1, <4>1, <4>3 DEF Alone, Complete
    <3>3. QED
      BY <3>1, <3>2
  <2>7. QED
    BY <2>4, <2>5, <2>6 DEF Alone
<1>8. QED
  BY <1>5, <1>6, <1>7 DEF IInv

LEMMA ReportsKeep ==
  ASSUME IInv, NEW c \in Calls, Rejected(c) \/ Ends(c) \/ Raises(c)
  PROVE  IInv'
<1>1. Shape /\ RunOK(c)
  BY DEF IInv, Shape
<1>2. CASE Rejected(c) \/ Raises(c)
  <2>1. mixed' = (mixed \/ last.ctx # NoCtx) /\ Report(c, "failed", last)
    BY <1>2 DEF Rejected, Raises
  <2>2. mixed' \in BOOLEAN /\ (~mixed' => ~mixed) /\ (~mixed' => last.ctx = NoCtx)
    BY <2>1
  <2>3. act[c].pc \in {"hook", "turns"}
    BY <1>2 DEF Rejected, Raises
  <2>4. ReportOf(c, last)
    BY <1>1, <2>2, <2>3 DEF ReportOf, Shape
  <2>5. QED
    BY <2>1, <2>4, ReportKeeps
<1>3. CASE Ends(c)
  <2> DEFINE l == [last EXCEPT !.ctx = act[c].msgs]
  <2>1. PICK status : Report(c, status, l) /\ mixed' = mixed /\ act[c].pc = "turns"
    BY <1>3 DEF Ends
  <2>2. /\ DOMAIN l = {"ctx", "seeded"} /\ l.ctx = act[c].msgs /\ l.seeded = last.seeded
        /\ l.ctx \in Seq(Calls) /\ l.seeded \in Nat
    BY <1>1 DEF Shape, RunOK
  <2> HIDE DEF l
  <2>3. mixed' \in BOOLEAN /\ (~mixed' => ~mixed)
    BY <1>1, <2>1 DEF Shape
  <2>4. ReportOf(c, l)
    BY <2>1, <2>2, <2>3 DEF ReportOf
  <2>5. QED
    BY <2>1, <2>4, ReportKeeps
<1>4. QED
  BY <1>2, <1>3

-----------------------------------------------------------------------------
(* The other steps of a run.                                               *)

LEMMA BeginKeeps ==
  ASSUME IInv, NEW c \in Calls, Begin(c)
  PROVE  IInv'
<1> DEFINE seeds == act[c].seeds
<1>1. Shape /\ RosterOK /\ RunOK(c) /\ act[c].pc = "hook" /\ ~act[c].told
  BY DEF IInv, Shape, RunOK, Begin
<1>2. /\ OnlyRun(c) /\ DOMAIN act'[c] = DOMAIN NoRun /\ act'[c].pc = "turns"
      /\ act'[c].msgs = Append(seeds, c) /\ act'[c].seeds = seeds /\ act'[c].told = act[c].told
      /\ act'[c].agent = act[c].agent /\ act'[c].spawned = act[c].spawned
      /\ act'[c].kill = act[c].kill
      /\ UNCHANGED <<row, roster>>
  BY <1>1 DEF Begin, Shape, RunOK, NoRun, OnlyRun
<1>3. /\ seeds \in Seq(Calls) /\ Append(seeds, c) \in Seq(Calls) /\ Len(seeds) \in Nat
      /\ Len(Append(seeds, c)) = Len(seeds) + 1 /\ Append(seeds, c)[Len(seeds) + 1] = c
  BY <1>1, AppendProperties, LenProperties DEF RunOK
<1> HIDE DEF seeds
<1>4. /\ DOMAIN last' = {"ctx", "seeded"} /\ last'.ctx = last.ctx /\ last'.seeded = Len(seeds)
  BY <1>1 DEF Begin, Shape, SeededCount, seeds
<1>5. mixed' = (mixed \/ \E d \in Calls : act[d].pc = "turns")
  BY DEF Begin
<1>6. mixed' \in BOOLEAN
  BY <1>5
<1>7. Shape'
  <2>1. RunOK(c)'
    <3>1. {act'[c].spawned, act'[c].told, act'[c].kill} \subseteq BOOLEAN /\ ~act'[c].told
      BY <1>1, <1>2 DEF RunOK
    <3>2. QED
      BY <1>1, <1>2, <1>3, <3>1 DEF RunOK
  <2>2. \A a \in DOMAIN row' : DOMAIN row'[a] = {"status", "msgs"} /\ row'[a].msgs \in Seq(Calls)
    BY <1>1, <1>2 DEF Shape, RowOK
  <2>3. QED
    BY <1>1, <1>2, <1>3, <1>4, <1>6, <2>1, <2>2, ShapeKept DEF Shape
<1>8. RosterOK'
  BY <1>1, <1>2, RosterKept DEF OnRoster
<1>9. ASSUME ~mixed' PROVE Alone'
  <2>1. ~mixed /\ \A d \in Calls : act[d].pc # "turns"
    BY <1>5, <1>9
  <2>2. Alone
    BY <2>1 DEF IInv
  <2>3. \A d \in Calls : act'[d].pc = "turns" => d = c
    BY <1>2, <2>1 DEF OnlyRun
  <2>4. \A i \in (Len(seeds) + 1)..(Len(seeds) + 1) : i = Len(seeds) + 1
    BY <1>3
  <2>5. TurnsAlone'
    BY <1>2, <1>3, <1>4, <2>3, <2>4 DEF TurnsAlone
  <2>6. TranscriptsStay /\ GoesOn(c)
    BY <1>1, <1>2 DEF TranscriptsStay, GoesOn
  <2>7. QED
    BY <1>1, <1>2, <2>2, <2>5, <2>6, AloneKept
<1>10. QED
  BY <1>7, <1>8, <1>9 DEF IInv

LEMMA TurnKeeps ==
  ASSUME IInv, NEW c \in Calls, Turn(c)
  PROVE  IInv'
<1> DEFINE msgs == act[c].msgs
           k == Len(act[c].seeds)
<1>1. Shape /\ RosterOK /\ RunOK(c) /\ act[c].pc = "turns" /\ ~act[c].told
  BY DEF IInv, Shape, RunOK, Turn
<1>2. /\ OnlyRun(c) /\ DOMAIN act'[c] = DOMAIN NoRun /\ act'[c].pc = "turns"
      /\ act'[c].msgs = Append(msgs, c) /\ act'[c].seeds = act[c].seeds
      /\ act'[c].told = act[c].told /\ act'[c].agent = act[c].agent
      /\ act'[c].spawned = act[c].spawned /\ act'[c].kill = act[c].kill
      /\ UNCHANGED <<row, roster, last, mixed>>
  BY <1>1 DEF Turn, Shape, RunOK, NoRun, OnlyRun
<1>3. /\ msgs \in Seq(Calls) /\ Append(msgs, c) \in Seq(Calls) /\ Len(msgs) \in Nat /\ k \in Nat
      /\ Len(Append(msgs, c)) = Len(msgs) + 1 /\ Append(msgs, c)[Len(msgs) + 1] = c
      /\ \A i \in 1..Len(msgs) : Append(msgs, c)[i] = msgs[i]
  BY <1>1, AppendProperties, LenProperties DEF RunOK
<1>4. Shape'
  <2>1. RunOK(c)'
    <3>1. {act'[c].spawned, act'[c].told, act'[c].kill} \subseteq BOOLEAN /\ ~act'[c].told
      BY <1>1, <1>2 DEF RunOK
    <3>2. QED
      BY <1>1, <1>2, <1>3, <3>1 DEF RunOK
  <2>2. \A a \in DOMAIN row' : DOMAIN row'[a] = {"status", "msgs"} /\ row'[a].msgs \in Seq(Calls)
    BY <1>1, <1>2 DEF Shape, RowOK
  <2>3. QED
    BY <1>1, <1>2, <2>1, <2>2, ShapeKept DEF Shape
<1>5. RosterOK'
  BY <1>1, <1>2, RosterKept DEF OnRoster
<1>6. ASSUME ~mixed' PROVE Alone'
  <2>1. Alone /\ TurnsAlone
    BY <1>2, <1>6 DEF IInv, Alone
  <2>2. \A d \in Calls : act'[d].pc = "turns" => d = c
    BY <1>1, <1>2, <2>1 DEF OnlyRun, TurnsAlone
  <2>3. last.seeded = k /\ Len(msgs) > k /\ \A i \in (k + 1)..Len(msgs) : msgs[i] = c
    BY <1>1, <2>1 DEF TurnsAlone
  <2> HIDE DEF msgs
  <2>4. \A i \in (k + 1)..(Len(msgs) + 1) : Append(msgs, c)[i] = c
    <3> HIDE DEF k
    <3>1. \A i \in (k + 1)..(Len(msgs) + 1) :
            i = Len(msgs) + 1 \/ (i \in (k + 1)..Len(msgs) /\ i \in 1..Len(msgs))
      BY <1>3
    <3>2. QED
      BY <1>3, <2>3, <3>1
  <2>5. TurnsAlone'
    <3>1. act'[c].msgs = Append(msgs, c) /\ Len(act'[c].seeds) = k
      BY <1>2 DEF msgs
    <3> HIDE DEF k
    <3>2. /\ last'.seeded = k /\ Len(Append(msgs, c)) > k
          /\ \A i \in (k + 1)..Len(Append(msgs, c)) : Append(msgs, c)[i] = c
      BY <1>2, <1>3, <2>3, <2>4
    <3>3. QED
      BY <2>2, <3>1, <3>2 DEF TurnsAlone
  <2>6. TranscriptsStay /\ GoesOn(c)
    BY <1>1, <1>2 DEF TranscriptsStay, GoesOn
  <2>7. QED
    BY <1>1, <1>2, <2>1, <2>5, <2>6, AloneKept
<1>7. QED
  BY <1>4, <1>5, <1>6 DEF IInv

\* A run ends, is told to end, or ends because it was told to.
LEMMA EndingKeeps ==
  ASSUME IInv, NEW c \in Calls, Stops(c) \/ cancel(c) \/ Cancelled(c)
  PROVE  IInv'
<1>1. Shape /\ RosterOK /\ RunOK(c) /\ act[c].pc \in {"hook", "turns", "stop"}
  BY DEF IInv, Shape, Stops, cancel, Cancelled, UnderWay
<1>2. /\ OnlyRun(c) /\ DOMAIN act'[c] = DOMAIN NoRun
      /\ act'[c].msgs = act[c].msgs /\ act'[c].seeds = act[c].seeds /\ act'[c].told = act[c].told
      /\ act'[c].agent = act[c].agent /\ act'[c].spawned = act[c].spawned
      /\ UNCHANGED <<roster, last, mixed>>
  BY <1>1 DEF Stops, cancel, Cancelled, Shape, RunOK, NoRun, OnlyRun
<1>3. /\ \/ act[c].pc = "stop" /\ ~act[c].kill /\ act'[c].pc = "done" /\ act'[c].kill = act[c].kill
         \/ act'[c].pc = act[c].pc /\ act'[c].kill = TRUE
         \/ act[c].kill /\ act'[c].pc = "done" /\ act'[c].kill = act[c].kill
  BY <1>1 DEF Stops, cancel, Cancelled, Shape, RunOK, NoRun
<1>4. /\ DOMAIN row' = DOMAIN row
      /\ \A a \in DOMAIN row : DOMAIN row'[a] = {"status", "msgs"} /\ row'[a].msgs = row[a].msgs
  <2>1. CASE UNCHANGED row
    BY <1>1, <2>1 DEF Shape, RowOK
  <2>2. CASE Cancelled(c)
    BY <1>1, <2>2 DEF Cancelled, Shape, RowOK
  <2>3. QED
    BY <2>1, <2>2 DEF Stops, cancel
<1>5. Shape'
  <2>1. RunOK(c)'
    <3>1. act'[c].kill \in BOOLEAN
      <4>1. act[c].kill \in BOOLEAN
        BY <1>1 DEF RunOK
      <4>2. QED
        BY <1>3, <4>1, Zenon
    <3>2. {act'[c].spawned, act'[c].told, act'[c].kill} \subseteq BOOLEAN
      BY <1>1, <1>2, <3>1 DEF RunOK
    <3>3. act'[c].pc \in {"hook", "turns", "stop", "done"}
      BY <1>1, <1>3
    <3>4. act'[c].pc \in {"none", "hook", "turns"} => ~act'[c].told
      BY <1>1, <1>2, <1>3 DEF RunOK
    <3>5. QED
      BY <1>1, <1>2, <1>4, <3>2, <3>3, <3>4 DEF RunOK
  <2>2. \A a \in DOMAIN row' : DOMAIN row'[a] = {"status", "msgs"} /\ row'[a].msgs \in Seq(Calls)
    BY <1>1, <1>4 DEF Shape, RowOK
  <2>3. QED
    BY <1>1, <1>2, <1>3, <1>4, <2>1, <2>2, ShapeKept DEF Shape
<1>6. RosterOK'
  <2>1. OnRoster(c) => OnRoster(c)'
    BY <1>3 DEF OnRoster
  <2>2. QED
    BY <1>1, <1>2, <2>1, RosterKept
<1>7. ASSUME ~mixed' PROVE Alone'
  <2>1. Alone /\ TurnsAlone
    BY <1>2, <1>7 DEF IInv, Alone
  <2>2. ASSUME NEW d \in Calls
        PROVE  /\ act'[d].pc = "turns" => act[d].pc = "turns"
               /\ act'[d].msgs = act[d].msgs /\ act'[d].seeds = act[d].seeds
    BY <1>2, <1>3 DEF OnlyRun
  <2>3. TurnsAlone'
    BY <1>2, <2>1, <2>2 DEF TurnsAlone
  <2>4. TranscriptsStay /\ GoesOn(c)
    BY <1>1, <1>2, <1>3, <1>4 DEF TranscriptsStay, GoesOn
  <2>5. QED
    BY <1>1, <1>2, <2>1, <2>3, <2>4, AloneKept
<1>8. QED
  BY <1>5, <1>6, <1>7 DEF IInv

LEMMA CrashKeeps ==
  ASSUME IInv, Crash
  PROVE  IInv'
<1> DEFINE G(c) == [NoRun EXCEPT !.pc = "gone", !.agent = act[c].agent]
<1>1. /\ Shape /\ RosterOK /\ DOMAIN act' = Calls /\ UNCHANGED <<row, roster, mixed>>
      /\ last' = [ctx |-> NoCtx, seeded |-> 0]
      /\ \A c \in Calls : act'[c] = IF act[c].pc = "none" THEN NoRun ELSE G(c)
  BY DEF Crash, IInv
<1>2. /\ NoRun.pc = "none" /\ NoRun.seeds = <<>> /\ NoRun.msgs = <<>> /\ NoRun.kill = FALSE
      /\ NoRun.told = FALSE /\ NoRun.spawned = FALSE
  BY DEF NoRun
<1>3. \A c \in Calls :
        /\ DOMAIN G(c) = DOMAIN NoRun /\ G(c).pc = "gone" /\ G(c).agent = act[c].agent
        /\ G(c).seeds = <<>> /\ G(c).msgs = <<>> /\ G(c).kill = FALSE /\ G(c).told = FALSE
        /\ G(c).spawned = FALSE
  BY DEF NoRun
<1> HIDE DEF G
<1>4. \A c \in Calls : IF act[c].pc = "none" THEN act'[c].pc = "none"
                        ELSE act'[c].pc = "gone" /\ act'[c].agent = act[c].agent
  BY <1>1, <1>2, <1>3
<1>5. \A c \in Calls : /\ DOMAIN act'[c] = DOMAIN NoRun /\ act'[c].seeds = <<>> /\ act'[c].msgs = <<>>
                       /\ act'[c].kill = FALSE /\ act'[c].told = FALSE /\ act'[c].spawned = FALSE
  BY <1>1, <1>2, <1>3
<1>6. Shape'
  <2>1. ASSUME NEW c \in Calls PROVE RunOK(c)'
    <3>1. {act'[c].spawned, act'[c].told, act'[c].kill} \subseteq BOOLEAN
      BY <1>5, Zenon
    <3>2. act'[c].seeds \in Seq(Calls) /\ act'[c].msgs \in Seq(Calls)
      BY <1>5, EmptySeq
    <3>3. IF act'[c].pc = "none" THEN ~act'[c].kill /\ ~act'[c].spawned
          ELSE act'[c].agent \in DOMAIN row'
      BY <1>1, <1>4, <1>5 DEF Shape, RunOK
    <3>4. QED
      BY <1>5, <3>1, <3>2, <3>3 DEF RunOK
  <2>2. ASSUME NEW a \in DOMAIN row' PROVE RowOK(a)'
    BY <1>1, <1>4, <2>2 DEF Shape, RowOK
  <2>3. DOMAIN last' = {"ctx", "seeded"} /\ last'.seeded \in Nat /\ last'.ctx = NoCtx
    BY <1>1
  <2>4. QED
    BY <1>1, <2>1, <2>2, <2>3 DEF Shape
<1>7. RosterOK'
  <2>1. ASSUME NEW a \in DOMAIN roster, roster[a] = "running"
        PROVE  \E d \in Runs(a)' : OnRoster(d)'
    <3>1. PICK d \in Runs(a) : OnRoster(d)
      BY <1>1, <2>1 DEF RosterOK
    <3>2. act[d].pc # "none"
      BY <1>1, <3>1 DEF OnRoster, Shape, RunOK, Runs
    <3>3. d \in Runs(a)' /\ OnRoster(d)'
      BY <1>4, <3>1, <3>2 DEF Runs, OnRoster
    <3>4. QED
      BY <3>3
  <2>2. QED
    BY <1>1, <2>1 DEF RosterOK
<1>8. ASSUME ~mixed' PROVE Alone'
  <2>1. \A a \in DOMAIN row : OwnMessages(a)
    BY <1>1, <1>8 DEF IInv, Alone
  <2>2. TurnsAlone' /\ \A c \in Calls : Complete(c)'
    BY <1>4, <1>5 DEF TurnsAlone, Complete
  <2>3. ASSUME NEW a \in DOMAIN row PROVE OwnMessages(a)'
    <3>1. \A i \in DOMAIN row[a].msgs : row[a].msgs[i] \in Calls
      BY <1>1, ElementOfSeq, LenProperties DEF Shape, RowOK
    <3>2. QED
      BY <1>1, <1>4, <2>1, <3>1 DEF OwnMessages
  <2>4. QED
    BY <1>1, <2>2, <2>3 DEF Alone
<1>9. QED
  BY <1>6, <1>7, <1>8 DEF IInv

-----------------------------------------------------------------------------
(* The invariant.                                                          *)

LEMMA Initially == Init => IInv
<1> SUFFICES ASSUME Init PROVE IInv
  OBVIOUS
<1>1. /\ DOMAIN row = {} /\ DOMAIN roster = {} /\ act = [c \in Calls |-> NoRun] /\ mixed = FALSE
      /\ last = [ctx |-> NoCtx, seeded |-> 0]
  BY DEF Init
<1>2. /\ NoRun.pc = "none" /\ NoRun.seeds = <<>> /\ NoRun.msgs = <<>> /\ NoRun.kill = FALSE
      /\ NoRun.told = FALSE /\ NoRun.spawned = FALSE
  BY DEF NoRun
<1>3. ASSUME NEW c \in Calls PROVE RunOK(c)
  <2>1. {act[c].spawned, act[c].told, act[c].kill} \subseteq BOOLEAN
    BY <1>1, <1>2, Zenon
  <2>2. act[c] = NoRun /\ <<>> \in Seq(Calls)
    BY <1>1, EmptySeq
  <2>3. QED
    BY <1>2, <2>1, <2>2 DEF RunOK
<1>4. Shape
  <2>1. mixed \in BOOLEAN
    BY <1>1, Zenon
  <2>2. DOMAIN last = {"ctx", "seeded"} /\ last.seeded \in Nat /\ last.ctx = NoCtx
    BY <1>1
  <2>3. QED
    BY <1>1, <1>3, <2>1, <2>2 DEF Shape
<1>5. RosterOK /\ Alone
  <2>1. \A c \in Calls : act[c].pc = "none" /\ act[c].told = FALSE
    BY <1>1, <1>2
  <2>2. QED
    BY <1>1, <2>1 DEF RosterOK, Alone, TurnsAlone, Complete
<1>6. QED
  BY <1>4, <1>5 DEF IInv

\* Waiting changes nothing of a run.
LEMMA WaitsKeep ==
  ASSUME IInv, UNCHANGED <<row, roster, act, last, mixed>>
  PROVE  IInv'
<1>1. Shape'
  BY DEF IInv, Shape, RunOK, RowOK
<1>2. RosterOK'
  BY DEF IInv, RosterOK, Runs, OnRoster
<1>3. ASSUME ~mixed' PROVE Alone'
  <2>1. Alone
    BY <1>3 DEF IInv
  <2>2. TurnsAlone' /\ \A a \in DOMAIN row' : OwnMessages(a)'
    BY <2>1 DEF Alone, TurnsAlone, OwnMessages
  <2>3. \A c \in Calls : Told(c)' = Told(c)
    BY DEF Told
  <2>4. \A c \in Calls : Complete(c)'
    BY <2>1, <2>3 DEF Alone, Complete
  <2>5. QED
    BY <2>2, <2>4 DEF Alone
<1>4. QED
  BY <1>1, <1>2, <1>3 DEF IInv

LEMMA NextKeeps ==
  ASSUME IInv, [Next]_vars
  PROVE  IInv'
<1>1. CASE Crash
  BY <1>1, CrashKeeps
<1>2. ASSUME NEW c \in Calls, Step(c) \/ cancel(c) PROVE IInv'
  BY <1>2, ReportsKeep, BeginKeeps, TurnKeeps, EndingKeeps DEF Step
<1>3. ASSUME NEW c \in Calls, subagent_run(c) \/ spawn(c) \/ \E a \in Calls : resume(c, a)
      PROVE  IInv'
  BY <1>3, CallsKeep
<1>4. ASSUME NEW w \in Waiters,
             WaitEnds(w) \/ WaitTimeout(w) \/ \E a \in Calls : Wait(w, a)
      PROVE  IInv'
  BY <1>4, WaitsKeep DEF WaitEnds, WaitTimeout, Wait
<1>5. CASE UNCHANGED vars
  BY <1>5, WaitsKeep DEF vars
<1>6. QED
  BY <1>1, <1>2, <1>3, <1>4, <1>5 DEF Next

\* The invariant of the runner, the transcripts and the roster
\* (subagent.py:451, SubAgentRunner.run).
THEOREM Inductive == Spec => []IInv
<1>1. IInv /\ [Next]_vars => IInv'
  BY NextKeeps
<1>2. QED
  BY <1>1, Initially, PTL DEF Spec

\* Whoever the DurableRoster calls running has a run under way, or one that
\* was cancelled or died (durable_roster.py:153, set_status).
THEOREM RosterLive == Spec => []RosterIsLive
<1>1. IInv => RosterIsLive
  BY DEF IInv, RosterOK, OnRoster, RosterIsLive, UnderWay
<1>2. QED
  BY <1>1, Inductive, PTL

\* As long as the attributes all runs share are never another run's, each
\* transcript has the messages of its agent and no other, each once
\* (subagent.py:518, the report of a run).
THEOREM AloneIsIndependent == Spec => []TranscriptsAlone
<1>1. IInv => TranscriptsAlone
  <2>1. ASSUME IInv, ~mixed PROVE TranscriptsIndependent /\ TranscriptsComplete
    <3>1. Shape /\ Alone
      BY <2>1 DEF IInv
    <3>2. ASSUME NEW a \in DOMAIN row, NEW c \in ToSet(row[a].msgs) PROVE c \in Runs(a)
      <4>1. PICK i \in DOMAIN row[a].msgs : c = row[a].msgs[i]
        BY DEF ToSet
      <4>2. c \in Calls
        BY <3>1, <4>1, ElementOfSeq, LenProperties DEF Shape, RowOK
      <4>3. QED
        BY <3>1, <4>1, <4>2 DEF Alone, OwnMessages, Runs
    <3>3. TranscriptsComplete
      BY <3>1 DEF Alone, Complete, TranscriptsComplete
    <3>4. QED
      BY <3>2, <3>3 DEF TranscriptsIndependent
  <2>2. QED
    BY <2>1 DEF TranscriptsAlone
<1>2. QED
  BY <1>1, Inductive, PTL
=============================================================================
