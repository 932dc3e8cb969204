------------------------ MODULE GraphRuntimeProofs ------------------------
(***************************************************************************)
(* Theorems about GraphRuntime for any graphs, admissions, bounds and      *)
(* number of executions: what an execution may run, how often it calls the *)
(* model, and what its futures and its pauses leave behind.                *)
(***************************************************************************)
EXTENDS GraphRuntime, SequenceTheorems, TLAPS

-----------------------------------------------------------------------------
(* The inductive invariant.                                                *)

Fields == {"g", "sess", "pc", "out", "node", "iter", "chain", "loop", "item", "last",
           "calls", "phase", "tries", "failed", "bare", "err", "blame", "home",
           "attempt", "plan", "vals", "ask", "human", "hops", "did", "bad"}
Shape(r) == /\ DOMAIN r = Fields /\ DOMAIN r.ask = {"status", "fut"}
            /\ {r.iter, r.hops, r.item} \subseteq Nat

Asks3 == {"ask_model", "ask_call", "ask_tool"}
LlmKinds == {"llm", "rag"}

\* A hop is about to happen that an iteration of the session has paid for.
MayCall(r) == r.home = NoNode /\ r.phase = "main" /\ r.pc \in {"ask_model", "reply", "again"}
Hops(r) == r.hops + (IF MayCall(r) THEN 1 ELSE 0)
HopsPaid(r) == Hops(r) <= r.iter /\ Hops(r) <= MaxIter

FutureOK(r) ==
  LET a == r.ask IN
  /\ a.fut = "waiting" => r.pc \in Asks3 /\ a.status = "pending"
  /\ r.pc \in Asks3 => a.fut # "none"
  /\ a.fut = "yes" => a.status = "approved"
  /\ a.fut = "no" => a.status = "rejected"

\* Where the model has a say the node is an LLM node, a node that waits has
\* sub-runtimes, and a node that is retried has a handler.
AtNode(r) ==
  /\ r.pc \in {"ask_model", "reply", "again", "tools", "ask_call"} => r.g.kind[r.node] \in LlmKinds
  /\ r.pc = "wait" => r.g.kind[r.node] \in LlmKinds \cup {"sub_flow", "iteration", "parallel"}
  /\ r.pc = "retry" => r.home # NoNode

\* In plan mode only tools that read are asked for.
Reads(t) == t \in ReadOnly \cup {ExitPlan}
AsksToRead(r) ==
  r.plan => /\ r.pc = "ask_tool" => Reads(r.node)
            /\ r.pc = "ask_call" => Reads(Head(r.calls))

\* A failed tool of a run that stops on errors: the reply it belongs to is
\* not finished, and when it is the run ends.
Stopping(r) ==
  r.bad /\ r.g.stop /\ r.pc # "done" =>
    /\ r.home = NoNode /\ r.failed
    /\ r.pc \in {"tools", "ask_call", "wait"} /\ r.g.kind[r.node] \in LlmKinds

Good(r) == /\ Shape(r) /\ HopsPaid(r) /\ FutureOK(r) /\ AtNode(r)
           /\ AsksToRead(r) /\ Stopping(r)

\* Executions are of saved graphs, and a pause is among the checkpoints c.
Top(e, r, c) ==
  Len(e) = 1 =>
    /\ r.g.name \in Flows
    /\ r.pc = "human" \/ r.out = "paused" => <<r.g.name, r.sess>> \in DOMAIN c

\* A sub-runtime has a run that waits for it; an iteration for its current one.
Keys == Seq(Roots \cup Nat) \ {<<>>}
Awaited(c) ==
  \/ Len(c) = 1
  \/ \E p \in DOMAIN run, i \in Nat :
       /\ c = Append(p, i) /\ run[p].pc = "wait"
       /\ run[p].g.kind[run[p].node] = "iteration" => i = run[p].item + 1

CkptOK == \A k \in DOMAIN ckpt : ckpt[k].iter \in Nat

IInv ==
  /\ DOMAIN run \subseteq Keys
  /\ \A e \in DOMAIN run : Good(run[e]) /\ Top(e, run[e], ckpt) /\ Awaited(e)
  /\ CkptOK

-----------------------------------------------------------------------------
(* What a step may do to a run.                                            *)

\* What ran was asked for and granted, and reads only in plan mode, or is the
\* capture after a tool node.
Admitted(r, t) == "allow" \in Verdicts[t] \/ (r.pc \in Asks3 /\ Granted(r) /\ t = AskedTool(r))
MayRun(r, t) == \/ Admitted(r, t) /\ (r.plan => Reads(t))
                \/ CaptureAfter(r, t)
Follows(r, q) ==
  /\ q.g = r.g /\ q.sess = r.sess
  /\ \A t \in SymDiff(q.did, r.did) : MayRun(r, t)
  /\ r.bad /\ r.g.stop => q.node = r.node

\* Nothing that the waiting of other runs depends on.
Still(r, q) == q.pc = r.pc /\ q.node = r.node /\ q.item = r.item /\ q.out = r.out

StepOK == \A e \in Stay : Follows(run[e], run'[e])
CkptStep == CkptOK' /\ DOMAIN ckpt \subseteq DOMAIN ckpt'
Sound == IInv' /\ StepOK

\* The names of runs: a sub-runtime's name tells its parent and its number.
LEMMA SeqFacts ==
  ASSUME NEW p \in Keys, NEW i \in Nat
  PROVE  /\ Append(p, i) \in Keys /\ Len(Append(p, i)) = Len(p) + 1 /\ Len(p) \in Nat \ {0}
         /\ \A q \in Keys, j \in Nat : Append(p, i) = Append(q, j) => p = q /\ i = j
<1>1. /\ Append(p, i) \in Keys /\ Len(Append(p, i)) = Len(p) + 1 /\ Len(p) \in Nat \ {0}
  BY AppendProperties, LenProperties, EmptySeq DEF Keys
<1>2. ASSUME NEW q \in Keys, NEW j \in Nat, Append(p, i) = Append(q, j)
      PROVE  p = q /\ i = j
  BY <1>2 DEF Keys
<1>3. QED
  BY <1>1, <1>2

\* The names below a run's: a sub-runtime is below what its parent is below.
LEMMA PrefixFacts ==
  ASSUME NEW p \in Keys, NEW i \in Nat, NEW e \in Keys
  PROVE  /\ IsPrefix(p, Append(p, i))
         /\ IsPrefix(e, p) => IsPrefix(e, Append(p, i)) /\ Append(p, i) # e
         /\ IsPrefix(e, Append(p, i)) /\ Len(p) + 1 = Len(e) + 1 => p = e
BY SeqFacts DEF Keys, IsPrefix


\* The runs gone go away, the runs new come in, e changes and the others
\* keep what is said of them.
Moves(e, gone, new) ==
  /\ e \notin gone /\ new \subseteq Keys /\ new \cap DOMAIN run = {}
  /\ DOMAIN run' = (DOMAIN run \ gone) \cup new
  /\ Good(run'[e]) /\ Follows(run[e], run'[e]) /\ Top(e, run'[e], ckpt')
  /\ \A c \in DOMAIN run \ (gone \cup {e}) :
       Good(run'[c]) /\ Follows(run[c], run'[c]) /\ Still(run[c], run'[c])
  /\ \A c \in new : Good(run'[c]) /\ Top(c, run'[c], ckpt') /\ Awaited(c)'

\* No run stays behind whose parent goes away, or that e no longer waits for.
NoOrphan(e, gone) ==
  /\ \A p \in gone \cap DOMAIN run, i \in Nat : Append(p, i) \notin DOMAIN run \ gone
  /\ \A i \in Nat : Append(e, i) \in DOMAIN run \ gone =>
       run'[e].pc = "wait" /\ run'[e].node = run[e].node /\ run'[e].item = run[e].item

\* What a step has to show of the runs it changes, removes and adds.
LEMMA RunsMove ==
  ASSUME IInv, CkptStep, NEW e \in DOMAIN run, NEW gone, NEW new,
         Moves(e, gone, new), NoOrphan(e, gone)
  PROVE  Sound
<1>1. DOMAIN run' \subseteq Keys
  BY DEF IInv, Moves
<1>2. ASSUME NEW c \in DOMAIN run' PROVE Good(run'[c]) /\ Top(c, run'[c], ckpt')
  <2>1. CASE c \in new \/ c = e
    BY <2>1 DEF Moves
  <2>2. CASE c \notin new /\ c # e
    <3>1. c \in DOMAIN run \ (gone \cup {e})
      BY <1>2, <2>2 DEF Moves
    <3>2. Good(run'[c]) /\ Follows(run[c], run'[c]) /\ Still(run[c], run'[c]) /\ Top(c, run[c], ckpt)
      BY <3>1 DEF Moves, IInv
    <3>3. QED
      BY <3>2 DEF Top, Follows, Still, CkptStep
  <2>3. QED
    BY <2>1, <2>2
<1>3. ASSUME NEW c \in DOMAIN run' PROVE Awaited(c)'
  <2>1. CASE c \in new
    BY <2>1 DEF Moves
  <2>2. CASE c \notin new
    <3>1. c \in DOMAIN run \ gone /\ Awaited(c)
      BY <1>3, <2>2 DEF Moves, IInv
    <3>2. CASE Len(c) = 1
      BY <3>2 DEF Awaited
    <3>3. CASE Len(c) # 1
      <4>1. PICK p \in DOMAIN run, i \in Nat :
              /\ c = Append(p, i) /\ run[p].pc = "wait"
              /\ run[p].g.kind[run[p].node] = "iteration" => i = run[p].item + 1
        BY <3>1, <3>3 DEF Awaited
      <4>2. p \notin gone
        BY <3>1, <4>1 DEF NoOrphan
      <4>3. p \in DOMAIN run'
        BY <4>2 DEF Moves
      <4>4. run'[p].pc = "wait" /\ run'[p].node = run[p].node /\ run'[p].item = run[p].item
            /\ run'[p].g = run[p].g
        <5>1. CASE p = e
          BY <5>1, <3>1, <4>1 DEF NoOrphan, Moves, Follows
        <5>2. CASE p # e
          BY <5>2, <4>1, <4>2 DEF Moves, Follows, Still
        <5>3. QED
          BY <5>1, <5>2
      <4>5. QED
        BY <4>1, <4>3, <4>4 DEF Awaited
    <3>4. QED
      BY <3>2, <3>3
  <2>3. QED
    BY <2>1, <2>2
<1>4. StepOK
  <2>1. ASSUME NEW c \in Stay PROVE Follows(run[c], run'[c])
    <3>1. c \notin new
      BY <2>1 DEF Stay, Moves
    <3>2. c \in DOMAIN run \ gone
      BY <2>1, <3>1 DEF Stay, Moves
    <3>3. QED
      BY <3>2 DEF Moves
  <2>2. QED
    BY <2>1 DEF StepOK
<1>5. QED
  BY <1>1, <1>2, <1>3, <1>4 DEF IInv, Sound, CkptStep


-----------------------------------------------------------------------------
(* The ways in which a step changes the runs.                              *)

\* A run goes on as q.
LEMMA BecomesSound ==
  ASSUME IInv, CkptStep, NEW e \in DOMAIN run, NEW q, Becomes(e, q),
         Good(q), Follows(run[e], q), Top(e, q, ckpt'),
         run[e].pc = "wait" => Still(run[e], q)
  PROVE  Sound
<1>1. DOMAIN run' = DOMAIN run /\ run'[e] = q /\ \A c \in DOMAIN run \ {e} : run'[c] = run[c]
  BY DEF Becomes
<1>2. ASSUME NEW r PROVE Still(r, r) /\ Follows(r, r)
  BY DEF Still, Follows, SymDiff
<1>3. Moves(e, {}, {})
  BY <1>1, <1>2 DEF Moves, IInv
<1>4. NoOrphan(e, {})
  <2>1. ASSUME NEW i \in Nat, Append(e, i) \in DOMAIN run PROVE run[e].pc = "wait"
    <3>1. Awaited(Append(e, i)) /\ DOMAIN run \subseteq Keys
      BY <2>1 DEF IInv
    <3>2. Len(Append(e, i)) # 1
      BY <3>1, SeqFacts DEF IInv
    <3>3. PICK p \in DOMAIN run, j \in Nat : Append(e, i) = Append(p, j) /\ run[p].pc = "wait"
      BY <3>1, <3>2 DEF Awaited
    <3>4. e \in Keys /\ p \in Keys
      BY <3>1
    <3>5. e = p
      BY <2>1, <3>3, <3>4, SeqFacts, Zenon
    <3>6. QED
      BY <3>3, <3>5
  <2>2. QED
    BY <2>1, <1>1 DEF NoOrphan, Still
<1>5. QED
  BY <1>3, <1>4, RunsMove

\* A run whose pending futures are reaped stays where it is.
LEMMA ReapedGood ==
  ASSUME NEW r, Good(r)
  PROVE  Good(Reaped(r)) /\ Follows(r, Reaped(r)) /\ Still(r, Reaped(r))
         /\ Reaped(r).ask.fut # "waiting"
<1>1. Shape(Reaped(r))
  BY DEF Good, Shape, Reaped, Fields
<1>2. QED
  BY <1>1 DEF Good, Shape, Fields, Reaped, HopsPaid, Hops, MayCall, FutureOK, AtNode, AsksToRead, Stopping, Follows, Still, SymDiff, Asks3

\* What a run that ends as q owes to the run r it was.
Closes(r, q) ==
  /\ Shape(q) /\ q.hops <= q.iter /\ q.hops <= MaxIter
  /\ q.ask = r.ask /\ q.out = r.out /\ Follows(r, q)

\* The run that ended as q.
Closed(q, outcome) == Reaped([q EXCEPT !.pc = "done", !.out = outcome])

\* A run that ends (the `complete' or `error' event, or a pause) is left well.
LEMMA ClosedGood ==
  ASSUME NEW r, Good(r), NEW q, Closes(r, q), NEW outcome
  PROVE  /\ Good(Closed(q, outcome)) /\ Follows(r, Closed(q, outcome))
         /\ Closed(q, outcome).pc = "done" /\ Closed(q, outcome).out = outcome
<1> DEFINE y == Closed(q, outcome)
<1>1. /\ Shape(y) /\ y.pc = "done" /\ y.out = outcome /\ y.hops = q.hops /\ y.iter = q.iter
      /\ y.g = q.g /\ y.sess = q.sess /\ y.did = q.did /\ y.node = q.node
      /\ y.ask.status = q.ask.status
      /\ y.ask.fut = IF q.ask.fut = "waiting" THEN "cancelled" ELSE q.ask.fut
  BY DEF Closes, Shape, Fields, Closed, Reaped
<1>2. Follows(r, y)
  BY <1>1 DEF Closes, Follows
<1> HIDE DEF y
<1>3. HopsPaid(y) /\ AtNode(y) /\ AsksToRead(y) /\ Stopping(y)
  BY <1>1 DEF Closes, Shape, HopsPaid, Hops, MayCall, AtNode, AsksToRead, Stopping
<1>4. FutureOK(y)
  BY <1>1 DEF Closes, Good, FutureOK, Asks3
<1>5. QED
  BY <1>1, <1>2, <1>3, <1>4 DEF Good, y

\* A run ends, with its sub-runtimes.
LEMMA EndsSound ==
  ASSUME IInv, CkptStep, NEW e \in DOMAIN run, NEW q, NEW outcome, Ends(e, q, outcome),
         Closes(run[e], q),
         outcome = "paused" /\ Len(e) = 1 => <<q.g.name, q.sess>> \in DOMAIN ckpt'
  PROVE  Sound
<1> DEFINE gone == Tree(e) \ {e}
           y == Closed(q, outcome)
<1>1. /\ DOMAIN run' = DOMAIN run \ gone
      /\ run'[e] = y
      /\ \A c \in DOMAIN run \ (gone \cup {e}) : run'[c] = Reaped(run[c]) \/ run'[c] = run[c]
  BY DEF Ends, Closed
<1>2. Good(y) /\ Follows(run[e], y) /\ y.pc = "done" /\ y.out = outcome
  <2>1. Good(run[e])
    BY DEF IInv
  <2>2. /\ Good(Closed(q, outcome)) /\ Follows(run[e], Closed(q, outcome))
        /\ Closed(q, outcome).pc = "done" /\ Closed(q, outcome).out = outcome
    BY <2>1, ClosedGood
  <2>3. QED
    BY <2>2 DEF y
<1> HIDE DEF y
<1>3. ASSUME NEW c \in DOMAIN run \ (gone \cup {e})
      PROVE  Good(run'[c]) /\ Follows(run[c], run'[c]) /\ Still(run[c], run'[c])
  <2>1. Good(run[c]) /\ Still(run[c], run[c]) /\ Follows(run[c], run[c])
    BY DEF IInv, Still, Follows, SymDiff
  <2>2. QED
    BY <1>1, <2>1, ReapedGood
<1>4. Top(e, y, ckpt')
  BY <1>2 DEF IInv, Top, Closes, Follows
<1>5. Moves(e, gone, {})
  BY <1>1, <1>2, <1>3, <1>4 DEF Moves
<1>6. NoOrphan(e, gone)
  <2>1. ASSUME NEW p \in gone \cup {e}, NEW i \in Nat, Append(p, i) \in DOMAIN run
        PROVE  Append(p, i) \in gone
    <3>1. p \in Keys /\ e \in Keys /\ IsPrefix(e, p)
      <4>1. CASE p \in gone
        BY <4>1 DEF Tree, IInv
      <4>2. CASE p = e
        BY <4>2 DEF IInv, IsPrefix
      <4>3. QED
        BY <4>1, <4>2
    <3>2. IsPrefix(e, Append(p, i)) /\ Append(p, i) # e
      BY <3>1, PrefixFacts
    <3>3. QED
      BY <2>1, <3>2 DEF Tree
  <2>2. QED
    BY <2>1 DEF NoOrphan
<1>7. QED
  BY <1>5, <1>6, RunsMove


\* Sub-runtimes are named after the run that waits for them.
LEMMA ChildIs ==
  ASSUME IInv, NEW e \in DOMAIN run, NEW c \in Children(e)
  PROVE  \E i \in Nat : /\ c = Append(e, i) /\ run[e].pc = "wait"
                        /\ run[e].g.kind[run[e].node] = "iteration" => i = run[e].item + 1
<1>1. c \in DOMAIN run /\ Len(c) = Len(e) + 1 /\ IsPrefix(e, c) /\ Awaited(c)
  BY DEF Children, IInv
<1>2. e \in Keys /\ c \in Keys /\ DOMAIN run \subseteq Keys
  BY <1>1 DEF IInv
<1>3. Len(c) # 1
  BY <1>1, <1>2, SeqFacts
<1>4. PICK p \in DOMAIN run, i \in Nat :
        /\ c = Append(p, i) /\ run[p].pc = "wait"
        /\ run[p].g.kind[run[p].node] = "iteration" => i = run[p].item + 1
  BY <1>1, <1>3 DEF Awaited
<1>5. Len(p) + 1 = Len(e) + 1
  BY <1>1, <1>2, <1>4, SeqFacts
<1>6. p = e
  BY <1>1, <1>2, <1>4, <1>5, PrefixFacts
<1>7. QED
  BY <1>4, <1>6

\* A run that waits for nobody has no sub-runtime.
LEMMA Childless ==
  ASSUME IInv, NEW e \in DOMAIN run, run[e].pc # "wait"
  PROVE  Children(e) = {} /\ \A i \in Nat : Append(e, i) \notin DOMAIN run
<1>1. Children(e) = {}
  BY ChildIs
<1>2. ASSUME NEW i \in Nat, Append(e, i) \in DOMAIN run PROVE FALSE
  <2>1. e \in Keys
    BY DEF IInv
  <2>2. Append(e, i) \in Children(e)
    BY <1>2, <2>1, SeqFacts, PrefixFacts DEF Children
  <2>3. QED
    BY <1>1, <2>2
<1>3. QED
  BY <1>1, <1>2

\* Nobody waits for the sub-runtimes of sub-runtimes that have ended.
LEMMA EndedChildren ==
  ASSUME IInv, NEW e \in DOMAIN run, \A c \in Children(e) : ~Live(c)
  PROVE  NoOrphan(e, Children(e))
<1>1. ASSUME NEW p \in Children(e), NEW i \in Nat PROVE Append(p, i) \notin DOMAIN run
  <2>1. p \in DOMAIN run /\ run[p].pc # "wait"
    BY <1>1 DEF Live, Children
  <2>2. QED
    BY <1>1, <2>1, Childless
<1>2. ASSUME NEW i \in Nat, Append(e, i) \in DOMAIN run PROVE Append(e, i) \in Children(e)
  <2>1. e \in Keys
    BY DEF IInv
  <2>2. QED
    BY <1>2, <2>1, SeqFacts, PrefixFacts DEF Children
<1>3. QED
  BY <1>1, <1>2 DEF NoOrphan

\* A run is not among its own sub-runtimes.
LEMMA NotOwnChild ==
  ASSUME IInv, NEW e \in DOMAIN run
  PROVE  e \notin Children(e) /\ \A i \in Nat : e # Append(e, i)
<1>1. e \in Keys
  BY DEF IInv
<1>2. QED
  BY <1>1, SeqFacts DEF Children

\* The sub-runtimes of e have ended and e goes on as q.
LEMMA JoinsSound ==
  ASSUME IInv, CkptStep, NEW e \in DOMAIN run, NEW q, Joins(e, q),
         \A c \in Children(e) : ~Live(c),
         Good(q), Follows(run[e], q), Top(e, q, ckpt')
  PROVE  Sound
<1>1. /\ DOMAIN run' = DOMAIN run \ Children(e) /\ run'[e] = q
      /\ \A c \in DOMAIN run \ (Children(e) \cup {e}) : run'[c] = run[c]
  BY NotOwnChild DEF Joins
<1>2. ASSUME NEW r PROVE Still(r, r) /\ Follows(r, r)
  BY DEF Still, Follows, SymDiff
<1>3. Moves(e, Children(e), {})
  BY <1>1, <1>2, NotOwnChild DEF Moves, IInv
<1>4. QED
  BY <1>3, EndedChildren, RunsMove

\* Run e waits for one more sub-runtime.
LEMMA SproutSound ==
  ASSUME IInv, CkptStep, NEW e \in DOMAIN run, NEW r, NEW child, Sprout(e, r, child),
         \A c \in Children(e) : ~Live(c),
         Shape(r), Good([r EXCEPT !.pc = "wait"]), Follows(run[e], [r EXCEPT !.pc = "wait"]),
         Top(e, [r EXCEPT !.pc = "wait"], ckpt'), Good(child),
         \/ run[e].pc # "wait"
         \/ run[e].g.kind[run[e].node] = "iteration" /\ r.item # run[e].item
  PROVE  Sound
<1> DEFINE q == [r EXCEPT !.pc = "wait"]
           n == Append(e, r.item + 1)
<1>1. /\ r.item \in Nat /\ r.item + 1 \in Nat
      /\ q.pc = "wait" /\ q.item = r.item /\ q.node = r.node /\ q.g = r.g
  BY DEF Shape, Fields
<1>2. e \in Keys
  BY DEF IInv
<1>3. n \in Keys /\ e # n /\ Len(n) # 1
  <2>1. n \in Keys /\ Len(n) = Len(e) + 1 /\ Len(e) \in Nat \ {0}
    BY <1>1, <1>2, SeqFacts
  <2>2. e # n
    BY <2>1
  <2>3. QED
    BY <2>1, <2>2
<1>4. n \notin DOMAIN run
  <2>1. ASSUME n \in DOMAIN run, run[e].pc = "wait" PROVE FALSE
    <3>1. n \in Children(e)
      BY <1>1, <1>2, <2>1, SeqFacts, PrefixFacts DEF Children
    <3>2. PICK i \in Nat : n = Append(e, i) /\ i = run[e].item + 1
      BY <2>1, <3>1, ChildIs
    <3>3. i = r.item + 1
      BY <1>1, <1>2, <3>2, SeqFacts
    <3>4. run[e].item \in Nat
      BY DEF IInv, Good, Shape
    <3>5. QED
      BY <1>1, <2>1, <3>2, <3>3, <3>4
  <2>2. QED
    BY <1>1, <2>1, Childless
<1> HIDE DEF q, n
<1>5. /\ DOMAIN run' = (DOMAIN run \ Children(e)) \cup {n}
      /\ run'[e] = q /\ run'[n] = child
      /\ \A c \in DOMAIN run \ (Children(e) \cup {e}) : run'[c] = run[c]
  BY <1>3, <1>4, NotOwnChild DEF Sprout, q, n
<1>6. ASSUME NEW s PROVE Still(s, s) /\ Follows(s, s)
  BY DEF Still, Follows, SymDiff
<1>7. Awaited(n)'
  BY <1>1, <1>5, NotOwnChild DEF Awaited, n
<1>8. Moves(e, Children(e), {n})
  BY <1>3, <1>4, <1>5, <1>6, <1>7, NotOwnChild DEF Moves, IInv, Top, q
<1>9. QED
  BY <1>8, EndedChildren, RunsMove


\* Run e waits for several sub-runtimes at once.
LEMMA ForksSound ==
  ASSUME IInv, CkptStep, NEW e \in DOMAIN run, run[e].pc # "wait",
         NEW q, Good(q), Follows(run[e], q), Top(e, q, ckpt'),
         q.pc = "wait", q.g.kind[q.node] # "iteration",
         NEW new, DOMAIN run' = DOMAIN run \cup new,
         \A c \in new : Good(run'[c]) /\ \E i \in Nat : c = Append(e, i),
         \A c \in DOMAIN run \ new : run'[c] = IF c = e THEN q ELSE run[c]
  PROVE  Sound
<1>1. e \in Keys
  BY DEF IInv
<1>2. ASSUME NEW c \in new
      PROVE  /\ c \in Keys /\ c \notin DOMAIN run /\ c # e /\ Len(c) # 1
             /\ \E i \in Nat : c = Append(e, i)
  <2>1. PICK i \in Nat : c = Append(e, i)
    OBVIOUS
  <2>2. c \in Keys /\ Len(c) = Len(e) + 1 /\ Len(e) \in Nat \ {0}
    BY <1>1, <2>1, SeqFacts
  <2>3. c \notin DOMAIN run
    BY <2>1, Childless
  <2>4. QED
    BY <2>1, <2>2, <2>3
<1>3. run'[e] = q /\ \A c \in DOMAIN run \ {e} : run'[c] = run[c]
  BY <1>2
<1>4. ASSUME NEW s PROVE Still(s, s) /\ Follows(s, s)
  BY DEF Still, Follows, SymDiff
<1>5. ASSUME NEW c \in new PROVE Awaited(c)'
  BY <1>2, <1>3 DEF Awaited
<1>6. Moves(e, {}, new)
  BY <1>2, <1>3, <1>4, <1>5 DEF Moves, IInv, Top
<1>7. NoOrphan(e, {})
  BY Childless, <1>2, <1>1, SeqFacts DEF NoOrphan
<1>8. QED
  BY <1>6, <1>7, RunsMove

\* An execution starts as q.
LEMMA StartsSound ==
  ASSUME IInv, CkptStep, NEW r \in Roots, <<r>> \notin DOMAIN run,
         NEW q, run' = With(run, <<r>>, q), Good(q), Top(<<r>>, q, ckpt')
  PROVE  Sound
<1> DEFINE e == <<r>>
<1>1. e \in Keys /\ Len(e) = 1
  BY DEF Keys
<1> HIDE DEF e
<1>2. /\ DOMAIN run' = DOMAIN run \cup {e} /\ run'[e] = q
      /\ \A c \in DOMAIN run : run'[c] = run[c]
  BY DEF With, e
<1>3. ASSUME NEW c \in DOMAIN run' PROVE Good(run'[c]) /\ Top(c, run'[c], ckpt')
  BY <1>2 DEF IInv, Top, CkptStep, e
<1>4. ASSUME NEW c \in DOMAIN run' PROVE Awaited(c)'
  BY <1>1, <1>2 DEF IInv, Awaited
<1>5. ASSUME NEW c \in Stay PROVE Follows(run[c], run'[c])
  BY <1>2 DEF Stay, Follows, SymDiff
<1>6. QED
  BY <1>1, <1>2, <1>3, <1>4, <1>5 DEF Sound, IInv, StepOK, CkptStep

\* A run is good at its entry, restored from a checkpoint or not.
LEMMA EnteredGood ==
  ASSUME NEW g, NEW s, NEW plan, NEW values
  PROVE  LET q == Entered(g, s, plan, values) IN
         Good(q) /\ q.pc # "human" /\ q.out # "paused" /\ q.g = g
BY BoundsAssumption DEF Entered, Good, Shape, Fields, NoAsk, HopsPaid, Hops, MayCall, FutureOK, Asks3,
  AtNode, AsksToRead, Stopping

\* A run restored from a checkpoint starts well.
LEMMA RestoredGood ==
  ASSUME NEW c, c.iter \in Nat, NEW f, NEW s, NEW answers
  PROVE  LET q == Restored(c, f, s, answers) IN
         Good(q) /\ q.pc # "human" /\ q.out # "paused" /\ q.g = GraphOf[f]
BY BoundsAssumption DEF Restored, Entered, Good, Shape, Fields, NoAsk, HopsPaid, Hops, MayCall,
  FutureOK, Asks3, AtNode, AsksToRead, Stopping

\* Checkpoints are only added.
LEMMA SavedStep ==
  ASSUME IInv, NEW r, Shape(r), ckpt' = Saved(r) \/ ckpt' = AutoSaved(r) \/ UNCHANGED ckpt
  PROVE  CkptStep
BY DEF IInv, CkptOK, CkptStep, Saved, AutoSaved, With, Shape


-----------------------------------------------------------------------------
(* The run that a step goes on with.                                       *)

\* q is r a little later: nothing was asked for, run or called in between.
Quiet(r, q) ==
  /\ Shape(q) /\ q.g = r.g /\ q.sess = r.sess /\ q.out = r.out /\ q.ask = r.ask
  /\ q.did = r.did /\ q.bad = r.bad /\ q.hops = r.hops /\ q.iter >= r.iter

\* The tools of a run that stops on errors have not failed.
Unfailed(r) == ~(r.bad /\ r.g.stop)

\* What leaves a run's record quiet still allows it to end.
LEMMA QuietCloses ==
  ASSUME NEW r, NEW x, NEW q, Shape(x), Closes(r, x), Quiet(x, q), Unfailed(r) \/ q.node = x.node
  PROVE  Closes(r, q)
BY DEF Closes, Quiet, Follows, Shape, Unfailed

\* Two quiet changes are one.
LEMMA QuietTrans ==
  ASSUME NEW r, NEW x, NEW q, Shape(r), Quiet(r, x), Quiet(x, q)
  PROVE  Quiet(r, q)
BY DEF Quiet, Shape

\* A run may end as it is.
LEMMA SelfCloses ==
  ASSUME NEW r, Good(r) PROVE Closes(r, r) /\ Quiet(r, r)
<1>1. r.hops <= r.iter /\ r.hops <= MaxIter
  BY BoundsAssumption DEF Good, HopsPaid, Hops, Shape
<1>2. QED
  BY <1>1 DEF Good, Closes, Quiet, Follows, SymDiff, Shape

\* Counting the visit of a node (ctx.iteration_count) runs no tool.
LEMMA VisitQuiet ==
  ASSUME NEW r, Shape(r)
  PROVE  Quiet(r, Visit(r)) /\ Visit(r).node = r.node /\ Visit(r).pc = r.pc
         /\ Visit(r).home = r.home /\ Visit(r).phase = r.phase /\ Visit(r).iter = r.iter + 1
BY DEF Quiet, Visit, Shape, Fields

\* Going to a node runs no tool.
LEMMA GotoQuiet ==
  ASSUME NEW r, Shape(r), NEW n
  PROVE  Quiet(r, Goto(r, n)) /\ Goto(r, n).pc = "node"
<1> DEFINE q == Goto(r, n)
<1>1. DOMAIN q = Fields
  BY DEF Goto, Shape, Fields
<1>2. /\ q.g = r.g /\ q.sess = r.sess /\ q.out = r.out /\ q.ask = r.ask
      /\ q.did = r.did /\ q.bad = r.bad /\ q.hops = r.hops
  BY DEF Goto, Shape, Fields
<1>3. q.iter = r.iter /\ q.item = 0 /\ q.pc = "node"
  BY DEF Goto, Shape, Fields
<1> HIDE DEF q
<1>4. QED
  BY <1>1, <1>2, <1>3 DEF Quiet, Shape, q

\* Going to the next node runs no tool.
LEMMA AdvanceQuiet ==
  ASSUME NEW r, Shape(r)
  PROVE  Quiet(r, Advance(r)) /\ Advance(r).pc = "node"
BY GotoQuiet DEF Advance

\* The head of an LLM hop counts at most one visit.
LEMMA BegunQuiet ==
  ASSUME NEW r, Shape(r)
  PROVE  Quiet(r, Begun(r)) /\ Begun(r).node = r.node /\ Begun(r).home = r.home
         /\ Begun(r).plan = r.plan /\ Begun(r).pc = r.pc
         /\ Begun(r).iter = IF r.pc = "node" THEN r.iter + 1 ELSE r.iter
BY DEF Quiet, Begun, Visit, Shape, Fields

\* What a run says or blames concerns the handlers only.
LEMMA BlamesQuiet ==
  ASSUME NEW r, Shape(r), NEW n
  PROVE  LET q == Blames(r, n) IN
         /\ Quiet(r, q) /\ q.node = r.node /\ q.pc = r.pc /\ q.home = r.home /\ q.phase = r.phase
         /\ q.calls = r.calls /\ q.failed = r.failed /\ q.plan = r.plan /\ q.iter = r.iter
         /\ q.item = r.item
BY DEF Quiet, Blames, Shape, Fields

\* A reply of the model runs no tool yet.
LEMMA SpeaksQuiet ==
  ASSUME NEW r, Shape(r), NEW what
  PROVE  LET q == Speaks(r, what) IN
         /\ Quiet(r, q) /\ q.node = r.node /\ q.pc = r.pc /\ q.home = r.home /\ q.phase = r.phase
         /\ q.calls = r.calls /\ q.failed = r.failed /\ q.plan = r.plan /\ q.iter = r.iter
BY DEF Quiet, Speaks, Blames, Shape, Fields

\* The end of an attempt to repair goes to a node or to another retry.
LEMMA AttemptQuiet ==
  ASSUME NEW r, Shape(r), r.home # NoNode
  PROVE  LET q == AttemptEnds(r) IN
         Quiet(r, q) /\ (q.pc = "node" \/ (q.pc = "retry" /\ q.home # NoNode))
<1>1. CASE r.err /\ r.attempt < Retries[r.home]
  BY <1>1 DEF AttemptEnds, Quiet, Shape, Fields
<1>2. CASE ~(r.err /\ r.attempt < Retries[r.home])
  <2> DEFINE x == [r EXCEPT !.node = r.home, !.home = NoNode, !.attempt = 0]
  <2>1. Shape(x) /\ Quiet(r, x)
    BY DEF Quiet, Shape, Fields
  <2>2. AttemptEnds(r) = Advance(x)
    BY <1>2 DEF AttemptEnds
  <2> HIDE DEF x
  <2>3. Quiet(x, Advance(x)) /\ Advance(x).pc = "node"
    BY <2>1, AdvanceQuiet
  <2>4. QED
    BY <2>1, <2>2, <2>3, QuietTrans
<1>3. QED
  BY <1>1, <1>2


\* Where no reply of the model is being answered nothing has failed.
LEMMA UnfailedAt ==
  ASSUME NEW r, Good(r), r.pc \notin {"tools", "ask_call", "wait", "done"}
  PROVE  Unfailed(r)
BY DEF Good, Stopping, Unfailed

\* A run that has heard the answer, or asks nothing, has no pending future.
LEMMA HeardAt ==
  ASSUME NEW r, Good(r), r.pc \notin Asks3 \/ Granted(r) \/ Refused(r)
  PROVE  r.ask.fut # "waiting"
BY DEF Good, FutureOK, Granted, Refused

Idle(q) == /\ q.pc \in {"node", "retry", "out", "plan", "human"}
           /\ q.pc = "retry" => q.home # NoNode

\* A run that is left at rest, with no error pending, is left well.
LEMMA IdleGood ==
  ASSUME NEW r, Good(r), NEW q, Closes(r, q), Idle(q), Unfailed(q), q.ask.fut # "waiting"
  PROVE  Good(q)
BY DEF Good, Closes, Idle, Unfailed, Shape, HopsPaid, Hops, MayCall, FutureOK, AtNode, Asks3,
  AsksToRead, Stopping

\* An execution that goes on is still of its saved graph.
LEMMA TopKept ==
  ASSUME IInv, CkptStep, NEW e \in DOMAIN run, NEW q, Closes(run[e], q), q.pc # "human"
  PROVE  Top(e, q, ckpt')
BY DEF IInv, Top, CkptStep, Closes, Follows

\* A run goes on to another node, or waits for no approval.
LEMMA GoesOnSound ==
  ASSUME IInv, CkptStep, NEW e \in DOMAIN run, NEW q, Becomes(e, q), Closes(run[e], q),
         run[e].pc # "wait", Idle(q), q.pc # "human", Unfailed(q), q.ask.fut # "waiting"
  PROVE  Sound
<1>1. Good(run[e])
  BY DEF IInv
<1>2. Good(q) /\ Follows(run[e], q)
  BY <1>1, IdleGood DEF Closes
<1>3. Top(e, q, ckpt')
  BY TopKept
<1>4. QED
  BY <1>2, <1>3, BecomesSound

\* The error of a node.
LEMMA FailsSound ==
  ASSUME IInv, CkptStep, NEW e \in DOMAIN run, NEW q, Fails(e, q), Closes(run[e], q),
         run[e].pc # "wait", q.home # NoNode => Unfailed(run[e]) /\ Unfailed(q),
         q.ask.fut # "waiting"
  PROVE  Sound
<1>1. CASE q.home = NoNode
  BY <1>1, EndsSound DEF Fails
<1>2. CASE q.home # NoNode
  <2> DEFINE x == [q EXCEPT !.err = TRUE]
             y == AttemptEnds(x)
  <2>1. Shape(q)
    BY DEF Closes
  <2>2. Shape(x) /\ Quiet(q, x) /\ x.home = q.home /\ x.node = q.node
    BY <2>1 DEF Quiet, Shape, Fields
  <2>3. Becomes(e, y)
    BY <1>2 DEF Fails
  <2> HIDE DEF x
  <2>4. Quiet(x, y) /\ (y.pc = "node" \/ (y.pc = "retry" /\ y.home # NoNode))
    BY <1>2, <2>2, AttemptQuiet
  <2> HIDE DEF y
  <2>5. Quiet(q, y)
    BY <2>1, <2>2, <2>4, QuietTrans
  <2>6. Closes(run[e], y)
    BY <1>2, <2>1, <2>5, QuietCloses
  <2>7. Idle(y) /\ y.pc # "human" /\ Unfailed(y) /\ y.ask.fut # "waiting"
    BY <1>2, <2>4, <2>5 DEF Idle, Quiet, Unfailed
  <2>8. QED
    BY <2>3, <2>6, <2>7, GoesOnSound
<1>3. QED
  BY <1>1, <1>2

\* A run ends where it is.
LEMMA StopsSound ==
  ASSUME IInv, UNCHANGED ckpt, NEW e \in DOMAIN run, NEW outcome, Ends(e, run[e], outcome),
         outcome # "paused"
  PROVE  Sound
<1>1. CkptStep
  BY DEF IInv, CkptStep, CkptOK
<1>2. Closes(run[e], run[e])
  BY SelfCloses DEF IInv
<1>3. QED
  BY <1>1, <1>2, EndsSound


-----------------------------------------------------------------------------
(* Calls of the model.                                                     *)

\* The iteration is counted that a hop of the node is paid with.
Pays(q) == q.home = NoNode /\ q.phase = "main" => q.hops < q.iter /\ q.hops < MaxIter

\* A run goes on as q, with the node of the model.
LEMMA AtModelGood ==
  ASSUME NEW r, Good(r), NEW q, Closes(r, q), q.g.kind[q.node] \in LlmKinds,
         q.pc \in {"tools", "reply", "again"}, q.pc # "tools" => Pays(q),
         q.pc = "tools" \/ Unfailed(q), Stopping(q), q.ask.fut # "waiting"
  PROVE  Good(q)
<1>1. HopsPaid(q)
  BY BoundsAssumption DEF Closes, Pays, HopsPaid, Hops, MayCall, Shape
<1>2. FutureOK(q)
  BY DEF Good, Closes, FutureOK, Asks3
<1>3. AtNode(q) /\ AsksToRead(q)
  BY DEF AtNode, AsksToRead
<1>4. QED
  BY <1>1, <1>2, <1>3 DEF Good, Closes

\* A model call that has been paid for.
LEMMA CallsModelSound ==
  ASSUME IInv, NEW e \in DOMAIN run, NEW q, CallsModel(e, q), Closes(run[e], q),
         run[e].pc # "wait", Unfailed(run[e]), Unfailed(q), q.ask.fut # "waiting",
         q.g.kind[q.node] \in LlmKinds, Pays(q)
  PROVE  Sound
<1>0. CkptStep
  BY DEF IInv, CkptStep, CkptOK, CallsModel
<1>1. Shape(q) /\ Good(run[e])
  BY DEF Closes, IInv
<1>2. CASE Fails(e, q)
  BY <1>0, <1>2, FailsSound
<1>3. CASE Becomes(e, [q EXCEPT !.pc = "reply"])
  <2> DEFINE x == [q EXCEPT !.pc = "reply"]
  <2>1. Quiet(q, x) /\ x.node = q.node /\ x.home = q.home /\ x.phase = q.phase /\ x.iter = q.iter
        /\ x.pc = "reply"
    BY <1>1 DEF Quiet, Shape, Fields
  <2> HIDE DEF x
  <2>2. Closes(run[e], x) /\ Pays(x) /\ Stopping(x) /\ Unfailed(x) /\ x.ask.fut # "waiting"
    BY <1>1, <2>1, QuietCloses DEF Quiet, Pays, Stopping, Unfailed
  <2>3. x.g.kind[x.node] \in LlmKinds
    BY <2>1 DEF Quiet
  <2>4. Good(x)
    BY <1>1, <2>1, <2>2, <2>3, AtModelGood
  <2>5. Top(e, x, ckpt')
    BY <1>0, <2>1, <2>2, TopKept
  <2>6. QED
    BY <1>0, <1>3, <2>2, <2>4, <2>5, BecomesSound DEF Closes, x
<1>4. CASE Becomes(e, Asks(q, "ask_model"))
  <2> DEFINE x == Asks(q, "ask_model")
  <2>1. /\ Shape(x) /\ x.node = q.node /\ x.home = q.home /\ x.phase = q.phase /\ x.iter = q.iter
        /\ x.pc = "ask_model" /\ x.hops = q.hops /\ x.g = q.g /\ x.sess = q.sess
        /\ x.did = q.did /\ x.bad = q.bad /\ x.out = q.out
        /\ x.ask.status = "pending" /\ x.ask.fut = "waiting"
    BY <1>1 DEF Shape, Fields, Asks
  <2> HIDE DEF x
  <2>2. HopsPaid(x)
    BY <1>1, <2>1, BoundsAssumption DEF Closes, Pays, HopsPaid, Hops, MayCall, Shape
  <2>3. FutureOK(x) /\ AsksToRead(x)
    BY <2>1 DEF FutureOK, AsksToRead, Asks3
  <2>4. AtNode(x) /\ Stopping(x)
    BY <2>1 DEF AtNode, Stopping, Unfailed
  <2>5. Follows(run[e], x)
    BY <2>1 DEF Closes, Follows
  <2>6. Top(e, x, ckpt')
    BY <1>0, <2>1 DEF IInv, Top, CkptStep, Closes, Follows
  <2>7. QED
    BY <1>0, <1>4, <2>1, <2>2, <2>3, <2>4, <2>5, <2>6, BecomesSound DEF Good, x
<1>5. QED
  BY <1>2, <1>3, <1>4 DEF CallsModel


\* Leaving a node runs no tool.
LEMMA LeaveQuiet ==
  ASSUME NEW r, Shape(r)
  PROVE  Quiet(r, Leave(r)) /\ Leave(r).pc = "node"
<1> DEFINE x == [r EXCEPT !.chain = 0]
<1>1. Shape(x) /\ Quiet(r, x)
  BY DEF Quiet, Shape, Fields
<1>2. Leave(r) = Goto(r, r.node) \/ Leave(r) = Advance(x)
  BY DEF Leave
<1> HIDE DEF x
<1>3. Quiet(x, Advance(x)) /\ Advance(x).pc = "node"
  BY <1>1, AdvanceQuiet
<1>4. Quiet(r, Advance(x))
  BY <1>1, <1>3, QuietTrans
<1>5. QED
  BY <1>2, <1>3, <1>4, GotoQuiet

\* The agent loop goes back to the model only below the cap.
LEMMA AfterQuiet ==
  ASSUME NEW r, Shape(r), r.home = NoNode, r.hops <= r.iter
  PROVE  LET q == After(r) IN
         /\ Quiet(r, q)
         /\ q.pc = "node" \/ (q.pc = "again" /\ q.node = r.node /\ Pays(q))
<1> DEFINE turn == [r EXCEPT !.iter = @ + 1]
           y == [turn EXCEPT !.chain = 0, !.loop = @ + 1, !.pc = "again", !.phase = "main",
                             !.tries = 0, !.failed = FALSE, !.calls = <<>>]
<1>1. Quiet(r, turn) /\ Shape(turn) /\ turn.node = r.node /\ turn.home = r.home
      /\ turn.iter = r.iter + 1
  BY DEF Quiet, Shape, Fields
<1>2. /\ After(r) = Leave(r) \/ After(r) = Leave(turn)
         \/ (After(r) = y /\ ~(turn.iter >= MaxIter))
  BY DEF After
<1> HIDE DEF turn
<1>3. /\ DOMAIN y = Fields /\ y.g = turn.g /\ y.sess = turn.sess /\ y.out = turn.out
      /\ y.ask = turn.ask /\ y.did = turn.did /\ y.bad = turn.bad /\ y.hops = turn.hops
      /\ y.iter = turn.iter /\ y.item = turn.item
      /\ y.pc = "again" /\ y.node = turn.node /\ y.home = turn.home
  BY <1>1 DEF Shape, Fields
<1> HIDE DEF y
<1>4. Quiet(r, y)
  BY <1>1, <1>3 DEF Quiet, Shape
<1>5. Quiet(r, Leave(r)) /\ Leave(r).pc = "node"
  BY LeaveQuiet
<1>6. Quiet(r, Leave(turn)) /\ Leave(turn).pc = "node"
  BY <1>1, LeaveQuiet, QuietTrans
<1>7. ASSUME ~(turn.iter >= MaxIter) PROVE Pays(y)
  <2>1. y.hops = r.hops /\ y.iter = r.iter + 1 /\ r.iter \in Nat /\ r.hops \in Nat /\ MaxIter \in Nat
    BY <1>1, <1>3, BoundsAssumption DEF Quiet, Shape
  <2>2. QED
    BY <1>1, <1>7, <2>1 DEF Pays
<1>8. QED
  BY <1>1, <1>2, <1>3, <1>4, <1>5, <1>6, <1>7

\* The end of an LLM hop: another hop of the agent loop, or the next node.
LEMMA EndHopSound ==
  ASSUME IInv, NEW e \in DOMAIN run, NEW q, EndHop(e, q), Closes(run[e], q),
         run[e].pc # "wait", Unfailed(run[e]), Unfailed(q), q.ask.fut # "waiting",
         q.g.kind[q.node] \in LlmKinds
  PROVE  Sound
<1>1. Shape(q) /\ Good(run[e])
  BY DEF Closes, IInv
<1>2. CkptStep
  BY <1>1, SavedStep DEF EndHop
<1>3. ASSUME NEW x, Quiet(q, x)
      PROVE  Closes(run[e], x) /\ Unfailed(x) /\ x.ask.fut # "waiting"
  BY <1>1, <1>3, QuietCloses DEF Quiet, Unfailed
<1>4. CASE q.home # NoNode
  <2>1. Becomes(e, AttemptEnds(q))
    BY <1>4 DEF EndHop
  <2>2. Quiet(q, AttemptEnds(q)) /\ Idle(AttemptEnds(q)) /\ AttemptEnds(q).pc # "human"
    BY <1>1, <1>4, AttemptQuiet DEF Idle
  <2>3. QED
    BY <1>2, <1>3, <2>1, <2>2, GoesOnSound
<1>5. CASE q.home = NoNode /\ Becomes(e, Advance(q))
  <2>1. Quiet(q, Advance(q)) /\ Idle(Advance(q)) /\ Advance(q).pc # "human"
    BY <1>1, AdvanceQuiet DEF Idle
  <2>2. QED
    BY <1>2, <1>3, <1>5, <2>1, GoesOnSound
<1>6. CASE Ends(e, q, "budget")
  BY <1>2, <1>6, EndsSound
<1>7. CASE q.home = NoNode /\ Becomes(e, After(q))
  <2> DEFINE y == After(q)
  <2>1. Quiet(q, y) /\ (y.pc = "node" \/ (y.pc = "again" /\ y.node = q.node /\ Pays(y)))
    BY <1>1, <1>7, AfterQuiet DEF Closes
  <2>2. Becomes(e, y)
    BY <1>7
  <2> HIDE DEF y
  <2>3. CASE y.pc = "node"
    BY <1>2, <1>3, <2>1, <2>2, <2>3, GoesOnSound DEF Idle
  <2>4. CASE y.pc = "again" /\ y.node = q.node /\ Pays(y)
    <3>1. y.g.kind[y.node] \in LlmKinds /\ Stopping(y)
      BY <1>3, <2>1, <2>4 DEF Quiet, Stopping, Unfailed
    <3>2. Good(y)
      BY <1>1, <1>3, <2>1, <2>4, <3>1, AtModelGood
    <3>3. Top(e, y, ckpt')
      BY <1>2, <1>3, <2>1, <2>4, TopKept
    <3>4. QED
      BY <1>2, <1>3, <2>1, <2>2, <3>2, <3>3, BecomesSound DEF Closes
  <2>5. QED
    BY <2>1, <2>3, <2>4
<1>8. QED
  BY <1>4, <1>5, <1>6, <1>7 DEF EndHop


\* A node that begins is paid for by its visit, or retried by its handler.
LEMMA BegunPays ==
  ASSUME IInv, NEW e \in DOMAIN run, NEW kinds, Begins(e, kinds)
  PROVE  LET q == Begun(run[e]) IN
         /\ Closes(run[e], q) /\ Shape(q) /\ Pays(q) /\ Unfailed(run[e]) /\ Unfailed(q)
         /\ run[e].pc # "wait" /\ q.ask.fut # "waiting" /\ q.g.kind[q.node] \in kinds
         /\ q.plan = run[e].plan /\ q.node = run[e].node /\ q.pc = run[e].pc
         /\ Quiet(run[e], q) /\ run[e].ask.fut # "waiting"
         /\ q.home # NoNode \/ q.iter = run[e].iter + 1
<1> DEFINE r == run[e]
           q == Begun(r)
<1>1. Good(r) /\ Shape(r)
  BY DEF IInv, Good
<1>2. /\ r.pc = "node" \/ r.pc = "retry"
      /\ r.pc = "node" => r.iter < MaxIter
      /\ r.g.kind[r.node] \in kinds
  BY DEF Begins, At
<1> HIDE DEF r
<1>3. Quiet(r, q) /\ q.node = r.node /\ q.home = r.home /\ q.plan = r.plan /\ q.pc = r.pc
      /\ q.iter = IF r.pc = "node" THEN r.iter + 1 ELSE r.iter
  BY <1>1, BegunQuiet
<1>4. Unfailed(r) /\ r.ask.fut # "waiting" /\ (r.pc = "retry" => r.home # NoNode)
  BY <1>1, <1>2, UnfailedAt, HeardAt DEF Good, AtNode, Asks3
<1>5. Closes(r, r)
  BY <1>1, SelfCloses
<1> HIDE DEF q
<1>6. Closes(r, q)
  BY <1>1, <1>3, <1>5, QuietCloses
<1>7. Pays(q)
  <2>1. CASE r.pc = "node"
    <3>1. /\ r.iter \in Nat /\ r.hops \in Nat /\ MaxIter \in Nat /\ r.iter < MaxIter
          /\ q.hops = r.hops /\ q.iter = r.iter + 1 /\ r.hops <= r.iter
      BY <1>1, <1>2, <1>3, <1>5, <2>1, BoundsAssumption DEF Quiet, Shape, Closes
    <3>2. QED
      BY <3>1 DEF Pays
  <2>2. CASE r.pc = "retry"
    BY <1>3, <1>4, <2>2 DEF Pays
  <2>3. QED
    BY <1>2, <2>1, <2>2
<1>8. QED
  BY <1>2, <1>3, <1>4, <1>6, <1>7 DEF Quiet, Unfailed, q, r

\* An LLM node is entered.
LEMMA LlmNodeSound ==
  ASSUME IInv, NEW e \in DOMAIN run, LlmNode(e)
  PROVE  Sound
<1>1. CASE Begins(e, {"llm"}) /\ CallsModel(e, Begun(run[e]))
  <2> DEFINE q == Begun(run[e])
  <2>1. /\ Closes(run[e], q) /\ Pays(q) /\ Unfailed(run[e]) /\ Unfailed(q)
        /\ run[e].pc # "wait" /\ q.ask.fut # "waiting" /\ q.g.kind[q.node] \in {"llm"}
    BY <1>1, BegunPays
  <2>2. CallsModel(e, q)
    BY <1>1
  <2> HIDE DEF q
  <2>3. QED
    BY <2>1, <2>2, CallsModelSound DEF LlmKinds
<1>2. CASE Live(e) /\ run[e].pc = "again" /\ CallsModel(e, run[e])
  <2>1. Good(run[e]) /\ run[e].pc = "again"
    BY <1>2 DEF IInv
  <2>2. Closes(run[e], run[e]) /\ Unfailed(run[e]) /\ run[e].ask.fut # "waiting"
        /\ run[e].g.kind[run[e].node] \in LlmKinds
    BY <2>1, SelfCloses, UnfailedAt, HeardAt DEF Asks3, Good, AtNode
  <2>3. Pays(run[e])
    BY <2>1, BoundsAssumption DEF Good, Shape, HopsPaid, Hops, MayCall, Pays
  <2>4. QED
    BY <1>2, <2>1, <2>2, <2>3, CallsModelSound
<1>3. QED
  BY <1>1, <1>2 DEF LlmNode

\* A RAG node is entered.
LEMMA RagNodeSound ==
  ASSUME IInv, NEW e \in DOMAIN run, RagNode(e)
  PROVE  Sound
<1>1. PICK found \in BOOLEAN : CallsModel(e, [Begun(run[e]) EXCEPT !.bare = found])
  BY DEF RagNode
<1> DEFINE x == Begun(run[e])
           q == [x EXCEPT !.bare = found]
<1>2. /\ Closes(run[e], x) /\ Shape(x) /\ Pays(x) /\ Unfailed(run[e]) /\ Unfailed(x)
      /\ run[e].pc # "wait" /\ x.ask.fut # "waiting" /\ x.g.kind[x.node] \in {"rag"}
  BY BegunPays DEF RagNode
<1>3. CallsModel(e, q)
  BY <1>1
<1> HIDE DEF x
<1>4. Quiet(x, q) /\ q.node = x.node /\ q.home = x.home /\ q.phase = x.phase /\ q.iter = x.iter
  BY <1>2 DEF Quiet, Shape, Fields
<1> HIDE DEF q
<1>5. Closes(run[e], q) /\ Pays(q) /\ Unfailed(q) /\ q.ask.fut # "waiting"
      /\ q.g.kind[q.node] \in LlmKinds
  BY <1>2, <1>4, QuietCloses DEF Quiet, Pays, Unfailed, LlmKinds
<1>6. QED
  BY <1>2, <1>3, <1>5, CallsModelSound

\* A model call is approved.
LEMMA LlmGrantedSound ==
  ASSUME IInv, NEW e \in DOMAIN run, LlmGranted(e)
  PROVE  Sound
<1> DEFINE r == run[e]
           q == [r EXCEPT !.pc = "reply"]
<1>1. Good(r) /\ Shape(r) /\ r.pc = "ask_model" /\ Granted(r) /\ Becomes(e, q) /\ CkptStep
  BY DEF LlmGranted, IInv, Good, CkptStep, CkptOK
<1> HIDE DEF r
<1>2. Quiet(r, q) /\ q.node = r.node /\ q.home = r.home /\ q.phase = r.phase /\ q.iter = r.iter
      /\ q.pc = "reply"
  BY <1>1 DEF Quiet, Shape, Fields
<1>3. Closes(r, r) /\ Unfailed(r) /\ r.ask.fut # "waiting" /\ r.g.kind[r.node] \in LlmKinds
  BY <1>1, SelfCloses, UnfailedAt, HeardAt DEF Good, AtNode
<1>4. Pays(r)
  BY <1>1, BoundsAssumption DEF Good, Shape, HopsPaid, Hops, MayCall, Pays
<1> HIDE DEF q
<1>5. /\ Closes(r, q) /\ Pays(q) /\ Unfailed(q) /\ q.ask.fut # "waiting" /\ Stopping(q)
      /\ q.g.kind[q.node] \in LlmKinds
  BY <1>1, <1>2, <1>3, <1>4, QuietCloses DEF Quiet, Pays, Unfailed, Stopping
<1>6. Good(q)
  BY <1>1, <1>2, <1>5, AtModelGood
<1>7. Top(e, q, ckpt')
  BY <1>1, <1>2, <1>5, TopKept DEF r
<1>8. QED
  BY <1>1, <1>5, <1>6, <1>7, BecomesSound DEF Closes, r


\* A run goes on with the calls of a reply.
LEMMA ToToolsSound ==
  ASSUME IInv, UNCHANGED ckpt, NEW e \in DOMAIN run, NEW q, Becomes(e, q), Closes(run[e], q),
         run[e].pc # "wait", q.pc = "tools", q.g.kind[q.node] \in LlmKinds, Stopping(q),
         q.ask.fut # "waiting"
  PROVE  Sound
<1>1. CkptStep /\ Good(run[e])
  BY DEF IInv, CkptStep, CkptOK
<1>2. Good(q)
  BY <1>1, AtModelGood
<1>3. Top(e, q, ckpt')
  BY <1>1, TopKept
<1>4. QED
  BY <1>1, <1>2, <1>3, BecomesSound DEF Closes

\* The model answers.
LEMMA LlmReplySound ==
  ASSUME IInv, NEW e \in DOMAIN run, LlmReply(e)
  PROVE  Sound
<1> DEFINE s == run[e]
           r == [s EXCEPT !.hops = @ + IF s.home = NoNode THEN 1 ELSE 0]
<1>0. Good(s) /\ Shape(s) /\ s.pc = "reply" /\ r.phase = "main"
  BY DEF LlmReply, IInv, Good
<1>1. Good(s) /\ Shape(s) /\ s.pc = "reply" /\ s.phase = "main"
  BY <1>0 DEF Shape, Fields
<1>2. /\ Shape(r) /\ r.node = s.node /\ r.home = s.home /\ r.pc = s.pc /\ r.g = s.g
      /\ r.sess = s.sess /\ r.did = s.did /\ r.bad = s.bad /\ r.ask = s.ask /\ r.out = s.out
      /\ r.iter = s.iter
      /\ r.hops = IF s.home = NoNode THEN s.hops + 1 ELSE s.hops
  BY <1>1 DEF Shape, Fields
<1>3. /\ \/ Fails(e, r) /\ UNCHANGED ckpt
         \/ EndHop(e, Speaks(r, "assistant"))
         \/ \E calls \in Replies[r.node] :
              /\ UNCHANGED ckpt
              /\ LET x == Speaks([r EXCEPT !.chain = @ + 1], "calls") IN
                 IF x.chain > MaxChain THEN Fails(e, x)
                 ELSE Becomes(e, [x EXCEPT !.calls = calls, !.pc = "tools"])
  BY DEF LlmReply
<1> HIDE DEF s, r
<1>4. Closes(s, s) /\ Unfailed(s) /\ s.ask.fut # "waiting" /\ s.g.kind[s.node] \in LlmKinds
  BY <1>1, SelfCloses, UnfailedAt, HeardAt DEF Good, AtNode, Asks3
<1>5. r.hops <= r.iter /\ r.hops <= MaxIter
  BY <1>1, <1>2, BoundsAssumption DEF Good, Shape, HopsPaid, Hops, MayCall
<1>6. Closes(s, r) /\ Unfailed(r) /\ r.ask.fut # "waiting" /\ r.g.kind[r.node] \in LlmKinds
  BY <1>2, <1>4, <1>5 DEF Closes, Follows, Unfailed
<1>7. CASE Fails(e, r) /\ UNCHANGED ckpt
  <2>1. CkptStep
    BY <1>7 DEF IInv, CkptStep, CkptOK
  <2>2. QED
    BY <1>1, <1>4, <1>6, <1>7, <2>1, FailsSound DEF s
<1>8. CASE EndHop(e, Speaks(r, "assistant"))
  <2> DEFINE x == Speaks(r, "assistant")
  <2>1. Quiet(r, x) /\ x.node = r.node
    BY <1>2, SpeaksQuiet
  <2> HIDE DEF x
  <2>2. Closes(s, x) /\ Unfailed(x) /\ x.ask.fut # "waiting" /\ x.g.kind[x.node] \in LlmKinds
    BY <1>2, <1>6, <2>1, QuietCloses DEF Quiet, Unfailed
  <2>3. QED
    BY <1>1, <1>4, <1>8, <2>2, EndHopSound DEF s, x
<1>9. ASSUME NEW calls, UNCHANGED ckpt,
             LET x == Speaks([r EXCEPT !.chain = @ + 1], "calls") IN
             IF x.chain > MaxChain THEN Fails(e, x)
             ELSE Becomes(e, [x EXCEPT !.calls = calls, !.pc = "tools"])
      PROVE  Sound
  <2> DEFINE y == [r EXCEPT !.chain = @ + 1]
             x == Speaks(y, "calls")
             q == [x EXCEPT !.calls = calls, !.pc = "tools"]
  <2>1. Quiet(r, y) /\ Shape(y) /\ y.node = r.node
    BY <1>2 DEF Quiet, Shape, Fields
  <2>2. Fails(e, x) \/ Becomes(e, q)
    BY <1>9
  <2> HIDE DEF y
  <2>3. Quiet(y, x) /\ x.node = y.node
    BY <2>1, SpeaksQuiet
  <2> HIDE DEF x
  <2>4. Quiet(r, x) /\ Shape(x) /\ x.node = r.node
    BY <1>2, <2>1, <2>3, QuietTrans DEF Quiet
  <2>5. Closes(s, x) /\ Unfailed(x) /\ x.ask.fut # "waiting" /\ x.g.kind[x.node] \in LlmKinds
    BY <1>2, <1>6, <2>4, QuietCloses DEF Quiet, Unfailed
  <2>6. CASE Fails(e, x)
    <3>1. CkptStep
      BY <1>9 DEF IInv, CkptStep, CkptOK
    <3>2. QED
      BY <1>1, <1>4, <2>5, <2>6, <3>1, FailsSound DEF s
  <2>7. CASE Becomes(e, q)
    <3>1. Quiet(x, q) /\ q.node = x.node /\ q.pc = "tools"
      BY <2>4 DEF Quiet, Shape, Fields
    <3> HIDE DEF q
    <3>2. Closes(s, q) /\ Stopping(q) /\ q.ask.fut # "waiting" /\ q.g.kind[q.node] \in LlmKinds
      BY <2>4, <2>5, <3>1, QuietCloses DEF Quiet, Unfailed, Stopping
    <3>3. QED
      BY <1>1, <1>9, <2>7, <3>1, <3>2, ToToolsSound DEF s
  <2>8. QED
    BY <2>2, <2>6, <2>7
<1>10. QED
  BY <1>3, <1>7, <1>8, <1>9

\* The model answers a self-repair.
LEMMA RepairReplySound ==
  ASSUME IInv, NEW e \in DOMAIN run, RepairReply(e)
  PROVE  Sound
<1> DEFINE s == run[e]
<1>1. Good(s) /\ Shape(s) /\ s.pc = "reply" /\ s.phase = "repair"
  BY DEF RepairReply, IInv, Good
<1>2. \/ Becomes(e, [s EXCEPT !.last = "system", !.pc = "tools"]) /\ UNCHANGED ckpt
      \/ EndHop(e, Speaks(s, "assistant"))
      \/ \E calls \in Replies[s.node] :
           Becomes(e, [Speaks(s, "calls") EXCEPT !.calls = calls, !.failed = FALSE,
                                                 !.pc = "tools"]) /\ UNCHANGED ckpt
  BY DEF RepairReply
<1> HIDE DEF s
<1>3. Closes(s, s) /\ Unfailed(s) /\ s.ask.fut # "waiting" /\ s.g.kind[s.node] \in LlmKinds
  BY <1>1, SelfCloses, UnfailedAt, HeardAt DEF Good, AtNode, Asks3
<1>4. ASSUME NEW q, Becomes(e, q), UNCHANGED ckpt, Quiet(s, q), q.node = s.node, q.pc = "tools"
      PROVE  Sound
  <2>1. Closes(s, q) /\ Stopping(q) /\ q.ask.fut # "waiting" /\ q.g.kind[q.node] \in LlmKinds
    BY <1>1, <1>3, <1>4, QuietCloses DEF Quiet, Unfailed, Stopping
  <2>2. QED
    BY <1>1, <1>4, <2>1, ToToolsSound DEF s
<1>5. CASE Becomes(e, [s EXCEPT !.last = "system", !.pc = "tools"]) /\ UNCHANGED ckpt
  <2> DEFINE q == [s EXCEPT !.last = "system", !.pc = "tools"]
  <2>1. Quiet(s, q) /\ q.node = s.node /\ q.pc = "tools"
    BY <1>1 DEF Quiet, Shape, Fields
  <2> HIDE DEF q
  <2>2. QED
    BY <1>4, <1>5, <2>1 DEF q
<1>6. CASE EndHop(e, Speaks(s, "assistant"))
  <2> DEFINE x == Speaks(s, "assistant")
  <2>1. Quiet(s, x) /\ x.node = s.node
    BY <1>1, SpeaksQuiet
  <2> HIDE DEF x
  <2>2. Closes(s, x) /\ Unfailed(x) /\ x.ask.fut # "waiting" /\ x.g.kind[x.node] \in LlmKinds
    BY <1>1, <1>3, <2>1, QuietCloses DEF Quiet, Unfailed
  <2>3. QED
    BY <1>1, <1>3, <1>6, <2>2, EndHopSound DEF s, x
<1>7. ASSUME NEW calls, UNCHANGED ckpt,
             Becomes(e, [Speaks(s, "calls") EXCEPT !.calls = calls, !.failed = FALSE, !.pc = "tools"])
      PROVE  Sound
  <2> DEFINE x == Speaks(s, "calls")
             q == [x EXCEPT !.calls = calls, !.failed = FALSE, !.pc = "tools"]
  <2>1. Quiet(s, x) /\ Shape(x) /\ x.node = s.node
    BY <1>1, SpeaksQuiet DEF Quiet
  <2>2. Becomes(e, q)
    BY <1>7
  <2> HIDE DEF x
  <2>3. Quiet(x, q) /\ q.node = x.node /\ q.pc = "tools"
    BY <2>1 DEF Quiet, Shape, Fields
  <2> HIDE DEF q
  <2>4. Quiet(s, q) /\ q.node = s.node
    BY <1>1, <2>1, <2>3, QuietTrans
  <2>5. QED
    BY <1>4, <1>7, <2>2, <2>3, <2>4
<1>8. QED
  BY <1>2, <1>5, <1>6, <1>7


-----------------------------------------------------------------------------
(* Tools.                                                                  *)

\* q is r after tools that it may run, some of which may have failed.
Works(r, q) ==
  /\ Shape(q) /\ q.g = r.g /\ q.sess = r.sess /\ q.out = r.out /\ q.ask = r.ask
  /\ q.hops = r.hops /\ q.iter = r.iter /\ q.node = r.node /\ q.home = r.home
  /\ q.phase = r.phase /\ q.pc = r.pc
  /\ q.plan => r.plan
  /\ r.failed => q.failed
  /\ q.bad => r.bad \/ (r.home = NoNode /\ q.failed)
  /\ \A t \in SymDiff(q.did, r.did) : MayRun(r, t)

\* After tools have run a run may end.
LEMMA WorksCloses ==
  ASSUME NEW r, Good(r), NEW q, Works(r, q)
  PROVE  Closes(r, q)
<1>1. Closes(r, r)
  BY SelfCloses
<1>2. QED
  BY <1>1 DEF Closes, Works, Follows

\* The tools noted as run are those that ran and matter to the properties.
LEMMA NotedRan ==
  ASSUME NEW r, NEW ran
  PROVE  SymDiff(Noted(r, ran), r.did) = {t \in ran : "allow" \notin Verdicts[t] \/ r.plan}
BY DEF Noted, SymDiff

\* The error of a tool, or none, is recorded.
LEMMA FailingWorks ==
  ASSUME NEW r, Shape(r), NEW err \in BOOLEAN
  PROVE  LET q == Failing(r, err) IN
         /\ Works(r, q) /\ q.did = r.did /\ q.calls = r.calls /\ q.plan = r.plan
         /\ q.bad => r.bad \/ (r.home = NoNode /\ err)
         /\ q.failed <=> (r.failed \/ err)
<1> DEFINE q == Failing(r, err)
<1>1. /\ DOMAIN q = Fields /\ q.g = r.g /\ q.sess = r.sess /\ q.out = r.out /\ q.ask = r.ask
      /\ q.hops = r.hops /\ q.iter = r.iter /\ q.node = r.node /\ q.home = r.home
      /\ q.phase = r.phase /\ q.pc = r.pc /\ q.item = r.item /\ q.plan = r.plan
      /\ q.did = r.did /\ q.calls = r.calls
  BY DEF Failing, Shape, Fields
<1>2. /\ q.failed <=> (r.failed \/ err)
      /\ q.bad <=> (r.bad \/ (err /\ r.home = NoNode))
  BY DEF Failing, Shape, Fields
<1> HIDE DEF q
<1>3. SymDiff(q.did, r.did) = {}
  BY <1>1 DEF SymDiff
<1>4. QED
  BY <1>1, <1>2, <1>3 DEF Works, Shape, q

\* The call in front is answered.
LEMMA AnsweredWorks ==
  ASSUME NEW r, Shape(r)
  PROVE  LET q == Answered(r) IN
         /\ Quiet(r, q) /\ q.node = r.node /\ q.home = r.home /\ q.failed = r.failed /\ q.pc = "tools"
         /\ q.iter = r.iter /\ q.phase = r.phase /\ q.plan = r.plan
BY DEF Quiet, Answered, Shape, Fields

\* A tool that may run is executed.
LEMMA ExecutedWorks ==
  ASSUME NEW r, Shape(r), NEW t, NEW err \in BOOLEAN, Admitted(r, t), r.plan => Reads(t)
  PROVE  LET q == Executed(r, t, err) IN
         /\ Works(r, q)
         /\ q.bad => r.bad \/ (r.home = NoNode /\ err)
<1> DEFINE x == IF r.phase = "main" THEN Blames(r, r.node) ELSE r
           y == Failing(x, err)
           q == Executed(r, t, err)
<1>1. /\ Shape(x) /\ x.g = r.g /\ x.sess = r.sess /\ x.out = r.out /\ x.ask = r.ask
      /\ x.hops = r.hops /\ x.iter = r.iter /\ x.node = r.node /\ x.home = r.home
      /\ x.phase = r.phase /\ x.pc = r.pc /\ x.item = r.item /\ x.plan = r.plan
      /\ x.failed = r.failed /\ x.bad = r.bad
  BY BlamesQuiet DEF Quiet
<1>2. q = [y EXCEPT !.last = "tool", !.did = Noted(r, {t}),
             !.plan = @ /\ ~(t = ExitPlan /\ ~err /\ r.phase = "main"
                             /\ r.pc \in {"tools", "ask_call"})]
  BY DEF Executed
<1> HIDE DEF x
<1>3. /\ Works(x, y) /\ y.plan = x.plan
      /\ y.bad => x.bad \/ (x.home = NoNode /\ err)
      /\ y.failed <=> (x.failed \/ err)
  BY <1>1, FailingWorks
<1>4. Shape(y)
  BY <1>3 DEF Works
<1> HIDE DEF y, q
<1>5. /\ DOMAIN q = Fields /\ q.g = y.g /\ q.sess = y.sess /\ q.out = y.out /\ q.ask = y.ask
      /\ q.hops = y.hops /\ q.iter = y.iter /\ q.node = y.node /\ q.home = y.home
      /\ q.phase = y.phase /\ q.pc = y.pc /\ q.item = y.item /\ q.failed = y.failed
      /\ q.bad = y.bad /\ q.did = Noted(r, {t})
  BY <1>2, <1>4 DEF Shape, Fields
<1>6. q.plan => y.plan
  BY <1>2, <1>4 DEF Shape, Fields
<1>7. ASSUME NEW u \in SymDiff(q.did, r.did) PROVE MayRun(r, u)
  <2>1. q.did = Noted(r, {t})
    BY <1>5
  <2>2. u \in SymDiff(Noted(r, {t}), r.did)
    BY <1>7, <2>1
  <2>3. SymDiff(Noted(r, {t}), r.did)
          = {v \in {t} : "allow" \notin Verdicts[v] \/ r.plan}
    BY NotedRan
  <2>4. u = t
    BY <2>2, <2>3
  <2>5. QED
    BY <2>4 DEF MayRun
<1>8. QED
  BY <1>1, <1>3, <1>4, <1>5, <1>6, <1>7 DEF Works, Shape, q

\* A run goes on with the other calls after the tools of a reply.
LEMMA ToolsSound ==
  ASSUME IInv, UNCHANGED ckpt, NEW e \in DOMAIN run, NEW x, Works(run[e], x),
         run[e].pc \in {"tools", "ask_call"}, run[e].ask.fut # "waiting",
         NEW q, Quiet(x, q), q.node = x.node, q.home = x.home, q.failed = x.failed,
         q.pc = "tools", Becomes(e, q)
  PROVE  Sound
<1>1. Good(run[e])
  BY DEF IInv
<1>2. Closes(run[e], x) /\ Shape(x)
  BY <1>1, WorksCloses DEF Works
<1>3. Closes(run[e], q)
  BY <1>1, <1>2, QuietCloses
<1>4. q.g.kind[q.node] \in LlmKinds
  BY <1>1 DEF Good, AtNode, Works, Quiet
<1>5. Stopping(q)
  BY <1>1, <1>4 DEF Good, Stopping, Works, Quiet
<1>6. QED
  BY <1>3, <1>4, <1>5, ToToolsSound DEF Works, Quiet


\* The calls of a reply that run at once.
LEMMA CallsAtOnceSound ==
  ASSUME IInv, NEW e \in DOMAIN run, CallsAtOnce(e)
  PROVE  Sound
<1> DEFINE r == run[e]
<1>1. /\ Good(r) /\ Shape(r) /\ r.pc = "tools" /\ UNCHANGED ckpt
  BY DEF CallsAtOnce, Calling, IInv, Good
<1>2. PICK ran \in SUBSET {t \in ToSet(r.calls) : RunsAtOnce(t)}, err \in BOOLEAN :
        Becomes(e, [Blames(Failing(r, err \/ ran # ToSet(r.calls)), r.node) EXCEPT
                      !.last = "tool", !.calls = <<>>, !.did = Noted(r, ran)])
  BY DEF CallsAtOnce
<1>3. ~r.plan
  BY DEF CallsAtOnce, Concurrent
<1> HIDE DEF r
<1> DEFINE bad == err \/ ran # ToSet(r.calls)
           x == Failing(r, bad)
           y == Blames(x, r.node)
           q == [y EXCEPT !.last = "tool", !.calls = <<>>, !.did = Noted(r, ran)]
<1>4. bad \in BOOLEAN /\ Becomes(e, q)
  BY <1>2
<1> HIDE DEF bad
<1>5. Works(r, x) /\ x.did = r.did
  BY <1>1, <1>4, FailingWorks
<1> HIDE DEF x
<1>6. Shape(x)
  BY <1>5 DEF Works
<1>7. Quiet(x, y) /\ y.node = x.node /\ y.pc = x.pc /\ y.home = x.home /\ y.phase = x.phase
      /\ y.failed = x.failed /\ y.plan = x.plan /\ y.iter = x.iter
  BY <1>6, BlamesQuiet
<1> HIDE DEF y
<1>8. Shape(y)
  BY <1>7 DEF Quiet
<1>9. /\ Shape(q) /\ q.g = y.g /\ q.sess = y.sess /\ q.out = y.out /\ q.ask = y.ask
      /\ q.hops = y.hops /\ q.iter = y.iter /\ q.node = y.node /\ q.home = y.home
      /\ q.phase = y.phase /\ q.pc = y.pc /\ q.failed = y.failed
      /\ q.bad = y.bad /\ q.plan = y.plan /\ q.did = Noted(r, ran)
  BY <1>8 DEF Shape, Fields
<1>10. \A t \in SymDiff(q.did, r.did) : MayRun(r, t)
  <2>1. q.did = Noted(r, ran)
    BY <1>9
  <2>2. SymDiff(Noted(r, ran), r.did) = {}
    BY <1>2, <1>3, NotedRan DEF RunsAtOnce
  <2>3. QED
    BY <2>1, <2>2
<1> HIDE DEF q
<1>11. Works(r, q) /\ Quiet(q, q) /\ q.pc = "tools"
  BY <1>1, <1>5, <1>7, <1>9, <1>10 DEF Works, Quiet, Shape
<1>12. r.ask.fut # "waiting"
  BY <1>1, HeardAt DEF Asks3
<1>13. QED
  BY <1>1, <1>4, <1>11, <1>12, ToolsSound DEF r

\* A call that is not run is answered, with an error or not.
LEMMA DeniedSound ==
  ASSUME IInv, UNCHANGED ckpt, NEW e \in DOMAIN run, run[e].pc \in {"tools", "ask_call"},
         run[e].ask.fut # "waiting",
         \/ Becomes(e, Answered(run[e]))
         \/ \E err \in BOOLEAN : Becomes(e, Failing(Answered(run[e]), err))
  PROVE  Sound
<1> DEFINE r == run[e]
           y == Answered(r)
<1>1. Good(r) /\ Shape(r) /\ Works(r, r)
  BY DEF IInv, Good, Works, SymDiff
<1>2. Quiet(r, y) /\ Shape(y) /\ y.node = r.node /\ y.home = r.home /\ y.failed = r.failed
      /\ y.pc = "tools" /\ y.iter = r.iter /\ y.phase = r.phase /\ y.plan = r.plan
  BY <1>1, AnsweredWorks DEF Quiet
<1>3. CASE Becomes(e, y)
  BY <1>1, <1>2, <1>3, ToolsSound DEF r
<1>4. ASSUME NEW err \in BOOLEAN, Becomes(e, Failing(y, err)) PROVE Sound
  <2> HIDE DEF r, y
  <2> DEFINE q == Failing(y, err)
  <2>1. Works(y, q) /\ q.did = y.did
    BY <1>2, FailingWorks
  <2>2. Becomes(e, q)
    BY <1>4
  <2> HIDE DEF q
  <2>3. Closes(r, y)
    BY <1>1, <1>2, SelfCloses, QuietCloses
  <2>4. Closes(r, q)
    BY <1>2, <2>1, <2>3 DEF Closes, Works, Follows
  <2>5. q.pc = "tools" /\ q.g.kind[q.node] \in LlmKinds /\ q.ask.fut # "waiting"
    BY <1>1, <1>2, <2>1 DEF Works, Quiet, Good, AtNode, r
  <2>6. Stopping(q)
    BY <1>1, <1>2, <2>1, <2>5 DEF Works, Quiet, Good, Stopping, r
  <2>7. QED
    BY <1>1, <2>2, <2>4, <2>5, <2>6, ToToolsSound DEF r
<1>5. QED
  BY <1>3, <1>4

\* A call of a reply is executed and answered.
LEMMA ExecutedSound ==
  ASSUME IInv, UNCHANGED ckpt, NEW e \in DOMAIN run, run[e].pc \in {"tools", "ask_call"},
         run[e].ask.fut # "waiting", NEW t, NEW err \in BOOLEAN,
         Admitted(run[e], t), run[e].plan => Reads(t),
         Becomes(e, Answered(Executed(run[e], t, err)))
  PROVE  Sound
<1> DEFINE r == run[e]
           x == Executed(r, t, err)
           q == Answered(x)
<1>1. /\ Shape(r) /\ Becomes(e, q) /\ Admitted(r, t)
      /\ r.plan => Reads(t)
  BY DEF IInv, Good
<1> HIDE DEF r
<1>2. Works(r, x)
  BY <1>1, ExecutedWorks
<1> HIDE DEF x
<1>3. Shape(x)
  BY <1>2 DEF Works
<1>4. Quiet(x, q) /\ q.node = x.node /\ q.home = x.home /\ q.failed = x.failed /\ q.pc = "tools"
  BY <1>3, AnsweredWorks
<1> HIDE DEF q
<1>5. QED
  BY <1>1, <1>2, <1>4, ToolsSound DEF r


\* The next call of a reply is looked at.
LEMMA CallToolSound ==
  ASSUME IInv, NEW e \in DOMAIN run, CallTool(e)
  PROVE  Sound
<1> DEFINE r == run[e]
           t == Head(r.calls)
<1>1. /\ Good(r) /\ Shape(r) /\ r.pc = "tools" /\ UNCHANGED ckpt
  BY DEF CallTool, Calling, IInv, Good
<1>2. r.ask.fut # "waiting"
  BY <1>1, HeardAt DEF Asks3
<1>3. CASE Becomes(e, Failing(Answered(r), r.phase = "repair"))
  BY <1>1, <1>2, <1>3, DeniedSound
<1>4. CASE ~PlanBlocks(r, t)
  <2>1. r.plan => Reads(t)
    BY <1>4 DEF PlanBlocks, Reads
  <2>2. CASE Becomes(e, Asks(r, "ask_call"))
    <3> DEFINE q == Asks(r, "ask_call")
    <3> HIDE DEF r, t
    <3>1. /\ Shape(q) /\ q.node = r.node /\ q.home = r.home /\ q.phase = r.phase /\ q.iter = r.iter
          /\ q.pc = "ask_call" /\ q.hops = r.hops /\ q.g = r.g /\ q.sess = r.sess
          /\ q.did = r.did /\ q.bad = r.bad /\ q.out = r.out /\ q.plan = r.plan
          /\ q.calls = r.calls /\ q.failed = r.failed
          /\ q.ask.status = "pending" /\ q.ask.fut = "waiting"
      BY <1>1 DEF Shape, Fields, Asks
    <3> HIDE DEF q
    <3>2. HopsPaid(q)
      BY <1>1, <3>1, BoundsAssumption DEF Good, HopsPaid, Hops, MayCall, Shape
    <3>3. FutureOK(q) /\ AsksToRead(q) /\ AtNode(q)
      BY <1>1, <2>1, <3>1 DEF FutureOK, AsksToRead, Asks3, AtNode, Good, t
    <3>4. Stopping(q)
      BY <1>1, <3>1 DEF Stopping, Good
    <3>5. Closes(r, r) /\ CkptStep
      BY <1>1, SelfCloses DEF IInv, CkptStep, CkptOK
    <3>6. Follows(r, q)
      BY <3>1, <3>5 DEF Closes, Follows
    <3>7. Top(e, q, ckpt')
      BY <3>1, <3>5 DEF IInv, Top, CkptStep, r
    <3>8. QED
      BY <1>1, <2>2, <3>1, <3>2, <3>3, <3>4, <3>5, <3>6, <3>7, BecomesSound DEF Good, r, q
  <2>3. ASSUME NEW err \in BOOLEAN, "allow" \in Verdicts[t], Becomes(e, Answered(Executed(r, t, err)))
        PROVE  Sound
    <3>1. Admitted(r, t)
      BY <2>3 DEF Admitted
    <3>2. QED
      BY <1>1, <1>2, <2>1, <2>3, <3>1, ExecutedSound
  <2>4. QED
    BY <1>3, <1>4, <2>2, <2>3 DEF CallTool
<1>5. QED
  BY <1>3, <1>4 DEF CallTool

\* A call of a reply is approved.
LEMMA CallGrantedSound ==
  ASSUME IInv, NEW e \in DOMAIN run, CallGranted(e)
  PROVE  Sound
<1> DEFINE r == run[e]
           t == Head(r.calls)
<1>1. /\ Good(r) /\ Shape(r) /\ r.pc = "ask_call" /\ Granted(r) /\ UNCHANGED ckpt
  BY DEF CallGranted, IInv, Good
<1>2. /\ r.ask.fut # "waiting" /\ r.pc \in Asks3 /\ (r.plan => Reads(t))
      /\ Admitted(r, t)
  BY <1>1, HeardAt DEF Asks3, Good, AsksToRead, Admitted, AskedTool
<1>3. CASE Becomes(e, [r EXCEPT !.calls = Tail(@), !.pc = "tools"])
  <2> HIDE DEF r
  <2> DEFINE q == [r EXCEPT !.calls = Tail(@), !.pc = "tools"]
  <2>1. Quiet(r, q) /\ q.node = r.node /\ q.home = r.home /\ q.failed = r.failed /\ q.pc = "tools"
    BY <1>1 DEF Quiet, Shape, Fields
  <2>2. Works(r, r) /\ Becomes(e, q)
    BY <1>1, <1>3 DEF Works, SymDiff
  <2> HIDE DEF q
  <2>3. QED
    BY <1>1, <1>2, <2>1, <2>2, ToolsSound DEF r
<1>4. CASE Becomes(e, Answered(r))
  BY <1>1, <1>2, <1>4, DeniedSound
<1>5. ASSUME NEW err \in BOOLEAN, Becomes(e, Answered(Executed(r, t, err)))
      PROVE  Sound
  BY <1>1, <1>2, <1>5, ExecutedSound
<1>6. QED
  BY <1>3, <1>4, <1>5 DEF CallGranted

\* The calls of a reply are done.
LEMMA CallsDoneSound ==
  ASSUME IInv, NEW e \in DOMAIN run, CallsDone(e)
  PROVE  Sound
<1> DEFINE r == run[e]
<1>1. /\ Good(r) /\ Shape(r) /\ r.pc = "tools"
  BY DEF CallsDone, IInv, Good
<1>2. Closes(r, r) /\ r.ask.fut # "waiting" /\ r.g.kind[r.node] \in LlmKinds
  BY <1>1, SelfCloses, HeardAt DEF Asks3, Good, AtNode
<1>3. r.bad /\ r.g.stop => r.home = NoNode /\ Stops(r, r.failed)
  BY <1>1 DEF Good, Stopping, Stops
<1>4. \/ Stops(r, r.failed) /\ Fails(e, r) /\ UNCHANGED ckpt
      \/ /\ ~Stops(r, r.failed) /\ UNCHANGED ckpt
         /\ Becomes(e, [r EXCEPT !.pc = "again", !.phase = "repair", !.tries = @ + 1])
      \/ ~Stops(r, r.failed) /\ EndHop(e, r)
  BY DEF CallsDone
<1> HIDE DEF r
<1>5. CASE Fails(e, r) /\ UNCHANGED ckpt
  <2>1. CkptStep
    BY <1>5 DEF IInv, CkptStep, CkptOK
  <2>2. QED
    BY <1>1, <1>2, <1>3, <1>5, <2>1, FailsSound DEF r, Unfailed
<1>6. CASE ~Stops(r, r.failed) /\ EndHop(e, r)
  BY <1>1, <1>2, <1>3, <1>6, EndHopSound DEF r, Unfailed
<1>7. CASE /\ ~Stops(r, r.failed) /\ UNCHANGED ckpt
           /\ Becomes(e, [r EXCEPT !.pc = "again", !.phase = "repair", !.tries = @ + 1])
  <2> DEFINE q == [r EXCEPT !.pc = "again", !.phase = "repair", !.tries = @ + 1]
  <2>1. Quiet(r, q) /\ q.node = r.node /\ q.pc = "again" /\ q.phase = "repair"
    BY <1>1 DEF Quiet, Shape, Fields
  <2>2. Becomes(e, q)
    BY <1>7
  <2> HIDE DEF q
  <2>3. Unfailed(r) /\ Unfailed(q)
    BY <1>3, <1>7, <2>1 DEF Unfailed, Quiet
  <2>4. Closes(r, q) /\ Pays(q) /\ Stopping(q)
    BY <1>1, <1>2, <2>1, <2>3, QuietCloses DEF Pays, Stopping, Unfailed
  <2>5. Good(q)
    BY <1>1, <1>2, <2>1, <2>3, <2>4, AtModelGood DEF Quiet
  <2>6. CkptStep
    BY <1>7 DEF IInv, CkptStep, CkptOK
  <2>7. Top(e, q, ckpt')
    BY <1>2, <2>1, <2>4, <2>6, TopKept DEF r
  <2>8. QED
    BY <1>1, <2>2, <2>4, <2>5, <2>6, <2>7, BecomesSound DEF Closes, r
<1>8. QED
  BY <1>4, <1>5, <1>6, <1>7


\* An approval is refused or timed out.
LEMMA AskRefusedSound ==
  ASSUME IInv, NEW e \in DOMAIN run, AskRefused(e)
  PROVE  Sound
<1> DEFINE r == run[e]
<1>1. /\ Good(r) /\ Shape(r) /\ r.pc \in Asks3 /\ Refused(r) /\ UNCHANGED ckpt /\ CkptStep
  BY DEF AskRefused, Asking, Asks3, IInv, Good, CkptStep, CkptOK
<1>2. Closes(r, r) /\ r.ask.fut # "waiting"
  BY <1>1, SelfCloses, HeardAt
<1>3. r.home # NoNode => Unfailed(r)
  BY <1>1 DEF Good, Stopping, Unfailed, Asks3
<1>4. \/ Fails(e, r)
      \/ /\ r.home # NoNode /\ r.pc = "ask_call"
         /\ Becomes(e, [r EXCEPT !.err = TRUE, !.calls = Tail(@), !.pc = "tools"])
  BY DEF AskRefused
<1>5. CASE Fails(e, r)
  BY <1>1, <1>2, <1>3, <1>5, FailsSound DEF Asks3
<1>6. CASE /\ r.home # NoNode /\ r.pc = "ask_call"
           /\ Becomes(e, [r EXCEPT !.err = TRUE, !.calls = Tail(@), !.pc = "tools"])
  <2> HIDE DEF r
  <2> DEFINE q == [r EXCEPT !.err = TRUE, !.calls = Tail(@), !.pc = "tools"]
  <2>1. Quiet(r, q) /\ q.node = r.node /\ q.home = r.home /\ q.failed = r.failed /\ q.pc = "tools"
    BY <1>1 DEF Quiet, Shape, Fields
  <2>2. Works(r, r) /\ Becomes(e, q)
    BY <1>1, <1>6 DEF Works, SymDiff
  <2> HIDE DEF q
  <2>3. QED
    BY <1>1, <1>2, <1>6, <2>1, <2>2, ToolsSound DEF r
<1>7. QED
  BY <1>4, <1>5, <1>6

\* A run goes on after q, where nothing that counts has failed.
LEMMA QuietSound ==
  ASSUME IInv, CkptStep, NEW e \in DOMAIN run, NEW x, Closes(run[e], x), Shape(x),
         run[e].pc # "wait", Unfailed(run[e]), Unfailed(x), x.ask.fut # "waiting",
         NEW q, Quiet(x, q), Idle(q), q.pc # "human", Becomes(e, q)
  PROVE  Sound
<1>1. Closes(run[e], q) /\ Unfailed(q) /\ q.ask.fut # "waiting"
  BY QuietCloses DEF Quiet, Unfailed
<1>2. QED
  BY <1>1, GoesOnSound

\* A tool node ends, with its handler when the tool failed.
LEMMA ToolNodeEndsSound ==
  ASSUME IInv, NEW e \in DOMAIN run, NEW x, Closes(run[e], x), ToolNodeEnds(e, x),
         run[e].pc # "wait", Unfailed(run[e]), Unfailed(x), x.ask.fut # "waiting"
  PROVE  Sound
<1>1. Shape(x)
  BY DEF Closes
<1>2. CkptStep
  BY <1>1, SavedStep DEF ToolNodeEnds
<1>3. CASE x.home = NoNode
  <2>1. Becomes(e, Advance(x)) /\ Quiet(x, Advance(x)) /\ Advance(x).pc = "node"
    BY <1>1, <1>3, AdvanceQuiet DEF ToolNodeEnds
  <2>2. QED
    BY <1>1, <1>2, <2>1, QuietSound DEF Idle
<1>4. CASE x.home # NoNode
  <2>1. Becomes(e, AttemptEnds(x)) /\ Quiet(x, AttemptEnds(x)) /\ Idle(AttemptEnds(x))
        /\ AttemptEnds(x).pc # "human"
    BY <1>1, <1>4, AttemptQuiet DEF ToolNodeEnds, Idle
  <2>2. QED
    BY <1>1, <1>2, <2>1, QuietSound
<1>5. QED
  BY <1>3, <1>4

\* What runs at a tool node is admitted or the capture.
LEMMA RanAtMayRun ==
  ASSUME NEW r, Admitted(r, r.node), r.plan => Reads(r.node), NEW ran \in SUBSET RanAt(r.node)
  PROVE  \A t \in ran : MayRun(r, t)
BY DEF RanAt, MayRun, CaptureAfter

\* A tool node runs its tool, and may capture the screen after it.
LEMMA RunsToolNodeSound ==
  ASSUME IInv, NEW e \in DOMAIN run, NEW r, Quiet(run[e], r), r.node = run[e].node,
         r.plan = run[e].plan, r.pc = run[e].pc,
         RunsToolNode(e, r), run[e].pc # "wait", Unfailed(run[e]), run[e].ask.fut # "waiting",
         "allow" \in Verdicts[r.node] \/ (run[e].pc = "ask_tool" /\ Granted(run[e])),
         r.plan => Reads(r.node)
  PROVE  Sound
<1> DEFINE s == run[e]
<1>1. Good(s) /\ Shape(s) /\ Shape(r)
  BY DEF IInv, Good, Quiet
<1>2. Admitted(r, r.node) /\ Admitted(s, s.node) /\ (s.plan => Reads(s.node))
  BY DEF Admitted, AskedTool, Granted, Quiet, Asks3
<1>3. ASSUME NEW err \in BOOLEAN
      PROVE  LET q == Executed(r, r.node, err) IN
             /\ Works(r, q) /\ q.did = Noted(r, {r.node})
             /\ q.bad => r.bad \/ (r.home = NoNode /\ err)
  <2>1. Shape(r) /\ Admitted(r, r.node) /\ (r.plan => Reads(r.node))
    BY <1>1, <1>2
  <2> DEFINE q == Executed(r, r.node, err)
  <2>2. Works(r, q)
    BY <2>1, ExecutedWorks
  <2>3. q.did = Noted(r, {r.node})
    BY <2>2 DEF Executed, Works, Shape, Fields
  <2>4. q.bad => r.bad \/ (r.home = NoNode /\ err)
    BY <2>1, ExecutedWorks
  <2>5. QED
    BY <2>2, <2>3, <2>4
<1>4. PICK err \in BOOLEAN :
        LET x == Executed(r, r.node, err)
            y == [x EXCEPT !.did = Noted(r, RanAt(r.node))]
        IN IF Stops(x, err) THEN Fails(e, x) /\ UNCHANGED ckpt
           ELSE ToolNodeEnds(e, y) \/ (Ends(e, y, "error") /\ UNCHANGED ckpt)
  BY DEF RunsToolNode
<1> DEFINE x == Executed(r, r.node, err)
           y == [x EXCEPT !.did = Noted(r, RanAt(r.node))]
<1>5. /\ Works(r, x) /\ x.did = Noted(r, {r.node})
      /\ x.bad => r.bad \/ (r.home = NoNode /\ err)
  BY <1>3
<1>6. \/ Stops(x, err) /\ Fails(e, x) /\ UNCHANGED ckpt
      \/ ~Stops(x, err) /\ ToolNodeEnds(e, y)
      \/ ~Stops(x, err) /\ Ends(e, y, "error") /\ UNCHANGED ckpt
  BY <1>4
<1> HIDE DEF x
<1>7. /\ DOMAIN y = DOMAIN x /\ y.did = Noted(r, RanAt(r.node))
      /\ \A f \in Fields \ {"did"} : y[f] = x[f]
  BY <1>5 DEF Works, Shape, Fields
<1> HIDE DEF y
<1>8. ASSUME NEW z \in {x, y} PROVE \A t \in SymDiff(z.did, s.did) : MayRun(s, t)
  <2>1. PICK ran \in SUBSET RanAt(s.node) : z.did = Noted(r, ran)
    BY <1>5, <1>7, <1>8 DEF RanAt
  <2>2. SymDiff(z.did, s.did) \subseteq ran
    BY <2>1, NotedRan DEF Quiet
  <2>3. QED
    BY <1>2, <2>2, RanAtMayRun
<1>9. /\ Shape(y) /\ y.g = x.g /\ y.sess = x.sess /\ y.out = x.out /\ y.ask = x.ask
      /\ y.hops = x.hops /\ y.iter = x.iter /\ y.node = x.node /\ y.home = x.home /\ y.bad = x.bad
  BY <1>5, <1>7 DEF Works, Shape, Fields
<1>10. Closes(s, r) /\ Shape(x)
  BY <1>1, <1>5, SelfCloses, QuietCloses DEF Works
<1>11. Closes(s, x) /\ Closes(s, y)
  BY <1>5, <1>8, <1>9, <1>10 DEF Closes, Works, Follows
<1>12. /\ x.ask.fut # "waiting" /\ (x.home # NoNode => Unfailed(x))
       /\ y.ask.fut # "waiting" /\ (~Stops(x, err) => Unfailed(y))
  BY <1>5, <1>9 DEF Works, Quiet, Unfailed, Stops
<1>13. CASE Fails(e, x) /\ UNCHANGED ckpt
  <2>1. CkptStep
    BY <1>13 DEF IInv, CkptStep, CkptOK
  <2>2. QED
    BY <1>11, <1>12, <1>13, <2>1, FailsSound
<1>14. CASE ~Stops(x, err) /\ ToolNodeEnds(e, y)
  BY <1>11, <1>12, <1>14, ToolNodeEndsSound
<1>15. CASE Ends(e, y, "error") /\ UNCHANGED ckpt
  <2>1. CkptStep
    BY <1>15 DEF IInv, CkptStep, CkptOK
  <2>2. QED
    BY <1>11, <1>15, <2>1, EndsSound
<1>16. QED
  BY <1>6, <1>13, <1>14, <1>15


\* A tool node is entered.
LEMMA ToolNodeSound ==
  ASSUME IInv, NEW e \in DOMAIN run, ToolNode(e)
  PROVE  Sound
<1> DEFINE s == run[e]
           r == Begun(s)
<1>1. /\ Closes(s, r) /\ Shape(r) /\ Unfailed(s) /\ Unfailed(r) /\ s.pc # "wait"
      /\ r.ask.fut # "waiting" /\ r.plan = s.plan /\ r.node = s.node /\ r.pc = s.pc
      /\ Quiet(s, r) /\ s.ask.fut # "waiting"
  BY BegunPays DEF ToolNode
<1>2. \/ Fails(e, r) /\ UNCHANGED ckpt
      \/ /\ ~PlanBlocks(r, r.node) /\ UNCHANGED ckpt
         /\ Becomes(e, Asks(r, "ask_tool"))
      \/ ~PlanBlocks(r, r.node) /\ "allow" \in Verdicts[r.node] /\ RunsToolNode(e, r)
  BY DEF ToolNode
<1>3. Good(s) /\ s.pc \notin {"wait", "done"}
  BY DEF IInv, ToolNode, Begins, At, Live
<1> HIDE DEF r
<1>4. CASE Fails(e, r) /\ UNCHANGED ckpt
  <2>1. CkptStep
    BY <1>4 DEF IInv, CkptStep, CkptOK
  <2>2. QED
    BY <1>1, <1>4, <2>1, FailsSound
<1>5. CASE ~PlanBlocks(r, r.node) /\ "allow" \in Verdicts[r.node] /\ RunsToolNode(e, r)
  <2>1. r.plan => Reads(r.node)
    BY <1>5 DEF PlanBlocks, Reads
  <2>2. QED
    BY <1>1, <1>5, <2>1, RunsToolNodeSound
<1>6. CASE /\ ~PlanBlocks(r, r.node) /\ UNCHANGED ckpt
           /\ Becomes(e, Asks(r, "ask_tool"))
  <2> DEFINE q == Asks(r, "ask_tool")
  <2>1. /\ Shape(q) /\ q.node = r.node /\ q.iter = r.iter
        /\ q.pc = "ask_tool" /\ q.hops = r.hops /\ q.g = r.g /\ q.sess = r.sess
        /\ q.did = r.did /\ q.bad = r.bad /\ q.out = r.out /\ q.plan = r.plan
        /\ q.ask.status = "pending" /\ q.ask.fut = "waiting"
    BY <1>1 DEF Shape, Fields, Asks
  <2>2. Becomes(e, q) /\ CkptStep
    BY <1>6 DEF IInv, CkptStep, CkptOK
  <2> HIDE DEF q, s
  <2>3. HopsPaid(q)
    BY <1>1, <2>1, BoundsAssumption DEF Closes, HopsPaid, Hops, MayCall, Shape
  <2>4. FutureOK(q) /\ AsksToRead(q) /\ AtNode(q) /\ Stopping(q)
    BY <1>1, <1>6, <2>1 DEF FutureOK, AsksToRead, Asks3, AtNode, Stopping, Unfailed, Reads, PlanBlocks
  <2>5. Follows(s, q)
    BY <1>1, <2>1 DEF Closes, Follows
  <2>6. Top(e, q, ckpt')
    BY <1>1, <2>1, <2>2 DEF IInv, Top, CkptStep, Closes, Follows, s
  <2>7. QED
    BY <1>1, <2>1, <2>2, <2>3, <2>4, <2>5, <2>6, BecomesSound DEF Good, s
<1>7. QED
  BY <1>2, <1>4, <1>5, <1>6

\* The tool of a tool node is approved.
LEMMA ToolNodeGrantedSound ==
  ASSUME IInv, NEW e \in DOMAIN run, ToolNodeGranted(e)
  PROVE  Sound
<1> DEFINE r == run[e]
<1>1. Good(r) /\ Shape(r) /\ r.pc = "ask_tool" /\ Granted(r)
  BY DEF ToolNodeGranted, IInv, Good
<1>2. /\ Closes(r, r) /\ Quiet(r, r) /\ Unfailed(r) /\ r.ask.fut # "waiting" /\ r.pc \in Asks3
      /\ r.plan => Reads(r.node)
  BY <1>1, SelfCloses, UnfailedAt, HeardAt DEF Asks3, Good, AsksToRead
<1>3. CASE ToolNodeEnds(e, r)
  BY <1>1, <1>2, <1>3, ToolNodeEndsSound
<1>4. CASE Fails(e, r) /\ UNCHANGED ckpt
  <2>1. CkptStep
    BY <1>4 DEF IInv, CkptStep, CkptOK
  <2>2. QED
    BY <1>1, <1>2, <1>4, <2>1, FailsSound
<1>5. CASE RunsToolNode(e, r)
  BY <1>1, <1>2, <1>5, RunsToolNodeSound
<1>6. QED
  BY <1>3, <1>4, <1>5 DEF ToolNodeGranted


-----------------------------------------------------------------------------
(* The other nodes.                                                        *)

\* A step that saves nothing keeps the checkpoints.
LEMMA SameCkpt == ASSUME IInv, UNCHANGED ckpt PROVE CkptStep
BY DEF IInv, CkptStep, CkptOK

\* A run where it makes no call is calm.
Calm(r) == /\ Good(r) /\ Shape(r) /\ Closes(r, r) /\ Quiet(r, r) /\ Unfailed(r)
           /\ r.ask.fut # "waiting" /\ r.pc # "wait"

\* A run that neither asks nor waits nor calls tools has nothing pending.
LEMMA CalmAt ==
  ASSUME IInv, NEW e \in DOMAIN run, run[e].pc \notin Asks3 \cup {"tools", "wait", "done"}
  PROVE  Calm(run[e])
<1>1. Good(run[e])
  BY DEF IInv
<1>2. QED
  BY <1>1, SelfCloses, UnfailedAt, HeardAt DEF Calm, Good, Asks3

\* A calm run that counts a visit is still calm.
LEMMA VisitCalm ==
  ASSUME NEW s, Calm(s)
  PROVE  LET r == Visit(s) IN
         /\ Quiet(s, r) /\ Closes(s, r) /\ Shape(r) /\ Unfailed(r) /\ r.ask.fut # "waiting"
         /\ r.node = s.node /\ r.pc = s.pc /\ r.home = s.home
<1>1. Quiet(s, Visit(s)) /\ Visit(s).node = s.node /\ Visit(s).pc = s.pc
      /\ Visit(s).home = s.home
  BY VisitQuiet DEF Calm
<1>2. QED
  BY <1>1, QuietCloses DEF Quiet, Unfailed, Calm

\* The iterations are used up.
LEMMA LeaveLoopSound ==
  ASSUME IInv, NEW e \in DOMAIN run, LeaveLoop(e)
  PROVE  Sound
BY StopsSound DEF LeaveLoop

\* A node that only computes is passed.
LEMMA PassSound ==
  ASSUME IInv, NEW e \in DOMAIN run, Pass(e)
  PROVE  Sound
<1> DEFINE s == run[e]
           r == Visit(s)
<1>1. s.pc = "node" /\ CkptStep
  BY SameCkpt DEF Pass, At
<1>2. Calm(s)
  BY <1>1, CalmAt DEF Asks3
<1>3. \/ Becomes(e, Advance(r))
      \/ \E n : Becomes(e, Goto(r, n))
      \/ \E n : Becomes(e, Goto([r EXCEPT !.vals[r.node] = @ + 1], n))
  BY DEF Pass
<1> HIDE DEF s
<1>4. /\ Quiet(s, r) /\ Closes(s, r) /\ Shape(r) /\ Unfailed(r) /\ r.ask.fut # "waiting"
  BY <1>2, VisitCalm
<1> HIDE DEF r
<1>5. ASSUME NEW q, Becomes(e, q), Quiet(r, q), q.pc = "node" PROVE Sound
  BY <1>1, <1>2, <1>4, <1>5, QuietSound DEF Calm, Idle, s
<1>6. CASE Becomes(e, Advance(r))
  BY <1>4, <1>5, <1>6, AdvanceQuiet
<1>7. ASSUME NEW n, Becomes(e, Goto(r, n)) PROVE Sound
  BY <1>4, <1>5, <1>7, GotoQuiet
<1>8. ASSUME NEW n, Becomes(e, Goto([r EXCEPT !.vals[r.node] = @ + 1], n)) PROVE Sound
  <2> DEFINE x == [r EXCEPT !.vals[r.node] = @ + 1]
             q == Goto(x, n)
  <2>1. Shape(x) /\ Quiet(r, x)
    BY <1>4 DEF Quiet, Shape, Fields
  <2>2. Becomes(e, q)
    BY <1>8
  <2> HIDE DEF x
  <2>3. Quiet(x, q) /\ q.pc = "node"
    BY <2>1, GotoQuiet
  <2> HIDE DEF q
  <2>4. Quiet(r, q)
    BY <1>4, <2>1, <2>3, QuietTrans
  <2>5. QED
    BY <1>5, <2>2, <2>3, <2>4
<1>9. QED
  BY <1>3, <1>6, <1>7, <1>8

\* The end node is reached.
LEMMA EndNodeSound ==
  ASSUME IInv, NEW e \in DOMAIN run, EndNode(e)
  PROVE  Sound
<1>1. run[e].pc = "node" /\ CkptStep /\ Ends(e, Visit(run[e]), "end")
  BY SameCkpt DEF EndNode, At
<1>2. Calm(run[e])
  BY <1>1, CalmAt DEF Asks3
<1>3. Closes(run[e], Visit(run[e]))
  BY <1>2, VisitCalm
<1>4. QED
  BY <1>1, <1>3, EndsSound

\* An error handler is entered.
LEMMA HandlerNodeSound ==
  ASSUME IInv, NEW e \in DOMAIN run, HandlerNode(e)
  PROVE  Sound
<1> DEFINE s == run[e]
           v == Visit(s)
           r == [v EXCEPT !.err = FALSE]
<1>1. s.pc = "node" /\ CkptStep /\ s.node # NoNode
  BY SameCkpt DEF HandlerNode, At
<1>2. Calm(s)
  BY <1>1, CalmAt DEF Asks3
<1>3. \/ Ends(e, r, "error")
      \/ Becomes(e, [r EXCEPT !.pc = "retry", !.home = r.node, !.node = r.blame])
      \/ Becomes(e, Advance(r))
  BY DEF HandlerNode
<1> HIDE DEF s
<1>4. /\ Quiet(s, v) /\ Closes(s, v) /\ Shape(v) /\ Unfailed(v) /\ v.ask.fut # "waiting"
      /\ v.node = s.node
  BY <1>2, VisitCalm
<1> HIDE DEF v
<1>5. Quiet(v, r) /\ Shape(r) /\ r.node = v.node
  BY <1>4 DEF Quiet, Shape, Fields
<1> HIDE DEF r
<1>6. Closes(s, r) /\ Unfailed(r) /\ r.ask.fut # "waiting"
  BY <1>4, <1>5, QuietCloses DEF Quiet, Unfailed
<1>7. ASSUME NEW q, Becomes(e, q), Quiet(r, q), Idle(q), q.pc # "human" PROVE Sound
  BY <1>1, <1>2, <1>5, <1>6, <1>7, QuietSound DEF Calm, s
<1>8. CASE Ends(e, r, "error")
  BY <1>1, <1>6, <1>8, EndsSound DEF s
<1>9. CASE Becomes(e, Advance(r))
  BY <1>5, <1>7, <1>9, AdvanceQuiet DEF Idle
<1>10. CASE Becomes(e, [r EXCEPT !.pc = "retry", !.home = r.node, !.node = r.blame])
  <2> DEFINE q == [r EXCEPT !.pc = "retry", !.home = r.node, !.node = r.blame]
  <2>1. Quiet(r, q) /\ q.pc = "retry" /\ q.home = r.node
    BY <1>5 DEF Quiet, Shape, Fields
  <2>2. Becomes(e, q)
    BY <1>10
  <2> HIDE DEF q
  <2>3. Idle(q)
    BY <1>1, <1>4, <1>5, <2>1 DEF Idle
  <2>4. QED
    BY <1>7, <2>1, <2>2, <2>3
<1>11. QED
  BY <1>3, <1>8, <1>9, <1>10


\* A human node pauses the run and saves it.
LEMMA HumanNodeSound ==
  ASSUME IInv, NEW e \in DOMAIN run, HumanNode(e)
  PROVE  Sound
<1> DEFINE s == run[e]
           r == Visit(s)
<1>1. s.pc = "node"
  BY DEF HumanNode, At
<1>2. Calm(s)
  BY <1>1, CalmAt DEF Asks3
<1>3. \/ Becomes(e, Advance(r)) /\ UNCHANGED ckpt
      \/ Becomes(e, [r EXCEPT !.pc = "human", !.human = "waiting"]) /\ ckpt' = Saved(r)
  BY DEF HumanNode
<1> HIDE DEF s
<1>4. /\ Quiet(s, r) /\ Closes(s, r) /\ Shape(r) /\ Unfailed(r) /\ r.ask.fut # "waiting"
  BY <1>2, VisitCalm
<1> HIDE DEF r
<1>5. CASE Becomes(e, Advance(r)) /\ UNCHANGED ckpt
  BY <1>2, <1>4, <1>5, AdvanceQuiet, SameCkpt, QuietSound DEF Calm, Idle, s
<1>6. CASE Becomes(e, [r EXCEPT !.pc = "human", !.human = "waiting"]) /\ ckpt' = Saved(r)
  <2> DEFINE q == [r EXCEPT !.pc = "human", !.human = "waiting"]
  <2>1. Quiet(r, q) /\ q.pc = "human"
    BY <1>4 DEF Quiet, Shape, Fields
  <2>2. Becomes(e, q) /\ CkptStep
    BY <1>4, <1>6, SavedStep
  <2> HIDE DEF q
  <2>3. Closes(s, q) /\ Unfailed(q) /\ q.ask.fut # "waiting" /\ Idle(q)
    BY <1>2, <1>4, <2>1, QuietCloses DEF Quiet, Unfailed, Idle
  <2>4. Good(q)
    BY <1>2, <2>3, IdleGood DEF Calm
  <2>5. Top(e, q, ckpt')
    <3>1. q.g = s.g /\ q.sess = s.sess /\ q.g = r.g /\ q.sess = r.sess
      BY <1>4, <2>1 DEF Quiet
    <3>2. r.g.name \in Flows => <<r.g.name, r.sess>> \in DOMAIN ckpt'
      BY <1>6 DEF Saved, With
    <3>3. Len(e) = 1 => s.g.name \in Flows
      BY DEF IInv, Top, s
    <3>4. QED
      BY <3>1, <3>2, <3>3 DEF Top
  <2>6. QED
    BY <1>2, <2>2, <2>3, <2>4, <2>5, BecomesSound DEF Calm, Closes, s
<1>7. QED
  BY <1>3, <1>5, <1>6

\* A human answers.
LEMMA HumanAnsweredSound ==
  ASSUME IInv, NEW e \in DOMAIN run, HumanAnswered(e)
  PROVE  Sound
<1> DEFINE r == run[e]
           x == [r EXCEPT !.vals[r.node] = 1, !.human = "none"]
<1>1. r.pc = "human" /\ CkptStep /\ UNCHANGED ckpt /\ (Ends(e, r, "error") \/ Becomes(e, Advance(x)))
  BY SameCkpt DEF HumanAnswered, Waiting
<1>2. Calm(r)
  BY <1>1, CalmAt DEF Asks3
<1>3. CASE Ends(e, r, "error")
  BY <1>1, <1>3, StopsSound
<1>4. CASE Becomes(e, Advance(x))
  <2> HIDE DEF r
  <2>1. Quiet(r, x) /\ Shape(x)
    BY <1>2 DEF Calm, Quiet, Shape, Fields
  <2> HIDE DEF x
  <2>2. Quiet(r, Advance(x)) /\ Advance(x).pc = "node"
    BY <1>2, <2>1, AdvanceQuiet, QuietTrans DEF Calm
  <2>3. QED
    BY <1>1, <1>2, <1>4, <2>2, QuietSound DEF Calm, Idle, r
<1>5. QED
  BY <1>1, <1>3, <1>4

\* The future of a human leaves all that is said of a run as it was.
LEMMA HumanField ==
  ASSUME NEW r, Good(r), NEW value
  PROVE  LET q == [r EXCEPT !.human = value] IN
         /\ Quiet(r, q) /\ Closes(r, q) /\ Good(q) /\ Follows(r, q) /\ Still(r, q) /\ Shape(q)
<1> DEFINE q == [r EXCEPT !.human = value]
<1>1. Shape(r) /\ Closes(r, r)
  BY SelfCloses DEF Good
<1>2. /\ Quiet(r, q) /\ q.node = r.node /\ q.pc = r.pc /\ q.item = r.item /\ q.iter = r.iter
      /\ q.home = r.home /\ q.phase = r.phase /\ q.plan = r.plan /\ q.calls = r.calls
      /\ q.failed = r.failed
  BY <1>1 DEF Quiet, Shape, Fields
<1> HIDE DEF q
<1>3. Closes(r, q) /\ Still(r, q)
  BY <1>1, <1>2, QuietCloses DEF Still, Quiet
<1>4. Good(q)
  BY <1>2 DEF Good, Quiet, HopsPaid, Hops, MayCall, FutureOK, AtNode, AsksToRead, Stopping
<1>5. QED
  BY <1>2, <1>3, <1>4 DEF Closes, Quiet, q

\* A human does not answer in time.
LEMMA HumanTimeoutSound ==
  ASSUME IInv, NEW e \in DOMAIN run, HumanTimeout(e)
  PROVE  Sound
<1> DEFINE r == run[e]
           q == [r EXCEPT !.human = "none"]
<1>1. r.pc = "human" /\ CkptStep /\ Ends(e, q, "paused") /\ UNCHANGED ckpt
  BY SameCkpt DEF HumanTimeout, Waiting
<1>2. Good(r)
  BY DEF IInv
<1> HIDE DEF r
<1>3. Quiet(r, q) /\ Closes(r, q)
  BY <1>2, HumanField
<1> HIDE DEF q
<1>4. Len(e) = 1 => <<q.g.name, q.sess>> \in DOMAIN ckpt'
  BY <1>1, <1>3 DEF IInv, Top, Quiet, r
<1>5. QED
  BY <1>1, <1>3, <1>4, EndsSound DEF r

\* What resolve_human_input and the plan RPCs set is kept for the run.
LEMMA ResolveSound ==
  ASSUME IInv, NEW e \in DOMAIN run, NEW pc, NEW value, Resolve(e, pc, value)
  PROVE  Sound
<1> DEFINE r == run[e]
           q == [r EXCEPT !.human = value]
<1>1. Good(r) /\ CkptStep /\ Becomes(e, q)
  BY SameCkpt DEF Resolve, IInv
<1> HIDE DEF r
<1>2. Quiet(r, q) /\ Good(q) /\ Follows(r, q) /\ Still(r, q)
  BY <1>1, HumanField
<1> HIDE DEF q
<1>3. Top(e, q, ckpt')
  BY <1>1, <1>2 DEF IInv, Top, CkptStep, Quiet, Still, r
<1>4. QED
  BY <1>1, <1>2, <1>3, BecomesSound DEF r

\* A planner, verify or ACP node calls out.
LEMMA CallOutSound ==
  ASSUME IInv, NEW e \in DOMAIN run, CallOut(e)
  PROVE  Sound
<1> DEFINE s == run[e]
           r == Visit(s)
           x == [r EXCEPT !.pc = "out"]
<1>1. s.pc = "node" /\ CkptStep /\ (Becomes(e, Advance(r)) \/ Becomes(e, x))
  BY SameCkpt DEF CallOut, At
<1>2. Calm(s)
  BY <1>1, CalmAt DEF Asks3
<1> HIDE DEF s
<1>3. /\ Quiet(s, r) /\ Closes(s, r) /\ Shape(r) /\ Unfailed(r) /\ r.ask.fut # "waiting"
  BY <1>2, VisitCalm
<1> HIDE DEF r
<1>4. Quiet(r, Advance(r)) /\ Advance(r).pc = "node" /\ Quiet(r, x) /\ x.pc = "out"
  BY <1>3, AdvanceQuiet DEF Quiet, Shape, Fields
<1> HIDE DEF x
<1>5. QED
  BY <1>1, <1>2, <1>3, <1>4, QuietSound DEF Calm, Idle, s

\* A node that waits outside the run returns.
LEMMA ReturnsSound ==
  ASSUME IInv, NEW e \in DOMAIN run, Calm(run[e]), UNCHANGED ckpt, NEW x, Quiet(run[e], x),
         Becomes(e, Advance(x))
  PROVE  Sound
<1>1. Shape(x) /\ CkptStep
  BY SameCkpt DEF Quiet
<1>2. Quiet(run[e], Advance(x)) /\ Advance(x).pc = "node"
  BY <1>1, AdvanceQuiet, QuietTrans DEF Calm
<1>3. QED
  BY <1>1, <1>2, QuietSound DEF Calm, Idle

\* The planner returns.
LEMMA PlanReturnsSound ==
  ASSUME IInv, NEW e \in DOMAIN run, PlanReturns(e)
  PROVE  Sound
<1> DEFINE r == run[e]
           x == [r EXCEPT !.pc = "plan", !.human = "waiting"]
<1>1. r.pc = "out" /\ CkptStep /\ UNCHANGED ckpt /\ (Becomes(e, Advance(r)) \/ Becomes(e, x))
  BY SameCkpt DEF PlanReturns, Out, Waiting
<1>2. Calm(r)
  BY <1>1, CalmAt DEF Asks3
<1>3. CASE Becomes(e, Advance(r))
  BY <1>1, <1>2, <1>3, ReturnsSound DEF Calm
<1>4. CASE Becomes(e, x)
  <2> HIDE DEF r
  <2>1. Quiet(r, x) /\ x.pc = "plan"
    BY <1>2 DEF Calm, Quiet, Shape, Fields
  <2> HIDE DEF x
  <2>2. QED
    BY <1>1, <1>2, <1>4, <2>1, QuietSound DEF Calm, Idle, r
<1>5. QED
  BY <1>1, <1>3, <1>4

\* A plan is decided.
LEMMA PlanDecidedSound ==
  ASSUME IInv, NEW e \in DOMAIN run, PlanDecided(e)
  PROVE  Sound
<1> DEFINE s == run[e]
           r == [s EXCEPT !.human = "none"]
<1>1. s.pc = "plan" /\ CkptStep /\ UNCHANGED ckpt /\ (Ends(e, r, "error") \/ Becomes(e, Advance(r)))
  BY SameCkpt DEF PlanDecided, Waiting
<1>2. Calm(s)
  BY <1>1, CalmAt DEF Asks3
<1> HIDE DEF s
<1>3. Quiet(s, r) /\ Closes(s, r)
  BY <1>2, HumanField DEF Calm
<1> HIDE DEF r
<1>4. QED
  BY <1>1, <1>2, <1>3, EndsSound, ReturnsSound DEF s

\* A plan is not decided in time.
LEMMA PlanTimeoutSound ==
  ASSUME IInv, NEW e \in DOMAIN run, PlanTimeout(e)
  PROVE  Sound
<1> DEFINE s == run[e]
           r == [s EXCEPT !.human = "none"]
<1>1. Good(s) /\ CkptStep /\ Ends(e, r, "error")
  BY SameCkpt DEF PlanTimeout, IInv
<1> HIDE DEF s
<1>2. Closes(s, r)
  BY <1>1, HumanField
<1> HIDE DEF r
<1>3. QED
  BY <1>1, <1>2, EndsSound DEF s

\* The verifier returns.
LEMMA VerifyReturnsSound ==
  ASSUME IInv, NEW e \in DOMAIN run, VerifyReturns(e)
  PROVE  Sound
<1> DEFINE s == run[e]
<1>1. s.pc = "out" /\ UNCHANGED ckpt
  BY DEF VerifyReturns, Out, Waiting
<1>2. PICK bad \in BOOLEAN : Becomes(e, Advance([s EXCEPT !.err = @ \/ bad]))
  BY DEF VerifyReturns
<1> DEFINE x == [s EXCEPT !.err = @ \/ bad]
<1>3. Calm(s) /\ Becomes(e, Advance(x))
  BY <1>1, <1>2, CalmAt DEF Asks3
<1> HIDE DEF s
<1>4. Quiet(s, x)
  BY <1>3 DEF Calm, Quiet, Shape, Fields
<1> HIDE DEF x
<1>5. QED
  BY <1>1, <1>3, <1>4, ReturnsSound DEF s

\* The ACP peer returns.
LEMMA AcpReturnsSound ==
  ASSUME IInv, NEW e \in DOMAIN run, AcpReturns(e)
  PROVE  Sound
<1> DEFINE s == run[e]
           x == Speaks(s, "assistant")
<1>1. s.pc = "out" /\ UNCHANGED ckpt /\ (Ends(e, s, "error") \/ Becomes(e, Advance(x)))
  BY DEF AcpReturns, Out, Waiting
<1>2. Calm(s)
  BY <1>1, CalmAt DEF Asks3
<1>3. Quiet(s, x)
  BY <1>2, SpeaksQuiet DEF Calm
<1> HIDE DEF x
<1>4. QED
  BY <1>1, <1>2, <1>3, StopsSound, ReturnsSound


-----------------------------------------------------------------------------
(* Approvals and clients.                                                  *)

\* Only the approval changes.
AskOnly(r, q) ==
  /\ Shape(q) /\ q.g = r.g /\ q.sess = r.sess /\ q.pc = r.pc /\ q.out = r.out /\ q.node = r.node
  /\ q.iter = r.iter /\ q.item = r.item /\ q.calls = r.calls /\ q.phase = r.phase
  /\ q.failed = r.failed /\ q.home = r.home /\ q.plan = r.plan /\ q.hops = r.hops
  /\ q.did = r.did /\ q.bad = r.bad

\* A step that changes an approval and nothing else.
LEMMA AskOnlySound ==
  ASSUME IInv, UNCHANGED ckpt, NEW e \in DOMAIN run, NEW q, Becomes(e, q), AskOnly(run[e], q),
         FutureOK(q)
  PROVE  Sound
<1>1. Good(run[e]) /\ CkptStep
  BY SameCkpt DEF IInv
<1>2. Good(q)
  BY <1>1 DEF Good, AskOnly, HopsPaid, Hops, MayCall, AtNode, AsksToRead, Stopping
<1>3. Follows(run[e], q) /\ Still(run[e], q)
  BY DEF AskOnly, Follows, Still, SymDiff
<1>4. Top(e, q, ckpt')
  BY <1>1 DEF IInv, Top, CkptStep, AskOnly
<1>5. QED
  BY <1>1, <1>2, <1>3, <1>4, BecomesSound

\* An approval times out.
LEMMA AskTimeoutSound ==
  ASSUME IInv, NEW e \in DOMAIN run, AskTimeout(e)
  PROVE  Sound
<1> DEFINE r == run[e]
           q == [r EXCEPT !.ask.fut = "timeout"]
<1>1. Good(r) /\ Shape(r) /\ r.ask.fut = "waiting" /\ Becomes(e, q) /\ UNCHANGED ckpt
  BY DEF AskTimeout, IInv, Good
<1> HIDE DEF r
<1>2. AskOnly(r, q) /\ q.ask.fut = "timeout"
  BY <1>1 DEF AskOnly, Shape, Fields
<1> HIDE DEF q
<1>3. FutureOK(q)
  BY <1>2 DEF FutureOK
<1>4. QED
  BY <1>1, <1>2, <1>3, AskOnlySound DEF r

\* approve_action or reject_action answers an approval.
LEMMA AnswerSound ==
  ASSUME IInv, NEW e \in DOMAIN run, NEW status, NEW value, Answer(e, status, value),
         <<status, value>> \in {<<"approved", "yes">>, <<"rejected", "no">>}
  PROVE  Sound
<1> DEFINE r == run[e]
           q == [r EXCEPT !.ask.status = status,
                          !.ask.fut = IF @ = "waiting" THEN value ELSE @]
<1>1. Good(r) /\ Shape(r) /\ r.ask.status = "pending" /\ Becomes(e, q) /\ UNCHANGED ckpt
  BY DEF Answer, IInv, Good
<1>2. (status = "approved" /\ value = "yes") \/ (status = "rejected" /\ value = "no")
  OBVIOUS
<1> HIDE DEF r
<1>3. /\ AskOnly(r, q) /\ q.ask.status = status
      /\ q.ask.fut = IF r.ask.fut = "waiting" THEN value ELSE r.ask.fut
  BY <1>1 DEF AskOnly, Shape, Fields
<1> HIDE DEF q
<1>4. FutureOK(q)
  BY <1>1, <1>2, <1>3 DEF FutureOK, AskOnly, Good
<1>5. QED
  BY <1>1, <1>3, <1>4, AskOnlySound DEF r

\* The waiting of an approval is cancelled.
LEMMA AskCancelledSound ==
  ASSUME IInv, NEW e \in DOMAIN run, AskCancelled(e)
  PROVE  Sound
BY StopsSound DEF AskCancelled

\* A run is cancelled, with all below it.
LEMMA CancelSound ==
  ASSUME IInv, NEW e \in DOMAIN run, Cancel(e)
  PROVE  Sound
BY StopsSound DEF Cancel

\* An execution starts.
LEMMA ExecuteSound ==
  ASSUME IInv, NEW r \in Roots, NEW f \in Flows, NEW s, Execute(<<r>>, f, s)
  PROVE  Sound
<1> DEFINE q == Entered(GraphOf[f], s, FALSE, NoValues)
<1>1. CkptStep /\ <<r>> \notin DOMAIN run /\ run' = With(run, <<r>>, q)
  BY SameCkpt DEF Execute
<1>2. Good(q) /\ q.pc # "human" /\ q.out # "paused" /\ q.g = GraphOf[f]
  BY BoundsAssumption DEF Entered, Good, Shape, Fields, NoAsk, HopsPaid, Hops, MayCall, FutureOK, Asks3,
    AtNode, AsksToRead, Stopping
<1> HIDE DEF q
<1>3. Top(<<r>>, q, ckpt')
  <2>1. q.g.name = f
    BY <1>2, FlowsAssumption
  <2>2. QED
    BY <1>2, <2>1 DEF Top
<1>4. QED
  BY <1>1, <1>2, <1>3, StartsSound

\* An execution is resumed from its checkpoint.
LEMMA ResumeSound ==
  ASSUME IInv, NEW r \in Roots, NEW f \in Flows, NEW s, NEW answers, Resume(<<r>>, f, s, answers)
  PROVE  Sound
<1> DEFINE c == ckpt[<<f, s>>]
           q == Restored(c, f, s, answers)
<1>1. CkptStep /\ <<r>> \notin DOMAIN run /\ run' = With(run, <<r>>, q) /\ c.iter \in Nat
  BY SameCkpt DEF Resume, IInv, CkptOK
<1> HIDE DEF c
<1>2. Good(q) /\ q.pc # "human" /\ q.out # "paused" /\ q.g = GraphOf[f]
  BY <1>1, RestoredGood
<1> HIDE DEF q
<1>3. Top(<<r>>, q, ckpt')
  <2>1. q.g.name = f
    BY <1>2, FlowsAssumption
  <2>2. QED
    BY <1>2, <2>1 DEF Top
<1>4. QED
  BY <1>1, <1>2, <1>3, StartsSound

\* The daemon dies; the checkpoints stay.
LEMMA CrashSound ==
  ASSUME IInv, Crash
  PROVE  Sound
<1>1. CkptOK' /\ DOMAIN run' = {}
  BY DEF IInv, CkptOK, Crash
<1>2. QED
  BY <1>1 DEF Sound, IInv, StepOK, Stay


-----------------------------------------------------------------------------
(* Sub-runtimes.                                                           *)

\* A run that begins to wait for its sub-runtimes is left well.
LEMMA WaitGood ==
  ASSUME NEW x, Good(x), x.pc \in {"node", "tools"},
         x.g.kind[x.node] \in LlmKinds \cup {"sub_flow", "iteration", "parallel"}
  PROVE  LET q == [x EXCEPT !.pc = "wait"] IN
         Good(q) /\ Quiet(x, q) /\ q.pc = "wait" /\ q.node = x.node /\ q.item = x.item
<1> DEFINE q == [x EXCEPT !.pc = "wait"]
<1>1. Shape(x)
  BY DEF Good
<1>2. /\ Quiet(x, q) /\ q.node = x.node /\ q.pc = "wait" /\ q.item = x.item
      /\ q.home = x.home /\ q.failed = x.failed /\ q.iter = x.iter
  BY <1>1 DEF Quiet, Shape, Fields
<1>3. x.hops <= x.iter /\ x.hops <= MaxIter
  BY SelfCloses DEF Closes
<1> HIDE DEF q
<1>4. Good(q)
  BY <1>2, <1>3 DEF Good, Quiet, HopsPaid, Hops, MayCall, FutureOK, AtNode, AsksToRead, Stopping, Asks3, Shape
<1>5. QED
  BY <1>2, <1>4 DEF q

\* A sub-runtime of a saved graph starts, or its name is unknown.
LEMMA SubGraphRunSound ==
  ASSUME IInv, CkptStep, NEW e \in DOMAIN run, NEW x, Good(x), Closes(run[e], x),
         run[e].pc \in {"node", "tools"}, x.pc = run[e].pc, x.node = run[e].node,
         x.g.kind[x.node] \in LlmKinds \cup {"sub_flow", "iteration", "parallel"},
         NEW f, SubGraphRun(e, x, f)
  PROVE  Sound
<1>1. CASE Ends(e, x, "error")
  BY <1>1, EndsSound
<1>2. CASE Becomes(e, x)
  BY <1>2, TopKept, BecomesSound DEF Closes
<1>3. CASE Sprout(e, x, Entered(GraphOf[f], x.sess, x.plan, x.vals))
  <2> DEFINE q == [x EXCEPT !.pc = "wait"]
             child == Entered(GraphOf[f], x.sess, x.plan, x.vals)
  <2>1. Good(child) /\ Shape(x) /\ Sprout(e, x, child)
    BY <1>3, EnteredGood DEF Good
  <2>2. Good(q) /\ Quiet(x, q) /\ q.pc = "wait" /\ q.node = x.node
    BY WaitGood
  <2>3. \A c \in Children(e) : ~Live(c)
    BY Childless
  <2> HIDE DEF q, child
  <2>4. Closes(run[e], q)
    BY <2>1, <2>2, QuietCloses
  <2>5. Top(e, q, ckpt')
    BY <2>2, <2>4, TopKept
  <2>6. QED
    BY <2>1, <2>2, <2>3, <2>4, <2>5, SproutSound DEF q, Closes
<1>4. QED
  BY <1>1, <1>2, <1>3 DEF SubGraphRun

\* A sub-flow or iteration node is entered.
LEMMA SubFlowNodeSound ==
  ASSUME IInv, NEW e \in DOMAIN run, SubFlowNode(e)
  PROVE  Sound
<1> DEFINE s == run[e]
           r == Visit(s)
<1>1. /\ s.pc = "node" /\ CkptStep /\ s.g.kind[s.node] \in {"sub_flow", "iteration"}
      /\ \/ SubGraphRun(e, r, FlowOf[r.node])
         \/ Becomes(e, Advance(r))
  BY SameCkpt DEF SubFlowNode, At
<1>2. Calm(s)
  BY <1>1, CalmAt DEF Asks3
<1> HIDE DEF s
<1>3. /\ Quiet(s, r) /\ Closes(s, r) /\ Shape(r) /\ Unfailed(r) /\ r.ask.fut # "waiting"
      /\ r.node = s.node /\ r.pc = s.pc
  BY <1>2, VisitCalm
<1> HIDE DEF r
<1>4. CASE Becomes(e, Advance(r))
  BY <1>1, <1>2, <1>3, <1>4, AdvanceQuiet, QuietSound DEF Calm, Idle, s
<1>5. CASE SubGraphRun(e, r, FlowOf[r.node])
  <2>1. Good(r)
    BY <1>1, <1>2, <1>3, IdleGood DEF Calm, Idle
  <2>2. r.g.kind[r.node] \in {"sub_flow", "iteration"}
    BY <1>1, <1>3 DEF Quiet
  <2>3. QED
    BY <1>1, <1>3, <1>5, <2>1, <2>2, SubGraphRunSound DEF s
<1>6. QED
  BY <1>1, <1>4, <1>5

\* A call of a reply runs a sub-graph.
LEMMA SubCallSound ==
  ASSUME IInv, NEW e \in DOMAIN run, SubCall(e)
  PROVE  Sound
<1> DEFINE s == run[e]
           x == [s EXCEPT !.calls = Tail(@)]
<1>1. /\ Good(s) /\ Shape(s) /\ s.pc = "tools" /\ CkptStep /\ SubGraphRun(e, x, FlowOf[Sub])
  BY SameCkpt DEF SubCall, Calling, IInv, Good
<1> HIDE DEF s
<1>2. /\ Quiet(s, x) /\ x.pc = s.pc /\ x.node = s.node /\ x.home = s.home /\ x.failed = s.failed
  BY <1>1 DEF Quiet, Shape, Fields
<1> HIDE DEF x
<1>3. Closes(s, x)
  BY <1>1, <1>2, SelfCloses, QuietCloses
<1>4. /\ x.g.kind[x.node] \in LlmKinds /\ Stopping(x) /\ x.ask.fut # "waiting"
  BY <1>1, <1>2, HeardAt DEF Quiet, Good, AtNode, Stopping, Asks3
<1>5. Good(x)
  BY <1>1, <1>2, <1>3, <1>4, AtModelGood
<1>6. QED
  BY <1>1, <1>2, <1>3, <1>4, <1>5, SubGraphRunSound DEF s

\* A parallel node forks its branches.
LEMMA ParallelNodeSound ==
  ASSUME IInv, NEW e \in DOMAIN run, ParallelNode(e)
  PROVE  Sound
<1> DEFINE s == run[e]
           r == Visit(s)
           t == Targets(r.g, r.node)
           I == {j \in 1..Len(t) : t[j] # r.node}
           new == {Append(e, i) : i \in I}
           q == [r EXCEPT !.pc = "wait"]
           first == IF t = <<>> THEN NoNode ELSE t[1]
           B == Fork(r.g, r.node).branch
<1>1. /\ s.pc = "node" /\ CkptStep /\ s.g.kind[s.node] \in {"parallel"}
      /\ \/ Becomes(e, Goto(r, first))
         \/ run' = [c \in DOMAIN run \cup new |->
                      IF c \in new THEN Entered(B[Last(c)], r.sess, r.plan, NoValues)
                      ELSE IF c = e THEN q ELSE run[c]]
  BY SameCkpt DEF ParallelNode, At
<1>2. Calm(s)
  BY <1>1, CalmAt DEF Asks3
<1>3. I \in SUBSET Nat
  OBVIOUS
<1> HIDE DEF s
<1>4. /\ Quiet(s, r) /\ Closes(s, r) /\ Shape(r) /\ Unfailed(r) /\ r.ask.fut # "waiting"
      /\ r.node = s.node /\ r.pc = s.pc
  BY <1>2, VisitCalm
<1> HIDE DEF r, t, first, B
<1>5. CASE Becomes(e, Goto(r, first))
  BY <1>1, <1>2, <1>4, <1>5, GotoQuiet, QuietSound DEF Calm, Idle, s
<1>6. CASE run' = [c \in DOMAIN run \cup new |->
                     IF c \in new THEN Entered(B[Last(c)], r.sess, r.plan, NoValues)
                     ELSE IF c = e THEN q ELSE run[c]]
  <2>1. Good(r) /\ r.g.kind[r.node] = "parallel"
    BY <1>1, <1>2, <1>4, IdleGood DEF Calm, Idle, Quiet
  <2>2. Good(q) /\ Quiet(r, q) /\ q.pc = "wait" /\ q.node = r.node
    BY <1>1, <1>4, <2>1, WaitGood
  <2> HIDE DEF q, I
  <2>3. Closes(s, q) /\ q.g.kind[q.node] # "iteration"
    BY <1>2, <1>4, <2>1, <2>2, QuietCloses DEF Quiet, Calm
  <2>4. Top(e, q, ckpt')
    BY <1>1, <2>2, <2>3, TopKept DEF s
  <2>5. DOMAIN run' = DOMAIN run \cup new
    BY <1>6
  <2>6. ASSUME NEW c \in new PROVE Good(run'[c]) /\ \E i \in Nat : c = Append(e, i)
    <3>1. run'[c] = Entered(B[Last(c)], r.sess, r.plan, NoValues)
      BY <1>6
    <3>2. \E i \in Nat : c = Append(e, i)
      BY <1>3
    <3>3. QED
      BY <3>1, <3>2, EnteredGood
  <2> HIDE DEF new
  <2>7. \A c \in DOMAIN run \ new : run'[c] = IF c = e THEN q ELSE run[c]
    BY <1>6
  <2>8. run[e].pc # "wait" /\ Follows(run[e], q) /\ CkptStep
    BY <1>1, <2>3 DEF Closes, s
  <2>9. QED
    BY <2>2, <2>3, <2>4, <2>5, <2>6, <2>7, <2>8, ForksSound
<1>7. QED
  BY <1>1, <1>5, <1>6


\* The sub-runtimes a run waits for have ended.
LEMMA SubRunsDoneSound ==
  ASSUME IInv, NEW e \in DOMAIN run, SubRunsDone(e)
  PROVE  Sound
<1> DEFINE r == run[e]
           kind == r.g.kind[r.node]
           item == r.item + 1
           done == [r EXCEPT !.pc = "tools"]
           said == Speaks(r, "assistant")
           next == [r EXCEPT !.item = item]
           child == Entered(GraphOf[FlowOf[r.node]], r.sess, r.plan, r.vals)
           merge == Fork(r.g, r.node).merge
<1>1. /\ Good(r) /\ Shape(r) /\ r.pc = "wait" /\ CkptStep /\ UNCHANGED ckpt
      /\ \A c \in Children(e) : ~Live(c)
  BY SameCkpt DEF SubRunsDone, IInv, Good
<1>2. kind \in LlmKinds \cup {"sub_flow", "iteration", "parallel"}
  BY <1>1 DEF Good, AtNode
<1>3. \/ Ends(e, r, "error")
      \/ kind \in LlmKinds /\ Joins(e, done)
      \/ kind \notin LlmKinds /\ Joins(e, Advance(r))
      \/ kind \notin LlmKinds /\ Joins(e, Goto(said, merge))
      \/ kind = "iteration" /\ Sprout(e, next, child)
  BY <1>2 DEF SubRunsDone, LlmKinds
<1> HIDE DEF r, merge, child
<1>4. Closes(r, r) /\ r.ask.fut # "waiting"
  BY <1>1, SelfCloses, HeardAt DEF Asks3
<1>5. kind \notin LlmKinds => Unfailed(r)
  BY <1>1 DEF Good, Stopping, Unfailed
<1>6. ASSUME NEW q, Closes(r, q), Good(q), q.pc # "human", Joins(e, q) PROVE Sound
  <2>1. Top(e, q, ckpt') /\ Follows(run[e], q)
    BY <1>1, <1>6, TopKept DEF Closes, r
  <2>2. QED
    BY <1>1, <1>6, <2>1, JoinsSound
<1>7. ASSUME NEW q, kind \notin LlmKinds, Quiet(r, q), q.pc = "node", Joins(e, q) PROVE Sound
  <2>1. Closes(r, q) /\ Unfailed(q) /\ q.ask.fut # "waiting" /\ Idle(q)
    BY <1>1, <1>4, <1>5, <1>7, QuietCloses DEF Quiet, Unfailed, Idle
  <2>2. Good(q)
    BY <1>1, <2>1, IdleGood
  <2>3. QED
    BY <1>6, <1>7, <2>1, <2>2
<1>8. CASE Ends(e, r, "error")
  BY <1>1, <1>8, StopsSound DEF r
<1>9. CASE kind \in LlmKinds /\ Joins(e, done)
  <2>1. Quiet(r, done) /\ done.node = r.node /\ done.pc = "tools" /\ done.home = r.home
        /\ done.failed = r.failed
    BY <1>1 DEF Quiet, Shape, Fields
  <2> HIDE DEF done
  <2>2. Closes(r, done) /\ done.ask.fut # "waiting"
    BY <1>1, <1>4, <2>1, QuietCloses DEF Quiet
  <2>3. done.g.kind[done.node] \in LlmKinds /\ Stopping(done)
    BY <1>1, <1>9, <2>1 DEF Quiet, Good, Stopping
  <2>4. Good(done)
    BY <1>1, <2>1, <2>2, <2>3, AtModelGood
  <2>5. QED
    BY <1>6, <1>9, <2>1, <2>2, <2>4
<1>10. CASE kind \notin LlmKinds /\ Joins(e, Advance(r))
  BY <1>1, <1>7, <1>10, AdvanceQuiet
<1>11. CASE kind \notin LlmKinds /\ Joins(e, Goto(said, merge))
  <2>1. Quiet(r, said) /\ Shape(said)
    BY <1>1, SpeaksQuiet DEF Quiet
  <2> HIDE DEF said
  <2>2. Quiet(said, Goto(said, merge)) /\ Goto(said, merge).pc = "node"
    BY <2>1, GotoQuiet
  <2>3. Quiet(r, Goto(said, merge))
    BY <1>1, <2>1, <2>2, QuietTrans
  <2>4. QED
    BY <1>7, <1>11, <2>2, <2>3
<1>12. CASE kind = "iteration" /\ Sprout(e, next, child)
  <2> DEFINE q == [next EXCEPT !.pc = "wait"]
  <2>1. /\ Quiet(r, next) /\ next.node = r.node /\ next.pc = "wait" /\ next.item = r.item + 1
        /\ next.home = r.home /\ next.failed = r.failed /\ next.iter = r.iter
    BY <1>1 DEF Quiet, Shape, Fields
  <2> HIDE DEF next
  <2>2. Shape(next)
    BY <2>1 DEF Quiet
  <2>3. /\ Quiet(next, q) /\ q.node = next.node /\ q.pc = "wait" /\ q.home = next.home
        /\ q.iter = next.iter
    BY <2>2 DEF Quiet, Shape, Fields
  <2> HIDE DEF q
  <2>4. Quiet(r, q)
    BY <1>1, <2>1, <2>3, QuietTrans
  <2>5. Closes(r, q)
    BY <1>1, <1>4, <2>1, <2>3, <2>4, QuietCloses
  <2>6. Good(q)
    <3>1. HopsPaid(q)
      BY <2>3, <2>5 DEF Closes, HopsPaid, Hops, MayCall, Shape
    <3>2. FutureOK(q) /\ AsksToRead(q) /\ Stopping(q)
      BY <1>1, <1>4, <1>5, <1>12, <2>1, <2>3, <2>4
        DEF Good, FutureOK, AsksToRead, Stopping, Unfailed, Quiet, Asks3, LlmKinds
    <3>3. AtNode(q)
      BY <1>2, <2>1, <2>3, <2>4 DEF AtNode, Quiet
    <3>4. QED
      BY <2>4, <3>1, <3>2, <3>3 DEF Good, Quiet
  <2>7. Top(e, q, ckpt') /\ Follows(run[e], q)
    BY <1>1, <2>3, <2>5, TopKept DEF Closes, r
  <2>8. Good(child)
    BY EnteredGood DEF child
  <2>9. run[e].g.kind[run[e].node] = "iteration" /\ next.item # run[e].item
    BY <1>1, <1>12, <2>1 DEF Shape, r
  <2>10. QED
    BY <1>1, <1>12, <2>2, <2>6, <2>7, <2>8, <2>9, SproutSound DEF q
<1>13. QED
  BY <1>3, <1>8, <1>9, <1>10, <1>11, <1>12


-----------------------------------------------------------------------------
(* The theorems.                                                           *)

\* Every step of a run.
LEMMA StepSound ==
  ASSUME IInv, NEW e \in DOMAIN run, Step(e)
  PROVE  Sound
<1>1. CASE LeaveLoop(e) \/ Pass(e) \/ EndNode(e) \/ HandlerNode(e)
  BY <1>1, LeaveLoopSound, PassSound, EndNodeSound, HandlerNodeSound
<1>2. CASE AskTimeout(e) \/ AskRefused(e) \/ AskCancelled(e)
  BY <1>2, AskTimeoutSound, AskRefusedSound, AskCancelledSound
<1>3. CASE ToolNode(e) \/ ToolNodeGranted(e)
  BY <1>3, ToolNodeSound, ToolNodeGrantedSound
<1>4. CASE CallOut(e) \/ PlanReturns(e) \/ PlanDecided(e) \/ PlanTimeout(e)
  BY <1>4, CallOutSound, PlanReturnsSound, PlanDecidedSound, PlanTimeoutSound
<1>5. CASE VerifyReturns(e) \/ AcpReturns(e)
  BY <1>5, VerifyReturnsSound, AcpReturnsSound
<1>6. CASE RagNode(e) \/ LlmNode(e) \/ LlmGranted(e) \/ LlmReply(e) \/ RepairReply(e)
  BY <1>6, RagNodeSound, LlmNodeSound, LlmGrantedSound, LlmReplySound, RepairReplySound
<1>7. CASE CallsAtOnce(e) \/ CallTool(e) \/ CallGranted(e) \/ CallsDone(e)
  BY <1>7, CallsAtOnceSound, CallToolSound, CallGrantedSound, CallsDoneSound
<1>8. CASE HumanNode(e) \/ HumanAnswered(e) \/ HumanTimeout(e)
  BY <1>8, HumanNodeSound, HumanAnsweredSound, HumanTimeoutSound
<1>9. CASE SubFlowNode(e) \/ SubCall(e) \/ ParallelNode(e) \/ SubRunsDone(e)
  BY <1>9, SubFlowNodeSound, SubCallSound, ParallelNodeSound, SubRunsDoneSound
<1>10. QED
  BY <1>1, <1>2, <1>3, <1>4, <1>5, <1>6, <1>7, <1>8, <1>9 DEF Step

\* Every request of a client.
LEMMA RequestsSound ==
  ASSUME IInv, Requests
  PROVE  Sound
<1>1. ASSUME NEW r \in Roots, NEW s \in Sessions, NEW f \in Starts[r],
             \/ Execute(<<r>>, f, s)
             \/ \E answers \in SUBSET {n \in Valued \cap NodesOf(GraphOf[f]) :
                                        GraphOf[f].kind[n] = "human_input"} :
                  Resume(<<r>>, f, s, answers)
      PROVE  Sound
  <2>1. f \in Flows
    BY FlowsAssumption
  <2>2. QED
    BY <1>1, <2>1, ExecuteSound, ResumeSound
<1>2. ASSUME NEW e \in DOMAIN run, approve_action(e) \/ reject_action(e)
      PROVE  Sound
  BY <1>2, AnswerSound DEF approve_action, reject_action
<1>3. ASSUME NEW e \in DOMAIN run,
             \/ Cancel(e) \/ approve_plan_in_graph(e) \/ reject_plan_in_graph(e)
             \/ \E value \in {"yes", "no"} : resolve_human_input(e, value)
      PROVE  Sound
  BY <1>3, CancelSound, ResolveSound
    DEF approve_plan_in_graph, reject_plan_in_graph, resolve_human_input
<1>4. QED
  BY <1>1, <1>2, <1>3 DEF Requests

\* Every step, or none.
LEMMA NextSound ==
  ASSUME IInv, [Next]_vars
  PROVE  Sound
<1>1. CASE Next
  BY <1>1, RequestsSound, CrashSound, StepSound DEF Next
<1>2. CASE UNCHANGED vars
  <2>1. run' = run /\ ckpt' = ckpt
    BY <1>2 DEF vars
  <2>2. IInv'
    BY <2>1 DEF IInv, Awaited, CkptOK
  <2>3. StepOK
    BY <2>1 DEF StepOK, Stay, Follows, SymDiff
  <2>4. QED
    BY <2>2, <2>3 DEF Sound
<1>3. QED
  BY <1>1, <1>2

\* No run, no checkpoint.
LEMMA InitIInv == Init => IInv
BY DEF Init, IInv, CkptOK

\* The inductive invariant of the runtime.
THEOREM Inductive == Spec => []IInv
<1>1. IInv /\ [Next]_vars => IInv'
  BY NextSound DEF Sound
<1>2. QED
  BY <1>1, InitIInv, PTL DEF Spec

\* No run calls the model more often than max_iterations, whatever its graph:
\* every hop outside self-repairs and retries is paid for by a node that was
\* entered or a turn that was counted (ctx.iteration_count).
THEOREM ModelCallsBounded == Spec => []HopsBounded
<1>1. IInv => HopsBounded
  <2>1. ASSUME IInv, NEW e \in DOMAIN run PROVE run[e].hops <= MaxIter
    <3>1. Good(run[e])
      BY <2>1 DEF IInv
    <3>2. QED
      BY <3>1, SelfCloses DEF Closes
  <2>2. QED
    BY <2>1 DEF HopsBounded
<1>2. QED
  BY <1>1, Inductive, PTL

\* Of every approval: who waits has a future, a pending future is waited for,
\* and what it hears is what approve_action or reject_action recorded.
THEOREM ApprovalsAreHeard == Spec => []FuturesHaveWaiters
<1>1. IInv => FuturesHaveWaiters
  BY DEF IInv, Good, FutureOK, FuturesHaveWaiters, Asking, Live, Asks3
<1>2. QED
  BY <1>1, Inductive, PTL

\* An execution that paused for a human left a checkpoint of its graph in its
\* session, which nothing removes: it can be resumed.
THEOREM PausesAreSaved == Spec => []PauseIsSaved
<1>1. IInv => PauseIsSaved
  BY DEF IInv, Top, PauseIsSaved
<1>2. QED
  BY <1>1, Inductive, PTL

\* No tool or call that has to be asked for runs without an approval of its
\* own run for that very tool: from tool nodes, in replies, at once, in
\* self-repairs and in retries.  The capture after a tool node is excepted: the
\* code runs it with no admission.
THEOREM GatedToolsWait == Spec => OnlyGrantedToolsRun
<1>1. IInv /\ [Next]_vars =>
        [\A e \in Stay : \A t \in RanIn(e) :
           "allow" \notin Verdicts[t] =>
             \/ Asking(e) /\ Granted(run[e]) /\ t = AskedTool(run[e])
             \/ CaptureAfter(run[e], t)]_vars
  <2>1. ASSUME IInv, [Next]_vars, NEW e \in Stay, NEW t \in RanIn(e), "allow" \notin Verdicts[t]
        PROVE  \/ Asking(e) /\ Granted(run[e]) /\ t = AskedTool(run[e])
               \/ CaptureAfter(run[e], t)
    <3>1. MayRun(run[e], t) /\ e \in DOMAIN run
      BY <2>1, NextSound DEF Sound, StepOK, Follows, Stay, RanIn
    <3>2. QED
      BY <2>1, <3>1 DEF MayRun, Admitted, Asking, Live, Asks3
  <2>2. QED
    BY <2>1
<1>2. QED
  BY <1>1, Inductive, PTL DEF Spec, OnlyGrantedToolsRun

\* A run in plan mode runs nothing but tools that read, on any path, until
\* exit_plan_mode is called.  The capture after a tool node is excepted: the
\* code does not look at the plan mode there.
THEOREM PlansOnlyRead == Spec => PlanModeHolds
<1>1. IInv /\ [Next]_vars =>
        [\A e \in Stay : \A t \in RanIn(e) :
           run[e].plan => t \in ReadOnly \cup {ExitPlan} \/ CaptureAfter(run[e], t)]_vars
  <2>1. ASSUME IInv, [Next]_vars, NEW e \in Stay, NEW t \in RanIn(e), run[e].plan
        PROVE  t \in ReadOnly \cup {ExitPlan} \/ CaptureAfter(run[e], t)
    BY <2>1, NextSound DEF Sound, StepOK, Follows, MayRun, Reads, RanIn
  <2>2. QED
    BY <2>1
<1>2. QED
  BY <1>1, Inductive, PTL DEF Spec, PlanModeHolds

\* stop_on_tool_error: after a failed tool the run enters no other node, the
\* failure of a call in a reply included, while its other calls are answered.
THEOREM FailuresStopTheRun == Spec => StopsCascade
<1>1. IInv /\ [Next]_vars =>
        [\A e \in Stay : run[e].bad /\ run[e].g.stop => run'[e].node = run[e].node]_vars
  BY NextSound DEF Sound, StepOK, Follows
<1>2. QED
  BY <1>1, Inductive, PTL DEF Spec, StopsCascade

=============================================================================
