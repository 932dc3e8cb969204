---------------------------- MODULE SubAgents -----------------------------
(***************************************************************************)
(* Sub-agents of the daemon (agent_runtime/subagent.py, SubAgentRunner;    *)
(* subagent_sessions.py, the transcripts and the task manager; the RPCs of *)
(* dispatchers/subagent.py).  One runner serves all of them: a run builds  *)
(* its own context, but leaves it, and where its own messages begin, in    *)
(* two attributes of the runner, which it reads again when it ends.        *)
(*                                                                         *)
(* A call that starts a new sub-agent is also its agent_id.  A message is  *)
(* the call that produced it.  fork, which no caller of the daemon uses    *)
(* with a parent, scoped memory and compaction are left out.               *)
(***************************************************************************)
EXTENDS Naturals, Sequences, SequencesExt, FiniteSets

CONSTANTS
  MaxCalls,   \* bound: calls of subagent.run, spawn and resume
  Waiters,    \* calls of subagent.wait
  NoCtx,      \* no context, and no agent
  MaxMsgs,    \* bound: messages a run produces
  MaxCrash    \* bound: crashes of the daemon

ASSUME BoundsAssumption ==
  MaxCalls \in Nat /\ MaxMsgs \in Nat \ {0} /\ MaxCrash \in Nat

Calls == 1..MaxCalls   \* in the order in which they are made

ASSUME ContextAssumption == NoCtx \notin Seq(Calls)

VARIABLES
  row,      \* subagent_transcripts: status and messages, by agent
  roster,   \* the status of an agent in the DurableRoster
  act,      \* the runs
  last,     \* last_ctx and last_seeded_count of the runner
  reports,  \* _reports of the task manager
  wait,     \* the agent a waiter waits for, or NoCtx
  crashes,  \* crashes so far
  mixed     \* history: what a run left in the runner was not its own
vars == <<row, roster, act, last, reports, wait, crashes, mixed>>

NoRun == [pc |-> "none", agent |-> NoCtx, spawned |-> FALSE, seeds |-> <<>>,
          msgs |-> <<>>, ok |-> FALSE, told |-> FALSE, kill |-> FALSE]

Init == /\ row = <<>> /\ roster = <<>> /\ reports = <<>>
        /\ act = [c \in Calls |-> NoRun]
        /\ last = [ctx |-> NoCtx, seeded |-> 0]
        /\ wait = [w \in Waiters |-> NoCtx]
        /\ crashes = 0 /\ mixed = FALSE

UnderWay(c) == act[c].pc \in {"hook", "turns", "stop"}
Runs(a) == {c \in Calls : act[c].agent = a}

\* The table, or the dict, f with v at a.
With(f, a, v) == [b \in DOMAIN f \cup {a} |-> IF b = a THEN v ELSE f[b]]

-----------------------------------------------------------------------------
\* run() up to the await of its first hook: the agent is on the roster.
Enters(c, a, spawned, seeds) ==
  /\ act[c].pc = "none" /\ \A d \in 1..(c - 1) : act[d].pc # "none"
  /\ act' = [act EXCEPT ![c] = [NoRun EXCEPT !.pc = "hook", !.agent = a,
                                             !.spawned = spawned, !.seeds = seeds]]
  /\ roster' = With(roster, a, "running")
  /\ UNCHANGED <<last, reports, wait, crashes, mixed>>

\* subagent.run, a tool call, or subagent.spawn: a new row.  The task of a
\* spawn takes its first step before anybody knows its agent_id.
Created(c, spawned) ==
  /\ Enters(c, c, spawned, <<>>)
  /\ row' = With(row, c, [status |-> "running", msgs |-> <<>>])
subagent_run(c) == Created(c, FALSE)
spawn(c) == Created(c, TRUE)

\* subagent.resume: the run is seeded with the transcript and the task; the
\* row keeps its status, and a run of the agent under way is no obstacle.
resume(c, a) ==
  /\ a \in DOMAIN row
  /\ Enters(c, a, FALSE, Append(row[a].msgs, c))
  /\ UNCHANGED row

\* *Mistake*: failed runs stay on the roster.
RosterDone(ok) == IF ok THEN "done" ELSE "running"

\* The status a run leaves on the roster.
RosterStatus(ok) == IF ok THEN "done" ELSE "failed"

\* *Mistake*: the seeds are appended too.
WholeContext(l) == IF l.ctx = NoCtx THEN <<>> ELSE l.ctx

\* What the runner takes for the messages of a run: the last context, from
\* the last seeded count on.
OwnPart(l) == IF l.ctx = NoCtx THEN <<>> ELSE SubSeq(l.ctx, l.seeded + 1, Len(l.ctx))

\* The report of run c, with what the runner holds then: messages and status
\* go to the row, the status to the roster, and the second hook is awaited.
Report(c, status, l) ==
  LET a == act[c].agent
      ok == status = "completed"
  IN
  /\ last' = l
  /\ row' = [row EXCEPT ![a] = [status |-> status, msgs |-> @.msgs \o OwnPart(l)]]
  /\ roster' = [roster EXCEPT ![a] = RosterStatus(ok)]
  /\ act' = [act EXCEPT ![c].pc = "stop", ![c].ok = ok, ![c].told = act[c].msgs = l.ctx]
  /\ UNCHANGED <<reports, wait, crashes>>

\* A tool of the allowlist is missing, or the depth is reached: no context.
Rejected(c) ==
  /\ act[c].pc = "hook" /\ ~act[c].kill
  /\ mixed' = (mixed \/ last.ctx # NoCtx)
  /\ Report(c, "failed", last)

\* *Mistake*: the count of seeded messages stays as it was.
CountKept(c) == last.seeded

\* Messages before the first one of run c.
SeededCount(c) == Len(act[c].seeds)

\* The context is built, and the graph of the run is entered.
Begin(c) ==
  /\ act[c].pc = "hook" /\ ~act[c].kill
  /\ last' = [last EXCEPT !.seeded = SeededCount(c)]
  /\ mixed' = (mixed \/ \E d \in Calls : act[d].pc = "turns")
  /\ act' = [act EXCEPT ![c].pc = "turns", ![c].msgs = Append(act[c].seeds, c)]
  /\ UNCHANGED <<row, roster, reports, wait, crashes>>

\* A message of the model or of a tool.
Turn(c) ==
  /\ act[c].pc = "turns" /\ ~act[c].kill
  /\ Len(act[c].msgs) < Len(act[c].seeds) + MaxMsgs
  /\ act' = [act EXCEPT ![c].msgs = Append(@, c)]
  /\ UNCHANGED <<row, roster, last, reports, wait, crashes, mixed>>

\* The graph has ended: an answer, an error, or max_turns.
Ends(c) ==
  /\ act[c].pc = "turns" /\ ~act[c].kill
  /\ \E status \in {"completed", "failed", "partial"} :
       Report(c, status, [last EXCEPT !.ctx = act[c].msgs])
  /\ UNCHANGED mixed

\* An exception: the report is made from what the last run has left.
Raises(c) ==
  /\ act[c].pc = "turns" /\ ~act[c].kill
  /\ mixed' = (mixed \/ last.ctx # NoCtx)
  /\ Report(c, "failed", last)

\* The second hook is done: the task manager keeps the report of a spawn.
Stops(c) ==
  /\ act[c].pc = "stop" /\ ~act[c].kill
  /\ act' = [act EXCEPT ![c].pc = "done"]
  /\ reports' = IF act[c].spawned THEN With(reports, c, act[c].ok) ELSE reports
  /\ UNCHANGED <<row, roster, last, wait, crashes, mixed>>

\* subagent.cancel knows spawns only; an accepted one reaches the next await.
cancel(a) ==
  /\ act[a].spawned /\ UnderWay(a) /\ ~act[a].kill
  /\ act' = [act EXCEPT ![a].kill = TRUE]
  /\ UNCHANGED <<row, roster, last, reports, wait, crashes, mixed>>

\* *Mistake*: the row of a cancelled run keeps its status.
StillRunning(status) == status

\* The status of the row of a cancelled run, a report already made included.
AfterCancel(status) == "failed"

Cancelled(c) ==
  /\ UnderWay(c) /\ act[c].kill
  /\ row' = [row EXCEPT ![c].status = AfterCancel(@)]
  /\ act' = [act EXCEPT ![c].pc = "done"]
  /\ UNCHANGED <<roster, last, reports, wait, crashes, mixed>>

\* subagent.wait on the task of a spawn; any other one is answered at once
\* from the row.
Wait(w, a) ==
  /\ wait[w] = NoCtx
  /\ act[a].spawned /\ act[a].pc # "gone"
  /\ wait' = [wait EXCEPT ![w] = a]
  /\ UNCHANGED <<row, roster, act, last, reports, crashes, mixed>>

\* The task has ended: the waiter has its report, or is closed by the
\* CancelledError of the task.
WaitEnds(w) ==
  /\ wait[w] # NoCtx /\ act[wait[w]].pc = "done"
  /\ wait' = [wait EXCEPT ![w] = NoCtx]
  /\ UNCHANGED <<row, roster, act, last, reports, crashes, mixed>>

WaitTimeout(w) ==
  /\ wait[w] # NoCtx
  /\ wait' = [wait EXCEPT ![w] = NoCtx]
  /\ UNCHANGED <<row, roster, act, last, reports, crashes, mixed>>

\* The daemon dies: rows and roster are left, and nobody looks at them.
Crash ==
  /\ crashes < MaxCrash
  /\ crashes' = crashes + 1
  /\ act' = [c \in Calls |-> IF act[c].pc = "none" THEN NoRun
                             ELSE [NoRun EXCEPT !.pc = "gone", !.agent = act[c].agent]]
  /\ last' = [ctx |-> NoCtx, seeded |-> 0]
  /\ reports' = <<>>
  /\ wait' = [w \in Waiters |-> NoCtx]
  /\ UNCHANGED <<row, roster, mixed>>

Step(c) == Rejected(c) \/ Begin(c) \/ Turn(c) \/ Ends(c) \/ Raises(c) \/ Stops(c) \/ Cancelled(c)

Next ==
  \/ Crash
  \/ \E c \in Calls :
       \/ Step(c) \/ subagent_run(c) \/ spawn(c) \/ cancel(c)
       \/ \E a \in Calls : resume(c, a)
  \/ \E w \in Waiters :
       \/ WaitEnds(w) \/ WaitTimeout(w)
       \/ \E a \in Calls : Wait(w, a)

Spec == Init /\ [][Next]_vars
\* Graphs end (RunsEnd of GraphRuntime) and hooks return.
FairSpec == /\ Spec
            /\ \A c \in Calls : WF_vars(Step(c))
            /\ \A w \in Waiters : WF_vars(WaitEnds(w))

-----------------------------------------------------------------------------
(* Properties.                                                             *)

\* A transcript holds messages of the runs of its agent only (README.md:386,
\* independent transcripts).
TranscriptsIndependent ==
  \A a \in DOMAIN row : \A c \in ToSet(row[a].msgs) : c \in Runs(a)

\* ... and every message of a run that has reported its own context, once.
Told(c) == LET msgs == row[act[c].agent].msgs IN {i \in DOMAIN msgs : msgs[i] = c}
TranscriptsComplete ==
  \A c \in Calls :
    act[c].told /\ act[c].pc # "gone" => Cardinality(Told(c)) = Len(act[c].msgs) - Len(act[c].seeds)

\* Both hold as long as no run begins beside another one, and none reports
\* without a context after another one has left its own.
TranscriptsAlone == ~mixed => TranscriptsIndependent /\ TranscriptsComplete

\* An agent the roster calls running has a run under way, unless its run was
\* cancelled or died with the daemon.
RosterIsLive ==
  \A a \in DOMAIN roster :
    roster[a] = "running" => \E c \in Runs(a) : UnderWay(c) \/ act[c].kill \/ act[c].pc = "gone"

\* Every new sub-agent gets a final status, cancelled or not, unless the
\* daemon dies meanwhile; and no waiter waits for ever.
Unsettled(a) == a \in DOMAIN row /\ row[a].status = "running"
TranscriptsSettle ==
  /\ \A a \in Calls : Unsettled(a) ~> (~Unsettled(a) \/ act[a].pc = "gone")
  /\ \A w \in Waiters : (wait[w] # NoCtx) ~> (wait[w] = NoCtx)
=============================================================================
