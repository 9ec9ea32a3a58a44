------------------------- MODULE AgentHarnessProofs -------------------------
(***************************************************************************)
(* Theorems about AgentHarness.  While the application awaits its          *)
(* operations, the phase and the fields that waitForIdle() and abort()     *)
(* read tell the truth about the run under way, and a request is the       *)
(* branch of the session that is open.  Whatever throws, an accepted       *)
(* message or write is in one place, unless abort() gave it back or the    *)
(* run that had taken it threw.                                            *)
(***************************************************************************)
EXTENDS AgentHarness, TLAPS, FiniteSetTheorems, WellFoundedInduction

(***************************************************************************)
(* The invariant                                                           *)
(***************************************************************************)

\* The fields that control a call; those that carry data are of any value.
ReturnPlaces == {"none", "turnThrew", "savePoint", "prepare", "ended", "release"}
RunShape(rec) ==
    [pc : Pcs, next : {"none", "poll", "request", "turnEnd"}, ret : ReturnPlaces,
     threw : BOOLEAN, ended : BOOLEAN, failing : BOOLEAN,
     out : {rec.out}, put : {rec.put}, ctx : {rec.ctx}, reply : {rec.reply}, queue : {rec.queue}]
OpShape(rec) ==
    [pc : {"none", "hook", "appending", "told"}, kind : {rec.kind}, put : {rec.put}, to : {rec.to}]

\* A call goes on to a place that was named.
WellRun(rec) ==
    /\ rec \in RunShape(rec)
    /\ rec.pc \in {"emit", "appending", "told"} => rec.next # "none"
    /\ rec.pc = "flushing" => rec.ret # "none"

ShapeInv ==
    /\ run = [r \in Runs |-> run[r]]
    /\ \A r \in Runs : WellRun(run[r])
    /\ op \in OpShape(op)
    /\ op.pc = "none" => op = NoOp

Starting == {"snapshot", "taken", "before"}
Releasing(rec) == rec.pc = "release" \/ (rec.pc = "flushing" /\ rec.ret = "release")

\* What the three fields of the harness say of the only run, r, that is rec.
Tell(r, rec, aPhase, aPromise, aController) ==
    /\ aPromise = r
    /\ aPhase = IF rec.ended THEN "idle" ELSE "turn"
    /\ rec.pc = "ended" \/ (Releasing(rec) /\ ~rec.threw) => rec.ended
    /\ IF rec.pc \in Starting THEN aController = None /\ ~rec.ended ELSE aController = r

Alone(r) == op = NoOp /\ \A q \in Runs \ {r} : run[q].pc = "none"

PhaseInv ==
    /\ \A r \in Runs : run[r].pc # "none" => Alone(r) /\ Tell(r, run[r], phase, runPromise, runAbortController)
    /\ (\A r \in Runs : run[r].pc = "none") =>
          /\ runPromise = None /\ runAbortController = None
          /\ IF op = NoOp THEN phase = "idle" ELSE phase \in {"compaction", "branch_summary"}

AwaitedInv == ShapeInv /\ (scenario.awaits => PhaseInv)

(***************************************************************************)
(* Steps of a run                                                          *)
(***************************************************************************)

\* A run becomes rec, and the fields of the harness tell so.
LEMMA RunBecomes ==
    ASSUME ShapeInv, NEW r \in Runs, NEW rec, Becomes(r, rec), WellRun(rec),
           run[r].pc # "none", scenario.awaits => PhaseInv,
           scenario.awaits => IF rec.pc = "none"
                              THEN phase' = "idle" /\ runPromise' = None /\ runAbortController' = None
                              ELSE Tell(r, rec, phase', runPromise', runAbortController'),
           UNCHANGED <<op, scenario>>
    PROVE  AwaitedInv'
<1>1. /\ run' = [q \in Runs |-> run'[q]]
      /\ run'[r] = rec /\ \A q \in Runs \ {r} : run'[q] = run[q]
  BY DEF Becomes, ShapeInv
<1>2. ShapeInv'
  <2>1. \A q \in Runs : WellRun(run'[q])
    BY <1>1 DEF ShapeInv
  <2>. QED
    BY <1>1, <2>1 DEF ShapeInv, WellRun
<1>3. ASSUME scenario.awaits
      PROVE  PhaseInv'
  <2>1. op = NoOp /\ \A q \in Runs \ {r} : run[q].pc = "none"
    BY <1>3 DEF PhaseInv, Alone
  <2>2. op' = NoOp /\ \A q \in Runs \ {r} : run'[q].pc = "none"
    BY <1>1, <2>1
  <2>3. CASE rec.pc = "none"
    BY <1>1, <1>3, <2>2, <2>3 DEF PhaseInv
  <2>4. CASE rec.pc # "none"
    <3>1. /\ run'[r].pc # "none"
          /\ Tell(r, run'[r], phase', runPromise', runAbortController')
      BY <1>1, <1>3, <2>4
    <3>. QED
      BY <2>2, <3>1 DEF PhaseInv, Alone
  <2>. QED
    BY <2>3, <2>4
<1>. QED
  BY <1>2, <1>3 DEF AwaitedInv

\* A run goes on at another place; the fields of the harness stay what they are.
LEMMA RunGoesOn ==
    ASSUME AwaitedInv, NEW r \in Runs, NEW rec, Becomes(r, rec), WellRun(rec),
           run[r].pc \notin Starting \union {"none"}, rec.pc \notin Starting \union {"none"},
           rec.ended = run[r].ended,
           scenario.awaits /\ (rec.pc = "ended" \/ (Releasing(rec) /\ ~rec.threw)) => rec.ended,
           UNCHANGED <<phase, runPromise, runAbortController, op, scenario>>
    PROVE  AwaitedInv'
<1>1. ASSUME scenario.awaits
      PROVE  Tell(r, rec, phase', runPromise', runAbortController')
  BY <1>1 DEF AwaitedInv, PhaseInv, Tell
<1>. QED
  BY <1>1, RunBecomes DEF AwaitedInv

\* flushPendingSessionWrites begins or goes on; rec is the run before it.
LEMMA RunFlushes ==
    ASSUME AwaitedInv, NEW r \in Runs, NEW rec, WellRun(rec),
           run[r].pc \notin Starting \union {"none"}, rec.ended = run[r].ended,
           NEW ret \in ReturnPlaces \ {"none"},
           scenario.awaits /\ ret = "release" => rec.threw \/ rec.ended,
           NEW pending, NEW E, NEW to, FlushThen(r, rec, ret, pending, E, to),
           UNCHANGED <<runPromise, runAbortController, op, scenario>>
    PROVE  AwaitedInv'
<1>1. CASE pending = <<>>
  <2> DEFINE new == [rec EXCEPT !.pc = ret, !.put = NoPut, !.ended = @ \/ ret = "ended",
                                !.ctx = IF ret = "prepare" THEN Branch(E, to) ELSE @]
  <2>1. /\ Becomes(r, new) /\ phase' = IF ret = "ended" THEN "idle" ELSE phase
    BY <1>1 DEF FlushThen
  <2>2. /\ WellRun(new) /\ new.pc = ret /\ new.threw = rec.threw
        /\ new.ended = (rec.ended \/ ret = "ended")
    BY DEF WellRun, RunShape, Pcs, ReturnPlaces
  <2>. HIDE DEF new
  <2>3. ASSUME scenario.awaits
        PROVE  Tell(r, new, phase', runPromise', runAbortController')
    <3>1. Tell(r, run[r], phase, runPromise, runAbortController)
      BY <2>3 DEF AwaitedInv, PhaseInv
    <3>. QED
      BY <2>1, <2>2, <2>3, <3>1 DEF Tell, Releasing, Starting, ReturnPlaces
  <2>4. new.pc # "none"
    BY <2>2
  <2>. QED
    BY <2>1, <2>2, <2>3, <2>4, RunBecomes DEF AwaitedInv
<1>2. CASE pending # <<>>
  <2> DEFINE new == [rec EXCEPT !.pc = "flushing", !.ret = ret, !.put = Entry(pending[1], to)]
  <2>1. Becomes(r, new) /\ phase' = phase
    BY <1>2 DEF FlushThen
  <2>2. /\ WellRun(new) /\ new.pc = "flushing" /\ new.ret = ret
        /\ new.threw = rec.threw /\ new.ended = rec.ended
    BY DEF WellRun, RunShape, Pcs, ReturnPlaces
  <2>. HIDE DEF new
  <2>. QED
    BY <2>1, <2>2, RunGoesOn DEF Releasing, Starting
<1>. QED
  BY <1>1, <1>2

\* The failure is reported, or could not be.
LEMMA RunFails ==
    ASSUME AwaitedInv, NEW r \in Runs, NEW rec, WellRun(rec),
           run[r].pc \notin Starting \union {"none"}, rec.ended = run[r].ended,
           Fails(r, rec),
           UNCHANGED <<runPromise, runAbortController, op, scenario>>
    PROVE  AwaitedInv'
<1>1. CASE rec.failing
  <2> DEFINE new == [rec EXCEPT !.out = <<>>, !.queue = "none", !.threw = TRUE]
  <2>1. FlushThen(r, new, "release", pendingSessionWrites, tree, leaf)
    BY <1>1 DEF Fails
  <2>2. WellRun(new) /\ new.threw /\ new.ended = rec.ended
    BY DEF WellRun, RunShape
  <2>. HIDE DEF new
  <2>3. "release" \in ReturnPlaces \ {"none"}
    BY DEF ReturnPlaces
  <2>. QED
    BY <2>1, <2>2, <2>3, RunFlushes
<1>2. CASE ~rec.failing
  <2> DEFINE new == [rec EXCEPT !.pc = "emit", !.failing = TRUE, !.put = NoPut,
                                !.out = <<Item(nextId, "failure")>>, !.queue = "none",
                                !.next = "turnEnd", !.reply = "failed"]
  <2>1. Becomes(r, new) /\ phase' = phase
    BY <1>2 DEF Fails
  <2>2. WellRun(new) /\ new.pc = "emit" /\ new.ended = rec.ended
    BY DEF WellRun, RunShape, Pcs
  <2>. HIDE DEF new
  <2>. QED
    BY <2>1, <2>2, RunGoesOn DEF Releasing, Starting
<1>. QED
  BY <1>1, <1>2

\* prompt() throws before the loop.
LEMMA RunRejects ==
    ASSUME AwaitedInv, NEW r \in Runs, run[r].pc \in Starting, Rejects(r),
           UNCHANGED <<runAbortController, op, scenario>>
    PROVE  AwaitedInv'
<1>1. WellRun(NoRun) /\ NoRun.pc = "none"
  BY DEF WellRun, RunShape, NoRun, Pcs, ReturnPlaces
<1>2. Becomes(r, NoRun) /\ phase' = "idle" /\ runPromise' = None
  BY DEF Rejects
<1>3. ASSUME scenario.awaits
      PROVE  runAbortController' = None
  BY <1>3 DEF AwaitedInv, PhaseInv, Tell, Starting
<1>. QED
  BY <1>1, <1>2, <1>3, RunBecomes DEF AwaitedInv, Starting

(***************************************************************************)
(* The steps                                                               *)
(***************************************************************************)

\* Before the loop.
LEMMA StartStep ==
    ASSUME AwaitedInv, UNCHANGED scenario, NEW r \in Runs,
           \/ Snapshot(r) \/ SnapshotThrows(r) \/ Taken(r) \/ TakenThrows(r)
           \/ Before(r) \/ BeforeThrows(r)
    PROVE  AwaitedInv'
<1>1. WellRun(run[r])
  BY DEF AwaitedInv, ShapeInv
<1>2. ASSUME NEW rec, Becomes(r, rec), WellRun(rec), run[r].pc \in Starting,
             rec.pc \in {"taken", "before"}, rec.ended = run[r].ended,
             UNCHANGED <<phase, runPromise, runAbortController, op>>
      PROVE  AwaitedInv'
  <2>1. ASSUME scenario.awaits
        PROVE  Tell(r, rec, phase', runPromise', runAbortController')
    BY <1>2, <2>1 DEF AwaitedInv, PhaseInv, Tell, Starting, Releasing
  <2>. QED
    BY <1>2, <2>1, RunBecomes DEF AwaitedInv, Starting
<1>3. CASE Snapshot(r)
  <2> DEFINE rec == [run[r] EXCEPT !.pc = IF nextTurnQueue = <<>> THEN "before" ELSE "taken",
                                   !.out = nextTurnQueue \o @]
  <2>1. /\ Becomes(r, rec) /\ run[r].pc = "snapshot"
        /\ UNCHANGED <<phase, runPromise, runAbortController, op>>
    BY <1>3 DEF Snapshot, harnessVars
  <2>2. WellRun(rec) /\ rec.pc \in {"taken", "before"} /\ rec.ended = run[r].ended
    BY <1>1 DEF WellRun, RunShape, Pcs
  <2>. HIDE DEF rec
  <2>. QED
    BY <2>1, <2>2, <1>2 DEF Starting
<1>4. CASE Taken(r)
  <2> DEFINE rec == [run[r] EXCEPT !.pc = "before"]
  <2>1. /\ Becomes(r, rec) /\ run[r].pc = "taken"
        /\ UNCHANGED <<phase, runPromise, runAbortController, op>>
    BY <1>4 DEF Taken, harnessVars
  <2>2. WellRun(rec) /\ rec.pc = "before" /\ rec.ended = run[r].ended
    BY <1>1 DEF WellRun, RunShape, Pcs
  <2>. HIDE DEF rec
  <2>. QED
    BY <2>1, <2>2, <1>2 DEF Starting
<1>5. CASE Before(r)
  <2> DEFINE rec == [run[r] EXCEPT !.pc = "emit", !.next = "poll", !.ctx = @ \o run[r].out]
  <2>1. /\ Becomes(r, rec) /\ run[r].pc = "before" /\ runAbortController' = r
        /\ UNCHANGED <<phase, runPromise, op>>
    BY <1>5 DEF Before
  <2>2. WellRun(rec) /\ rec.pc = "emit" /\ rec.ended = run[r].ended
    BY <1>1 DEF WellRun, RunShape, Pcs
  <2>. HIDE DEF rec
  <2>3. ASSUME scenario.awaits
        PROVE  Tell(r, rec, phase', runPromise', runAbortController')
    BY <2>1, <2>2, <2>3 DEF AwaitedInv, PhaseInv, Tell, Starting, Releasing
  <2>. QED
    BY <2>1, <2>2, <2>3, RunBecomes DEF AwaitedInv
<1>6. CASE SnapshotThrows(r) \/ TakenThrows(r) \/ BeforeThrows(r)
  BY <1>6, RunRejects DEF SnapshotThrows, TakenThrows, BeforeThrows, Starting
<1>. QED
  BY <1>3, <1>4, <1>5, <1>6

\* Steps of the loop that go on to a place.
LEMMA LoopStep ==
    ASSUME AwaitedInv, UNCHANGED scenario, NEW r \in Runs,
           \/ MessageStart(r) \/ MessageAppended(r) \/ MessageTold(r)
           \/ Drain(r) \/ Drained(r) \/ Prepared(r) \/ LastFlushFails(r)
           \/ \E kind \in ReplyKinds : Reply(r, kind)
    PROVE  AwaitedInv'
<1>1. WellRun(run[r])
  BY DEF AwaitedInv, ShapeInv
<1>2. ASSUME NEW rec, Becomes(r, rec), WellRun(rec), run[r].pc \notin Starting \union {"none"},
             rec.pc \notin Starting \union {"none", "ended", "release", "flushing"},
             rec.ended = run[r].ended, UNCHANGED <<phase, runPromise, runAbortController, op>>
      PROVE  AwaitedInv'
  BY <1>2, RunGoesOn DEF Releasing
<1>3. CASE MessageStart(r)
  <2> DEFINE rec == [run[r] EXCEPT !.pc = "appending", !.put = Put(Head(run[r].out))]
  <2>1. /\ Becomes(r, rec) /\ run[r].pc = "emit"
        /\ UNCHANGED <<phase, runPromise, runAbortController, op>>
    BY <1>3 DEF MessageStart, harnessVars
  <2>2. WellRun(rec) /\ rec.pc = "appending" /\ rec.ended = run[r].ended
    BY <1>1, <2>1 DEF WellRun, RunShape, Pcs
  <2>. HIDE DEF rec
  <2>. QED
    BY <2>1, <2>2, <1>2 DEF Starting
<1>4. CASE MessageAppended(r)
  <2> DEFINE rec == [run[r] EXCEPT !.pc = "told", !.put = NoPut, !.out = Tail(@),
                                   !.ctx = IF run[r].next = "poll" THEN @
                                           ELSE Append(@, Head(run[r].out))]
  <2>1. /\ Becomes(r, rec) /\ run[r].pc = "appending"
        /\ UNCHANGED <<phase, runPromise, runAbortController, op>>
    BY <1>4 DEF MessageAppended, harnessVars
  <2>2. WellRun(rec) /\ rec.pc = "told" /\ rec.ended = run[r].ended
    BY <1>1, <2>1 DEF WellRun, RunShape, Pcs
  <2>. HIDE DEF rec
  <2>. QED
    BY <2>1, <2>2, <1>2 DEF Starting
<1>5. CASE MessageTold(r)
  <2> DEFINE rec == [run[r] EXCEPT !.pc = IF run[r].out # <<>> THEN "emit" ELSE run[r].next]
  <2>1. /\ Becomes(r, rec) /\ run[r].pc = "told"
        /\ UNCHANGED <<phase, runPromise, runAbortController, op>>
    BY <1>5 DEF MessageTold, harnessVars
  <2>2. run[r].next \in {"poll", "request", "turnEnd"}
    BY <1>1, <2>1 DEF WellRun, RunShape
  <2>3. /\ WellRun(rec) /\ rec.pc \in {"emit", "poll", "request", "turnEnd"}
        /\ rec.ended = run[r].ended
    BY <1>1, <2>2 DEF WellRun, RunShape, Pcs
  <2>. HIDE DEF rec
  <2>. QED
    BY <2>1, <2>3, <1>2 DEF Starting
<1>6. CASE Drain(r)
  <2>1. PICK taken, kind :
           /\ Becomes(r, [run[r] EXCEPT !.pc = "drained", !.out = taken, !.queue = kind])
           /\ run[r].pc \in {"poll", "pollFollowUp"}
           /\ UNCHANGED <<phase, runPromise, runAbortController, op>>
    BY <1>6 DEF Drain, harnessVars
  <2> DEFINE rec == [run[r] EXCEPT !.pc = "drained", !.out = taken, !.queue = kind]
  <2>2. WellRun(rec) /\ rec.pc = "drained" /\ rec.ended = run[r].ended
    BY <1>1 DEF WellRun, RunShape, Pcs
  <2>3. Becomes(r, rec)
    BY <2>1
  <2>. HIDE DEF rec
  <2>. QED
    BY SMTT(20), <2>1, <2>2, <2>3, <1>2 DEF Starting
<1>7. CASE Drained(r)
  <2> DEFINE rec == [run[r] EXCEPT !.pc = "emit", !.next = "request", !.queue = "none"]
  <2>1. /\ Becomes(r, rec) /\ run[r].pc = "drained"
        /\ UNCHANGED <<phase, runPromise, runAbortController, op>>
    BY <1>7 DEF Drained, harnessVars
  <2>2. WellRun(rec) /\ rec.pc = "emit" /\ rec.ended = run[r].ended
    BY <1>1 DEF WellRun, RunShape, Pcs
  <2>. HIDE DEF rec
  <2>. QED
    BY <2>1, <2>2, <1>2 DEF Starting
<1>8. CASE Prepared(r)
  <2> DEFINE rec == [run[r] EXCEPT !.pc = "poll"]
  <2>1. /\ Becomes(r, rec) /\ run[r].pc = "prepare"
        /\ UNCHANGED <<phase, runPromise, runAbortController, op>>
    BY <1>8 DEF Prepared, harnessVars
  <2>2. WellRun(rec) /\ rec.pc = "poll" /\ rec.ended = run[r].ended
    BY <1>1 DEF WellRun, RunShape, Pcs
  <2>. HIDE DEF rec
  <2>. QED
    BY <2>1, <2>2, <1>2 DEF Starting
<1>9. CASE LastFlushFails(r)
  <2> DEFINE rec == [run[r] EXCEPT !.pc = "release", !.put = NoPut, !.threw = TRUE]
  <2>1. /\ Becomes(r, rec) /\ run[r].pc = "flushing"
        /\ UNCHANGED <<phase, runPromise, runAbortController, op>>
    BY <1>9 DEF LastFlushFails, harnessVars
  <2>2. WellRun(rec) /\ rec.pc = "release" /\ rec.threw /\ rec.ended = run[r].ended
    BY <1>1 DEF WellRun, RunShape, Pcs
  <2>. HIDE DEF rec
  <2>. QED
    BY <2>1, <2>2, RunGoesOn DEF Starting
<1>10. CASE \E kind \in ReplyKinds : Reply(r, kind)
  <2>1. PICK told, reply :
           /\ Becomes(r, [run[r] EXCEPT !.pc = "emit", !.out = told, !.next = "turnEnd",
                                        !.reply = reply])
           /\ run[r].pc = "request"
           /\ UNCHANGED <<phase, runPromise, runAbortController, op>>
    BY <1>10 DEF Reply, harnessVars
  <2> DEFINE rec == [run[r] EXCEPT !.pc = "emit", !.out = told, !.next = "turnEnd", !.reply = reply]
  <2>2. WellRun(rec) /\ rec.pc = "emit" /\ rec.ended = run[r].ended
    BY <1>1 DEF WellRun, RunShape, Pcs
  <2>3. Becomes(r, rec)
    BY <2>1
  <2>. HIDE DEF rec
  <2>. QED
    BY <2>1, <2>2, <2>3, <1>2 DEF Starting
<1>. QED
  BY <1>3, <1>4, <1>5, <1>6, <1>7, <1>8, <1>9, <1>10

\* Steps that flush the pending writes, or go on with it.
LEMMA FlushStep ==
    ASSUME AwaitedInv, UNCHANGED scenario, NEW r \in Runs,
           \/ NothingPolled(r) \/ TurnEndTold(r) \/ TurnEndThrows(r) \/ SavePoint(r)
           \/ Flushed(r) \/ Settled(r)
    PROVE  AwaitedInv'
<1>1. WellRun(run[r])
  BY DEF AwaitedInv, ShapeInv
<1>2. ASSUME NEW ret \in ReturnPlaces \ {"none"}, run[r].pc \notin Starting \union {"none"},
             scenario.awaits /\ ret = "release" => run[r].threw \/ run[r].ended,
             NEW pending, NEW E, NEW to, FlushThen(r, run[r], ret, pending, E, to),
             UNCHANGED <<runPromise, runAbortController, op>>
      PROVE  AwaitedInv'
  BY <1>1, <1>2, RunFlushes
<1>3. CASE NothingPolled(r)
  <2>1. /\ run[r].pc \in {"poll", "pollFollowUp"}
        /\ UNCHANGED <<runPromise, runAbortController, op>>
    BY <1>3 DEF NothingPolled
  <2>2. CASE run[r].pc = "pollFollowUp"
    <3>1. FlushThen(r, run[r], "ended", pendingSessionWrites, tree, leaf)
      BY <1>3, <2>2 DEF NothingPolled
    <3>. QED
      BY <2>2, <2>1, <3>1, <1>2 DEF Starting, ReturnPlaces
  <2>3. CASE run[r].pc = "poll"
    <3>1. PICK pc \in {"pollFollowUp", "request"} :
             Becomes(r, [run[r] EXCEPT !.pc = pc]) /\ UNCHANGED phase
      BY <1>3, <2>3 DEF NothingPolled
    <3> DEFINE rec == [run[r] EXCEPT !.pc = pc]
    <3>2. WellRun(rec) /\ rec.pc = pc /\ rec.ended = run[r].ended
      BY <1>1 DEF WellRun, RunShape, Pcs
    <3>3. Becomes(r, rec)
      BY <3>1
    <3>. HIDE DEF rec
    <3>. QED
      BY <2>1, <2>3, <3>1, <3>2, <3>3, RunGoesOn DEF Starting, Releasing
  <2>. QED
    BY <2>1, <2>2, <2>3
<1>4. CASE TurnEndTold(r) \/ TurnEndThrows(r)
  <2>1. PICK ret \in {"savePoint", "turnThrew"} : TurnEnd(r, ret)
    BY <1>4 DEF TurnEndTold, TurnEndThrows
  <2>. QED
    BY <2>1, <1>2 DEF TurnEnd, Starting, ReturnPlaces
<1>5. CASE SavePoint(r)
  <2>1. PICK ret \in {"ended", "prepare"} :
           FlushThen(r, run[r], ret, pendingSessionWrites, tree, leaf)
    BY <1>5 DEF SavePoint
  <2>2. run[r].pc = "savePoint" /\ UNCHANGED <<runPromise, runAbortController, op>>
    BY <1>5 DEF SavePoint
  <2>. QED
    BY <2>1, <2>2, <1>2 DEF Starting, ReturnPlaces
<1>6. CASE Flushed(r)
  <2>1. /\ run[r].pc = "flushing" /\ UNCHANGED <<runPromise, runAbortController, op>>
        /\ FlushThen(r, run[r], run[r].ret, pendingSessionWrites', tree', leaf')
    BY <1>6 DEF Flushed
  <2>2. run[r].ret \in ReturnPlaces \ {"none"}
    BY <1>1, <2>1 DEF WellRun, RunShape
  <2>3. scenario.awaits /\ run[r].ret = "release" => run[r].threw \/ run[r].ended
    BY <2>1 DEF AwaitedInv, PhaseInv, Tell, Releasing
  <2>4. PICK pending, E, to : FlushThen(r, run[r], run[r].ret, pending, E, to)
    BY <2>1
  <2>. QED
    BY <2>1, <2>2, <2>3, <2>4, <1>2 DEF Starting
<1>7. CASE Settled(r)
  <2>1. /\ run[r].pc = "ended" /\ UNCHANGED <<runPromise, runAbortController, op>>
        /\ FlushThen(r, run[r], "release", pendingSessionWrites, tree, leaf)
    BY <1>7 DEF Settled
  <2>2. scenario.awaits => run[r].ended
    BY <2>1 DEF AwaitedInv, PhaseInv, Tell
  <2>. QED
    BY <2>1, <2>2, <1>2 DEF Starting, ReturnPlaces
<1>. QED
  BY <1>3, <1>4, <1>5, <1>6, <1>7

\* Steps that fail, and the end of the call.
LEMMA EndStep ==
    ASSUME AwaitedInv, UNCHANGED scenario, NEW r \in Runs,
           DrainThrows(r) \/ LoopThrows(r) \/ TurnThrew(r) \/ Release(r)
    PROVE  AwaitedInv'
<1>1. WellRun(run[r])
  BY DEF AwaitedInv, ShapeInv
<1>2. CASE DrainThrows(r)
  <2>1. PICK out : /\ Fails(r, [run[r] EXCEPT !.out = out])
                   /\ run[r].pc = "drained" /\ UNCHANGED <<runPromise, runAbortController, op>>
    <3>1. Fails(r, [run[r] EXCEPT !.out = IF run[r].queue = "orphan" THEN @ ELSE <<>>])
      BY <1>2 DEF DrainThrows
    <3>2. [run[r] EXCEPT !.out = IF run[r].queue = "orphan" THEN @ ELSE <<>>]
             = [run[r] EXCEPT !.out = IF run[r].queue = "orphan" THEN run[r].out ELSE <<>>]
      OBVIOUS
    <3>3. Fails(r, [run[r] EXCEPT !.out = IF run[r].queue = "orphan" THEN run[r].out ELSE <<>>])
      BY <3>1, <3>2
    <3>. QED
      BY <1>2, <3>3 DEF DrainThrows
  <2> DEFINE rec == [run[r] EXCEPT !.out = out]
  <2>2. WellRun(rec) /\ rec.ended = run[r].ended
    BY <1>1 DEF WellRun, RunShape
  <2>3. Fails(r, rec)
    BY <2>1
  <2>. HIDE DEF rec
  <2>. QED
    BY <2>1, <2>2, <2>3, RunFails DEF Starting
<1>3. CASE LoopThrows(r) \/ TurnThrew(r)
  <2>1. /\ Fails(r, run[r]) /\ UNCHANGED <<runPromise, runAbortController, op>>
        /\ run[r].pc \notin Starting \union {"none"}
    BY <1>3 DEF LoopThrows, TurnThrew, Starting
  <2>. QED
    BY <1>1, <2>1, RunFails
<1>4. CASE Release(r)
  <2>1. /\ run[r].pc = "release" /\ Becomes(r, NoRun) /\ UNCHANGED op
        /\ runAbortController' = None /\ runPromise' = None
        /\ phase' = IF run[r].threw THEN "idle" ELSE phase
    BY <1>4 DEF Release
  <2>2. WellRun(NoRun) /\ NoRun.pc = "none"
    BY DEF WellRun, RunShape, NoRun, Pcs, ReturnPlaces
  <2>3. ASSUME scenario.awaits
        PROVE  phase' = "idle"
    BY <2>1, <2>3 DEF AwaitedInv, PhaseInv, Tell, Releasing
  <2>. QED
    BY <2>1, <2>2, <2>3, RunBecomes DEF AwaitedInv
<1>. QED
  BY <1>2, <1>3, <1>4

(***************************************************************************)
(* The application and the other calls                                     *)
(***************************************************************************)

\* prompt() starts a run of an idle harness.
LEMMA PromptStep ==
    ASSUME AwaitedInv, UNCHANGED scenario, NEW r \in Runs, Prompt(r)
    PROVE  AwaitedInv'
<1> DEFINE rec == [NoRun EXCEPT !.pc = "snapshot", !.ctx = Branch(tree, leaf),
                                !.out = <<Item(nextId, "prompt")>>]
<1>1. /\ Becomes(r, rec) /\ phase = "idle" /\ phase' = "turn" /\ runPromise' = r
      /\ scenario.awaits => \A q \in Runs : run[q].pc = "none"
      /\ UNCHANGED <<runAbortController, op>>
  BY DEF Prompt
<1>2. WellRun(rec) /\ rec.pc = "snapshot" /\ ~rec.ended
  BY DEF WellRun, RunShape, NoRun, Pcs, ReturnPlaces
<1>. HIDE DEF rec
<1>3. /\ run' = [q \in Runs |-> run'[q]]
      /\ run'[r] = rec /\ \A q \in Runs \ {r} : run'[q] = run[q]
  BY <1>1 DEF Becomes, AwaitedInv, ShapeInv
<1>4. ShapeInv'
  <2>1. \A q \in Runs : WellRun(run'[q])
    BY <1>2, <1>3 DEF AwaitedInv, ShapeInv
  <2>. QED
    BY <1>1, <1>3, <2>1 DEF AwaitedInv, ShapeInv, WellRun
<1>5. ASSUME scenario.awaits
      PROVE  PhaseInv'
  <2>1. op' = NoOp /\ runAbortController' = None /\ \A q \in Runs \ {r} : run'[q].pc = "none"
    BY <1>1, <1>3, <1>5 DEF AwaitedInv, PhaseInv
  <2>2. Tell(r, run'[r], phase', runPromise', runAbortController')
    BY <1>1, <1>2, <1>3, <2>1 DEF Tell, Starting, Releasing
  <2>. QED
    BY <1>2, <1>3, <2>1, <2>2 DEF PhaseInv, Alone
<1>. QED
  BY <1>4, <1>5 DEF AwaitedInv

\* compact() and navigateTree(), on an idle harness.
LEMMA OpBegins ==
    ASSUME AwaitedInv, UNCHANGED scenario, Compact \/ \E target \in DOMAIN tree : Navigate(target)
    PROVE  AwaitedInv'
<1>1. PICK kind, to : op' = [NoOp EXCEPT !.pc = "hook", !.kind = kind, !.to = to]
  <2>1. CASE Compact
    <3>1. op' = [NoOp EXCEPT !.pc = "hook", !.kind = "compact", !.to = NoOp.to]
      BY <2>1 DEF Compact, Starts, NoOp
    <3>. QED
      BY <3>1
  <2>2. ASSUME NEW target, Navigate(target)
        PROVE  \E to : op' = [NoOp EXCEPT !.pc = "hook", !.kind = "navigate", !.to = to]
    BY <2>2 DEF Navigate, Starts
  <2>. QED
    BY <2>1, <2>2
<1>2. /\ phase = "idle" /\ op = NoOp /\ phase' \in {"compaction", "branch_summary"}
      /\ scenario.awaits => \A r \in Runs : run[r].pc = "none"
      /\ UNCHANGED <<runPromise, runAbortController, run>>
  BY DEF Compact, Navigate, Starts, Quiet
<1>3. op' \in OpShape(op') /\ op'.pc = "hook" /\ op' # NoOp
  BY <1>1 DEF OpShape, NoOp
<1>4. ShapeInv'
  BY <1>2, <1>3 DEF AwaitedInv, ShapeInv
<1>5. scenario.awaits => PhaseInv'
  BY <1>2, <1>3 DEF AwaitedInv, PhaseInv
<1>. QED
  BY <1>4, <1>5 DEF AwaitedInv

\* The steps of compact() and navigateTree().
LEMMA OpGoesOn ==
    ASSUME AwaitedInv, UNCHANGED scenario, OpStep
    PROVE  AwaitedInv'
<1>1. /\ op.pc # "none" /\ op # NoOp /\ UNCHANGED <<run, runPromise, runAbortController>>
      /\ op \in OpShape(op)
  BY DEF OpStep, OpAppends, OpAppended, OpEnds, NoOp, harnessVars, AwaitedInv, ShapeInv
<1>2. scenario.awaits =>
          /\ \A r \in Runs : run[r].pc = "none"
          /\ runPromise = None /\ runAbortController = None
          /\ phase \in {"compaction", "branch_summary"}
  BY <1>1 DEF AwaitedInv, PhaseInv, Alone
<1>3. CASE OpEnds
  <2>1. op' = NoOp /\ phase' = "idle"
    BY <1>3 DEF OpEnds
  <2>2. NoOp \in OpShape(NoOp)
    BY DEF NoOp, OpShape
  <2>3. ShapeInv'
    BY <1>1, <2>1, <2>2 DEF AwaitedInv, ShapeInv
  <2>4. scenario.awaits => PhaseInv'
    BY <1>1, <1>2, <2>1 DEF PhaseInv
  <2>. QED
    BY <2>3, <2>4 DEF AwaitedInv
<1>4. CASE OpAppends \/ \E summarizes \in BOOLEAN : OpAppended(summarizes)
  <2>1. PICK pc, put : /\ op' = [op EXCEPT !.pc = pc, !.put = put]
                       /\ pc \in {"appending", "told"}
    <3>1. CASE OpAppends
      BY <3>1 DEF OpAppends
    <3>2. ASSUME NEW summarizes \in BOOLEAN, OpAppended(summarizes)
          PROVE  \E put : \/ op' = [op EXCEPT !.put = put] /\ op.pc = "appending"
                          \/ op' = [op EXCEPT !.pc = "told", !.put = put]
      BY <3>2 DEF OpAppended
    <3>3. \A put : op.pc = "appending" =>
             [op EXCEPT !.put = put] = [op EXCEPT !.pc = "appending", !.put = put]
      BY <1>1 DEF OpShape
    <3>. QED
      BY <1>4, <3>1, <3>2, <3>3
  <2>2. op' \in OpShape(op') /\ op'.pc # "none" /\ op' # NoOp
    BY <1>1, <2>1 DEF OpShape, NoOp
  <2>3. phase' = phase
    BY <1>4 DEF OpAppends, OpAppended, harnessVars
  <2>4. ShapeInv'
    BY <1>1, <2>2 DEF AwaitedInv, ShapeInv
  <2>5. scenario.awaits => PhaseInv'
    BY <1>1, <1>2, <2>2, <2>3 DEF PhaseInv
  <2>. QED
    BY <2>4, <2>5 DEF AwaitedInv
<1>. QED
  BY <1>3, <1>4 DEF OpStep

\* Calls that change neither a run nor what the phase is about.
LEMMA OtherStep ==
    ASSUME AwaitedInv, UNCHANGED scenario,
           \/ Steer \/ FollowUp \/ NextTurn \/ WriteBusy \/ Abort
           \/ \E w \in Writers : WriteIdle(w) \/ WriterStep(w)
    PROVE  AwaitedInv'
<1>1. UNCHANGED <<phase, runPromise, runAbortController, op>>
  BY DEF Steer, FollowUp, NextTurn, WriteBusy, Abort, WriteIdle, WriterStep, Written, WriteFails,
     harnessVars
<1>2. CASE UNCHANGED run
  BY <1>1, <1>2 DEF AwaitedInv, ShapeInv, PhaseInv, Alone
<1>3. CASE Abort
  <2>1. run' = [r \in Runs |-> IF run[r].pc = "drained" THEN [run[r] EXCEPT !.queue = "orphan"]
                               ELSE run[r]]
    BY <1>3 DEF Abort
  <2>2. ASSUME NEW r \in Runs
        PROVE  /\ WellRun(run'[r]) /\ run'[r].pc = run[r].pc /\ run'[r].ret = run[r].ret
               /\ run'[r].threw = run[r].threw /\ run'[r].ended = run[r].ended
    BY <2>1, <2>2 DEF AwaitedInv, ShapeInv, WellRun, RunShape
  <2>3. ShapeInv'
    BY <1>1, <2>1, <2>2 DEF AwaitedInv, ShapeInv
  <2>4. ASSUME scenario.awaits
        PROVE  PhaseInv'
    <3>1. \A r \in Runs : run'[r].pc # "none" =>
             /\ Alone(r)' /\ Tell(r, run'[r], phase', runPromise', runAbortController')
      BY <1>1, <2>2, <2>4 DEF AwaitedInv, PhaseInv, Alone, Tell, Releasing
    <3>. QED
      BY <1>1, <2>2, <2>4, <3>1 DEF AwaitedInv, PhaseInv
  <2>. QED
    BY <2>3, <2>4 DEF AwaitedInv
<1>. QED
  BY <1>2, <1>3 DEF Steer, FollowUp, NextTurn, WriteBusy, WriteIdle, WriterStep, Written, WriteFails

\* The invariant holds at the start, and every step keeps it.
LEMMA AwaitedStart == Init => AwaitedInv
<1> SUFFICES ASSUME Init
             PROVE  AwaitedInv
  OBVIOUS
<1>1. \A r \in Runs : run[r] = NoRun
  BY DEF Init
<1>2. WellRun(NoRun) /\ NoRun.pc = "none"
  BY DEF WellRun, RunShape, NoRun, Pcs, ReturnPlaces
<1>3. NoOp \in OpShape(NoOp)
  BY DEF NoOp, OpShape
<1>4. ShapeInv
  BY <1>1, <1>2, <1>3 DEF Init, ShapeInv
<1>5. PhaseInv
  BY <1>1, <1>2 DEF Init, PhaseInv
<1>. QED
  BY <1>4, <1>5 DEF AwaitedInv

LEMMA AwaitedStep == AwaitedInv /\ [Next]_vars => AwaitedInv'
<1> SUFFICES ASSUME AwaitedInv, [Next]_vars
             PROVE  AwaitedInv'
  OBVIOUS
<1>1. CASE UNCHANGED vars
  BY <1>1 DEF vars, harnessVars, AwaitedInv, ShapeInv, PhaseInv, Alone
<1>2. CASE Next
  <2>1. UNCHANGED scenario
    BY <1>2 DEF Next
  <2>2. CASE Application
    BY <2>1, <2>2, PromptStep, OpBegins, OtherStep DEF Application
  <2>3. ASSUME NEW r \in Runs, RunStep(r)
        PROVE  AwaitedInv'
    BY <2>1, <2>3, StartStep, LoopStep, FlushStep, EndStep DEF RunStep
  <2>4. CASE OpStep
    BY <2>1, <2>4, OpGoesOn
  <2>5. CASE \E w \in Writers : WriterStep(w)
    BY <2>1, <2>5, OtherStep
  <2>. QED
    BY <1>2, <2>2, <2>3, <2>4, <2>5 DEF Next
<1>. QED
  BY <1>1, <1>2

\* While the application awaits its operations, a run that has not emitted
\* agent_end keeps the harness busy, is the one that waitForIdle() awaits and, once
\* it has begun, the one that abort() signals; a quiet harness is idle.
THEOREM PhaseTruthHolds == Spec => []PhaseTruth
<1>2. AwaitedInv => PhaseTruth
  <2> SUFFICES ASSUME AwaitedInv, scenario.awaits
               PROVE  /\ \A r \in Runs :
                            run[r].pc # "none" =>
                               /\ runPromise = r
                               /\ run[r].ended \/ phase = "turn"
                               /\ run[r].pc \in Starting \/ runAbortController = r
                      /\ op # NoOp => phase \in {"compaction", "branch_summary"}
                      /\ Quiet /\ op = NoOp =>
                            phase = "idle" /\ runPromise = None /\ runAbortController = None
    BY DEF PhaseTruth, Starting
  <2>. QED
    BY DEF AwaitedInv, PhaseInv, Tell, Alone, Quiet
<1>. QED
  BY <1>2, AwaitedStart, AwaitedStep, PTL DEF Spec

(***************************************************************************)
(* The data: messages and writes                                           *)
(***************************************************************************)
Vias == FromUser \union {"write", "assistant", "result", "failure", "compaction", "leaf", "summary", "none"}
Items == [id : Nat, via : Vias]
Accepted == [id : Nat, via : FromUser \union {"write"}]
UserItems == [id : Nat, via : FromUser]
Messages == [id : Nat, via : Vias \ {"write", "none", "leaf"}]
Puts == [item : Items, parent : Nat, to : Nat]

\* What is accepted in a list, and that it is there once.
In(s) == {x \in Accepted : \E i \in DOMAIN s : s[i] = x}
Single(s) == \A i, j \in DOMAIN s : s[i] = s[j] /\ s[i] \in Accepted => i = j

\* The places, and what they hold.
PlaceNames == {<<"steer", 0>>, <<"followUp", 0>>, <<"nextTurn", 0>>, <<"pending", 0>>, <<"session", 0>>}
              \union {<<"run", r>> : r \in Runs} \union {<<"writer", w>> : w \in Writers}

Told == [i \in DOMAIN tree |-> tree[i].item]
Contents ==
    [a \in PlaceNames |->
        CASE a[1] = "steer" -> steerQueue
          [] a[1] = "followUp" -> followUpQueue
          [] a[1] = "nextTurn" -> nextTurnQueue
          [] a[1] = "pending" -> pendingSessionWrites
          [] a[1] = "session" -> Told
          [] a[1] = "run" -> run[a[2]].out
          [] a[1] = "writer" -> <<writer[a[2]].item>>]

\* In the places of S every accepted item is there once, and in no other place;
\* of the items X that were accepted, those not given back (D) are somewhere;
\* the number of the next item, n, is new.
WellPlaced(S, n, X, D) ==
    /\ n \in Nat /\ X \subseteq Accepted /\ D \subseteq Accepted
    /\ \A a \in PlaceNames : Single(S[a]) /\ \A x \in In(S[a]) : x.id < n /\ x \notin D
    /\ \A a, b \in PlaceNames : a # b => In(S[a]) \intersect In(S[b]) = {}
    /\ \A x \in D : x.id < n
    /\ \A x \in X : x.id < n /\ (x \in D \/ \E a \in PlaceNames : x \in In(S[a]))

\* Where messages of a run may be, by the place it is at.
Holding == {"snapshot", "taken", "before", "emit", "appending", "drained"}
\* The messages of a run agree with its place; the append of a message is that of
\* the first, the append of a flush that of the first pending write.
RunData(rec, pending) ==
    /\ rec.out \in Seq(Messages) /\ rec.put \in Puts
    /\ rec.pc \in {"snapshot", "taken", "before", "drained"} => rec.out \in Seq(UserItems)
    /\ rec.pc \in Holding => rec.out # <<>>
    /\ rec.out # <<>> => rec.pc \in Holding \union {"told"}
    /\ rec.pc = "appending" => rec.put.item = Head(rec.out)
    /\ rec.pc = "flushing" => pending # <<>> /\ rec.put.item = Head(pending)
    /\ rec.pc = "drained" => rec.queue \in {"steer", "followUp", "orphan"}
    /\ rec.pc \notin {"appending", "flushing"} => rec.put = NoPut

\* A pending write is flushed by one run at a time.
Kept == scenario.awaits \/ "write" \notin scenario.ways

\* The data have their types.
Types ==
    /\ steerQueue \in Seq(UserItems) /\ followUpQueue \in Seq(UserItems) /\ nextTurnQueue \in Seq(UserItems)
    /\ pendingSessionWrites \in Seq([id : Nat, via : {"write"}])
    /\ "write" \notin scenario.ways => pendingSessionWrites = <<>>
    /\ tree \in Seq(Puts) /\ leaf \in Nat /\ nextId \in Nat
CallTypes ==
    /\ writer \in [Writers -> Puts]
    /\ op.put \in Puts /\ op.put.item.via \notin FromUser \union {"write"} /\ op.to \in Nat
TypeInv == Types /\ CallTypes /\ \A r \in Runs : RunData(run[r], pendingSessionWrites)
PlacedInv == TypeInv /\ WellPlaced(Contents, nextId, sent, discarded)

(***************************************************************************)
(* What is in a list                                                       *)
(***************************************************************************)
\* An empty list, and a list of one item.
LEMMA Nothing == In(<<>>) = {} /\ Single(<<>>)
BY DEF In, Single

LEMMA OneItem ==
    ASSUME NEW x
    PROVE  In(<<x>>) = {x} \intersect Accepted /\ Single(<<x>>)
<1>1. DOMAIN <<x>> = {1} /\ <<x>>[1] = x
  <2>1. <<x>> \in Seq({x}) /\ Len(<<x>>) = 1 /\ <<x>>[1] = x
    OBVIOUS
  <2>. QED
    BY <2>1
<1>. QED
  BY <1>1 DEF In, Single

\* A list in two parts.
LEMMA Parts ==
    ASSUME NEW T, NEW s \in Seq(T), NEW t \in Seq(T)
    PROVE  /\ In(s \o t) = In(s) \union In(t)
           /\ Single(s \o t) <=> Single(s) /\ Single(t) /\ In(s) \intersect In(t) = {}
<1> DEFINE u == s \o t
           m == Len(s)
           k == Len(t)
<1>1. /\ m \in Nat /\ k \in Nat /\ DOMAIN s = 1..m /\ DOMAIN t = 1..k /\ DOMAIN u = 1..(m + k)
      /\ \A i \in 1..m : u[i] = s[i]
      /\ \A i \in 1..k : u[m + i] = t[i]
  OBVIOUS
<1>. HIDE DEF u, m, k
<1>2. \A j \in 1..(m + k) : j \in 1..m \/ (j - m \in 1..k /\ j = m + (j - m))
  BY <1>1
<1>3. ASSUME NEW j \in DOMAIN u
      PROVE  (\E i \in DOMAIN s : u[j] = s[i] /\ j = i) \/ (\E i \in DOMAIN t : u[j] = t[i] /\ j = m + i)
  BY <1>1, <1>2
<1>4. ASSUME NEW i \in DOMAIN s
      PROVE  i \in DOMAIN u /\ u[i] = s[i]
  BY <1>1
<1>5. ASSUME NEW i \in DOMAIN t
      PROVE  m + i \in DOMAIN u /\ u[m + i] = t[i] /\ m + i \in Nat
  BY <1>1
<1>6. In(u) = In(s) \union In(t)
  BY <1>3, <1>4, <1>5 DEF In
<1>7. ASSUME Single(u)
      PROVE  Single(s) /\ Single(t) /\ In(s) \intersect In(t) = {}
  <2>1. Single(s)
    BY <1>4, <1>7 DEF Single
  <2>2. Single(t)
    <3> SUFFICES ASSUME NEW i \in DOMAIN t, NEW j \in DOMAIN t, t[i] = t[j], t[i] \in Accepted
                 PROVE  i = j
      BY DEF Single
    <3>1. m + i = m + j
      BY <1>5, <1>7 DEF Single
    <3>. QED
      BY <1>1, <3>1
  <2>3. ASSUME NEW x \in In(s), x \in In(t)
        PROVE  FALSE
    <3>1. PICK i \in DOMAIN s : s[i] = x
      BY DEF In
    <3>2. PICK j \in DOMAIN t : t[j] = x
      BY <2>3 DEF In
    <3>3. i = m + j
      BY <1>4, <1>5, <1>7, <3>1, <3>2 DEF Single, In
    <3>. QED
      BY <1>1, <3>3
  <2>. QED
    BY <2>1, <2>2, <2>3
<1>8. ASSUME Single(s), Single(t), In(s) \intersect In(t) = {}
      PROVE  Single(u)
  <2> SUFFICES ASSUME NEW i \in DOMAIN u, NEW j \in DOMAIN u, u[i] = u[j], u[i] \in Accepted
               PROVE  i = j
    BY DEF Single
  <2>1. CASE \E x \in DOMAIN s, y \in DOMAIN s : i = x /\ j = y /\ u[i] = s[x] /\ u[j] = s[y]
    BY <1>8, <2>1 DEF Single
  <2>2. CASE \E x \in DOMAIN t, y \in DOMAIN t : i = m + x /\ j = m + y /\ u[i] = t[x] /\ u[j] = t[y]
    BY <1>8, <2>2 DEF Single
  <2>3. ASSUME NEW x \in DOMAIN s, NEW y \in DOMAIN t, s[x] = t[y], s[x] \in Accepted
        PROVE  FALSE
    <3>1. s[x] \in In(s) /\ s[x] \in In(t)
      BY <2>3 DEF In
    <3>. QED
      BY <1>8, <3>1
  <2>. QED
    BY <1>3, <2>1, <2>2, <2>3
<1>. QED
  BY <1>6, <1>7, <1>8 DEF u

\* A list with an item more; a list without its first, or its last.
LEMMA OneMore ==
    ASSUME NEW T, NEW s \in Seq(T), NEW x \in T
    PROVE  /\ Append(s, x) \in Seq(T) /\ Append(s, x) # <<>>
           /\ In(Append(s, x)) = In(s) \union ({x} \intersect Accepted)
           /\ Single(Append(s, x)) <=> Single(s) /\ x \notin In(s)
<1>1. Append(s, x) = s \o <<x>> /\ <<x>> \in Seq(T) /\ Append(s, x) \in Seq(T) /\ Append(s, x) # <<>>
  OBVIOUS
<1>2. In(s) \subseteq Accepted
  BY DEF In
<1>3. /\ In(s \o <<x>>) = In(s) \union In(<<x>>)
      /\ Single(s \o <<x>>) <=> Single(s) /\ Single(<<x>>) /\ In(s) \intersect In(<<x>>) = {}
  BY <1>1, Parts
<1>. QED
  BY <1>1, <1>2, <1>3, OneItem

LEMMA FirstAndRest ==
    ASSUME NEW T, NEW s \in Seq(T), s # <<>>
    PROVE  /\ Head(s) \in T /\ Tail(s) \in Seq(T) /\ s = <<Head(s)>> \o Tail(s)
           /\ SubSeq(s, 2, Len(s)) = Tail(s)
           /\ In(s) = ({Head(s)} \intersect Accepted) \union In(Tail(s))
           /\ Single(s) => Single(Tail(s)) /\ Head(s) \notin In(Tail(s))
<1>1. Head(s) \in T /\ Tail(s) \in Seq(T) /\ s = <<Head(s)>> \o Tail(s) /\ SubSeq(s, 2, Len(s)) = Tail(s)
      /\ <<Head(s)>> \in Seq(T)
  OBVIOUS
<1>2. In(Tail(s)) \subseteq Accepted
  BY DEF In
<1>3. /\ In(<<Head(s)>> \o Tail(s)) = In(<<Head(s)>>) \union In(Tail(s))
      /\ Single(<<Head(s)>> \o Tail(s)) <=>
            Single(<<Head(s)>>) /\ Single(Tail(s)) /\ In(<<Head(s)>>) \intersect In(Tail(s)) = {}
  BY <1>1, Parts
<1>. QED
  BY <1>1, <1>2, <1>3, OneItem

LEMMA FrontAndLast ==
    ASSUME NEW T, NEW s \in Seq(T), s # <<>>
    PROVE  /\ Last(s) \in T /\ Front(s) \in Seq(T) /\ s = Append(Front(s), Last(s)) /\ Last(s) = s[Len(s)]
<1>1. Len(s) \in Nat /\ Len(s) > 0 /\ Last(s) = s[Len(s)] /\ Front(s) = SubSeq(s, 1, Len(s) - 1)
  BY DEF Last, Front
<1>2. SubSeq(s, 1, Len(s) - 1) \in Seq(T) /\ s[Len(s)] \in T
  BY <1>1
<1>3. s = Append(SubSeq(s, 1, Len(s) - 1), s[Len(s)])
  BY <1>1, <1>2
<1>. QED
  BY <1>1, <1>2, <1>3

\* What is taken from a queue and what is left.
LEMMA TakenAndLeft ==
    ASSUME NEW T, NEW s \in Seq(T), s # <<>>, NEW taken, taken = s \/ taken = SubSeq(s, 1, 1)
    PROVE  LET left == SubSeq(s, Len(taken) + 1, Len(s))
           IN  taken \in Seq(T) /\ taken # <<>> /\ left \in Seq(T) /\ s = taken \o left
<1> DEFINE n == Len(taken)
           left == SubSeq(s, n + 1, Len(s))
<1>1. Len(s) \in Nat /\ Len(s) >= 1
  OBVIOUS
<1>2. /\ taken \in Seq(T) /\ n \in Nat /\ n >= 1 /\ n <= Len(s) /\ taken # <<>>
      /\ \A i \in 1..n : taken[i] = s[i]
  <2>1. CASE taken = s
    BY <1>1, <2>1
  <2>2. CASE taken = SubSeq(s, 1, 1)
    <3>1. taken \in Seq(T) /\ Len(taken) = 1 /\ taken[1] = s[1]
      BY <1>1, <2>2
    <3>2. n = 1
      BY <3>1
    <3>3. taken # <<>>
      <4> SUFFICES ASSUME taken = <<>>
                   PROVE  FALSE
        OBVIOUS
      <4>1. Len(taken) = 0
        OBVIOUS
      <4>. QED
        BY <3>1, <4>1
    <3>4. \A i \in 1..1 : i = 1
      OBVIOUS
    <3>. HIDE DEF n
    <3>. QED
      BY <1>1, <3>1, <3>2, <3>3, <3>4
  <2>. QED
    BY <2>1, <2>2
<1>. HIDE DEF n
<1>3. left \in Seq(T) /\ Len(left) = Len(s) - n
  BY <1>1, <1>2
<1>4. \A i \in 1..(Len(s) - n) : left[i] = s[n + i]
  BY <1>1, <1>2
<1>. HIDE DEF left
<1>5. s = taken \o left
  <2>1. Len(taken \o left) = Len(s) /\ taken \o left \in Seq(T)
    BY <1>1, <1>2, <1>3 DEF n
  <2>2. ASSUME NEW i \in 1..Len(s)
        PROVE  (taken \o left)[i] = s[i]
    <3>1. CASE i <= n
      BY <1>1, <1>2, <1>3, <3>1 DEF n
    <3>2. CASE ~(i <= n)
      <4>1. i - n \in 1..(Len(s) - n) /\ n + (i - n) = i
        BY <1>1, <1>2, <3>2
      <4>2. (taken \o left)[i] = left[i - n]
        <5>1. left \in Seq(T) /\ taken \in Seq(T) /\ i \in Nat /\ i > Len(taken)
              /\ i <= Len(taken) + Len(left)
          BY <1>1, <1>2, <1>3, <3>2 DEF n
        <5>2. (taken \o left)[i] = left[i - Len(taken)]
          BY <5>1
        <5>. QED
          BY <5>2 DEF n
      <4>. QED
        BY <1>4, <4>1, <4>2
    <3>. QED
      BY <3>1, <3>2
  <2>3. \A i \in 1..Len(s) : (taken \o left)[i] = s[i]
    BY <2>2
  <2> DEFINE u == taken \o left
  <2>4. u \in Seq(T) /\ Len(u) = Len(s) /\ \A i \in 1..Len(s) : u[i] = s[i]
    BY <2>1, <2>3
  <2>. HIDE DEF u
  <2>5. s = u
    BY <2>4
  <2>. QED
    BY <2>5 DEF u
<1>. QED
  BY <1>2, <1>3, <1>5 DEF n, left

(***************************************************************************)
(* A step changes two places                                               *)
(***************************************************************************)
\* Of two places a and b, given back are the items G, and new the items F.
Rearranged(S, R, a, b, n, m, X, Y, F, G) ==
    /\ \A c \in PlaceNames \ {a, b} : R[c] = S[c]
    /\ Single(R[a]) /\ Single(R[b]) /\ In(R[a]) \intersect In(R[b]) = {}
    /\ m \in Nat /\ n <= m /\ \A x \in F : x.id \in Nat /\ n <= x.id /\ x.id < m
    /\ In(R[a]) \union In(R[b]) \subseteq In(S[a]) \union In(S[b]) \union F
    /\ Y \subseteq Accepted /\ Y \subseteq X \union F
    /\ G \subseteq In(S[a]) \union In(S[b])
    /\ G \intersect (In(R[a]) \union In(R[b])) = {}
    /\ Y \intersect (In(S[a]) \union In(S[b]) \union F) \subseteq G \union In(R[a]) \union In(R[b])

\* A step that changes two places leaves every item in one place.
LEMMA TwoPlaces ==
    ASSUME NEW S, NEW n, NEW X, NEW D, WellPlaced(S, n, X, D), NEW R,
           NEW a \in PlaceNames, NEW b \in PlaceNames, a # b, NEW m, NEW Y, NEW F, NEW G,
           Rearranged(S, R, a, b, n, m, X, Y, F, G)
    PROVE  WellPlaced(R, m, Y, D \union G)
<1> USE DEF Rearranged
<1>1. \A x \in Accepted : x.id \in Nat
  BY DEF Accepted
<1>2. \A c \in PlaceNames : In(S[c]) \subseteq Accepted /\ In(R[c]) \subseteq Accepted
  BY DEF In
<1>3. n \in Nat
  BY DEF WellPlaced
<1>4. \A c \in PlaceNames : \A x \in In(S[c]) : x.id < n /\ x.id < m /\ x \notin F /\ x \notin D
  BY <1>1, <1>2, <1>3 DEF WellPlaced
<1>5. \A x \in In(R[a]) \union In(R[b]) : x.id < m /\ x \notin D \union G
  <2>1. \A x \in F : x \notin D
    BY <1>3 DEF WellPlaced
  <2>. QED
    BY <1>4, <2>1
<1>6. \A c \in PlaceNames \ {a, b} : \A x \in In(S[c]) : x \notin G /\ x \notin In(R[a]) \union In(R[b])
  BY <1>4 DEF WellPlaced
<1>7. \A c \in PlaceNames : Single(R[c]) /\ \A x \in In(R[c]) : x.id < m /\ x \notin D \union G
  BY <1>4, <1>5, <1>6 DEF WellPlaced
<1>8. \A c, d \in PlaceNames : c # d => In(R[c]) \intersect In(R[d]) = {}
  <2>1. \A c, d \in PlaceNames \ {a, b} : c # d => In(R[c]) \intersect In(R[d]) = {}
    BY DEF WellPlaced
  <2>2. \A c \in PlaceNames \ {a, b} :
           In(R[c]) \intersect In(R[a]) = {} /\ In(R[c]) \intersect In(R[b]) = {}
    BY <1>6
  <2>. QED
    BY <2>1, <2>2
<1>9. \A x \in D \union G : x.id < m
  <2>1. \A x \in D : x.id < n /\ x.id \in Nat => x.id < m
    BY <1>3
  <2>. QED
    BY <1>1, <1>2, <1>3, <1>4, <2>1 DEF WellPlaced
<1>10. ASSUME NEW x \in Y
       PROVE  x.id < m /\ (x \in D \union G \/ \E c \in PlaceNames : x \in In(R[c]))
  <2>1. CASE x \in F
    BY <2>1
  <2>2. CASE x \in X
    <3>1. x.id < n /\ x.id < m
      BY <1>1, <1>3, <2>2 DEF WellPlaced
    <3>2. CASE x \in D
      BY <3>1, <3>2
    <3>3. ASSUME NEW c \in PlaceNames, x \in In(S[c])
          PROVE  x \in G \/ \E d \in PlaceNames : x \in In(R[d])
      BY <3>3
    <3>. QED
      BY <2>2, <3>1, <3>2, <3>3 DEF WellPlaced
  <2>. QED
    BY <2>1, <2>2
<1>. QED
  BY <1>2, <1>7, <1>8, <1>9, <1>10 DEF WellPlaced

ContentsAre ==
    /\ <<"steer", 0>> \in PlaceNames /\ Contents[<<"steer", 0>>] = steerQueue
    /\ <<"followUp", 0>> \in PlaceNames /\ Contents[<<"followUp", 0>>] = followUpQueue
    /\ <<"nextTurn", 0>> \in PlaceNames /\ Contents[<<"nextTurn", 0>>] = nextTurnQueue
    /\ <<"pending", 0>> \in PlaceNames /\ Contents[<<"pending", 0>>] = pendingSessionWrites
    /\ <<"session", 0>> \in PlaceNames /\ Contents[<<"session", 0>>] = Told
    /\ \A r \in Runs : <<"run", r>> \in PlaceNames /\ Contents[<<"run", r>>] = run[r].out
    /\ \A w \in Writers : <<"writer", w>> \in PlaceNames /\ Contents[<<"writer", w>>] = <<writer[w].item>>

\* The contents of the places, one by one, in a state and in the next.
LEMMA PlacesHold == ContentsAre /\ ContentsAre'
<1>1. /\ <<"steer", 0>> \in PlaceNames /\ <<"followUp", 0>> \in PlaceNames
      /\ <<"nextTurn", 0>> \in PlaceNames /\ <<"pending", 0>> \in PlaceNames
      /\ <<"session", 0>> \in PlaceNames
      /\ \A r \in Runs : <<"run", r>> \in PlaceNames
      /\ \A w \in Writers : <<"writer", w>> \in PlaceNames
  BY DEF PlaceNames
<1>2. ContentsAre
  BY <1>1 DEF ContentsAre, Contents
<1>3. ContentsAre'
  BY <1>1 DEF ContentsAre, Contents
<1>. QED
  BY <1>2, <1>3

\* The places but for those of A hold what they held.
Stays(A) ==
    /\ <<"steer", 0>> \in A \/ steerQueue' = steerQueue
    /\ <<"followUp", 0>> \in A \/ followUpQueue' = followUpQueue
    /\ <<"nextTurn", 0>> \in A \/ nextTurnQueue' = nextTurnQueue
    /\ <<"pending", 0>> \in A \/ pendingSessionWrites' = pendingSessionWrites
    /\ <<"session", 0>> \in A \/ tree' = tree
    /\ \A r \in Runs : <<"run", r>> \in A \/ run'[r].out = run[r].out
    /\ \A w \in Writers : <<"writer", w>> \in A \/ writer'[w] = writer[w]

\* A place that a step does not touch holds what it held.
LEMMA RestStays ==
    ASSUME NEW A, Stays(A), NEW c \in PlaceNames \ A
    PROVE  Contents'[c] = Contents[c]
<1>1. tree' = tree => Told' = Told
  BY DEF Told
<1>. QED
  BY <1>1, PlacesHold, SMTT(20) DEF Stays, ContentsAre, PlaceNames

Still == WellPlaced(Contents', nextId', sent', discarded')

\* Two lists, s and t, become u and v; new are the items F, and given back are
\* the items G.
Swapped(s, t, u, v, F, G) ==
    /\ Single(u) /\ Single(v) /\ In(u) \intersect In(v) = {}
    /\ nextId' \in Nat /\ nextId <= nextId'
    /\ \A x \in F : x \in Accepted /\ x.id = nextId /\ nextId < nextId'
    /\ In(u) \union In(v) \subseteq In(s) \union In(t) \union F
    /\ sent' \subseteq sent \union F
    /\ G \subseteq In(s) \union In(t) /\ G \intersect (In(u) \union In(v)) = {}
    /\ discarded' = discarded \union G
    /\ sent' \intersect (In(s) \union In(t) \union F) \subseteq G \union In(u) \union In(v)

\* The step of two lists, over the state of the harness.
LEMMA Moved ==
    ASSUME PlacedInv, NEW a \in PlaceNames, NEW b \in PlaceNames, a # b, Stays({a, b}),
           NEW s, NEW t, NEW u, NEW v, NEW F, NEW G, Swapped(s, t, u, v, F, G),
           Contents[a] = s, Contents[b] = t, Contents'[a] = u, Contents'[b] = v
    PROVE  Still
<1> USE DEF Swapped
<1>1. WellPlaced(Contents, nextId, sent, discarded) /\ nextId \in Nat
  BY DEF PlacedInv, TypeInv, Types
<1>2. \A c \in PlaceNames \ {a, b} : Contents'[c] = Contents[c]
  BY RestStays
<1>3. sent' \in SUBSET Accepted
  BY <1>1 DEF WellPlaced
<1>4. \A x \in F : x.id \in Nat /\ nextId <= x.id /\ x.id < nextId'
  BY <1>1
<1> DEFINE S == Contents
           R == Contents'
<1>5. WellPlaced(S, nextId, sent, discarded) /\ \A c \in PlaceNames \ {a, b} : R[c] = S[c]
  BY <1>1, <1>2
<1>6. S[a] = s /\ S[b] = t /\ R[a] = u /\ R[b] = v
  OBVIOUS
<1>7. WellPlaced(R, nextId', sent', discarded \union G)
  <2>. HIDE DEF S, R
  <2>1. Rearranged(S, R, a, b, nextId, nextId', sent, sent', F, G)
    BY <1>3, <1>4, <1>5, <1>6 DEF Rearranged
  <2>. QED
    BY <1>5, <2>1, TwoPlaces
<1>8. WellPlaced(R, nextId', sent', discarded')
  <2>1. discarded' = discarded \union G
    OBVIOUS
  <2>. QED
    BY ONLY <1>7, <2>1
<1>9. R = Contents'
  BY DEF R
<1>. QED
  BY ONLY <1>8, <1>9 DEF Still

(***************************************************************************)
(* Steps of a run                                                          *)
(***************************************************************************)
\* A run becomes rec, and all has its type.
LEMMA RunTyped ==
    ASSUME AwaitedInv, TypeInv, NEW r \in Runs, NEW rec, Becomes(r, rec),
           RunData(rec, pendingSessionWrites'), Types', CallTypes',
           UNCHANGED pendingSessionWrites \/ \A q \in Runs \ {r} : run[q].pc # "flushing"
    PROVE  /\ TypeInv' /\ run'[r] = rec /\ \A q \in Runs \ {r} : run'[q] = run[q]
<1>1. run'[r] = rec /\ \A q \in Runs \ {r} : run'[q] = run[q]
  BY DEF Becomes, AwaitedInv, ShapeInv
<1>2. \A q \in Runs : RunData(run'[q], pendingSessionWrites')
  <2> SUFFICES ASSUME NEW q \in Runs \ {r}
               PROVE  RunData(run[q], pendingSessionWrites')
    BY <1>1
  <2>1. RunData(run[q], pendingSessionWrites)
    BY DEF TypeInv
  <2>. QED
    BY <2>1 DEF RunData
<1>. QED
  BY <1>1, <1>2 DEF TypeInv

\* All is where it was.
LEMMA AllStays ==
    ASSUME PlacedInv, Stays({}), UNCHANGED <<sent, discarded>>, nextId' \in Nat, nextId <= nextId'
    PROVE  Still
<1> DEFINE a == <<"steer", 0>>
           b == <<"followUp", 0>>
<1>1. a \in PlaceNames /\ b \in PlaceNames /\ a # b
  BY PlacesHold DEF ContentsAre
<1>2. Stays({a, b})
  BY DEF Stays
<1>3. Contents'[a] = Contents[a] /\ Contents'[b] = Contents[b]
  BY <1>1, RestStays
<1> DEFINE s == Contents[a]
           t == Contents[b]
<1>4. Single(s) /\ Single(t) /\ In(s) \intersect In(t) = {}
      /\ sent \intersect (In(s) \union In(t)) \subseteq In(s) \union In(t)
  BY <1>1 DEF PlacedInv, WellPlaced
<1>5. Swapped(s, t, s, t, {}, {})
  BY <1>4 DEF Swapped
<1>. HIDE DEF a, b
<1>. QED
  BY <1>1, <1>2, <1>3, <1>5, Moved

\* A run goes on at another place with the messages it has.
LEMMA RunStays ==
    ASSUME AwaitedInv, PlacedInv, NEW r \in Runs, NEW rec, Becomes(r, rec),
           RunData(rec, pendingSessionWrites), rec.out = run[r].out,
           UNCHANGED <<pendingSessionWrites, steerQueue, followUpQueue, nextTurnQueue, tree, leaf, op,
                       writer, nextId, sent, discarded, scenario>>
    PROVE  PlacedInv'
<1>1. TypeInv' /\ run'[r] = rec /\ \A q \in Runs \ {r} : run'[q] = run[q]
  <2>1. Types' /\ CallTypes'
    BY DEF PlacedInv, TypeInv, Types, CallTypes
  <2>. QED
    BY <2>1, RunTyped DEF PlacedInv
<1>2. Stays({})
  BY <1>1 DEF Stays
<1>3. Still
  BY <1>2, AllStays DEF PlacedInv, TypeInv, Types
<1>. QED
  BY <1>1, <1>3 DEF PlacedInv, Still

\* flushPendingSessionWrites, up to its next append or its return.
Continues(rec, new) ==
    /\ WellRun(new) /\ new.out = rec.out /\ new.next = rec.next /\ new.reply = rec.reply
    /\ new.queue = rec.queue /\ new.failing = rec.failing
LEMMA FlushEffect ==
    ASSUME NEW r, NEW rec, WellRun(rec), NEW ret \in ReturnPlaces \ {"none"}, NEW pending, NEW E,
           NEW to, FlushThen(r, rec, ret, pending, E, to)
    PROVE  \E new :
              /\ Becomes(r, new) /\ Continues(rec, new)
              /\ IF pending = <<>>
                 THEN /\ new.pc = ret /\ new.put = NoPut
                      /\ new.ctx = IF ret = "prepare" THEN Branch(E, to) ELSE rec.ctx
                 ELSE /\ new.pc = "flushing" /\ new.ret = ret /\ new.put = Entry(pending[1], to)
                      /\ new.ctx = rec.ctx
<1>1. CASE pending = <<>>
  <2> DEFINE new == [rec EXCEPT !.pc = ret, !.put = NoPut, !.ended = @ \/ ret = "ended",
                                !.ctx = IF ret = "prepare" THEN Branch(E, to) ELSE @]
  <2>1. Becomes(r, new)
    BY <1>1 DEF FlushThen
  <2>2. /\ WellRun(new) /\ new.pc = ret /\ new.put = NoPut
        /\ new.ctx = IF ret = "prepare" THEN Branch(E, to) ELSE rec.ctx
        /\ Continues(rec, new)
    BY DEF WellRun, RunShape, Pcs, ReturnPlaces, Continues
  <2>. HIDE DEF new
  <2>. QED
    BY <1>1, <2>1, <2>2
<1>2. CASE pending # <<>>
  <2> DEFINE new == [rec EXCEPT !.pc = "flushing", !.ret = ret, !.put = Entry(pending[1], to)]
  <2>1. Becomes(r, new)
    BY <1>2 DEF FlushThen
  <2>2. /\ WellRun(new) /\ new.pc = "flushing" /\ new.ret = ret /\ new.put = Entry(pending[1], to)
        /\ new.ctx = rec.ctx /\ Continues(rec, new)
    BY DEF WellRun, RunShape, Pcs, ReturnPlaces, Continues
  <2>. HIDE DEF new
  <2>. QED
    BY <1>2, <2>1, <2>2
<1>. QED
  BY <1>1, <1>2

\* The entries that are appended, and which items are accepted ones.
LEMMA PutTypes ==
    ASSUME NEW parent \in Nat
    PROVE  /\ NoPut \in Puts /\ NoPut.item = NoItem /\ NoItem \notin Accepted
           /\ \A item \in Items : Entry(item, parent) \in Puts /\ Entry(item, parent).item = item
           /\ \A item \in Messages \union UserItems \union [id : Nat, via : {"write"}] : item \in Items
           /\ UserItems \subseteq Messages /\ UserItems \subseteq Accepted
           /\ [id : Nat, via : {"write"}] \subseteq Accepted
<1>1. NoItem \in Items /\ NoItem \notin Accepted
  BY DEF NoItem, Item, Items, Vias, Accepted, FromUser
<1>2. Messages \subseteq Items /\ UserItems \subseteq Messages /\ UserItems \subseteq Accepted
      /\ [id : Nat, via : {"write"}] \subseteq Items /\ [id : Nat, via : {"write"}] \subseteq Accepted
  BY DEF Messages, UserItems, Items, Vias, Accepted, FromUser
<1>. QED
  BY <1>1, <1>2 DEF NoPut, Puts, Entry

\* The flush of a run whose messages are all delivered.
LEMMA FlushStays ==
    ASSUME AwaitedInv, PlacedInv, NEW r \in Runs, NEW rec, WellRun(rec), rec.out = <<>>,
           run[r].out = <<>>, NEW ret \in ReturnPlaces \ {"none"},
           FlushThen(r, rec, ret, pendingSessionWrites, tree, leaf),
           UNCHANGED <<pendingSessionWrites, steerQueue, followUpQueue, nextTurnQueue, tree, leaf, op,
                       writer, nextId, sent, discarded, scenario>>
    PROVE  PlacedInv'
<1>1. PICK new :
         /\ Becomes(r, new) /\ Continues(rec, new)
         /\ IF pendingSessionWrites = <<>>
            THEN new.pc = ret /\ new.put = NoPut
            ELSE new.pc = "flushing" /\ new.ret = ret /\ new.put = Entry(pendingSessionWrites[1], leaf)
  BY FlushEffect
<1>2. leaf \in Nat /\ pendingSessionWrites \in Seq([id : Nat, via : {"write"}])
  BY DEF PlacedInv, TypeInv, Types
<1>3. RunData(new, pendingSessionWrites)
  <2>1. new.out = <<>> /\ new.out \in Seq(Messages)
    BY <1>1 DEF Continues
  <2>2. CASE pendingSessionWrites = <<>>
    BY <1>1, <1>2, <2>1, <2>2, PutTypes DEF RunData, ReturnPlaces, Holding
  <2>3. CASE pendingSessionWrites # <<>>
    <3>1. /\ Head(pendingSessionWrites) = pendingSessionWrites[1]
          /\ pendingSessionWrites[1] \in [id : Nat, via : {"write"}]
      <4> DEFINE T == [id : Nat, via : {"write"}]
      <4>1. pendingSessionWrites \in Seq(T)
        BY <1>2
      <4>. HIDE DEF T
      <4>2. Head(pendingSessionWrites) = pendingSessionWrites[1] /\ pendingSessionWrites[1] \in T
        BY <2>3, <4>1
      <4>. QED
        BY <4>2 DEF T
    <3>2. new.put \in Puts /\ new.put.item = Head(pendingSessionWrites)
      BY <1>1, <1>2, <2>3, <3>1, PutTypes
    <3>. QED
      BY <1>1, <2>1, <2>3, <3>2 DEF RunData, Holding
  <2>. QED
    BY <2>2, <2>3
<1>4. new.out = run[r].out
  BY <1>1 DEF Continues
<1>. QED
  BY <1>1, <1>3, <1>4, RunStays

\* Steps that leave the messages and the writes where they are.
LEMMA QuietSteps ==
    ASSUME AwaitedInv, PlacedInv, UNCHANGED scenario, NEW r \in Runs,
           \/ Taken(r) \/ Before(r) \/ MessageStart(r) \/ MessageTold(r) \/ Drained(r) \/ NothingPolled(r)
           \/ TurnEndTold(r) \/ TurnEndThrows(r) \/ SavePoint(r) \/ Prepared(r)
           \/ Settled(r) \/ LastFlushFails(r) \/ Release(r)
    PROVE  PlacedInv'
<1>1. WellRun(run[r]) /\ RunData(run[r], pendingSessionWrites) /\ leaf \in Nat
  BY DEF AwaitedInv, ShapeInv, PlacedInv, TypeInv, Types
<1>2. UNCHANGED <<pendingSessionWrites, steerQueue, followUpQueue, nextTurnQueue, tree, leaf, op,
                  writer, nextId, sent, discarded, scenario>>
  BY DEF Taken, Before, MessageStart, MessageTold, Drained, NothingPolled, TurnEndTold, TurnEndThrows,
     TurnEnd, SavePoint, Prepared, Settled, LastFlushFails, Release, harnessVars, queueVars, sessionVars, auxVars
<1>3. CASE Taken(r)
  <2> DEFINE rec == [run[r] EXCEPT !.pc = "before"]
  <2>1. Becomes(r, rec) /\ rec.out = run[r].out
    BY <1>3, <1>1 DEF Taken, WellRun, RunShape
  <2>2. RunData(rec, pendingSessionWrites)
    BY <1>1, <1>3 DEF Taken, WellRun, RunShape, RunData, Holding
  <2>. HIDE DEF rec
  <2>. QED
    BY <1>2, <2>1, <2>2, RunStays
<1>4. CASE Before(r)
  <2> DEFINE rec == [run[r] EXCEPT !.pc = "emit", !.next = "poll", !.ctx = @ \o run[r].out]
  <2>1. Becomes(r, rec) /\ rec.out = run[r].out
    BY <1>4, <1>1 DEF Before, WellRun, RunShape
  <2>2. RunData(rec, pendingSessionWrites)
    BY <1>1, <1>4 DEF Before, WellRun, RunShape, RunData, Holding
  <2>. HIDE DEF rec
  <2>. QED
    BY <1>2, <2>1, <2>2, RunStays
<1>5. CASE MessageStart(r)
  <2> DEFINE rec == [run[r] EXCEPT !.pc = "appending", !.put = Put(Head(run[r].out))]
  <2>1. Becomes(r, rec) /\ rec.out = run[r].out
    BY <1>5, <1>1 DEF MessageStart, WellRun, RunShape
  <2>2. run[r].out \in Seq(Messages) /\ run[r].out # <<>>
    BY <1>1, <1>5 DEF MessageStart, RunData, Holding
  <2>3. Head(run[r].out) \in Messages
    BY <2>2
  <2>4. Put(Head(run[r].out)) \in Puts /\ Put(Head(run[r].out)).item = Head(run[r].out)
    BY <1>1, <2>3, PutTypes DEF Put
  <2>5. rec.pc = "appending" /\ rec.put = Put(Head(run[r].out))
    BY <1>1 DEF WellRun, RunShape
  <2>. HIDE DEF rec
  <2>6. RunData(rec, pendingSessionWrites)
    BY <2>1, <2>2, <2>4, <2>5 DEF RunData, Holding
  <2>. QED
    BY <1>2, <2>1, <2>6, RunStays
<1>6. CASE MessageTold(r)
  <2> DEFINE rec == [run[r] EXCEPT !.pc = IF run[r].out # <<>> THEN "emit" ELSE run[r].next]
  <2>1. Becomes(r, rec) /\ rec.out = run[r].out
    BY <1>6, <1>1 DEF MessageTold, WellRun, RunShape
  <2>2. run[r].next \in {"poll", "request", "turnEnd"}
    BY <1>1, <1>6 DEF MessageTold, WellRun, RunShape
  <2>3. RunData(rec, pendingSessionWrites)
    BY <1>1, <1>6, <2>2 DEF MessageTold, WellRun, RunShape, RunData, Holding
  <2>. HIDE DEF rec
  <2>. QED
    BY <1>2, <2>1, <2>3, RunStays
<1>7. CASE Drained(r)
  <2> DEFINE rec == [run[r] EXCEPT !.pc = "emit", !.next = "request", !.queue = "none"]
  <2>1. Becomes(r, rec) /\ rec.out = run[r].out
    BY <1>7, <1>1 DEF Drained, WellRun, RunShape
  <2>2. RunData(rec, pendingSessionWrites)
    BY <1>1, <1>7 DEF Drained, WellRun, RunShape, RunData, Holding
  <2>. HIDE DEF rec
  <2>. QED
    BY <1>2, <2>1, <2>2, RunStays
<1>8. CASE Prepared(r)
  <2> DEFINE rec == [run[r] EXCEPT !.pc = "poll"]
  <2>1. Becomes(r, rec) /\ rec.out = run[r].out
    BY <1>8, <1>1 DEF Prepared, WellRun, RunShape
  <2>2. RunData(rec, pendingSessionWrites)
    BY <1>1, <1>8 DEF Prepared, WellRun, RunShape, RunData, Holding
  <2>. HIDE DEF rec
  <2>. QED
    BY <1>2, <2>1, <2>2, RunStays
<1>9. CASE LastFlushFails(r)
  <2> DEFINE rec == [run[r] EXCEPT !.pc = "release", !.put = NoPut, !.threw = TRUE]
  <2>1. Becomes(r, rec) /\ rec.out = run[r].out
    BY <1>9, <1>1 DEF LastFlushFails, WellRun, RunShape
  <2>2. RunData(rec, pendingSessionWrites)
    BY <1>1, <1>9, PutTypes DEF LastFlushFails, WellRun, RunShape, RunData, Holding
  <2>. HIDE DEF rec
  <2>. QED
    BY <1>2, <2>1, <2>2, RunStays
<1>10. CASE Release(r)
  <2>1. Becomes(r, NoRun) /\ run[r].out = <<>>
    BY <1>1, <1>10 DEF Release, RunData, Holding
  <2>2. NoRun.out = <<>> /\ NoRun.put = NoPut /\ NoRun.pc = "none"
    BY DEF NoRun
  <2>3. RunData(NoRun, pendingSessionWrites)
    BY <1>1, <2>2, PutTypes DEF RunData, Holding
  <2>. QED
    BY <1>2, <2>1, <2>2, <2>3, RunStays
<1>11. ASSUME NEW ret \in ReturnPlaces \ {"none"}, FlushThen(r, run[r], ret, pendingSessionWrites, tree, leaf),
              run[r].pc \in {"poll", "pollFollowUp", "turnEnd", "savePoint", "ended"}
       PROVE  PlacedInv'
  <2>1. run[r].out = <<>>
    BY <1>1, <1>11 DEF RunData, Holding
  <2>. QED
    BY <1>1, <1>2, <1>11, <2>1, FlushStays
<1>12. CASE NothingPolled(r)
  <2>1. CASE run[r].pc = "pollFollowUp"
    BY <1>11, <1>12, <2>1 DEF NothingPolled, ReturnPlaces
  <2>2. CASE run[r].pc # "pollFollowUp"
    <3>1. run[r].pc = "poll"
      BY <1>12, <2>2 DEF NothingPolled
    <3>2. PICK pc \in {"pollFollowUp", "request"} : Becomes(r, [run[r] EXCEPT !.pc = pc])
      BY <1>12, <3>1 DEF NothingPolled
    <3> DEFINE rec == [run[r] EXCEPT !.pc = pc]
    <3>3. Becomes(r, rec) /\ rec.out = run[r].out
      BY <1>1, <3>2 DEF WellRun, RunShape
    <3>4. RunData(rec, pendingSessionWrites)
      BY <1>1, <3>1 DEF WellRun, RunShape, RunData, Holding
    <3>. HIDE DEF rec
    <3>. QED
      BY <1>2, <3>3, <3>4, RunStays
  <2>. QED
    BY <2>1, <2>2
<1>13. CASE TurnEndTold(r) \/ TurnEndThrows(r) \/ SavePoint(r) \/ Settled(r)
  BY <1>11, <1>13 DEF TurnEndTold, TurnEndThrows, TurnEnd, SavePoint, Settled, ReturnPlaces
<1>. QED
  BY <1>3, <1>4, <1>5, <1>6, <1>7, <1>8, <1>9, <1>10, <1>12, <1>13

\* The places of a run and of another list.
LEMMA RunMoved ==
    ASSUME AwaitedInv, PlacedInv, NEW r \in Runs, NEW rec, Becomes(r, rec),
           RunData(rec, pendingSessionWrites'), Types', CallTypes',
           UNCHANGED pendingSessionWrites \/ \A q \in Runs \ {r} : run[q].pc # "flushing",
           NEW b \in PlaceNames, b # <<"run", r>>,
           Stays({b} \union {<<"run", q>> : q \in Runs}),
           NEW t, NEW v, NEW F, NEW G, Swapped(run[r].out, t, rec.out, v, F, G),
           Contents[b] = t, Contents'[b] = v
    PROVE  PlacedInv'
<1>1. TypeInv' /\ run'[r] = rec /\ \A q \in Runs \ {r} : run'[q] = run[q]
  BY RunTyped DEF PlacedInv
<1> DEFINE a == <<"run", r>>
<1>2. Stays({a, b})
  BY <1>1 DEF Stays
<1>3. a \in PlaceNames /\ Contents[a] = run[r].out /\ Contents'[a] = rec.out
  BY <1>1, PlacesHold DEF ContentsAre
<1>4. Still
  BY <1>1, <1>2, <1>3, Moved
<1>. QED
  BY <1>1, <1>4 DEF PlacedInv, Still

\* Two places have nothing in common.
LEMMA ListsApart ==
    ASSUME PlacedInv, NEW a \in PlaceNames, NEW b \in PlaceNames, a # b
    PROVE  /\ Single(Contents[a]) /\ Single(Contents[b])
           /\ In(Contents[a]) \intersect In(Contents[b]) = {}
           /\ \A x \in In(Contents[a]) : x \in Accepted /\ x.id \in Nat /\ x.id < nextId
BY DEF PlacedInv, WellPlaced, In, Accepted

\* What a run has taken from a queue and may put back.
LEMMA TakingSteps ==
    ASSUME AwaitedInv, PlacedInv, UNCHANGED scenario, NEW r \in Runs, Snapshot(r) \/ TakenThrows(r)
    PROVE  PlacedInv'
<1>1. /\ WellRun(run[r]) /\ RunData(run[r], pendingSessionWrites)
      /\ nextTurnQueue \in Seq(UserItems) /\ nextId \in Nat /\ Types /\ CallTypes
  BY DEF AwaitedInv, ShapeInv, PlacedInv, TypeInv, Types
<1> DEFINE b == <<"nextTurn", 0>>
           out == run[r].out
<1>2. b \in PlaceNames /\ b # <<"run", r>> /\ Contents[b] = nextTurnQueue /\ Contents'[b] = nextTurnQueue'
  BY PlacesHold DEF ContentsAre
<1>3. /\ Single(out) /\ Single(nextTurnQueue) /\ In(out) \intersect In(nextTurnQueue) = {}
  BY <1>2, ListsApart, PlacesHold DEF ContentsAre
<1>4. /\ UNCHANGED <<pendingSessionWrites, steerQueue, followUpQueue, tree, leaf, op, writer, nextId, discarded>>
      /\ run[r].pc \in {"snapshot", "taken"}
  BY DEF Snapshot, TakenThrows, harnessVars, sessionVars, auxVars
<1>5. out \in Seq(UserItems) /\ out # <<>>
  BY <1>1, <1>4 DEF RunData, Holding
<1>6. Stays({b} \union {<<"run", q>> : q \in Runs})
  BY <1>4 DEF Stays
<1>7. CallTypes'
  BY <1>1, <1>4 DEF CallTypes
<1>8. UserItems \subseteq Messages
  BY PutTypes
<1>9. CASE Snapshot(r)
  <2> DEFINE rec == [run[r] EXCEPT !.pc = IF nextTurnQueue = <<>> THEN "before" ELSE "taken",
                                   !.out = nextTurnQueue \o @]
  <2>1. Becomes(r, rec) /\ nextTurnQueue' = <<>> /\ sent' = sent /\ run[r].pc = "snapshot"
    BY <1>9 DEF Snapshot, auxVars
  <2>2. /\ rec.pc \in {"before", "taken"} /\ rec.out = nextTurnQueue \o out /\ rec.put = run[r].put
    BY <1>1 DEF WellRun, RunShape
  <2>. HIDE DEF rec
  <2>3. /\ rec.out \in Seq(UserItems) /\ rec.out # <<>> /\ rec.out \in Seq(Messages)
    <3>1. nextTurnQueue \o out \in Seq(UserItems) /\ nextTurnQueue \o out # <<>>
      BY <1>1, <1>5
    <3>. QED
      BY <1>8, <2>2, <3>1
  <2>4. RunData(rec, pendingSessionWrites')
    BY <1>1, <1>4, <2>1, <2>2, <2>3 DEF RunData, Holding
  <2>5. Types'
    BY <1>1, <1>4, <2>1 DEF Types
  <2>6. Single(rec.out) /\ In(rec.out) = In(nextTurnQueue) \union In(out)
    BY <1>1, <1>3, <1>5, <2>2, Parts
  <2>7. In(nextTurnQueue') = {} /\ Single(nextTurnQueue')
    BY <2>1, Nothing
  <2>8. Swapped(out, nextTurnQueue, rec.out, nextTurnQueue', {}, {})
    BY <1>1, <1>4, <2>1, <2>6, <2>7 DEF Swapped
  <2>. HIDE DEF b
  <2>. QED
    BY <1>2, <1>4, <1>6, <1>7, <2>1, <2>4, <2>5, <2>8, RunMoved
<1>10. CASE TakenThrows(r)
  <2>1. /\ Becomes(r, NoRun) /\ nextTurnQueue' = Front(out) \o nextTurnQueue
        /\ sent' = sent \ {Last(out)}
    BY <1>10 DEF TakenThrows, Rejects
  <2>2. NoRun.out = <<>> /\ NoRun.put = NoPut /\ NoRun.pc = "none"
    BY DEF NoRun
  <2>3. RunData(NoRun, pendingSessionWrites')
    BY <2>2, PutTypes DEF RunData, Holding
  <2>4. Front(out) \in Seq(UserItems) /\ Last(out) \in UserItems /\ out = Append(Front(out), Last(out))
    BY <1>5, FrontAndLast
  <2>5. /\ In(out) = In(Front(out)) \union ({Last(out)} \intersect Accepted)
        /\ Single(Front(out)) /\ Last(out) \notin In(Front(out))
    <3> DEFINE front == Front(out)
               last == Last(out)
    <3>1. front \in Seq(UserItems) /\ last \in UserItems /\ out = Append(front, last)
      BY <2>4
    <3>. HIDE DEF front, last, out
    <3>2. /\ In(Append(front, last)) = In(front) \union ({last} \intersect Accepted)
          /\ Single(Append(front, last)) <=> Single(front) /\ last \notin In(front)
      BY <3>1, OneMore
    <3>3. Single(out)
      BY <1>3
    <3>. QED
      BY <3>1, <3>2, <3>3 DEF front, last
  <2>6. nextTurnQueue' \in Seq(UserItems)
    BY <1>1, <2>1, <2>4
  <2>7. Types'
    BY <1>1, <1>4, <2>6 DEF Types
  <2>8. /\ Single(nextTurnQueue') /\ In(nextTurnQueue') = In(Front(out)) \union In(nextTurnQueue)
    BY <1>1, <1>3, <2>1, <2>4, <2>5, Parts
  <2>9. In(NoRun.out) = {} /\ Single(NoRun.out)
    BY <2>2, Nothing
  <2>10. Swapped(out, nextTurnQueue, NoRun.out, nextTurnQueue', {}, {})
    BY <1>1, <1>3, <1>4, <2>1, <2>5, <2>8, <2>9 DEF Swapped
  <2>. HIDE DEF b
  <2>. QED
    BY <1>2, <1>4, <1>6, <1>7, <2>1, <2>3, <2>7, <2>10, RunMoved
<1>. QED
  BY <1>9, <1>10

\* Only the messages of the run change.
LEMMA OutMoved ==
    ASSUME AwaitedInv, PlacedInv, NEW r \in Runs, NEW rec, Becomes(r, rec),
           RunData(rec, pendingSessionWrites), nextId' \in Nat, nextId <= nextId',
           UNCHANGED <<pendingSessionWrites, steerQueue, followUpQueue, nextTurnQueue, tree, leaf,
                       writer, scenario>>, CallTypes',
           Single(rec.out), NEW F, \A x \in F : x \in Accepted /\ x.id = nextId /\ nextId < nextId',
           In(rec.out) \subseteq In(run[r].out) \union F, sent' \subseteq sent \union F,
           NEW G, G \subseteq In(run[r].out), G \intersect In(rec.out) = {}, discarded' = discarded \union G,
           sent' \intersect (In(run[r].out) \union F) \subseteq G \union In(rec.out)
    PROVE  PlacedInv'
<1> DEFINE b == <<"steer", 0>>
           t == steerQueue
<1>1. b \in PlaceNames /\ b # <<"run", r>> /\ Contents[b] = t /\ Contents'[b] = t
  BY PlacesHold DEF ContentsAre
<1>2. <<"run", r>> \in PlaceNames /\ Contents[<<"run", r>>] = run[r].out
  BY PlacesHold DEF ContentsAre
<1>3. /\ Single(t) /\ In(run[r].out) \intersect In(t) = {}
      /\ \A x \in In(t) : x.id \in Nat /\ x.id < nextId
  BY <1>1, <1>2, ListsApart
<1>4. \A x \in F : x \notin In(t)
  BY <1>3
<1>5. Swapped(run[r].out, t, rec.out, t, F, G)
  BY <1>3, <1>4 DEF Swapped
<1>6. Types' /\ RunData(rec, pendingSessionWrites')
  BY DEF PlacedInv, TypeInv, Types
<1>7. Stays({b} \union {<<"run", q>> : q \in Runs})
  BY DEF Stays
<1>. HIDE DEF b, t
<1>. QED
  BY <1>1, <1>5, <1>6, <1>7, RunMoved

\* prompt() throws before the loop: its message was not accepted, and what it
\* took from the queue is given back, or was not taken yet.
LEMMA StartFails ==
    ASSUME AwaitedInv, PlacedInv, UNCHANGED scenario, NEW r \in Runs, SnapshotThrows(r) \/ BeforeThrows(r)
    PROVE  PlacedInv'
<1>1. /\ WellRun(run[r]) /\ RunData(run[r], pendingSessionWrites) /\ nextId \in Nat /\ CallTypes
  BY DEF AwaitedInv, ShapeInv, PlacedInv, TypeInv, Types
<1> DEFINE out == run[r].out
<1>2. /\ Becomes(r, NoRun) /\ run[r].pc \in {"snapshot", "before"}
      /\ UNCHANGED <<pendingSessionWrites, steerQueue, followUpQueue, nextTurnQueue, tree, leaf,
                     writer, op, nextId>>
  BY DEF SnapshotThrows, BeforeThrows, Rejects, queueVars, sessionVars
<1>3. out \in Seq(UserItems) /\ out # <<>>
  BY <1>1, <1>2 DEF RunData, Holding
<1>4. NoRun.out = <<>> /\ NoRun.put = NoPut /\ NoRun.pc = "none"
  BY DEF NoRun
<1>5. RunData(NoRun, pendingSessionWrites)
  BY <1>4, PutTypes DEF RunData, Holding
<1>6. In(NoRun.out) = {} /\ Single(NoRun.out)
  BY <1>4, Nothing
<1>7. CallTypes'
  BY <1>1, <1>2 DEF CallTypes
<1>8. In(out) \subseteq Range(out)
  BY DEF In, Range
<1>9. CASE SnapshotThrows(r)
  <2>1. sent' = sent \ Range(out) /\ discarded' = discarded \union {}
    BY <1>9 DEF SnapshotThrows
  <2>2. sent' \subseteq sent /\ sent' \intersect In(out) \subseteq {}
    BY <1>8, <2>1
  <2>. QED
    BY <1>1, <1>2, <1>5, <1>6, <1>7, <2>1, <2>2, OutMoved
<1>10. CASE BeforeThrows(r)
  <2> DEFINE front == Front(out)
             last == Last(out)
  <2>1. sent' = sent \ {last} /\ discarded' = discarded \union Range(front)
    BY <1>10 DEF BeforeThrows
  <2>2. front \in Seq(UserItems) /\ last \in UserItems /\ out = Append(front, last)
    BY <1>3, FrontAndLast
  <2>. HIDE DEF front, last
  <2>3. In(out) = In(front) \union ({last} \intersect Accepted)
    BY <2>2, OneMore
  <2>4. Range(front) = In(front)
    <3>1. UserItems \subseteq Accepted
      BY PutTypes
    <3>2. \A i \in DOMAIN front : front[i] \in UserItems
      BY <2>2
    <3>. QED
      BY <3>1, <3>2 DEF In, Range
  <2>5. sent' \subseteq sent /\ sent' \intersect In(out) \subseteq In(front)
    BY <2>1, <2>3
  <2>6. In(front) \subseteq In(out) /\ discarded' = discarded \union In(front)
    BY <2>1, <2>3, <2>4
  <2>. QED
    BY <1>1, <1>2, <1>5, <1>6, <1>7, <2>5, <2>6, OutMoved
<1>. QED
  BY <1>9, <1>10

\* A failure is reported, or could not be: what the run still had is given back.
LEMMA FailsMoved ==
    ASSUME AwaitedInv, PlacedInv, NEW r \in Runs, NEW rec, WellRun(rec), rec.out \in Seq(Messages),
           Fails(r, rec), UNCHANGED <<pendingSessionWrites, nextTurnQueue, tree, leaf, op, writer, sent, scenario>>,
           steerQueue' \in Seq(UserItems), followUpQueue' \in Seq(UserItems),
           NEW b \in PlaceNames, b # <<"run", r>>, Stays({b} \union {<<"run", q>> : q \in Runs}),
           NEW t, NEW v, Contents[b] = t, Contents'[b] = v,
           Single(v), In(rec.out) \intersect In(v) = {},
           In(rec.out) \union In(v) = In(run[r].out) \union In(t)
    PROVE  PlacedInv'
<1>1. Types /\ CallTypes /\ nextId \in Nat /\ leaf \in Nat
  BY DEF PlacedInv, TypeInv, Types
<1> DEFINE G == In(rec.out)
<1>2. discarded' = discarded \union G
  <2>1. {item \in Range(rec.out) : IsUser(item)} = G
    <3>1. \A x \in Messages : IsUser(x) <=> x \in Accepted
      BY DEF Messages, Accepted, IsUser, Vias
    <3>2. \A i \in DOMAIN rec.out : rec.out[i] \in Messages
      OBVIOUS
    <3>. QED
      BY <3>1, <3>2 DEF In, Range
  <2>. QED
    BY <2>1 DEF Fails
<1>3. \E new : /\ Becomes(r, new) /\ RunData(new, pendingSessionWrites) /\ In(new.out) = {} /\ Single(new.out)
               /\ nextId' \in Nat /\ nextId <= nextId'
  <2>1. CASE rec.failing
    <3> DEFINE mid == [rec EXCEPT !.out = <<>>, !.queue = "none", !.threw = TRUE]
    <3>1. FlushThen(r, mid, "release", pendingSessionWrites, tree, leaf) /\ nextId' = nextId
      BY <2>1 DEF Fails
    <3>2. WellRun(mid) /\ mid.out = <<>> /\ "release" \in ReturnPlaces \ {"none"}
      BY DEF WellRun, RunShape, ReturnPlaces
    <3>. HIDE DEF mid
    <3>3. PICK new :
             /\ Becomes(r, new) /\ Continues(mid, new)
             /\ IF pendingSessionWrites = <<>>
                THEN new.pc = "release" /\ new.put = NoPut
                ELSE new.pc = "flushing" /\ new.put = Entry(pendingSessionWrites[1], leaf)
      BY <3>1, <3>2, FlushEffect
    <3>4. new.out = <<>>
      BY <3>2, <3>3 DEF Continues
    <3>5. RunData(new, pendingSessionWrites)
      <4>1. CASE pendingSessionWrites = <<>>
        BY <3>3, <3>4, <4>1, PutTypes DEF RunData, Holding
      <4>2. CASE pendingSessionWrites # <<>>
        <5> DEFINE T == [id : Nat, via : {"write"}]
        <5>1. pendingSessionWrites \in Seq(T)
          BY <1>1 DEF Types
        <5>. HIDE DEF T
        <5>2. Head(pendingSessionWrites) = pendingSessionWrites[1] /\ pendingSessionWrites[1] \in T
          BY <4>2, <5>1
        <5>3. new.put \in Puts /\ new.put.item = Head(pendingSessionWrites)
          BY <1>1, <3>3, <4>2, <5>2, PutTypes DEF T
        <5>. QED
          BY <3>3, <3>4, <4>2, <5>3 DEF RunData, Holding
      <4>. QED
        BY <4>1, <4>2
    <3>. QED
      BY <1>1, <3>1, <3>3, <3>4, <3>5, Nothing
  <2>2. CASE ~rec.failing
    <3> DEFINE failure == Item(nextId, "failure")
               new == [rec EXCEPT !.pc = "emit", !.failing = TRUE, !.put = NoPut,
                                  !.out = <<failure>>, !.queue = "none",
                                  !.next = "turnEnd", !.reply = "failed"]
    <3>1. Becomes(r, new) /\ nextId' = nextId + 1
      BY <2>2 DEF Fails
    <3>2. new.pc = "emit" /\ new.put = NoPut /\ new.out = <<failure>>
      BY DEF WellRun, RunShape
    <3>. HIDE DEF new
    <3>3. failure \in Messages /\ failure \notin Accepted
      BY <1>1 DEF Item, Messages, Vias, Accepted, FromUser
    <3>. HIDE DEF failure
    <3>4. RunData(new, pendingSessionWrites)
      <4>1. new.out \in Seq(Messages) /\ new.out # <<>>
        BY <3>2, <3>3
      <4>2. new.put \in Puts
        BY <1>1, <3>2, PutTypes
      <4>. QED
        BY <3>2, <4>1, <4>2 DEF RunData, Holding
    <3>5. In(<<failure>>) = {failure} \intersect Accepted /\ Single(<<failure>>)
      BY OneItem
    <3>6. In(new.out) = {} /\ Single(new.out)
      BY <3>2, <3>3, <3>5
    <3>7. nextId' \in Nat /\ nextId <= nextId'
      BY <1>1, <3>1
    <3>. QED
      BY <3>1, <3>4, <3>6, <3>7
  <2>. QED
    BY <2>1, <2>2
<1>4. PICK new : /\ Becomes(r, new) /\ RunData(new, pendingSessionWrites) /\ In(new.out) = {} /\ Single(new.out)
                 /\ nextId' \in Nat /\ nextId <= nextId'
  BY <1>3
<1>. HIDE DEF G
<1>5. Swapped(run[r].out, t, new.out, v, {}, G)
  BY <1>2, <1>4 DEF Swapped, G
<1>6. Types' /\ CallTypes'
  BY <1>1, <1>4 DEF Types, CallTypes
<1>. QED
  BY <1>4, <1>5, <1>6, RunMoved

(***************************************************************************)
(* The session, and the steps that append to it                            *)
(***************************************************************************)

\* An append of a put adds its item to what the session holds.
LEMMA SessionGrows ==
    ASSUME tree \in Seq(Puts), NEW put \in Puts, Appended(put)
    PROVE  /\ tree' \in Seq(Puts) /\ leaf' \in Nat
           /\ In(Told') = In(Told) \union ({put.item} \intersect Accepted)
           /\ Single(Told') <=> Single(Told) /\ put.item \notin In(Told)
<1>1. tree' = Append(tree, put) /\ leaf' = LeafAfter(tree')
  BY DEF Appended
<1>2. /\ Len(tree) \in Nat /\ DOMAIN tree = 1..Len(tree) /\ DOMAIN tree' = 1..(Len(tree) + 1)
      /\ tree'[Len(tree) + 1] = put /\ \A i \in 1..Len(tree) : tree'[i] = tree[i] /\ tree[i] \in Puts
      /\ tree' \in Seq(Puts) /\ Len(tree') = Len(tree) + 1 /\ tree' # <<>>
  BY <1>1
<1>3. put.to \in Nat /\ put.item \in Items /\ \A p \in Puts : p.item \in Items
  BY DEF Puts
<1>4. leaf' \in Nat
  BY <1>1, <1>2, <1>3 DEF LeafAfter
<1>5. Told \in Seq(Items) /\ Len(Told) = Len(tree) /\ \A i \in 1..Len(tree) : Told[i] = tree[i].item
  <2>1. Told = [i \in 1..Len(tree) |-> tree[i].item] /\ \A i \in 1..Len(tree) : tree[i].item \in Items
    BY <1>2, <1>3 DEF Told
  <2>. QED
    BY <1>2, <2>1
<1>6. Told' = Append(Told, put.item)
  <2>1. Told' = [i \in 1..(Len(tree) + 1) |-> tree'[i].item]
    BY <1>2 DEF Told
  <2>2. Append(Told, put.item) = [i \in 1..(Len(tree) + 1) |->
                                    IF i = Len(tree) + 1 THEN put.item ELSE Told[i]]
    BY <1>2, <1>3, <1>5
  <2>3. \A i \in 1..(Len(tree) + 1) :
           tree'[i].item = IF i = Len(tree) + 1 THEN put.item ELSE Told[i]
    BY <1>2, <1>5
  <2>. QED
    BY <2>1, <2>2, <2>3
<1>7. /\ In(Append(Told, put.item)) = In(Told) \union ({put.item} \intersect Accepted)
      /\ Single(Append(Told, put.item)) <=> Single(Told) /\ put.item \notin In(Told)
  <2> DEFINE s == Told
             x == put.item
  <2>1. s \in Seq(Items) /\ x \in Items
    BY <1>3, <1>5
  <2>. HIDE DEF s, x
  <2>2. /\ In(Append(s, x)) = In(s) \union ({x} \intersect Accepted)
        /\ Single(Append(s, x)) <=> Single(s) /\ x \notin In(s)
    BY <2>1, OneMore
  <2>. QED
    BY <2>2 DEF s, x
<1>. QED
  BY <1>2, <1>4, <1>6, <1>7

\* The message of a run goes to the session.
LEMMA MessageAppends ==
    ASSUME AwaitedInv, PlacedInv, UNCHANGED scenario, NEW r \in Runs, MessageAppended(r)
    PROVE  PlacedInv'
<1>1. WellRun(run[r]) /\ RunData(run[r], pendingSessionWrites) /\ Types /\ CallTypes
  BY DEF AwaitedInv, ShapeInv, PlacedInv, TypeInv
<1> DEFINE out == run[r].out
           rec == [run[r] EXCEPT !.pc = "told", !.put = NoPut, !.out = Tail(@),
                                 !.ctx = IF run[r].next = "poll" THEN @
                                         ELSE Append(@, Head(run[r].out))]
           b == <<"session", 0>>
<1>2. /\ Becomes(r, rec) /\ Appended(run[r].put) /\ run[r].pc = "appending"
      /\ UNCHANGED <<pendingSessionWrites, steerQueue, followUpQueue, nextTurnQueue, op, writer,
                     nextId, sent, discarded>>
  BY DEF MessageAppended, harnessVars, queueVars, auxVars
<1>3. rec.pc = "told" /\ rec.put = NoPut /\ rec.out = Tail(out)
  BY <1>1 DEF WellRun, RunShape
<1>. HIDE DEF rec
<1>4. out \in Seq(Messages) /\ out # <<>> /\ run[r].put \in Puts /\ run[r].put.item = Head(out)
  BY <1>1, <1>2 DEF RunData, Holding
<1> DEFINE h == Head(out)
           rest == Tail(out)
<1>5. /\ rest \in Seq(Messages) /\ In(out) = ({h} \intersect Accepted) \union In(rest)
      /\ Single(out) => Single(rest) /\ h \notin In(rest)
  BY <1>4, FirstAndRest
<1>6. /\ tree' \in Seq(Puts) /\ leaf' \in Nat
      /\ In(Told') = In(Told) \union ({h} \intersect Accepted)
      /\ Single(Told') <=> Single(Told) /\ h \notin In(Told)
  BY <1>1, <1>2, <1>4, SessionGrows DEF Types
<1>7. /\ b \in PlaceNames /\ b # <<"run", r>> /\ Contents[b] = Told /\ Contents'[b] = Told'
      /\ <<"run", r>> \in PlaceNames /\ Contents[<<"run", r>>] = out
  BY PlacesHold DEF ContentsAre
<1>8. Single(out) /\ Single(Told) /\ In(out) \intersect In(Told) = {}
  BY <1>7, ListsApart
<1>9. In(Told) \subseteq Accepted /\ h \notin In(Told)
  BY <1>5, <1>8 DEF In
<1>10. RunData(rec, pendingSessionWrites')
  BY <1>3, <1>5, PutTypes DEF RunData, Holding
<1>11. Types' /\ CallTypes'
  BY <1>1, <1>2, <1>6 DEF Types, CallTypes
<1>12. Stays({b} \union {<<"run", q>> : q \in Runs})
  BY <1>2 DEF Stays
<1>13. nextId \in Nat
  BY <1>1 DEF Types
<1>. HIDE DEF h, b, out, rest
<1>14. Single(rest) /\ Single(Told') /\ In(rest) \intersect In(Told') = {}
  BY <1>5, <1>6, <1>8, <1>9
<1>15. Swapped(out, Told, rest, Told', {}, {})
  BY <1>2, <1>5, <1>6, <1>13, <1>14 DEF Swapped
<1>16. Swapped(run[r].out, Told, rec.out, Told', {}, {})
  BY <1>3, <1>15 DEF out, rest
<1>. QED
  BY <1>2, <1>7, <1>10, <1>11, <1>12, <1>16, RunMoved DEF b

\* Messages go from a queue to the run that delivers them.
LEMMA Drains ==
    ASSUME AwaitedInv, PlacedInv, UNCHANGED scenario, NEW r \in Runs, Drain(r)
    PROVE  PlacedInv'
<1>1. WellRun(run[r]) /\ RunData(run[r], pendingSessionWrites) /\ Types /\ CallTypes /\ nextId \in Nat
  BY DEF AwaitedInv, ShapeInv, PlacedInv, TypeInv, Types
<1> DEFINE kind == IF run[r].pc = "poll" THEN "steer" ELSE "followUp"
           queue == Polled(r)
           taken == Taking(queue, kind)
           left == SubSeq(queue, Len(taken) + 1, Len(queue))
           rec == [run[r] EXCEPT !.pc = "drained", !.out = taken, !.queue = kind]
           b == <<kind, 0>>
<1>2. /\ Becomes(r, rec) /\ run[r].pc \in {"poll", "pollFollowUp"} /\ queue # <<>>
      /\ IF kind = "steer" THEN steerQueue' = left /\ UNCHANGED followUpQueue
         ELSE followUpQueue' = left /\ UNCHANGED steerQueue
      /\ UNCHANGED <<pendingSessionWrites, nextTurnQueue, tree, leaf, op, writer,
                     nextId, sent, discarded>>
  BY DEF Drain, harnessVars, sessionVars, auxVars
<1>3. rec.pc = "drained" /\ rec.put = run[r].put /\ rec.out = taken /\ rec.queue = kind
  BY <1>1 DEF WellRun, RunShape
<1>4. queue \in Seq(UserItems) /\ (taken = queue \/ taken = SubSeq(queue, 1, 1))
  BY <1>1 DEF Polled, Types, Taking
<1>5. kind \in {"steer", "followUp"} /\ queue = IF kind = "steer" THEN steerQueue ELSE followUpQueue
  BY <1>2 DEF Polled
<1>. HIDE DEF rec, kind, queue
<1>6. taken \in Seq(UserItems) /\ taken # <<>> /\ left \in Seq(UserItems) /\ queue = taken \o left
  BY <1>2, <1>4, TakenAndLeft
<1>. HIDE DEF taken, left
<1>7. /\ In(queue) = In(taken) \union In(left)
      /\ Single(queue) <=> Single(taken) /\ Single(left) /\ In(taken) \intersect In(left) = {}
  BY <1>6, Parts
<1>8. /\ b \in PlaceNames /\ b # <<"run", r>> /\ Contents[b] = queue /\ Contents'[b] = left
      /\ <<"run", r>> \in PlaceNames /\ Contents[<<"run", r>>] = run[r].out
  BY <1>2, <1>5, PlacesHold DEF ContentsAre
<1>9. Single(queue)
  BY <1>8, ListsApart
<1>10. run[r].out = <<>> /\ In(run[r].out) = {}
  BY <1>1, <1>2, Nothing DEF RunData, Holding
<1>11. RunData(rec, pendingSessionWrites')
  <2>1. taken \in Seq(Messages)
    BY <1>6, PutTypes
  <2>. QED
    BY <1>1, <1>2, <1>3, <1>5, <1>6, <2>1 DEF RunData, Holding
<1>12. Types' /\ CallTypes'
  BY <1>1, <1>2, <1>6 DEF Types, CallTypes
<1>13. Stays({b} \union {<<"run", q>> : q \in Runs})
  BY <1>2, <1>5 DEF Stays
<1>14. Swapped(run[r].out, queue, taken, left, {}, {})
  BY <1>1, <1>2, <1>7, <1>9, <1>10 DEF Swapped
<1>. HIDE DEF b
<1>. QED
  BY <1>2, <1>3, <1>8, <1>11, <1>12, <1>13, <1>14, RunMoved

\* An error of the loop; what was drained goes back to its queue, if that is
\* still the queue.
LEMMA LoopFails ==
    ASSUME AwaitedInv, PlacedInv, UNCHANGED scenario, NEW r \in Runs,
           DrainThrows(r) \/ LoopThrows(r) \/ TurnThrew(r)
    PROVE  PlacedInv'
<1>1. WellRun(run[r]) /\ RunData(run[r], pendingSessionWrites) /\ Types
  BY DEF AwaitedInv, ShapeInv, PlacedInv, TypeInv
<1> DEFINE out == run[r].out
<1>2. UNCHANGED <<pendingSessionWrites, nextTurnQueue, tree, leaf, op, writer, sent>>
  BY DEF DrainThrows, LoopThrows, TurnThrew, queueVars, sessionVars
<1>3. out \in Seq(Messages) /\ steerQueue \in Seq(UserItems) /\ followUpQueue \in Seq(UserItems)
  BY <1>1 DEF RunData, Types
<1>4. /\ <<"steer", 0>> \in PlaceNames /\ <<"steer", 0>> # <<"run", r>>
      /\ Contents[<<"steer", 0>>] = steerQueue /\ Contents'[<<"steer", 0>>] = steerQueue'
      /\ <<"followUp", 0>> \in PlaceNames /\ <<"followUp", 0>> # <<"run", r>>
      /\ Contents[<<"followUp", 0>>] = followUpQueue /\ Contents'[<<"followUp", 0>>] = followUpQueue'
      /\ <<"run", r>> \in PlaceNames /\ Contents[<<"run", r>>] = out
  BY PlacesHold DEF ContentsAre
<1>5. /\ Single(out) /\ Single(steerQueue) /\ Single(followUpQueue)
      /\ In(out) \intersect In(steerQueue) = {} /\ In(out) \intersect In(followUpQueue) = {}
  BY <1>4, ListsApart
<1>6. ASSUME UNCHANGED <<steerQueue, followUpQueue>>, NEW rec, WellRun(rec), rec.out = out, Fails(r, rec)
      PROVE  PlacedInv'
  <2> DEFINE b == <<"steer", 0>>
             t == steerQueue
  <2>1. Stays({b} \union {<<"run", q>> : q \in Runs})
    BY <1>2, <1>6 DEF Stays
  <2>2. b \in PlaceNames /\ b # <<"run", r>> /\ Contents[b] = t /\ Contents'[b] = t
        /\ Single(t) /\ In(rec.out) \intersect In(t) = {} /\ In(rec.out) \union In(t) = In(run[r].out) \union In(t)
    BY <1>4, <1>5, <1>6
  <2>3. rec.out \in Seq(Messages) /\ steerQueue' \in Seq(UserItems) /\ followUpQueue' \in Seq(UserItems)
    BY <1>3, <1>6
  <2>. HIDE DEF b, t, out
  <2>. QED
    BY <1>2, <1>6, <2>1, <2>2, <2>3, FailsMoved
<1>7. CASE LoopThrows(r) \/ TurnThrew(r)
  <2>1. Fails(r, run[r]) /\ UNCHANGED <<steerQueue, followUpQueue>>
    BY <1>7 DEF LoopThrows, TurnThrew, queueVars
  <2>. QED
    BY <1>1, <1>6, <2>1
<1>8. CASE DrainThrows(r)
  <2> DEFINE rec == [run[r] EXCEPT !.out = IF run[r].queue = "orphan" THEN @ ELSE <<>>]
             back(kind) == IF run[r].queue = kind THEN run[r].out ELSE <<>>
  <2>1. /\ Fails(r, rec) /\ steerQueue' = back("steer") \o steerQueue
        /\ followUpQueue' = back("followUp") \o followUpQueue /\ run[r].pc = "drained"
    BY <1>8 DEF DrainThrows
  <2>2. WellRun(rec) /\ rec.out = IF run[r].queue = "orphan" THEN out ELSE <<>>
    BY <1>1 DEF WellRun, RunShape
  <2>. HIDE DEF rec
  <2>3. out \in Seq(UserItems) /\ run[r].queue \in {"steer", "followUp", "orphan"}
    BY <1>1, <2>1 DEF RunData
  <2>4. <<>> \o steerQueue = steerQueue /\ <<>> \o followUpQueue = followUpQueue
    BY <1>3
  <2>5. CASE run[r].queue = "orphan"
    BY <1>6, <2>1, <2>2, <2>4, <2>5
  <2>6. ASSUME rec.out = <<>>, NEW b \in PlaceNames, b # <<"run", r>>,
               Stays({b} \union {<<"run", q>> : q \in Runs}),
               NEW t \in Seq(UserItems), NEW v, Contents[b] = t, Contents'[b] = v, v = out \o t,
               Single(t), In(out) \intersect In(t) = {},
               steerQueue' \in Seq(UserItems), followUpQueue' \in Seq(UserItems)
        PROVE  PlacedInv'
    <3>1. In(v) = In(out) \union In(t) /\ Single(v)
      BY <1>5, <2>3, <2>6, Parts
    <3>2. In(rec.out) = {} /\ rec.out \in Seq(Messages)
      BY <2>6, Nothing
    <3>3. In(rec.out) \intersect In(v) = {} /\ In(rec.out) \union In(v) = In(run[r].out) \union In(t)
      BY <3>1, <3>2
    <3>4. Fails(r, rec) /\ WellRun(rec)
      BY <2>1, <2>2
    <3>. HIDE DEF back, out
    <3>. QED
      BY <1>2, <2>6, <3>1, <3>2, <3>3, <3>4, FailsMoved
  <2>7. CASE run[r].queue = "steer"
    <3>1. steerQueue' = out \o steerQueue /\ followUpQueue' = followUpQueue /\ rec.out = <<>>
      BY <2>1, <2>2, <2>4, <2>7
    <3>2. Stays({<<"steer", 0>>} \union {<<"run", q>> : q \in Runs}) /\ steerQueue' \in Seq(UserItems)
      BY <1>2, <1>3, <2>3, <3>1 DEF Stays
    <3> DEFINE b == <<"steer", 0>>
               v == steerQueue'
    <3>3. b \in PlaceNames /\ b # <<"run", r>> /\ Contents[b] = steerQueue /\ Contents'[b] = v
          /\ v = out \o steerQueue /\ Stays({b} \union {<<"run", q>> : q \in Runs})
          /\ steerQueue' \in Seq(UserItems) /\ followUpQueue' \in Seq(UserItems)
      BY <1>3, <1>4, <3>1, <3>2
    <3>. HIDE DEF b, v, out, back
    <3>. QED
      BY <1>3, <1>5, <2>6, <3>1, <3>3
  <2>8. CASE run[r].queue = "followUp"
    <3>1. followUpQueue' = out \o followUpQueue /\ steerQueue' = steerQueue /\ rec.out = <<>>
      BY <2>1, <2>2, <2>4, <2>8
    <3>2. Stays({<<"followUp", 0>>} \union {<<"run", q>> : q \in Runs}) /\ followUpQueue' \in Seq(UserItems)
      BY <1>2, <1>3, <2>3, <3>1 DEF Stays
    <3> DEFINE b == <<"followUp", 0>>
               v == followUpQueue'
    <3>3. b \in PlaceNames /\ b # <<"run", r>> /\ Contents[b] = followUpQueue /\ Contents'[b] = v
          /\ v = out \o followUpQueue /\ Stays({b} \union {<<"run", q>> : q \in Runs})
          /\ steerQueue' \in Seq(UserItems) /\ followUpQueue' \in Seq(UserItems)
      BY <1>3, <1>4, <3>1, <3>2
    <3>. HIDE DEF b, v, out, back
    <3>. QED
      BY <1>3, <1>5, <2>6, <3>1, <3>3
  <2>. QED
    BY <2>3, <2>5, <2>7, <2>8
<1>. QED
  BY <1>7, <1>8

\* Nobody else flushes, where a pending write cannot be flushed twice.
LEMMA FlushesAlone ==
    ASSUME AwaitedInv, TypeInv, Kept, NEW r \in Runs, run[r].pc = "flushing"
    PROVE  \A q \in Runs \ {r} : run[q].pc # "flushing"
<1>1. pendingSessionWrites # <<>>
  BY DEF TypeInv, RunData
<1>2. scenario.awaits
  BY <1>1 DEF TypeInv, Types, Kept
<1>3. Alone(r)
  BY <1>2 DEF AwaitedInv, PhaseInv
<1>. QED
  BY <1>3 DEF Alone

\* A pending write goes to the session.
LEMMA WriteFlushed ==
    ASSUME AwaitedInv, PlacedInv, Kept, UNCHANGED scenario, NEW r \in Runs, Flushed(r)
    PROVE  PlacedInv'
<1> DEFINE pending == pendingSessionWrites
           rest == pendingSessionWrites'
           W == [id : Nat, via : {"write"}]
<1>1. /\ WellRun(run[r]) /\ RunData(run[r], pending) /\ Types /\ CallTypes /\ TypeInv /\ nextId \in Nat
      /\ pending \in Seq(W)
  BY DEF AwaitedInv, ShapeInv, PlacedInv, TypeInv, Types
<1>2. /\ run[r].pc = "flushing" /\ Appended(run[r].put)
      /\ FlushThen(r, run[r], run[r].ret, rest, tree', leaf')
      /\ UNCHANGED <<steerQueue, followUpQueue, nextTurnQueue, op, writer, nextId, sent, discarded>>
      /\ rest = SubSeq(pending, 2, Len(pending))
  BY DEF Flushed, queueVars, auxVars
<1>3. \A q \in Runs \ {r} : run[q].pc # "flushing"
  BY <1>1, <1>2, FlushesAlone
<1>4. pending # <<>> /\ run[r].put.item = Head(pending) /\ run[r].put \in Puts
  BY <1>1, <1>2 DEF RunData
<1> DEFINE h == Head(pending)
<1>5. /\ rest \in Seq(W) /\ In(pending) = ({h} \intersect Accepted) \union In(rest) /\ rest = Tail(pending)
      /\ Single(pending) => Single(rest) /\ h \notin In(rest)
  <2>1. pending \in Seq(W) /\ pending # <<>> /\ rest = SubSeq(pending, 2, Len(pending))
    BY <1>1, <1>2, <1>4
  <2>. HIDE DEF pending, rest, W
  <2>2. /\ Tail(pending) \in Seq(W) /\ SubSeq(pending, 2, Len(pending)) = Tail(pending)
        /\ In(pending) = ({Head(pending)} \intersect Accepted) \union In(Tail(pending))
        /\ Single(pending) => Single(Tail(pending)) /\ Head(pending) \notin In(Tail(pending))
    BY <2>1, FirstAndRest
  <2>3. rest = Tail(pending)
    BY <2>1, <2>2
  <2>. QED
    BY <2>2, <2>3
<1>6. /\ tree' \in Seq(Puts) /\ leaf' \in Nat
      /\ In(Told') = In(Told) \union ({h} \intersect Accepted)
      /\ Single(Told') <=> Single(Told) /\ h \notin In(Told)
  BY <1>1, <1>2, <1>4, SessionGrows DEF Types
<1> DEFINE a == <<"pending", 0>>
           b == <<"session", 0>>
<1>7. /\ a \in PlaceNames /\ b \in PlaceNames /\ a # b /\ Contents[a] = pending /\ Contents'[a] = rest
      /\ Contents[b] = Told /\ Contents'[b] = Told'
  BY PlacesHold DEF ContentsAre
<1>8. Single(pending) /\ Single(Told) /\ In(pending) \intersect In(Told) = {} /\ In(Told) \subseteq Accepted
  <2>1. In(Told) \subseteq Accepted
    BY DEF In
  <2>. QED
    BY <1>7, <2>1, ListsApart
<1>9. PICK new :
         /\ Becomes(r, new) /\ Continues(run[r], new)
         /\ IF rest = <<>>
            THEN new.pc = run[r].ret /\ new.put = NoPut
            ELSE new.pc = "flushing" /\ new.put = Entry(rest[1], leaf')
  <2>1. run[r].ret \in ReturnPlaces \ {"none"}
    BY <1>1, <1>2 DEF WellRun, RunShape
  <2>2. PICK p, E, to : p = rest /\ E = tree' /\ to = leaf' /\ FlushThen(r, run[r], run[r].ret, p, E, to)
    BY <1>2
  <2>. HIDE DEF rest
  <2>3. \E new :
              /\ Becomes(r, new) /\ Continues(run[r], new)
              /\ IF p = <<>>
                 THEN /\ new.pc = run[r].ret /\ new.put = NoPut
                 ELSE /\ new.pc = "flushing" /\ new.put = Entry(p[1], to)
    BY <1>1, <2>1, <2>2, FlushEffect
  <2>. QED
    BY <2>2, <2>3
<1>10. run[r].out = <<>> /\ new.out = <<>>
  BY <1>1, <1>2, <1>9 DEF RunData, Holding, Continues
<1>11. RunData(new, rest)
  <2>1. CASE rest = <<>>
    <3>1. run[r].ret \in ReturnPlaces
      BY <1>1 DEF WellRun, RunShape
    <3>. QED
      BY <1>9, <1>10, <2>1, <3>1, PutTypes DEF RunData, Holding, ReturnPlaces
  <2>2. CASE rest # <<>>
    <3>1. Head(rest) = rest[1] /\ rest[1] \in W
      <4>1. rest \in Seq(W) /\ rest # <<>>
        BY <1>5, <2>2
      <4>. HIDE DEF rest, W
      <4>. QED
        BY <4>1
    <3>2. new.put \in Puts /\ new.put.item = Head(rest)
      BY <1>6, <1>9, <2>2, <3>1, PutTypes
    <3>. QED
      BY <1>9, <1>10, <2>2, <3>2 DEF RunData, Holding
  <2>. QED
    BY <2>1, <2>2
<1>12. Types' /\ CallTypes'
  <2>1. "write" \notin scenario.ways => FALSE
    BY <1>1, <1>4 DEF Types
  <2>. QED
    BY <1>1, <1>2, <1>5, <1>6, <2>1 DEF Types, CallTypes
<1>13. TypeInv' /\ run'[r] = new /\ \A q \in Runs \ {r} : run'[q] = run[q]
  BY <1>1, <1>3, <1>9, <1>11, <1>12, RunTyped
<1>14. Stays({a, b})
  BY <1>2, <1>10, <1>13 DEF Stays
<1>. HIDE DEF a, b, h, rest, pending
<1>15. Single(rest) /\ Single(Told') /\ In(rest) \intersect In(Told') = {}
  BY <1>5, <1>6, <1>8
<1>16. Swapped(pending, Told, rest, Told', {}, {})
  BY <1>1, <1>2, <1>5, <1>6, <1>8, <1>15 DEF Swapped
<1>17. Still
  BY <1>7, <1>14, <1>16, Moved DEF PlacedInv
<1>. QED
  BY <1>13, <1>17 DEF PlacedInv, Still

(***************************************************************************)
(* The calls of the application                                            *)
(***************************************************************************)

\* A new message or write is accepted, in one place.
LEMMA Accepting ==
    ASSUME PlacedInv, NEW a \in PlaceNames, Stays({a}), NEW s, NEW u, Contents[a] = s, Contents'[a] = u,
           NEW x \in Accepted, x.id = nextId, nextId' = nextId + 1,
           sent' = sent \union {x}, discarded' = discarded,
           In(u) = In(s) \union {x}, Single(s) /\ x \notin In(s) => Single(u)
    PROVE  Still
<1>1. nextId \in Nat
  BY DEF PlacedInv, TypeInv, Types
<1>2. PICK b \in PlaceNames : b # a
  BY PlacesHold DEF ContentsAre
<1>3. /\ Single(s) /\ Single(Contents[b]) /\ In(s) \intersect In(Contents[b]) = {}
      /\ \A y \in In(s) \union In(Contents[b]) : y.id < nextId /\ y.id \in Nat
  BY <1>2, ListsApart
<1>4. Contents'[b] = Contents[b] /\ Stays({a, b})
  <2>1. Stays({a, b})
    BY DEF Stays
  <2>. QED
    BY <1>2, <2>1, RestStays
<1>5. x \notin In(s) \union In(Contents[b])
  BY <1>1, <1>3
<1> DEFINE t == Contents[b]
<1>6. Single(u) /\ In(u) \intersect In(t) = {}
  BY <1>3, <1>5
<1>7. Swapped(s, t, u, t, {x}, {})
  BY <1>1, <1>3, <1>6 DEF Swapped
<1>. QED
  BY <1>2, <1>4, <1>7, Moved

\* The runs are what they are; a pending write that is first stays first.
LEMMA RunsKept ==
    ASSUME TypeInv, Types', CallTypes', UNCHANGED run,
           \/ UNCHANGED pendingSessionWrites
           \/ pendingSessionWrites # <<>> => pendingSessionWrites' # <<>> /\ Head(pendingSessionWrites') = Head(pendingSessionWrites)
    PROVE  TypeInv'
BY DEF TypeInv, RunData

\* steer(), followUp(), nextTurn(), and the writes of a busy harness.
LEMMA Queues ==
    ASSUME AwaitedInv, PlacedInv, UNCHANGED scenario, Steer \/ FollowUp \/ NextTurn \/ WriteBusy
    PROVE  PlacedInv'
<1>1. /\ Types /\ CallTypes /\ TypeInv /\ nextId \in Nat
      /\ steerQueue \in Seq(UserItems) /\ followUpQueue \in Seq(UserItems) /\ nextTurnQueue \in Seq(UserItems)
      /\ pendingSessionWrites \in Seq([id : Nat, via : {"write"}])
  BY DEF PlacedInv, TypeInv, Types
<1>2. /\ nextId' = nextId + 1 /\ UNCHANGED <<run, op, writer, tree, leaf, discarded>>
  BY DEF Steer, FollowUp, NextTurn, WriteBusy, Accepts, sessionVars
<1>3. CallTypes'
  BY <1>1, <1>2 DEF CallTypes
<1>4. ASSUME NEW T, T \subseteq Accepted, NEW s \in Seq(T), NEW x \in T, x.id = nextId, sent' = sent \union {x},
             NEW a \in PlaceNames, Stays({a}), Contents[a] = s, Contents'[a] = Append(s, x)
      PROVE  Still
  <2>1. x \in Accepted /\ {x} \intersect Accepted = {x}
    BY <1>4
  <2>2. /\ In(Append(s, x)) = In(s) \union {x} /\ Single(s) /\ x \notin In(s) => Single(Append(s, x))
    BY <1>4, <2>1, OneMore
  <2> DEFINE u == Append(s, x)
  <2>3. In(u) = In(s) \union {x} /\ (Single(s) /\ x \notin In(s) => Single(u)) /\ Contents'[a] = u
    BY <1>4, <2>1, <2>2, OneMore
  <2>. HIDE DEF u
  <2>. QED
    BY <1>2, <1>4, <2>1, <2>3, Accepting
<1>5. /\ UserItems \subseteq Accepted /\ [id : Nat, via : {"write"}] \subseteq Accepted
      /\ \A via \in FromUser : Item(nextId, via) \in UserItems
      /\ Item(nextId, "write") \in [id : Nat, via : {"write"}]
      /\ \A via : Item(nextId, via).id = nextId
  BY <1>1, PutTypes DEF Item, UserItems
<1>6. CASE Steer
  <2> DEFINE x == Item(nextId, "steer")
             a == <<"steer", 0>>
  <2>1. /\ steerQueue' = Append(steerQueue, x) /\ sent' = sent \union {x}
        /\ UNCHANGED <<pendingSessionWrites, followUpQueue, nextTurnQueue>>
    BY <1>6 DEF Steer, Accepts, harnessVars
  <2>2. x \in UserItems /\ x.id = nextId
    BY <1>5 DEF FromUser
  <2>. HIDE DEF x
  <2>3. Types'
    BY <1>1, <1>2, <2>1, <2>2 DEF Types
  <2>4. TypeInv'
    BY <1>1, <1>2, <1>3, <2>1, <2>3, RunsKept
  <2>5. a \in PlaceNames /\ Contents[a] = steerQueue /\ Contents'[a] = Append(steerQueue, x)
    BY <2>1, PlacesHold DEF ContentsAre
  <2>6. Stays({a})
    BY <1>2, <2>1 DEF Stays
  <2>. HIDE DEF a
  <2>7. Still
    BY <1>1, <1>4, <1>5, <2>1, <2>2, <2>5, <2>6
  <2>. QED
    BY <2>4, <2>7 DEF PlacedInv, Still
<1>7. CASE FollowUp
  <2> DEFINE x == Item(nextId, "followUp")
             a == <<"followUp", 0>>
  <2>1. /\ followUpQueue' = Append(followUpQueue, x) /\ sent' = sent \union {x}
        /\ UNCHANGED <<pendingSessionWrites, steerQueue, nextTurnQueue>>
    BY <1>7 DEF FollowUp, Accepts, harnessVars
  <2>2. x \in UserItems /\ x.id = nextId
    BY <1>5 DEF FromUser
  <2>. HIDE DEF x
  <2>3. Types'
    BY <1>1, <1>2, <2>1, <2>2 DEF Types
  <2>4. TypeInv'
    BY <1>1, <1>2, <1>3, <2>1, <2>3, RunsKept
  <2>5. a \in PlaceNames /\ Contents[a] = followUpQueue /\ Contents'[a] = Append(followUpQueue, x)
    BY <2>1, PlacesHold DEF ContentsAre
  <2>6. Stays({a})
    BY <1>2, <2>1 DEF Stays
  <2>. HIDE DEF a
  <2>7. Still
    BY <1>1, <1>4, <1>5, <2>1, <2>2, <2>5, <2>6
  <2>. QED
    BY <2>4, <2>7 DEF PlacedInv, Still
<1>8. CASE NextTurn
  <2> DEFINE x == Item(nextId, "nextTurn")
             a == <<"nextTurn", 0>>
  <2>1. /\ nextTurnQueue' = Append(nextTurnQueue, x) /\ sent' = sent \union {x}
        /\ UNCHANGED <<pendingSessionWrites, steerQueue, followUpQueue>>
    BY <1>8 DEF NextTurn, Accepts, harnessVars
  <2>2. x \in UserItems /\ x.id = nextId
    BY <1>5 DEF FromUser
  <2>. HIDE DEF x
  <2>3. Types'
    BY <1>1, <1>2, <2>1, <2>2 DEF Types
  <2>4. TypeInv'
    BY <1>1, <1>2, <1>3, <2>1, <2>3, RunsKept
  <2>5. a \in PlaceNames /\ Contents[a] = nextTurnQueue /\ Contents'[a] = Append(nextTurnQueue, x)
    BY <2>1, PlacesHold DEF ContentsAre
  <2>6. Stays({a})
    BY <1>2, <2>1 DEF Stays
  <2>. HIDE DEF a
  <2>7. Still
    BY <1>1, <1>4, <1>5, <2>1, <2>2, <2>5, <2>6
  <2>. QED
    BY <2>4, <2>7 DEF PlacedInv, Still
<1>9. CASE WriteBusy
  <2> DEFINE x == Item(nextId, "write")
             a == <<"pending", 0>>
             W == [id : Nat, via : {"write"}]
             pending == pendingSessionWrites
  <2>1. /\ pendingSessionWrites' = Append(pending, x) /\ sent' = sent \union {x}
        /\ UNCHANGED <<steerQueue, followUpQueue, nextTurnQueue>> /\ "write" \in scenario.ways
    BY <1>9 DEF WriteBusy, Accepts, Calls, queueVars
  <2>2. x \in W /\ x.id = nextId /\ W \subseteq Accepted /\ pending \in Seq(W)
    BY <1>1, <1>5
  <2>. HIDE DEF x, W
  <2>. HIDE DEF pending
  <2>3. /\ Append(pending, x) \in Seq(W) /\ Append(pending, x) # <<>>
        /\ pending # <<>> => Head(Append(pending, x)) = Head(pending)
    <3>1. Append(pending, x) \in Seq(W) /\ Append(pending, x) # <<>>
      BY <2>2
    <3>2. ASSUME pending # <<>>
          PROVE  Head(Append(pending, x)) = Head(pending)
      <4>1. Len(pending) >= 1 /\ Len(pending) \in Nat
        BY <2>2, <3>2
      <4>2. Append(pending, x)[1] = pending[1]
        BY <2>2, <4>1
      <4>. QED
        BY <2>2, <3>1, <3>2, <4>2
    <3>. QED
      BY <3>1, <3>2
  <2>. USE DEF pending
  <2>4. Types'
    BY <1>1, <1>2, <2>1, <2>3 DEF Types, W
  <2>5. TypeInv'
    BY <1>1, <1>2, <1>3, <2>1, <2>3, <2>4, RunsKept
  <2>6. a \in PlaceNames /\ Contents[a] = pending /\ Contents'[a] = Append(pending, x)
    BY <2>1, PlacesHold DEF ContentsAre
  <2>7. Stays({a})
    BY <1>2, <2>1 DEF Stays
  <2>. HIDE DEF a, pending
  <2>8. Still
    BY <1>4, <2>1, <2>2, <2>6, <2>7
  <2>. QED
    BY <2>5, <2>8 DEF PlacedInv, Still
<1>. QED
  BY <1>6, <1>7, <1>8, <1>9

\* A writer is a place, and what is in it is one item.
LEMMA WriterPlace ==
    ASSUME CallTypes, NEW w \in Writers, NEW put \in Puts, writer' = [writer EXCEPT ![w] = put]
    PROVE  /\ writer'[w] = put /\ \A v \in Writers \ {w} : writer'[v] = writer[v]
           /\ writer' \in [Writers -> Puts]
           /\ <<"writer", w>> \in PlaceNames /\ Contents[<<"writer", w>>] = <<writer[w].item>>
           /\ Contents'[<<"writer", w>>] = <<put.item>>
<1>1. writer'[w] = put /\ (\A v \in Writers \ {w} : writer'[v] = writer[v]) /\ writer' \in [Writers -> Puts]
  BY DEF CallTypes
<1>. QED
  BY <1>1, PlacesHold DEF ContentsAre

\* The appends of an idle harness.
LEMMA Writes ==
    ASSUME AwaitedInv, PlacedInv, UNCHANGED scenario, NEW w \in Writers,
           WriteIdle(w) \/ Written(w) \/ WriteFails(w)
    PROVE  PlacedInv'
<1>1. Types /\ CallTypes /\ TypeInv /\ nextId \in Nat /\ leaf \in Nat /\ writer[w] \in Puts
  BY DEF PlacedInv, TypeInv, Types, CallTypes
<1>2. /\ UNCHANGED <<run, op, pendingSessionWrites, steerQueue, followUpQueue, nextTurnQueue, discarded>>
  BY DEF WriteIdle, Written, WriteFails, harnessVars, queueVars, auxVars
<1>3. NoPut \in Puts /\ NoPut.item = NoItem /\ NoItem \notin Accepted
  BY PutTypes
<1> DEFINE a == <<"writer", w>>
<1>4. CASE WriteIdle(w)
  <2> DEFINE x == Item(nextId, "write")
             put == Put(x)
  <2>1. /\ writer' = [writer EXCEPT ![w] = put] /\ sent' = sent \union {x} /\ nextId' = nextId + 1
        /\ UNCHANGED <<tree, leaf>> /\ writer[w] = NoPut
    BY <1>4 DEF WriteIdle, Accepts, sessionVars
  <2>2. x \in Accepted /\ x.id = nextId /\ x \in Items
    BY <1>1 DEF Item, Accepted, Items, Vias
  <2>. HIDE DEF x
  <2>3. put \in Puts /\ put.item = x
    BY <1>1, <2>2, PutTypes DEF Put
  <2>. HIDE DEF put
  <2>4. /\ writer'[w] = put /\ \A v \in Writers \ {w} : writer'[v] = writer[v]
        /\ writer' \in [Writers -> Puts]
        /\ a \in PlaceNames /\ Contents[a] = <<NoItem>> /\ Contents'[a] = <<x>>
    BY <1>1, <1>3, <2>1, <2>3, WriterPlace
  <2>5. Types' /\ CallTypes'
    BY <1>1, <1>2, <2>1, <2>4 DEF Types, CallTypes
  <2>6. TypeInv'
    BY <1>1, <1>2, <2>5, RunsKept
  <2>7. Stays({a})
    BY <1>2, <2>1, <2>4 DEF Stays
  <2>8. In(<<NoItem>>) = {} /\ In(<<x>>) = {x} /\ Single(<<x>>)
    <3>1. In(<<x>>) = {x} \intersect Accepted /\ Single(<<x>>)
      BY OneItem
    <3>2. In(<<NoItem>>) = {NoItem} \intersect Accepted
      BY OneItem
    <3>. QED
      BY <1>3, <2>2, <3>1, <3>2
  <2> DEFINE s == <<NoItem>>
             u == <<x>>
  <2>9. In(u) = In(s) \union {x} /\ (Single(s) /\ x \notin In(s) => Single(u)) /\ Contents[a] = s /\ Contents'[a] = u
    BY <2>4, <2>8
  <2>. HIDE DEF a, s, u
  <2>10. Still
    BY <1>2, <2>1, <2>2, <2>4, <2>7, <2>9, Accepting
  <2>. QED
    BY SMTT(20), <2>6, <2>10 DEF PlacedInv, Still
<1>5. CASE Written(w)
  <2> DEFINE put == writer[w]
             b == <<"session", 0>>
  <2>1. /\ writer' = [writer EXCEPT ![w] = NoPut] /\ Appended(put) /\ UNCHANGED <<sent, nextId>>
    BY <1>5 DEF Written, auxVars
  <2>2. /\ writer'[w] = NoPut /\ \A v \in Writers \ {w} : writer'[v] = writer[v]
        /\ writer' \in [Writers -> Puts]
        /\ a \in PlaceNames /\ Contents[a] = <<put.item>> /\ Contents'[a] = <<NoItem>>
    BY <1>1, <1>3, <2>1, WriterPlace
  <2>3. /\ tree' \in Seq(Puts) /\ leaf' \in Nat
        /\ In(Told') = In(Told) \union ({put.item} \intersect Accepted)
        /\ Single(Told') <=> Single(Told) /\ put.item \notin In(Told)
    BY <1>1, <2>1, SessionGrows DEF Types
  <2>4. Types' /\ CallTypes'
    BY <1>1, <1>2, <2>1, <2>2, <2>3 DEF Types, CallTypes
  <2>5. TypeInv'
    BY <1>1, <1>2, <2>4, RunsKept
  <2>6. b \in PlaceNames /\ a # b /\ Contents[b] = Told /\ Contents'[b] = Told'
    BY PlacesHold DEF ContentsAre
  <2>7. Stays({a, b})
    BY <1>2, <2>2 DEF Stays
  <2> DEFINE x == put.item
  <2>8. In(<<NoItem>>) = {} /\ Single(<<NoItem>>) /\ In(<<x>>) = {x} \intersect Accepted
    <3>1. In(<<x>>) = {x} \intersect Accepted
      BY OneItem
    <3>2. In(<<NoItem>>) = {NoItem} \intersect Accepted /\ Single(<<NoItem>>)
      BY OneItem
    <3>. QED
      BY <1>3, <3>1, <3>2
  <2> DEFINE s == <<x>>
             u == <<NoItem>>
  <2>9. /\ Contents[a] = s /\ Contents'[a] = u /\ In(u) = {} /\ Single(u) /\ In(s) = {x} \intersect Accepted
    BY <2>2, <2>8
  <2>10. In(Told) \subseteq Accepted
    BY DEF In
  <2>. HIDE DEF a, b, s, u, x
  <2>11. Single(Told) /\ In(s) \intersect In(Told) = {}
    BY <2>2, <2>6, <2>9, ListsApart
  <2>12. x \notin In(Told) /\ Single(Told') /\ In(Told') = In(Told) \union In(s)
    BY <2>3, <2>9, <2>10, <2>11 DEF x
  <2>13. Swapped(s, Told, u, Told', {}, {})
    BY <1>1, <1>2, <2>1, <2>9, <2>12 DEF Swapped
  <2>14. Still
    BY <2>2, <2>6, <2>7, <2>9, <2>13, Moved
  <2>. QED
    BY <2>5, <2>14 DEF PlacedInv, Still
<1>6. CASE WriteFails(w)
  <2> DEFINE x == writer[w].item
             b == <<"steer", 0>>
             t == steerQueue
  <2>1. /\ writer' = [writer EXCEPT ![w] = NoPut] /\ sent' = sent \ {x} /\ UNCHANGED <<tree, leaf, nextId>>
    BY <1>6 DEF WriteFails, sessionVars
  <2>2. /\ writer'[w] = NoPut /\ \A v \in Writers \ {w} : writer'[v] = writer[v]
        /\ writer' \in [Writers -> Puts]
        /\ a \in PlaceNames /\ Contents[a] = <<x>> /\ Contents'[a] = <<NoItem>>
    BY <1>1, <1>3, <2>1, WriterPlace
  <2>3. Types' /\ CallTypes'
    BY <1>1, <1>2, <2>1, <2>2 DEF Types, CallTypes
  <2>4. TypeInv'
    BY <1>1, <1>2, <2>3, RunsKept
  <2>5. b \in PlaceNames /\ a # b /\ Contents[b] = t /\ Contents'[b] = t
    BY <1>2, PlacesHold DEF ContentsAre
  <2>6. Stays({a, b})
    BY <1>2, <2>1, <2>2 DEF Stays
  <2>7. In(<<NoItem>>) = {} /\ Single(<<NoItem>>) /\ In(<<x>>) = {x} \intersect Accepted
    <3>1. In(<<x>>) = {x} \intersect Accepted
      BY OneItem
    <3>2. In(<<NoItem>>) = {NoItem} \intersect Accepted /\ Single(<<NoItem>>)
      BY OneItem
    <3>. QED
      BY <1>3, <3>1, <3>2
  <2> DEFINE s == <<x>>
             u == <<NoItem>>
  <2>8. /\ Contents[a] = s /\ Contents'[a] = u /\ In(u) = {} /\ Single(u) /\ In(s) = {x} \intersect Accepted
    BY <2>2, <2>7
  <2>. HIDE DEF a, b, s, u, x, t
  <2>9. Single(t) /\ In(s) \intersect In(t) = {}
    BY <2>2, <2>5, <2>8, ListsApart
  <2>10. Swapped(s, t, u, t, {}, {})
    BY <1>1, <1>2, <2>1, <2>8, <2>9 DEF Swapped
  <2>11. Still
    BY <2>2, <2>5, <2>6, <2>8, <2>10, Moved
  <2>. QED
    BY <2>4, <2>11 DEF PlacedInv, Still
<1>. QED
  BY <1>4, <1>5, <1>6

\* abort() gives back what is in its two queues.
LEMMA Aborts ==
    ASSUME AwaitedInv, PlacedInv, UNCHANGED scenario, Abort
    PROVE  PlacedInv'
<1>1. Types /\ CallTypes /\ TypeInv /\ nextId \in Nat
      /\ steerQueue \in Seq(UserItems) /\ followUpQueue \in Seq(UserItems)
  BY DEF PlacedInv, TypeInv, Types
<1>2. /\ steerQueue' = <<>> /\ followUpQueue' = <<>>
      /\ discarded' = discarded \union Range(steerQueue) \union Range(followUpQueue)
      /\ run' = [r \in Runs |-> IF run[r].pc = "drained" THEN [run[r] EXCEPT !.queue = "orphan"]
                                ELSE run[r]]
      /\ UNCHANGED <<pendingSessionWrites, nextTurnQueue, tree, leaf, op, writer, nextId, sent>>
  BY DEF Abort, harnessVars, sessionVars
<1>3. ASSUME NEW r \in Runs
      PROVE  run'[r].out = run[r].out /\ RunData(run'[r], pendingSessionWrites')
  <2>1. WellRun(run[r]) /\ RunData(run[r], pendingSessionWrites)
    BY <1>1 DEF AwaitedInv, ShapeInv, TypeInv
  <2>2. CASE run[r].pc # "drained"
    BY <1>2, <2>1, <2>2
  <2>3. CASE run[r].pc = "drained"
    <3> DEFINE rec == [run[r] EXCEPT !.queue = "orphan"]
    <3>1. rec.pc = run[r].pc /\ rec.out = run[r].out /\ rec.put = run[r].put /\ rec.queue = "orphan"
      BY <2>1 DEF WellRun, RunShape
    <3>2. run'[r] = rec
      BY <1>2, <2>3
    <3>. HIDE DEF rec
    <3>. QED
      BY <1>2, <2>1, <3>1, <3>2 DEF RunData
  <2>. QED
    BY <2>2, <2>3
<1>4. Types' /\ CallTypes'
  BY <1>1, <1>2 DEF Types, CallTypes
<1>5. TypeInv'
  BY <1>3, <1>4 DEF TypeInv
<1> DEFINE a == <<"steer", 0>>
           b == <<"followUp", 0>>
           s == steerQueue
           t == followUpQueue
           u == <<>>
           G == In(s) \union In(t)
<1>6. a \in PlaceNames /\ b \in PlaceNames /\ a # b /\ Contents[a] = s /\ Contents[b] = t
      /\ Contents'[a] = u /\ Contents'[b] = u
  BY <1>2, PlacesHold DEF ContentsAre
<1>7. Stays({a, b})
  BY <1>2, <1>3 DEF Stays
<1>8. Range(s) = In(s) /\ Range(t) = In(t)
  <2>1. \A q \in Seq(UserItems) : \A i \in DOMAIN q : q[i] \in Accepted
    BY PutTypes
  <2>. QED
    BY <1>1, <2>1 DEF In, Range
<1>9. In(u) = {} /\ Single(u)
  BY Nothing
<1>10. discarded' = discarded \union G
  BY <1>2, <1>8
<1>. HIDE DEF a, b, s, t, u
<1>11. Swapped(s, t, u, u, {}, G)
  BY <1>1, <1>2, <1>9, <1>10 DEF Swapped
<1>. HIDE DEF G
<1>12. Still
  BY <1>6, <1>7, <1>11, Moved
<1>. QED
  BY <1>5, <1>12 DEF PlacedInv, Still

\* prompt() accepts a message; a reply is messages of the run's own.
LEMMA PromptsAndReplies ==
    ASSUME AwaitedInv, PlacedInv, UNCHANGED scenario, NEW r \in Runs,
           Prompt(r) \/ \E kind \in ReplyKinds : Reply(r, kind)
    PROVE  PlacedInv'
<1>1. WellRun(run[r]) /\ RunData(run[r], pendingSessionWrites) /\ Types /\ CallTypes /\ nextId \in Nat
  BY DEF AwaitedInv, ShapeInv, PlacedInv, TypeInv, Types
<1>2. CASE Prompt(r)
  <2> DEFINE x == Item(nextId, "prompt")
             rec == [NoRun EXCEPT !.pc = "snapshot", !.ctx = Branch(tree, leaf),
                                  !.out = <<x>>]
  <2>1. /\ Becomes(r, rec) /\ nextId' = nextId + 1 /\ sent' = sent \union {x} /\ run[r].pc = "none"
        /\ UNCHANGED <<pendingSessionWrites, steerQueue, followUpQueue, nextTurnQueue, tree, leaf, op,
                       writer, discarded>>
    BY <1>2 DEF Prompt, queueVars, sessionVars
  <2>2. rec.pc = "snapshot" /\ rec.out = <<x>> /\ rec.put = NoPut
    BY DEF NoRun
  <2>. HIDE DEF rec
  <2>3. x \in UserItems /\ x \in Accepted /\ x \in Messages /\ x.id = nextId
    BY <1>1 DEF Item, UserItems, Accepted, Messages, Vias, FromUser
  <2>. HIDE DEF x
  <2>4. RunData(rec, pendingSessionWrites)
    BY <2>2, <2>3, PutTypes DEF RunData, Holding
  <2>5. In(rec.out) = {x} /\ Single(rec.out)
    <3>1. In(<<x>>) = {x} \intersect Accepted /\ Single(<<x>>)
      BY OneItem
    <3>. QED
      BY <2>2, <2>3, <3>1
  <2>6. run[r].out = <<>> /\ In(run[r].out) = {}
    BY <1>1, <2>1, Nothing DEF RunData, Holding
  <2>7. CallTypes'
    BY <1>1, <2>1 DEF CallTypes
  <2> DEFINE F == {x}
             G == {}
  <2>8. /\ \A y \in F : y \in Accepted /\ y.id = nextId /\ nextId < nextId'
        /\ In(rec.out) \subseteq In(run[r].out) \union F /\ sent' \subseteq sent \union F
        /\ G \subseteq In(run[r].out) /\ G \intersect In(rec.out) = {} /\ discarded' = discarded \union G
        /\ sent' \intersect (In(run[r].out) \union F) \subseteq G \union In(rec.out)
        /\ nextId' \in Nat /\ nextId <= nextId'
    BY <1>1, <2>1, <2>3, <2>5, <2>6
  <2>. HIDE DEF F, G
  <2>. QED
    BY <2>1, <2>4, <2>5, <2>7, <2>8, OutMoved
<1>3. ASSUME NEW kind \in ReplyKinds, Reply(r, kind)
      PROVE  PlacedInv'
  <2> DEFINE x == Item(nextId, "assistant")
             y == Item(nextId + 1, "result")
             told == IF kind = "tool" THEN <<x, y>> ELSE <<x>>
             rec == [run[r] EXCEPT !.pc = "emit", !.out = told, !.next = "turnEnd", !.reply = kind]
  <2>1. /\ Becomes(r, rec) /\ nextId' = nextId + Len(told) /\ run[r].pc = "request"
        /\ UNCHANGED <<pendingSessionWrites, steerQueue, followUpQueue, nextTurnQueue, tree, leaf, op,
                       writer, sent, discarded>>
    BY <1>3 DEF Reply, queueVars, sessionVars, harnessVars
  <2>2. rec.pc = "emit" /\ rec.out = told /\ rec.put = run[r].put
    BY <1>1 DEF WellRun, RunShape
  <2>. HIDE DEF rec
  <2>3. x \in Messages /\ x \notin Accepted /\ y \in Messages /\ y \notin Accepted
    BY <1>1 DEF Item, Accepted, Messages, Vias, FromUser
  <2>. HIDE DEF x, y
  <2>4. told \in Seq(Messages) /\ told # <<>> /\ Len(told) \in Nat /\ In(told) = {} /\ Single(told)
    <3>1. In(<<x>>) = {} /\ Single(<<x>>) /\ <<x>> \in Seq(Messages) /\ <<x>> # <<>> /\ Len(<<x>>) \in Nat
      <4>1. In(<<x>>) = {x} \intersect Accepted /\ Single(<<x>>)
        BY OneItem
      <4>. QED
        BY <2>3, <4>1
    <3>2. <<x, y>> = Append(<<x>>, y) /\ <<x, y>> \in Seq(Messages) /\ <<x, y>> # <<>> /\ Len(<<x, y>>) \in Nat
      BY <2>3
    <3>3. In(<<x, y>>) = {} /\ Single(<<x, y>>)
      <4> DEFINE s == <<x>>
      <4>1. s \in Seq(Messages) /\ In(s) = {} /\ Single(s)
        BY <3>1
      <4>. HIDE DEF s
      <4>2. /\ In(Append(s, y)) = In(s) \union ({y} \intersect Accepted)
            /\ Single(Append(s, y)) <=> Single(s) /\ y \notin In(s)
        BY <2>3, <4>1, OneMore
      <4>. QED
        BY <2>3, <3>2, <4>1, <4>2 DEF s
    <3>. QED
      BY <3>1, <3>2, <3>3
  <2>. HIDE DEF told
  <2>5. RunData(rec, pendingSessionWrites)
    BY <1>1, <2>1, <2>2, <2>4, PutTypes DEF RunData, Holding
  <2>6. run[r].out = <<>> /\ In(run[r].out) = {}
    BY <1>1, <2>1, Nothing DEF RunData, Holding
  <2>7. CallTypes'
    BY <1>1, <2>1 DEF CallTypes
  <2> DEFINE F == {}
             G == {}
  <2>8. /\ \A z \in F : z \in Accepted /\ z.id = nextId /\ nextId < nextId'
        /\ In(rec.out) \subseteq In(run[r].out) \union F /\ sent' \subseteq sent \union F
        /\ G \subseteq In(run[r].out) /\ G \intersect In(rec.out) = {} /\ discarded' = discarded \union G
        /\ sent' \intersect (In(run[r].out) \union F) \subseteq G \union In(rec.out)
        /\ nextId' \in Nat /\ nextId <= nextId' /\ Single(rec.out)
    BY <1>1, <2>1, <2>2, <2>4, <2>6
  <2>. HIDE DEF F, G
  <2>. QED
    BY <2>1, <2>5, <2>7, <2>8, OutMoved
<1>. QED
  BY <1>2, <1>3

\* compact() and navigateTree() append entries of their own.
LEMMA OpsPlaced ==
    ASSUME AwaitedInv, PlacedInv, UNCHANGED scenario,
           OpStep \/ Compact \/ \E target \in DOMAIN tree : Navigate(target)
    PROVE  PlacedInv'
<1>1. Types /\ CallTypes /\ TypeInv /\ nextId \in Nat /\ leaf \in Nat /\ tree \in Seq(Puts)
  BY DEF PlacedInv, TypeInv, Types
<1>2. op \in OpShape(op)
  BY DEF AwaitedInv, ShapeInv
<1>3. UNCHANGED <<run, writer, pendingSessionWrites, steerQueue, followUpQueue, nextTurnQueue, sent, discarded>>
  BY DEF OpStep, OpAppends, OpAppended, OpEnds, Compact, Navigate, Starts, harnessVars, queueVars, auxVars
<1>4. NoPut \in Puts /\ NoPut.item.via \notin FromUser \union {"write"}
  BY DEF NoPut, Puts, NoItem, Item, Items, Vias, FromUser
<1>5. ASSUME UNCHANGED <<tree, leaf>>, nextId' \in Nat, nextId <= nextId', CallTypes'
      PROVE  PlacedInv'
  <2>1. Types'
    BY <1>1, <1>3, <1>5 DEF Types
  <2>2. TypeInv'
    BY <1>1, <1>3, <1>5, <2>1, RunsKept
  <2>3. Stays({})
    BY <1>3, <1>5 DEF Stays
  <2>4. Still
    BY <1>3, <1>5, <2>3, AllStays
  <2>. QED
    BY <2>2, <2>4 DEF PlacedInv, Still
<1>6. CASE Compact \/ \E target \in DOMAIN tree : Navigate(target)
  <2>1. UNCHANGED <<tree, leaf, nextId>>
    BY <1>6 DEF Compact, Navigate, Starts, sessionVars
  <2>2. op'.put = NoPut /\ op'.to \in Nat
    <3>1. CASE Compact
      BY <3>1 DEF Compact, Starts, NoOp
    <3>2. ASSUME NEW target \in DOMAIN tree, Navigate(target)
          PROVE  op'.put = NoPut /\ op'.to \in Nat
      <4>1. target \in Nat /\ tree[target] \in Puts
        BY <1>1
      <4>2. tree[target].parent \in Nat
        BY <4>1 DEF Puts
      <4>. QED
        BY <3>2, <4>1, <4>2 DEF Navigate, Starts, NoOp
    <3>. QED
      BY <1>6, <3>1, <3>2
  <2>3. CallTypes'
    BY <1>1, <1>3, <1>4, <2>2 DEF CallTypes
  <2>. QED
    BY <1>1, <1>5, <2>1, <2>3
<1>7. CASE OpEnds
  <2>1. op' = NoOp /\ UNCHANGED <<tree, leaf, nextId>>
    BY <1>7 DEF OpEnds, sessionVars, auxVars
  <2>2. CallTypes'
    BY <1>1, <1>3, <1>4, <2>1 DEF CallTypes, NoOp
  <2>. QED
    BY <1>1, <1>5, <2>1, <2>2
<1>8. \A via \in {"compaction", "leaf", "summary"} :
         Item(nextId, via) \in Items /\ Item(nextId, via).via \notin FromUser \union {"write"}
  BY <1>1 DEF Item, Items, Vias, FromUser
<1>9. CASE OpAppends
  <2>1. /\ nextId' = nextId + 1 /\ UNCHANGED <<tree, leaf>>
        /\ op' = [op EXCEPT !.pc = "appending",
                        !.put = IF op.kind = "compact" THEN Put(Item(nextId, "compaction"))
                                ELSE LeafEntry(Item(nextId, "leaf"), leaf, op.to)]
    BY <1>9 DEF OpAppends, sessionVars
  <2> DEFINE put == IF op.kind = "compact" THEN Put(Item(nextId, "compaction"))
                    ELSE LeafEntry(Item(nextId, "leaf"), leaf, op.to)
  <2>2. put \in Puts /\ put.item.via \notin FromUser \union {"write"}
    BY <1>1, <1>8 DEF Put, Entry, LeafEntry, Puts, CallTypes
  <2>3. op' = [op EXCEPT !.pc = "appending", !.put = put]
    BY <2>1
  <2>. HIDE DEF put
  <2>4. op'.put = put /\ op'.to = op.to
    BY <1>2, <2>3 DEF OpShape
  <2>5. CallTypes'
    BY <1>1, <1>3, <2>2, <2>4 DEF CallTypes
  <2>. QED
    BY <1>1, <1>5, <2>1, <2>5
<1>10. ASSUME NEW summarizes \in BOOLEAN, OpAppended(summarizes)
       PROVE  PlacedInv'
  <2> DEFINE put == op.put
             x == put.item
             a == <<"session", 0>>
             b == <<"steer", 0>>
  <2>1. Appended(put) /\ put \in Puts /\ x.via \notin FromUser \union {"write"}
    BY <1>1, <1>10 DEF OpAppended, CallTypes
  <2>2. x \notin Accepted
    BY <2>1 DEF Accepted
  <2>3. /\ tree' \in Seq(Puts) /\ leaf' \in Nat
        /\ In(Told') = In(Told) \union ({put.item} \intersect Accepted)
        /\ Single(Told') <=> Single(Told) /\ put.item \notin In(Told)
    BY <1>1, <2>1, SessionGrows DEF Types
  <2>4. nextId' \in Nat /\ nextId <= nextId' /\ CallTypes'
    <3>1. CASE summarizes
      <4> DEFINE new == Entry(Item(nextId, "summary"), op.to)
      <4>1. op' = [op EXCEPT !.put = new] /\ nextId' = nextId + 1
        BY <1>10, <3>1 DEF OpAppended
      <4>2. new \in Puts /\ new.item.via \notin FromUser \union {"write"}
        BY <1>1, <1>8 DEF Entry, Puts, CallTypes
      <4>. HIDE DEF new
      <4>3. op'.put = new /\ op'.to = op.to
        BY <1>2, <4>1 DEF OpShape
      <4>. QED
        BY <1>1, <1>3, <4>1, <4>2, <4>3 DEF CallTypes
    <3>2. CASE ~summarizes
      <4>1. op' = [op EXCEPT !.pc = "told", !.put = NoPut] /\ nextId' = nextId
        BY <1>10, <3>2 DEF OpAppended
      <4>2. op'.put = NoPut /\ op'.to = op.to
        BY <1>2, <4>1 DEF OpShape
      <4>. QED
        BY <1>1, <1>3, <1>4, <4>1, <4>2 DEF CallTypes
    <3>. QED
      BY <3>1, <3>2
  <2>5. Types'
    BY <1>1, <1>3, <2>3, <2>4 DEF Types
  <2>6. TypeInv'
    BY <1>1, <1>3, <2>4, <2>5, RunsKept
  <2>7. a \in PlaceNames /\ b \in PlaceNames /\ a # b /\ Contents[a] = Told /\ Contents'[a] = Told'
        /\ Contents[b] = steerQueue /\ Contents'[b] = steerQueue
    BY <1>3, PlacesHold DEF ContentsAre
  <2>8. Stays({a, b})
    BY <1>3 DEF Stays
  <2>9. In(Told) \subseteq Accepted
    BY DEF In
  <2> DEFINE t == steerQueue
  <2>. HIDE DEF a, b, t
  <2>10. Single(Told) /\ Single(t) /\ In(Told) \intersect In(t) = {}
    BY <2>7, ListsApart DEF t
  <2>11. Single(Told') /\ In(Told') = In(Told)
    BY <2>2, <2>3, <2>9, <2>10
  <2>12. Swapped(Told, t, Told', t, {}, {})
    BY <1>1, <1>3, <2>4, <2>10, <2>11 DEF Swapped
  <2>13. Still
    BY <2>7, <2>8, <2>12, Moved DEF t
  <2>. QED
    BY <2>6, <2>13 DEF PlacedInv, Still
<1>. QED
  BY <1>6, <1>7, <1>9, <1>10 DEF OpStep

(***************************************************************************)
(* The theorem                                                             *)
(***************************************************************************)
\* Every step leaves every item in one place.
LEMMA PlacedStep == AwaitedInv /\ PlacedInv /\ Kept /\ [Next]_vars => PlacedInv'
<1> SUFFICES ASSUME AwaitedInv, PlacedInv, Kept, [Next]_vars
             PROVE  PlacedInv'
  OBVIOUS
<1>1. CASE UNCHANGED vars
  <2>1. UNCHANGED <<run, writer, op, pendingSessionWrites, steerQueue, followUpQueue, nextTurnQueue, tree, leaf,
                    sent, discarded, nextId, scenario>>
    BY <1>1 DEF vars, harnessVars, queueVars, sessionVars, auxVars
  <2>2. TypeInv /\ TypeInv'
    BY <2>1 DEF PlacedInv, TypeInv, Types, CallTypes
  <2>3. Stays({}) /\ nextId \in Nat
    BY <2>1, <2>2 DEF Stays, TypeInv, Types
  <2>4. Still
    BY <2>1, <2>3, AllStays
  <2>. QED
    BY <2>2, <2>4 DEF PlacedInv, Still
<1>2. CASE Next
  <2>1. UNCHANGED scenario
    BY <1>2 DEF Next
  <2>2. CASE Application
    BY <2>1, <2>2, PromptsAndReplies, Queues, Writes, Aborts, OpsPlaced DEF Application
  <2>3. ASSUME NEW r \in Runs, RunStep(r)
        PROVE  PlacedInv'
    <3>1. CASE \/ Snapshot(r) \/ SnapshotThrows(r) \/ Taken(r) \/ TakenThrows(r) \/ Before(r) \/ BeforeThrows(r)
      BY <2>1, <3>1, TakingSteps, StartFails, QuietSteps
    <3>2. CASE MessageStart(r) \/ MessageAppended(r) \/ MessageTold(r) \/ Drain(r) \/ Drained(r)
               \/ DrainThrows(r) \/ NothingPolled(r)
      BY <2>1, <3>2, MessageAppends, Drains, LoopFails, QuietSteps
    <3>3. CASE (\E kind \in ReplyKinds : Reply(r, kind)) \/ TurnEndTold(r) \/ TurnEndThrows(r) \/ SavePoint(r)
               \/ Prepared(r)
      BY <2>1, <3>3, PromptsAndReplies, QuietSteps
    <3>4. CASE Flushed(r) \/ LoopThrows(r) \/ TurnThrew(r) \/ Settled(r) \/ LastFlushFails(r) \/ Release(r)
      BY <2>1, <3>4, WriteFlushed, LoopFails, QuietSteps
    <3>. QED
      BY <2>3, <3>1, <3>2, <3>3, <3>4 DEF RunStep
  <2>4. CASE OpStep
    BY <2>1, <2>4, OpsPlaced
  <2>5. CASE \E w \in Writers : WriterStep(w)
    BY <2>1, <2>5, Writes DEF WriterStep
  <2>. QED
    BY <1>2, <2>2, <2>3, <2>4, <2>5 DEF Next
<1>. QED
  BY <1>1, <1>2

\* The places of an item, by the list it is in.
LEMMA PlacesAre ==
    ASSUME NEW item
    PROVE  Places(item) = UNION {{<<a[1], a[2], i>> : i \in {j \in DOMAIN Contents[a] : Contents[a][j] = item}} :
                                   a \in PlaceNames}
<1> DEFINE Spots(a) == {<<a[1], a[2], i>> : i \in {j \in DOMAIN Contents[a] : Contents[a][j] = item}}
           At(place, of, list) == {<<place, of, i>> : i \in {j \in DOMAIN list : list[j] = item}}
<1>1. /\ Spots(<<"steer", 0>>) = At("steer", 0, steerQueue)
      /\ Spots(<<"followUp", 0>>) = At("followUp", 0, followUpQueue)
      /\ Spots(<<"nextTurn", 0>>) = At("nextTurn", 0, nextTurnQueue)
      /\ Spots(<<"pending", 0>>) = At("pending", 0, pendingSessionWrites)
      /\ Spots(<<"session", 0>>) = At("session", 0, Told)
      /\ \A r \in Runs : Spots(<<"run", r>>) = At("run", r, run[r].out)
      /\ \A w \in Writers : Spots(<<"writer", w>>) = At("writer", w, <<writer[w].item>>)
  BY PlacesHold DEF ContentsAre
<1>2. Places(item) = At("steer", 0, steerQueue) \union At("followUp", 0, followUpQueue)
           \union At("nextTurn", 0, nextTurnQueue) \union At("pending", 0, pendingSessionWrites)
           \union At("session", 0, Told)
           \union (UNION {At("run", r, run[r].out) : r \in Runs})
           \union (UNION {At("writer", w, <<writer[w].item>>) : w \in Writers})
  BY DEF Places, Told
<1>. HIDE DEF At, Spots
<1>3. Places(item) = Spots(<<"steer", 0>>) \union Spots(<<"followUp", 0>>) \union Spots(<<"nextTurn", 0>>)
           \union Spots(<<"pending", 0>>) \union Spots(<<"session", 0>>)
           \union (UNION {Spots(<<"run", r>>) : r \in Runs})
           \union (UNION {Spots(<<"writer", w>>) : w \in Writers})
  <2>1. {At("run", r, run[r].out) : r \in Runs} = {Spots(<<"run", r>>) : r \in Runs}
    BY <1>1
  <2>2. {At("writer", w, <<writer[w].item>>) : w \in Writers} = {Spots(<<"writer", w>>) : w \in Writers}
    BY <1>1
  <2>. QED
    BY <1>1, <1>2, <2>1, <2>2
<1>4. Places(item) = UNION {Spots(a) : a \in PlaceNames}
  BY <1>3 DEF PlaceNames
<1>. QED
  BY <1>4 DEF Spots

\* To be in one place is to be there once.
LEMMA PlacedOnce == PlacedInv => \A item \in sent : Cardinality(Places(item)) = IF item \in discarded THEN 0 ELSE 1
<1> SUFFICES ASSUME PlacedInv, NEW item \in sent
             PROVE  Cardinality(Places(item)) = IF item \in discarded THEN 0 ELSE 1
  OBVIOUS
<1>1. WellPlaced(Contents, nextId, sent, discarded) /\ item \in Accepted
  BY DEF PlacedInv, WellPlaced
<1>2. ASSUME NEW a \in PlaceNames, NEW i \in DOMAIN Contents[a], Contents[a][i] = item
      PROVE  item \in In(Contents[a])
  BY <1>1, <1>2 DEF In
<1>3. CASE item \in discarded
  <2>1. \A a \in PlaceNames : item \notin In(Contents[a])
    BY <1>1, <1>3 DEF WellPlaced
  <2>2. Places(item) = {}
    BY <1>2, <2>1, PlacesAre
  <2>. QED
    BY <1>3, <2>2, FS_EmptySet
<1>4. CASE item \notin discarded
  <2>1. PICK a \in PlaceNames : item \in In(Contents[a])
    BY <1>1, <1>4 DEF WellPlaced
  <2>2. PICK i \in DOMAIN Contents[a] : Contents[a][i] = item
    BY <2>1 DEF In
  <2>3. ASSUME NEW b \in PlaceNames, NEW j \in DOMAIN Contents[b], Contents[b][j] = item
        PROVE  b = a /\ j = i
    <3>1. b = a
      BY <1>1, <1>2, <2>1, <2>3 DEF WellPlaced
    <3>2. Single(Contents[a])
      BY <1>1 DEF WellPlaced
    <3>. QED
      BY <1>1, <2>2, <2>3, <3>1, <3>2 DEF Single
  <2>4. Places(item) = {<<a[1], a[2], i>>}
    BY <2>2, <2>3, PlacesAre
  <2>. QED
    BY <1>4, <2>4, FS_Singleton
<1>. QED
  BY <1>3, <1>4

\* Nothing is accepted at the start.
LEMMA InitPlaced == Init => PlacedInv
<1> SUFFICES ASSUME Init
             PROVE  PlacedInv
  OBVIOUS
<1>1. NoPut \in Puts /\ NoPut.item = NoItem /\ NoItem \notin Accepted /\ NoPut.item.via \notin FromUser \union {"write"}
  BY PutTypes DEF NoPut, NoItem, Item, FromUser
<1>2. \A r \in Runs : run[r] = NoRun
  BY DEF Init
<1>3. NoRun.out = <<>> /\ NoRun.put = NoPut /\ NoRun.pc = "none" /\ NoOp.put = NoPut /\ NoOp.to = 0
  BY DEF NoRun, NoOp
<1>4. TypeInv
  <2>1. Types
    BY DEF Init, Types
  <2>2. CallTypes
    BY <1>1, <1>3 DEF Init, CallTypes
  <2>3. RunData(NoRun, pendingSessionWrites)
    BY <1>3, PutTypes DEF RunData, Holding
  <2>4. \A r \in Runs : RunData(run[r], pendingSessionWrites)
    BY <1>2, <2>3
  <2>. QED
    BY <2>1, <2>2, <2>4 DEF TypeInv
<1>5. \A a \in PlaceNames : Contents[a] = <<>> \/ Contents[a] = <<NoItem>>
  <2>1. Told = <<>>
    BY DEF Told, Init
  <2>2. \A w \in Writers : writer[w].item = NoItem
    BY <1>1 DEF Init
  <2>. QED
    BY <1>2, <1>3, <2>1, <2>2, PlacesHold DEF PlaceNames, ContentsAre, Init
<1>6. In(<<NoItem>>) = {} /\ Single(<<NoItem>>)
  <2>1. In(<<NoItem>>) = {NoItem} \intersect Accepted /\ Single(<<NoItem>>)
    BY OneItem
  <2>. QED
    BY <1>1, <2>1
<1>7. \A a \in PlaceNames : In(Contents[a]) = {} /\ Single(Contents[a])
  BY <1>5, <1>6, Nothing
<1>8. WellPlaced(Contents, nextId, sent, discarded)
  BY <1>7 DEF Init, WellPlaced
<1>. QED
  BY <1>4, <1>8 DEF PlacedInv

\* While nothing has thrown nothing is lost, and no run is to throw again what a
\* listener of turn_end threw.
Calm(rec) == rec.pc # "turnThrew" /\ rec.ret # "turnThrew"
AllCalm == lost = {} /\ \A r \in Runs : Calm(run[r])
LostInv == throws \in Nat /\ (throws = 0 => AllCalm)

\* A run becomes one that has not thrown.
LEMMA BecomesCalm ==
    ASSUME ShapeInv, AllCalm, UNCHANGED lost, NEW r \in Runs, NEW rec, Becomes(r, rec), Calm(rec)
    PROVE  AllCalm'
<1>1. run'[r] = rec /\ \A q \in Runs \ {r} : run'[q] = run[q]
  BY DEF Becomes, ShapeInv
<1>. QED
  BY <1>1 DEF AllCalm

\* A flush that begins or goes on, to be followed by anything but a throw.
LEMMA FlushCalm ==
    ASSUME ShapeInv, AllCalm, UNCHANGED lost, NEW r \in Runs, NEW ret \in ReturnPlaces \ {"turnThrew"},
           NEW pending, NEW E, NEW to, FlushThen(r, run[r], ret, pending, E, to)
    PROVE  AllCalm'
<1>1. WellRun(run[r]) /\ Calm(run[r])
  BY DEF ShapeInv, AllCalm
<1>2. CASE pending = <<>>
  <2> DEFINE new == [run[r] EXCEPT !.pc = ret, !.put = NoPut, !.ended = @ \/ ret = "ended",
                                   !.ctx = IF ret = "prepare" THEN Branch(E, to) ELSE @]
  <2>1. Becomes(r, new)
    BY <1>2 DEF FlushThen
  <2>2. new.pc = ret /\ new.ret = run[r].ret
    BY <1>1 DEF WellRun, RunShape
  <2>. HIDE DEF new
  <2>. QED
    BY <1>1, <2>1, <2>2, BecomesCalm DEF Calm
<1>3. CASE pending # <<>>
  <2> DEFINE new == [run[r] EXCEPT !.pc = "flushing", !.ret = ret, !.put = Entry(pending[1], to)]
  <2>1. Becomes(r, new)
    BY <1>3 DEF FlushThen
  <2>2. new.pc = "flushing" /\ new.ret = ret
    BY <1>1 DEF WellRun, RunShape
  <2>. HIDE DEF new
  <2>. QED
    BY <2>1, <2>2, BecomesCalm DEF Calm
<1>. QED
  BY <1>2, <1>3

\* A step of a run in which nothing throws.
LEMMA RunCalm ==
    ASSUME ShapeInv, AllCalm, NEW r \in Runs, RunStep(r), UNCHANGED throws, throws = 0
    PROVE  AllCalm'
<1>1. WellRun(run[r]) /\ Calm(run[r]) /\ Calm(NoRun)
  BY DEF ShapeInv, AllCalm, Calm, NoRun
<1>2. ~Throw
  BY DEF Throw
<1>3. ASSUME NEW pc \in Pcs \ {"turnThrew"}, NEW rec, Becomes(r, rec), rec.pc = pc, rec.ret = run[r].ret,
             UNCHANGED lost
      PROVE  AllCalm'
  BY <1>1, <1>3, BecomesCalm DEF Calm
<1>4. CASE Snapshot(r) \/ Taken(r) \/ Before(r) \/ Prepared(r) \/ Drained(r)
  <2>1. CASE Snapshot(r)
    <3> DEFINE rec == [run[r] EXCEPT !.pc = IF nextTurnQueue = <<>> THEN "before" ELSE "taken",
                                   !.out = nextTurnQueue \o @]
    <3>1. Becomes(r, rec) /\ UNCHANGED lost
      BY <2>1 DEF Snapshot, auxVars
    <3>2. rec.pc \in {"before", "taken"} /\ rec.ret = run[r].ret
      BY <1>1 DEF WellRun, RunShape
    <3>. HIDE DEF rec
    <3>. QED
      BY <1>3, <3>1, <3>2 DEF Pcs
  <2>2. CASE Taken(r)
    <3> DEFINE rec == [run[r] EXCEPT !.pc = "before"]
    <3>1. Becomes(r, rec) /\ UNCHANGED lost
      BY <2>2 DEF Taken, auxVars
    <3>2. rec.pc = "before" /\ rec.ret = run[r].ret
      BY <1>1 DEF WellRun, RunShape
    <3>. HIDE DEF rec
    <3>. QED
      BY <1>3, <3>1, <3>2 DEF Pcs
  <2>3. CASE Before(r)
    <3> DEFINE rec == [run[r] EXCEPT !.pc = "emit", !.next = "poll", !.ctx = @ \o run[r].out]
    <3>1. Becomes(r, rec) /\ UNCHANGED lost
      BY <2>3 DEF Before, auxVars
    <3>2. rec.pc = "emit" /\ rec.ret = run[r].ret
      BY <1>1 DEF WellRun, RunShape
    <3>. HIDE DEF rec
    <3>. QED
      BY <1>3, <3>1, <3>2 DEF Pcs
  <2>4. CASE Prepared(r)
    <3> DEFINE rec == [run[r] EXCEPT !.pc = "poll"]
    <3>1. Becomes(r, rec) /\ UNCHANGED lost
      BY <2>4 DEF Prepared, auxVars
    <3>2. rec.pc = "poll" /\ rec.ret = run[r].ret
      BY <1>1 DEF WellRun, RunShape
    <3>. HIDE DEF rec
    <3>. QED
      BY <1>3, <3>1, <3>2 DEF Pcs
  <2>5. CASE Drained(r)
    <3> DEFINE rec == [run[r] EXCEPT !.pc = "emit", !.next = "request", !.queue = "none"]
    <3>1. Becomes(r, rec) /\ UNCHANGED lost
      BY <2>5 DEF Drained, auxVars
    <3>2. rec.pc = "emit" /\ rec.ret = run[r].ret
      BY <1>1 DEF WellRun, RunShape
    <3>. HIDE DEF rec
    <3>. QED
      BY <1>3, <3>1, <3>2 DEF Pcs
  <2>. QED
    BY <1>4, <2>1, <2>2, <2>3, <2>4, <2>5
<1>5. CASE MessageStart(r)
  <2> DEFINE rec == [run[r] EXCEPT !.pc = "appending", !.put = Put(Head(run[r].out))]
  <2>1. Becomes(r, rec) /\ UNCHANGED lost
    BY <1>5 DEF MessageStart, auxVars
  <2>2. rec.pc = "appending" /\ rec.ret = run[r].ret
    BY <1>1 DEF WellRun, RunShape
  <2>. HIDE DEF rec
  <2>. QED
    BY <1>3, <2>1, <2>2 DEF Pcs
<1>6. CASE MessageAppended(r)
  <2> DEFINE rec == [run[r] EXCEPT !.pc = "told", !.put = NoPut, !.out = Tail(@),
                                   !.ctx = IF run[r].next = "poll" THEN @
                                           ELSE Append(@, Head(run[r].out))]
  <2>1. Becomes(r, rec) /\ UNCHANGED lost
    BY <1>6 DEF MessageAppended, auxVars
  <2>2. rec.pc = "told" /\ rec.ret = run[r].ret
    BY <1>1 DEF WellRun, RunShape
  <2>. HIDE DEF rec
  <2>. QED
    BY <1>3, <2>1, <2>2 DEF Pcs
<1>7. CASE MessageTold(r)
  <2> DEFINE rec == [run[r] EXCEPT !.pc = IF run[r].out # <<>> THEN "emit" ELSE run[r].next]
  <2>1. Becomes(r, rec) /\ UNCHANGED lost
    BY <1>7 DEF MessageTold, auxVars
  <2>2. rec.pc \in Pcs \ {"turnThrew"} /\ rec.ret = run[r].ret
    BY <1>1 DEF WellRun, RunShape, Pcs
  <2>. HIDE DEF rec
  <2>. QED
    BY <1>3, <2>1, <2>2
<1>8. CASE Drain(r)
  <2>1. PICK taken, kind : Becomes(r, [run[r] EXCEPT !.pc = "drained", !.out = taken, !.queue = kind])
    BY <1>8 DEF Drain
  <2> DEFINE rec == [run[r] EXCEPT !.pc = "drained", !.out = taken, !.queue = kind]
  <2>2. rec.pc = "drained" /\ rec.ret = run[r].ret
    BY <1>1 DEF WellRun, RunShape
  <2>3. Becomes(r, rec) /\ UNCHANGED lost
    BY <1>8, <2>1 DEF Drain, auxVars
  <2>. HIDE DEF rec
  <2>. QED
    BY <1>3, <2>2, <2>3 DEF Pcs
<1>9. CASE \E kind \in ReplyKinds : Reply(r, kind)
  <2>1. PICK told, reply :
           Becomes(r, [run[r] EXCEPT !.pc = "emit", !.out = told, !.next = "turnEnd", !.reply = reply])
    BY <1>9 DEF Reply
  <2> DEFINE rec == [run[r] EXCEPT !.pc = "emit", !.out = told, !.next = "turnEnd", !.reply = reply]
  <2>2. rec.pc = "emit" /\ rec.ret = run[r].ret
    BY <1>1 DEF WellRun, RunShape
  <2>3. Becomes(r, rec) /\ UNCHANGED lost
    BY <1>9, <2>1 DEF Reply
  <2>. HIDE DEF rec
  <2>. QED
    BY <1>3, <2>2, <2>3 DEF Pcs
<1>10. CASE NothingPolled(r)
  <2>1. UNCHANGED lost
    BY <1>10 DEF NothingPolled, auxVars
  <2>2. CASE run[r].pc = "pollFollowUp"
    <3>1. FlushThen(r, run[r], "ended", pendingSessionWrites, tree, leaf)
      BY <1>10, <2>2 DEF NothingPolled
    <3>. QED
      BY <2>1, <3>1, FlushCalm DEF ReturnPlaces
  <2>3. CASE run[r].pc = "poll"
    <3>1. PICK pc \in {"pollFollowUp", "request"} : Becomes(r, [run[r] EXCEPT !.pc = pc])
      BY <1>10, <2>3 DEF NothingPolled
    <3> DEFINE rec == [run[r] EXCEPT !.pc = pc]
    <3>2. rec.pc = pc /\ rec.ret = run[r].ret
      BY <1>1 DEF WellRun, RunShape
    <3>3. Becomes(r, rec)
      BY <3>1
    <3>. HIDE DEF rec
    <3>. QED
      BY <1>3, <2>1, <3>2, <3>3 DEF Pcs
  <2>. QED
    BY <1>10, <2>2, <2>3 DEF NothingPolled
<1>11. CASE TurnEndTold(r) \/ SavePoint(r) \/ Settled(r)
  <2>1. UNCHANGED lost
    BY <1>11 DEF TurnEndTold, TurnEnd, SavePoint, Settled, auxVars
  <2>2. PICK ret \in {"savePoint", "ended", "prepare", "release"} :
           FlushThen(r, run[r], ret, pendingSessionWrites, tree, leaf)
    BY <1>11 DEF TurnEndTold, TurnEnd, SavePoint, Settled
  <2>. QED
    BY <2>1, <2>2, FlushCalm DEF ReturnPlaces
<1>12. CASE Flushed(r)
  <2>1. UNCHANGED lost /\ FlushThen(r, run[r], run[r].ret, pendingSessionWrites', tree', leaf')
    BY <1>12 DEF Flushed, auxVars
  <2>2. run[r].ret \in ReturnPlaces \ {"turnThrew"}
    BY <1>1 DEF WellRun, RunShape, Calm
  <2>. QED
    BY <2>1, <2>2, FlushCalm
<1>13. CASE Release(r)
  <2>1. Becomes(r, NoRun) /\ UNCHANGED lost
    BY <1>13 DEF Release, auxVars
  <2>. QED
    BY <1>1, <2>1, BecomesCalm
<1>14. ~(\/ SnapshotThrows(r) \/ TakenThrows(r) \/ BeforeThrows(r) \/ DrainThrows(r) \/ LoopThrows(r)
         \/ TurnEndThrows(r) \/ LastFlushFails(r) \/ TurnThrew(r))
  BY <1>1, <1>2 DEF SnapshotThrows, TakenThrows, BeforeThrows, DrainThrows, LoopThrows, TurnEndThrows,
                    LastFlushFails, TurnThrew, Calm
<1>. QED
  BY <1>4, <1>5, <1>6, <1>7, <1>8, <1>9, <1>10, <1>11, <1>12, <1>13, <1>14 DEF RunStep

\* Nothing is lost before something throws.
LEMMA LostStep == AwaitedInv /\ LostInv /\ [Next]_vars => LostInv'
<1> SUFFICES ASSUME AwaitedInv, LostInv, [Next]_vars
             PROVE  LostInv'
  OBVIOUS
<1>1. ShapeInv /\ throws \in Nat
  BY DEF AwaitedInv, LostInv
<1>2. throws' = throws \/ throws' = throws + 1
  <2>1. CASE UNCHANGED vars
    BY <2>1 DEF vars
  <2>2. CASE Application
    BY <2>2 DEF Application, Prompt, Steer, FollowUp, NextTurn, WriteBusy, WriteIdle, Abort, Compact,
                Navigate, Starts
  <2>3. ASSUME NEW r \in Runs, RunStep(r)
        PROVE  throws' = throws \/ throws' = throws + 1
    BY <2>3 DEF RunStep, Snapshot, SnapshotThrows, Taken, TakenThrows, Before, BeforeThrows, MessageStart,
                MessageAppended, MessageTold, Drain, Drained, DrainThrows, NothingPolled, Reply, TurnEndTold,
                TurnEndThrows, SavePoint, Prepared, Flushed, LoopThrows, TurnThrew, Settled, LastFlushFails,
                Release, Throw
  <2>4. CASE OpStep
    BY <2>4 DEF OpStep, OpAppends, OpAppended, OpEnds, Throw
  <2>5. ASSUME NEW w \in Writers, WriterStep(w)
        PROVE  throws' = throws \/ throws' = throws + 1
    BY <2>5 DEF WriterStep, Written, WriteFails, Throw
  <2>. QED
    BY <2>1, <2>2, <2>3, <2>4, <2>5 DEF Next
<1>3. CASE throws' # 0
  BY <1>1, <1>2, <1>3 DEF LostInv
<1>4. CASE throws' = 0
  <2>1. throws = 0 /\ UNCHANGED throws /\ AllCalm
    BY <1>1, <1>2, <1>4 DEF LostInv
  <2>. SUFFICES AllCalm'
    BY <1>4 DEF LostInv
  <2>2. ASSUME UNCHANGED <<run, lost>>
        PROVE  AllCalm'
    BY <2>1, <2>2 DEF AllCalm
  <2>3. CASE UNCHANGED vars
    <3>1. UNCHANGED <<run, lost>>
      BY <2>3 DEF vars, auxVars
    <3>. QED
      BY <2>2, <3>1
  <2>4. CASE Application
    <3>1. ASSUME NEW r \in Runs, Prompt(r)
          PROVE  AllCalm'
      <4> DEFINE rec == [NoRun EXCEPT !.pc = "snapshot", !.ctx = Branch(tree, leaf),
                                      !.out = <<Item(nextId, "prompt")>>]
      <4>1. Becomes(r, rec) /\ UNCHANGED lost
        BY <3>1 DEF Prompt
      <4>2. Calm(rec)
        BY DEF Calm, NoRun
      <4>. HIDE DEF rec
      <4>. QED
        BY <1>1, <2>1, <4>1, <4>2, BecomesCalm
    <3>2. CASE Abort
      <4>1. UNCHANGED lost
        BY <3>2 DEF Abort
      <4>2. \A r \in Runs : run'[r] = run[r] \/ run'[r] = [run[r] EXCEPT !.queue = "orphan"]
        <5>1. run' = [r \in Runs |-> IF run[r].pc = "drained" THEN [run[r] EXCEPT !.queue = "orphan"]
                                     ELSE run[r]]
          BY <3>2 DEF Abort
        <5>. QED
          BY Zenon, <5>1
      <4>3. ASSUME NEW r \in Runs
            PROVE  Calm(run'[r])
        <5>1. WellRun(run[r]) /\ Calm(run[r])
          BY <1>1, <2>1 DEF ShapeInv, AllCalm
        <5> DEFINE rec == [run[r] EXCEPT !.queue = "orphan"]
        <5>2. rec.pc = run[r].pc /\ rec.ret = run[r].ret
          BY <5>1 DEF WellRun, RunShape
        <5>3. run'[r] = run[r] \/ run'[r] = rec
          BY <4>2
        <5>. HIDE DEF rec
        <5>. QED
          BY <5>1, <5>2, <5>3 DEF Calm
      <4>. QED
        BY <2>1, <4>1, <4>3 DEF AllCalm
    <3>3. CASE \/ Steer \/ FollowUp \/ NextTurn \/ WriteBusy \/ (\E w \in Writers : WriteIdle(w))
               \/ Compact \/ (\E target \in DOMAIN tree : Navigate(target))
      <4>1. UNCHANGED <<run, lost>>
        BY <3>3 DEF Steer, FollowUp, NextTurn, WriteBusy, WriteIdle, Compact, Navigate, Starts
      <4>. QED
        BY <2>2, <4>1
    <3>. QED
      BY <2>4, <3>1, <3>2, <3>3 DEF Application
  <2>5. ASSUME NEW r \in Runs, RunStep(r)
        PROVE  AllCalm'
    BY <1>1, <2>1, <2>5, RunCalm
  <2>6. CASE OpStep
    <3>1. UNCHANGED <<run, lost>>
      BY <2>6 DEF OpStep, OpAppends, OpAppended, OpEnds, auxVars
    <3>. QED
      BY <2>2, <3>1
  <2>7. ASSUME NEW w \in Writers, WriterStep(w)
        PROVE  AllCalm'
    <3>1. UNCHANGED <<run, lost>>
      BY <2>7 DEF WriterStep, Written, WriteFails, auxVars
    <3>. QED
      BY <2>2, <3>1
  <2>. QED
    BY <2>3, <2>4, <2>5, <2>6, <2>7 DEF Next
<1>. QED
  BY <1>3, <1>4

\* An accepted message or write is in exactly one of the places, whatever
\* listener, hook or append throws; in none when abort() gave it back, or when
\* the run that had taken it threw, which loses it.  Nothing is lost before
\* something throws.  Where the application awaits its operations, or writes
\* nothing to the session: two runs that overlap may flush one pending write twice.
THEOREM InOnePlaceHolds == Spec => [](Kept => InOnePlace)
<1>1. Init => AwaitedInv /\ LostInv /\ (Kept => PlacedInv)
  <2>1. Init => LostInv
    BY DEF Init, LostInv, AllCalm, Calm, NoRun
  <2>. QED
    BY <2>1, InitPlaced, AwaitedStart
<1>2. (AwaitedInv /\ LostInv /\ (Kept => PlacedInv)) /\ [Next]_vars
         => (AwaitedInv /\ LostInv /\ (Kept => PlacedInv))'
  <2>1. [Next]_vars => (Kept' => Kept)
    BY DEF Next, vars, Kept
  <2>. QED
    BY <2>1, AwaitedStep, PlacedStep, LostStep
<1>3. AwaitedInv /\ LostInv /\ (Kept => PlacedInv) => (Kept => InOnePlace)
  BY PlacedOnce DEF InOnePlace, LostInv, AllCalm
<1>. QED
  BY <1>1, <1>2, <1>3, PTL DEF Spec

(***************************************************************************)
(* Branches                                                                *)
(***************************************************************************)

\* Every entry hangs on an earlier one; path is what Branch chooses for the
\* first n entries.
Rooted(E) == \A i \in DOMAIN E : E[i].parent \in 0..(i - 1) /\ E[i].to \in 0..(i - 1)
Path(E, n, path) == path = [i \in 0..n |-> IF i = 0 THEN <<>> ELSE Append(path[E[i].parent], E[i].item)]

\* A set of numbers that is not empty has a least one.
LEMMA Least ==
    ASSUME NEW S \in SUBSET Nat, S # {}
    PROVE  \E n \in S : \A m \in S : n <= m
<1>1. PICK n \in S : \A m \in S : ~(<<m, n>> \in OpToRel(<, Nat))
  BY WFMin, NatLessThanWellFounded
<1>2. ASSUME NEW m \in S
      PROVE  n <= m
  <2>1. <<m, n>> \in Nat \X Nat
    OBVIOUS
  <2>2. ~(m < n)
    BY <1>1, <2>1 DEF OpToRel
  <2>. QED
    BY <2>2
<1>. QED
  BY <1>2

\* Two paths over the same entries agree.
PathBuilding(E, D, n, m, f, g) ==
    /\ n \in Nat /\ m \in Nat /\ n <= m /\ Path(E, n, f) /\ Path(D, m, g)
    /\ \A i \in 1..n : E[i] = D[i] /\ E[i].parent \in 0..(i - 1)
LEMMA PathsAgree ==
    ASSUME NEW E, NEW D, NEW n, NEW m, NEW f, NEW g, PathBuilding(E, D, n, m, f, g)
    PROVE  \A i \in 0..n : f[i] = g[i]
<1> USE DEF PathBuilding
<1> DEFINE Bad == {i \in 0..n : f[i] # g[i]}
<1> SUFFICES ASSUME Bad # {}
             PROVE  FALSE
  OBVIOUS
<1>1. Bad \in SUBSET Nat
  OBVIOUS
<1>2. PICK b \in Bad : \A i \in Bad : b <= i
  <2>. HIDE DEF Bad
  <2>. QED
    BY <1>1, Least
<1>3. \A i \in 0..n : i < b => f[i] = g[i]
  BY <1>2
<1>4. b \in 0..n /\ b \in 0..m /\ f[b] # g[b]
  BY <1>2
<1>5. /\ f[b] = IF b = 0 THEN <<>> ELSE Append(f[E[b].parent], E[b].item)
      /\ g[b] = IF b = 0 THEN <<>> ELSE Append(g[D[b].parent], D[b].item)
  BY <1>4 DEF Path
<1>6. CASE b = 0
  BY <1>4, <1>5, <1>6
<1>7. CASE b # 0
  <2>1. b \in 1..n /\ E[b] = D[b] /\ E[b].parent \in 0..(b - 1)
    BY <1>4, <1>7
  <2>2. f[E[b].parent] = g[E[b].parent]
    BY <1>3, <1>4, <2>1
  <2>. QED
    BY <1>4, <1>5, <1>7, <2>1, <2>2
<1>. QED
  BY <1>6, <1>7

\* There is a path, of items.
LEMMA PathExists ==
    ASSUME NEW E \in Seq(Puts), Rooted(E), NEW n \in 0..Len(E)
    PROVE  \E f : Path(E, n, f) /\ f \in [0..n -> Seq(Items)]
<1> DEFINE Bad == {k \in 0..Len(E) : ~ \E f : Path(E, k, f) /\ f \in [0..k -> Seq(Items)]}
<1> SUFFICES ASSUME Bad # {}
             PROVE  FALSE
  OBVIOUS
<1>1. Bad \in SUBSET Nat /\ Len(E) \in Nat
  OBVIOUS
<1>2. PICK b \in Bad : \A k \in Bad : b <= k
  <2>. HIDE DEF Bad
  <2>. QED
    BY <1>1, Least
<1>3. b \in 0..Len(E) /\ ~ \E f : Path(E, b, f) /\ f \in [0..b -> Seq(Items)]
  BY <1>2
<1>4. CASE b = 0
  <2> DEFINE f == [i \in 0..0 |-> <<>>]
  <2>1. f \in [0..0 -> Seq(Items)]
    OBVIOUS
  <2>2. Path(E, 0, f)
    <3>1. \A i \in 0..0 : (IF i = 0 THEN <<>> ELSE Append(f[E[i].parent], E[i].item)) = <<>>
      OBVIOUS
    <3>2. [i \in 0..0 |-> IF i = 0 THEN <<>> ELSE Append(f[E[i].parent], E[i].item)] = f
      BY <3>1
    <3>. QED
      BY <3>2 DEF Path
  <2>. QED
    BY <1>3, <1>4, <2>1, <2>2
<1>5. CASE b # 0
  <2>1. b - 1 \in 0..Len(E) /\ b \in 1..Len(E) /\ b \in Nat
    BY <1>1, <1>3, <1>5
  <2>2. b - 1 \notin Bad
    <3>. HIDE DEF Bad
    <3>. QED
      BY <1>2, <2>1
  <2>3. PICK f : Path(E, b - 1, f) /\ f \in [0..(b - 1) -> Seq(Items)]
    BY <2>1, <2>2
  <2>4. E[b].parent \in 0..(b - 1) /\ E[b].item \in Items
    <3>1. b \in DOMAIN E /\ E[b] \in Puts
      BY <2>1
    <3>. QED
      BY <3>1 DEF Rooted, Puts
  <2> DEFINE x == Append(f[E[b].parent], E[b].item)
             g == [i \in 0..b |-> IF i = b THEN x ELSE f[i]]
  <2>5. x \in Seq(Items)
    BY <2>3, <2>4
  <2>6. g \in [0..b -> Seq(Items)]
    BY <2>1, <2>3, <2>5
  <2>7. Path(E, b, g)
    <3>1. ASSUME NEW i \in 0..b
          PROVE  g[i] = IF i = 0 THEN <<>> ELSE Append(g[E[i].parent], E[i].item)
      <4>1. CASE i = b
        <5>1. g[E[i].parent] = f[E[i].parent]
          BY <2>1, <2>4, <4>1
        <5>. QED
          BY <1>5, <4>1, <5>1
      <4>2. CASE i # b /\ i = 0
        <5>1. f[0] = <<>>
          BY <2>1, <2>3 DEF Path
        <5>. QED
          BY <4>2, <5>1
      <4>3. CASE i # b /\ i # 0
        <5>1. i \in 1..(b - 1) /\ i \in DOMAIN E
          BY <2>1, <4>3
        <5>2. E[i].parent \in 0..(i - 1)
          BY <5>1 DEF Rooted
        <5>3. E[i].parent \in 0..b /\ E[i].parent # b
          BY <2>1, <5>1, <5>2
        <5>4. f[i] = Append(f[E[i].parent], E[i].item)
          <6>1. i \in 0..(b - 1) /\ i # 0
            BY <5>1
          <6>. QED
            BY <2>3, <6>1 DEF Path
        <5>. QED
          BY <4>3, <5>3, <5>4
      <4>. QED
        BY <4>1, <4>2, <4>3
    <3> DEFINE h == [i \in 0..b |-> IF i = 0 THEN <<>> ELSE Append(g[E[i].parent], E[i].item)]
    <3>2. \A i \in 0..b : g[i] = h[i]
      BY <3>1
    <3>3. g = h
      BY <3>2, Zenon
    <3>. QED
      BY <3>3 DEF Path
  <2>. HIDE DEF g
  <2>. QED
    BY <1>3, <2>6, <2>7
<1>. QED
  BY <1>4, <1>5

\* Branch is what its recursive definition says.
LEMMA BranchIs ==
    ASSUME NEW E \in Seq(Puts), Rooted(E)
    PROVE  \E f : /\ Path(E, Len(E), f) /\ f \in [0..Len(E) -> Seq(Items)]
                  /\ \A l \in 0..Len(E) : Branch(E, l) = f[l]
<1> DEFINE path == CHOOSE f : Path(E, Len(E), f)
<1>1. Len(E) \in Nat /\ Len(E) \in 0..Len(E)
  OBVIOUS
<1>2. PICK f : Path(E, Len(E), f) /\ f \in [0..Len(E) -> Seq(Items)]
  BY <1>1, PathExists
<1>3. Path(E, Len(E), path)
  BY <1>2
<1>4. \A l : Branch(E, l) = path[l]
  BY DEF Branch, Path
<1>. HIDE DEF path
<1>5. \A i \in 1..Len(E) : E[i].parent \in 0..(i - 1)
  BY DEF Rooted
<1>6. PathBuilding(E, E, Len(E), Len(E), f, path)
  BY <1>1, <1>2, <1>3, <1>5 DEF PathBuilding
<1>7. \A l \in 0..Len(E) : f[l] = path[l]
  BY <1>6, PathsAgree
<1>. QED
  BY <1>2, <1>4, <1>7

LEMMA BranchTyped ==
    ASSUME NEW E \in Seq(Puts), Rooted(E), NEW l \in 0..Len(E)
    PROVE  Branch(E, l) \in Seq(Items)
BY BranchIs

\* An entry more adds its item to the branch it hangs on.
LEMMA BranchGrows ==
    ASSUME NEW E \in Seq(Puts), Rooted(E), NEW e \in Puts, e.parent \in 0..Len(E), e.to \in 0..Len(E)
    PROVE  /\ Rooted(Append(E, e)) /\ Len(Append(E, e)) = Len(E) + 1 /\ Append(E, e) \in Seq(Puts)
           /\ Branch(Append(E, e), Len(E) + 1) = Append(Branch(E, e.parent), e.item)
<1> DEFINE n == Len(E)
           D == Append(E, e)
<1>1. /\ n \in Nat /\ D \in Seq(Puts) /\ Len(D) = n + 1 /\ D[n + 1] = e /\ \A i \in 1..n : D[i] = E[i]
      /\ DOMAIN D = 1..(n + 1) /\ DOMAIN E = 1..n
  OBVIOUS
<1>2. e.parent \in 0..n /\ e.to \in 0..n
  OBVIOUS
<1>. HIDE DEF n, D
<1>3. Rooted(D)
  <2> SUFFICES ASSUME NEW i \in 1..(n + 1)
               PROVE  D[i].parent \in 0..(i - 1) /\ D[i].to \in 0..(i - 1)
    BY <1>1 DEF Rooted
  <2>1. CASE i = n + 1
    BY <1>1, <1>2, <2>1
  <2>2. CASE i # n + 1
    <3>1. i \in 1..n
      BY <1>1, <2>2
    <3>. QED
      BY <1>1, <3>1 DEF Rooted
  <2>. QED
    BY <2>1, <2>2
<1>4. PICK f : Path(E, n, f) /\ \A l \in 0..n : Branch(E, l) = f[l]
  BY BranchIs DEF n
<1>5. PICK g : Path(D, n + 1, g) /\ \A l \in 0..(n + 1) : Branch(D, l) = g[l]
  BY <1>1, <1>3, BranchIs
<1>6. \A i \in 1..n : E[i] = D[i] /\ E[i].parent \in 0..(i - 1)
  BY <1>1 DEF Rooted
<1>7. \A i \in 0..n : f[i] = g[i]
  <2>1. PathBuilding(E, D, n, n + 1, f, g)
    BY <1>1, <1>4, <1>5, <1>6 DEF PathBuilding
  <2>. QED
    BY <2>1, PathsAgree
<1>8. g[n + 1] = Append(g[e.parent], e.item)
  <2>1. n + 1 \in 0..(n + 1) /\ n + 1 # 0
    BY <1>1
  <2>2. g[n + 1] = IF n + 1 = 0 THEN <<>> ELSE Append(g[D[n + 1].parent], D[n + 1].item)
    BY <1>5, <2>1 DEF Path
  <2>. QED
    BY <1>1, <2>1, <2>2
<1>9. Branch(D, n + 1) = Append(Branch(E, e.parent), e.item)
  <2>1. n + 1 \in 0..(n + 1)
    BY <1>1
  <2>. QED
    BY <1>2, <1>4, <1>5, <1>7, <1>8, <2>1
<1>. QED
  BY <1>1, <1>3, <1>9 DEF n, D

(***************************************************************************)
(* The context of a run, where the application awaits                      *)
(***************************************************************************)
PutOn(put, n) == put.parent \in 0..n /\ put.to \in 0..n

\* The context of a run that is rec, of the session that is E and its leaf.
RunContext(rec, E, l) ==
    /\ PutOn(rec.put, Len(E)) /\ rec.put.to = 0
    /\ rec.pc \in {"appending", "flushing"} => rec.put.parent = l
    /\ rec.pc \in Starting => ~rec.failing /\ rec.ctx = Branch(E, l)
    /\ rec.failing => /\ rec.next = "turnEnd" /\ rec.reply = "failed"
                      /\ rec.pc = "flushing" => rec.ret # "prepare"
                      /\ rec.pc \notin {"poll", "pollFollowUp", "drained", "request", "prepare"}
    /\ ~rec.failing /\ rec.pc \in {"emit", "appending", "told"} =>
          rec.ctx = IF rec.next = "poll" THEN Branch(E, l) \o rec.out ELSE Branch(E, l)
    /\ rec.pc \in {"poll", "pollFollowUp", "drained", "request", "prepare"} => rec.ctx = Branch(E, l)

ContextInv ==
    /\ leaf \in 0..Len(tree) /\ Rooted(tree)
    /\ PutOn(op.put, Len(tree)) /\ op.to \in 0..Len(tree)
    /\ \A w \in Writers : PutOn(writer[w], Len(tree)) /\ writer[w].to = 0
    /\ \A r \in Runs : run[r].pc # "none" =>
          RunContext(run[r], tree, leaf) /\ \A w \in Writers : writer[w] = NoPut

\* What a step of a run finds.
RunAlone(r) ==
    /\ AwaitedInv /\ TypeInv /\ ContextInv /\ scenario.awaits /\ UNCHANGED scenario
    /\ r \in Runs /\ run[r].pc # "none"

LEMMA AloneMeans ==
    ASSUME NEW r \in Runs, RunAlone(r)
    PROVE  /\ WellRun(run[r]) /\ RunData(run[r], pendingSessionWrites) /\ RunContext(run[r], tree, leaf)
           /\ tree \in Seq(Puts) /\ leaf \in 0..Len(tree) /\ Rooted(tree) /\ Len(tree) \in Nat
           /\ op = NoOp /\ (\A q \in Runs \ {r} : run[q].pc = "none") /\ \A w \in Writers : writer[w] = NoPut
           /\ NoPut.parent = 0 /\ NoPut.to = 0 /\ \A n \in Nat : PutOn(NoPut, n)
<1>1. NoPut.parent = 0 /\ NoPut.to = 0 /\ \A n \in Nat : PutOn(NoPut, n)
  BY DEF NoPut, PutOn
<1>2. Alone(r)
  BY DEF RunAlone, AwaitedInv, PhaseInv
<1>3. WellRun(run[r]) /\ RunData(run[r], pendingSessionWrites) /\ tree \in Seq(Puts)
  BY DEF RunAlone, AwaitedInv, ShapeInv, TypeInv, Types
<1>4. leaf \in 0..Len(tree) /\ Rooted(tree) /\ RunContext(run[r], tree, leaf) /\ \A w \in Writers : writer[w] = NoPut
  BY DEF RunAlone, ContextInv
<1>5. Len(tree) \in Nat
  BY <1>3
<1>. QED
  BY <1>1, <1>2, <1>3, <1>4, <1>5 DEF Alone

\* A run becomes rec.
LEMMA ContextStep ==
    ASSUME NEW r \in Runs, RunAlone(r), NEW rec, Becomes(r, rec),
           tree' \in Seq(Puts), leaf' \in 0..Len(tree'), Rooted(tree'),
           rec.pc = "none" \/ RunContext(rec, tree', leaf'), UNCHANGED <<op, writer>>
    PROVE  ContextInv'
<1>1. /\ op = NoOp /\ (\A q \in Runs \ {r} : run[q].pc = "none") /\ \A w \in Writers : writer[w] = NoPut
      /\ \A n \in Nat : PutOn(NoPut, n)
  BY AloneMeans
<1>2. NoOp.put = NoPut /\ NoOp.to = 0 /\ NoPut.to = 0
  BY DEF NoOp, NoPut
<1>3. run'[r] = rec /\ \A q \in Runs \ {r} : run'[q] = run[q]
  BY DEF Becomes, RunAlone, AwaitedInv, ShapeInv
<1>4. Len(tree') \in Nat
  OBVIOUS
<1>5. \A q \in Runs : run'[q].pc # "none" => q = r /\ RunContext(run'[q], tree', leaf')
  BY <1>1, <1>3
<1>6. /\ PutOn(op'.put, Len(tree')) /\ op'.to \in 0..Len(tree')
      /\ \A w \in Writers : PutOn(writer'[w], Len(tree')) /\ writer'[w].to = 0 /\ writer'[w] = NoPut
  BY <1>1, <1>2, <1>4
<1>. QED
  BY <1>5, <1>6 DEF ContextInv

\* The session stays.
LEMMA ContextStays ==
    ASSUME NEW r \in Runs, RunAlone(r), NEW rec, Becomes(r, rec),
           rec.pc = "none" \/ RunContext(rec, tree, leaf), UNCHANGED <<op, writer, tree, leaf>>
    PROVE  ContextInv'
<1>1. tree \in Seq(Puts) /\ leaf \in 0..Len(tree) /\ Rooted(tree)
  BY AloneMeans
<1>. QED
  BY <1>1, ContextStep

\* An append to the leaf.
LEMMA LeafGrows ==
    ASSUME tree \in Seq(Puts), Rooted(tree), NEW put \in Puts, PutOn(put, Len(tree)), Appended(put)
    PROVE  /\ tree' \in Seq(Puts) /\ leaf' \in 0..Len(tree') /\ Rooted(tree') /\ Len(tree') = Len(tree) + 1
           /\ put.item.via # "leaf" => Branch(tree', leaf') = Append(Branch(tree, put.parent), put.item)
<1>1. tree' = Append(tree, put) /\ leaf' = LeafAfter(tree')
  BY DEF Appended
<1>2. put.parent \in 0..Len(tree) /\ put.to \in 0..Len(tree) /\ Len(tree) \in Nat
  BY DEF PutOn
<1>3. /\ Rooted(tree') /\ Len(tree') = Len(tree) + 1 /\ tree' \in Seq(Puts)
      /\ Branch(tree', Len(tree) + 1) = Append(Branch(tree, put.parent), put.item)
  BY <1>1, <1>2, BranchGrows
<1>4. tree'[Len(tree')] = put /\ tree' # <<>>
  BY <1>1, <1>2, <1>3
<1>5. leaf' = IF put.item.via = "leaf" THEN put.to ELSE Len(tree) + 1
  BY <1>1, <1>3, <1>4 DEF LeafAfter
<1>. QED
  BY <1>2, <1>3, <1>5

\* flushPendingSessionWrites, over the session there is after the step.
LEMMA ContextFlush ==
    ASSUME NEW r \in Runs, RunAlone(r), NEW rec, WellRun(rec), NEW ret \in ReturnPlaces \ {"none"},
           rec.failing => rec.next = "turnEnd" /\ rec.reply = "failed" /\ ret # "prepare",
           NEW pending, FlushThen(r, rec, ret, pending, tree', leaf'),
           tree' \in Seq(Puts), leaf' \in 0..Len(tree'), Rooted(tree'), UNCHANGED <<op, writer>>
    PROVE  ContextInv'
<1>1. Len(tree') \in Nat /\ \A n \in Nat : PutOn(NoPut, n)
  BY AloneMeans
<1>2. PICK new :
         /\ Becomes(r, new) /\ Continues(rec, new)
         /\ IF pending = <<>>
            THEN /\ new.pc = ret /\ new.put = NoPut
                 /\ new.ctx = IF ret = "prepare" THEN Branch(tree', leaf') ELSE rec.ctx
            ELSE new.pc = "flushing" /\ new.ret = ret /\ new.put = Entry(pending[1], leaf')
  <2>1. PICK E, to : E = tree' /\ to = leaf' /\ FlushThen(r, rec, ret, pending, E, to)
    OBVIOUS
  <2>2. \E new :
              /\ Becomes(r, new) /\ Continues(rec, new)
              /\ IF pending = <<>>
                 THEN /\ new.pc = ret /\ new.put = NoPut
                      /\ new.ctx = IF ret = "prepare" THEN Branch(E, to) ELSE rec.ctx
                 ELSE /\ new.pc = "flushing" /\ new.ret = ret /\ new.put = Entry(pending[1], to)
    BY <2>1, FlushEffect
  <2>. QED
    BY <2>1, <2>2
<1>3. PutOn(new.put, Len(tree')) /\ new.put.to = 0 /\ (new.pc = "flushing" => new.put.parent = leaf')
  <2>1. CASE pending = <<>>
    BY <1>1, <1>2, <2>1 DEF ReturnPlaces, NoPut
  <2>2. CASE pending # <<>>
    BY <1>1, <1>2, <2>2 DEF Entry, PutOn
  <2>. QED
    BY <2>1, <2>2
<1>4. RunContext(new, tree', leaf')
  BY <1>2, <1>3 DEF RunContext, Continues, ReturnPlaces, Starting
<1>. QED
  BY <1>2, <1>4, ContextStep

\* The first of t moves to the end of s.
LEMMA Shifted ==
    ASSUME NEW T, NEW s \in Seq(T), NEW t \in Seq(T), t # <<>>
    PROVE  Append(s, Head(t)) \o Tail(t) = s \o t
<1>1. Head(t) \in T /\ Tail(t) \in Seq(T) /\ t = <<Head(t)>> \o Tail(t) /\ <<Head(t)>> \in Seq(T)
  OBVIOUS
<1> DEFINE h == <<Head(t)>>
           u == Tail(t)
<1>2. Append(s, Head(t)) = s \o h
  OBVIOUS
<1>3. h \in Seq(T) /\ u \in Seq(T) /\ t = h \o u
  BY <1>1
<1>. HIDE DEF h, u
<1>4. (s \o h) \o u = s \o (h \o u)
  BY <1>3
<1>. QED
  BY <1>2, <1>3, <1>4 DEF u

\* The message that a run appends is the next of its context.
LEMMA MessageContext ==
    ASSUME NEW r \in Runs, RunAlone(r), MessageAppended(r)
    PROVE  ContextInv'
<1>1. /\ WellRun(run[r]) /\ RunData(run[r], pendingSessionWrites) /\ RunContext(run[r], tree, leaf)
      /\ tree \in Seq(Puts) /\ leaf \in 0..Len(tree) /\ Rooted(tree) /\ Len(tree) \in Nat
      /\ \A n \in Nat : PutOn(NoPut, n)
  BY AloneMeans
<1> DEFINE out == run[r].out
           B == Branch(tree, leaf)
           rec == [run[r] EXCEPT !.pc = "told", !.put = NoPut, !.out = Tail(@),
                                 !.ctx = IF run[r].next = "poll" THEN @
                                         ELSE Append(@, Head(run[r].out))]
<1>2. Becomes(r, rec) /\ Appended(run[r].put) /\ run[r].pc = "appending" /\ UNCHANGED <<op, writer>>
  BY DEF MessageAppended
<1>3. /\ rec.pc = "told" /\ rec.put = NoPut /\ rec.out = Tail(out) /\ rec.next = run[r].next
      /\ rec.failing = run[r].failing /\ rec.reply = run[r].reply
      /\ rec.ctx = IF run[r].next = "poll" THEN run[r].ctx ELSE Append(run[r].ctx, Head(out))
  BY <1>1 DEF WellRun, RunShape
<1>. HIDE DEF rec
<1>4. out \in Seq(Messages) /\ out # <<>> /\ run[r].put \in Puts /\ run[r].put.item = Head(out)
  BY <1>1, <1>2 DEF RunData, Holding
<1>5. run[r].put.parent = leaf /\ PutOn(run[r].put, Len(tree))
  BY <1>1, <1>2 DEF RunContext
<1>6. Head(out) \in Messages /\ Head(out).via # "leaf" /\ Messages \subseteq Items
  <2>1. Head(out) \in Messages
    BY <1>4
  <2>2. \A m \in Messages : m.via # "leaf" /\ m \in Items
    BY DEF Messages, Items
  <2>. QED
    BY <2>1, <2>2
<1>7. /\ tree' \in Seq(Puts) /\ leaf' \in 0..Len(tree') /\ Rooted(tree') /\ Len(tree') = Len(tree) + 1
      /\ Branch(tree', leaf') = Append(B, Head(out))
  BY <1>1, <1>2, <1>4, <1>5, <1>6, LeafGrows
<1>8. B \in Seq(Items) /\ out \in Seq(Items)
  BY <1>1, <1>4, <1>6, BranchTyped
<1>. HIDE DEF B, out
<1>9. Append(B, Head(out)) \o Tail(out) = B \o out
  BY <1>4, <1>8, Shifted
<1>10. ~run[r].failing => run[r].ctx = IF run[r].next = "poll" THEN B \o out ELSE B
  BY <1>1, <1>2 DEF RunContext, B, out
<1>11. RunContext(rec, tree', leaf')
  <2>1. PutOn(rec.put, Len(tree')) /\ rec.put.to = 0
    <3>1. Len(tree') \in Nat
      BY <1>1, <1>7
    <3>. QED
      BY <1>1, <1>3, <3>1 DEF NoPut
  <2>2. run[r].failing => run[r].next = "turnEnd" /\ run[r].reply = "failed"
    BY <1>1 DEF RunContext
  <2>3. ~rec.failing => rec.ctx = IF rec.next = "poll" THEN Branch(tree', leaf') \o rec.out ELSE Branch(tree', leaf')
    BY <1>3, <1>7, <1>9, <1>10
  <2>. QED
    BY <1>3, <2>1, <2>2, <2>3 DEF RunContext, Starting
<1>. QED
  BY <1>2, <1>7, <1>11, ContextStep

\* Steps that leave the session as it is.
LEMMA QuietContext ==
    ASSUME NEW r \in Runs, RunAlone(r),
           \/ Snapshot(r) \/ SnapshotThrows(r) \/ Taken(r) \/ TakenThrows(r) \/ Before(r) \/ BeforeThrows(r)
           \/ MessageStart(r) \/ MessageTold(r) \/ Drain(r) \/ Drained(r) \/ Prepared(r) \/ LastFlushFails(r)
           \/ Release(r) \/ \E kind \in ReplyKinds : Reply(r, kind)
    PROVE  ContextInv'
<1>1. /\ WellRun(run[r]) /\ RunData(run[r], pendingSessionWrites) /\ RunContext(run[r], tree, leaf)
      /\ tree \in Seq(Puts) /\ leaf \in 0..Len(tree) /\ Rooted(tree) /\ Len(tree) \in Nat
      /\ NoPut.to = 0 /\ \A n \in Nat : PutOn(NoPut, n)
  BY AloneMeans
<1>2. UNCHANGED <<op, writer, tree, leaf>>
  BY DEF Snapshot, SnapshotThrows, Taken, TakenThrows, Before, BeforeThrows, MessageStart, MessageTold,
     Drain, Drained, Prepared, LastFlushFails, Release, Reply, sessionVars
<1>3. CASE SnapshotThrows(r) \/ TakenThrows(r) \/ BeforeThrows(r) \/ Release(r)
  <2>1. Becomes(r, NoRun) /\ NoRun.pc = "none"
    BY <1>3 DEF SnapshotThrows, TakenThrows, BeforeThrows, Rejects, Release, NoRun
  <2>. QED
    BY <1>2, <2>1, ContextStays
<1>4. CASE Snapshot(r)
  <2> DEFINE rec == [run[r] EXCEPT !.pc = IF nextTurnQueue = <<>> THEN "before" ELSE "taken",
                                   !.out = nextTurnQueue \o @]
  <2>1. Becomes(r, rec) /\ run[r].pc = "snapshot"
    BY <1>4 DEF Snapshot
  <2>2. /\ rec.pc \in {"before", "taken"} /\ rec.put = run[r].put /\ rec.ctx = run[r].ctx
        /\ rec.failing = run[r].failing /\ rec.next = run[r].next /\ rec.reply = run[r].reply
    BY <1>1 DEF WellRun, RunShape
  <2>. HIDE DEF rec
  <2>3. RunContext(rec, tree, leaf)
    BY <1>1, <2>1, <2>2 DEF RunContext, Starting
  <2>. QED
    BY <1>2, <2>1, <2>3, ContextStays
<1>5. CASE Taken(r)
  <2> DEFINE rec == [run[r] EXCEPT !.pc = "before"]
  <2>1. Becomes(r, rec) /\ run[r].pc = "taken"
    BY <1>5 DEF Taken
  <2>2. /\ rec.pc = "before" /\ rec.put = run[r].put /\ rec.ctx = run[r].ctx
        /\ rec.failing = run[r].failing /\ rec.next = run[r].next /\ rec.reply = run[r].reply
    BY <1>1 DEF WellRun, RunShape
  <2>. HIDE DEF rec
  <2>3. RunContext(rec, tree, leaf)
    BY <1>1, <2>1, <2>2 DEF RunContext, Starting
  <2>. QED
    BY <1>2, <2>1, <2>3, ContextStays
<1>6. CASE Before(r)
  <2> DEFINE rec == [run[r] EXCEPT !.pc = "emit", !.next = "poll", !.ctx = @ \o run[r].out]
  <2>1. Becomes(r, rec) /\ run[r].pc = "before"
    BY <1>6 DEF Before
  <2>2. /\ rec.pc = "emit" /\ rec.put = run[r].put /\ rec.ctx = run[r].ctx \o run[r].out
        /\ rec.failing = run[r].failing /\ rec.next = "poll" /\ rec.out = run[r].out
    BY <1>1 DEF WellRun, RunShape
  <2>. HIDE DEF rec
  <2>3. RunContext(rec, tree, leaf)
    BY <1>1, <2>1, <2>2 DEF RunContext, Starting
  <2>. QED
    BY <1>2, <2>1, <2>3, ContextStays
<1>7. CASE MessageStart(r)
  <2> DEFINE put == Put(Head(run[r].out))
             rec == [run[r] EXCEPT !.pc = "appending", !.put = put]
  <2>1. Becomes(r, rec) /\ run[r].pc = "emit"
    BY <1>7 DEF MessageStart
  <2>2. /\ rec.pc = "appending" /\ rec.put = put /\ rec.ctx = run[r].ctx
        /\ rec.failing = run[r].failing /\ rec.next = run[r].next /\ rec.reply = run[r].reply
        /\ rec.out = run[r].out
    BY <1>1 DEF WellRun, RunShape
  <2>. HIDE DEF rec
  <2>3. put.parent = leaf /\ put.to = 0 /\ PutOn(put, Len(tree))
    BY <1>1 DEF Put, Entry, PutOn
  <2>. HIDE DEF put
  <2>4. RunContext(rec, tree, leaf)
    BY <1>1, <2>1, <2>2, <2>3 DEF RunContext, Starting
  <2>. QED
    BY <1>2, <2>1, <2>4, ContextStays
<1>8. CASE MessageTold(r)
  <2> DEFINE rec == [run[r] EXCEPT !.pc = IF run[r].out # <<>> THEN "emit" ELSE run[r].next]
  <2>1. Becomes(r, rec) /\ run[r].pc = "told"
    BY <1>8 DEF MessageTold
  <2>2. /\ rec.pc = (IF run[r].out # <<>> THEN "emit" ELSE run[r].next) /\ rec.put = run[r].put
        /\ rec.ctx = run[r].ctx /\ rec.out = run[r].out
        /\ rec.failing = run[r].failing /\ rec.next = run[r].next /\ rec.reply = run[r].reply
    BY <1>1 DEF WellRun, RunShape
  <2>. HIDE DEF rec
  <2>3. run[r].next \in {"poll", "request", "turnEnd"}
    BY <1>1, <2>1 DEF WellRun, RunShape
  <2>4. Branch(tree, leaf) \o <<>> = Branch(tree, leaf)
    <3>1. Branch(tree, leaf) \in Seq(Items)
      BY <1>1, BranchTyped
    <3>. QED
      BY <3>1
  <2>5. RunContext(rec, tree, leaf)
    <3>1. CASE run[r].failing
      BY <1>1, <2>1, <2>2, <2>3, <3>1 DEF RunContext, Starting
    <3>2. CASE ~run[r].failing /\ run[r].out # <<>>
      BY <1>1, <2>1, <2>2, <2>3, <3>2 DEF RunContext, Starting
    <3>3. CASE ~run[r].failing /\ run[r].out = <<>>
      <4>1. run[r].ctx = Branch(tree, leaf)
        BY <1>1, <2>1, <2>4, <3>3 DEF RunContext
      <4>. QED
        BY <1>1, <2>1, <2>2, <2>3, <3>3, <4>1 DEF RunContext, Starting
    <3>. QED
      BY <3>1, <3>2, <3>3
  <2>. QED
    BY <1>2, <2>1, <2>5, ContextStays
<1>9. CASE Drain(r)
  <2>1. PICK taken, kind :
           /\ Becomes(r, [run[r] EXCEPT !.pc = "drained", !.out = taken, !.queue = kind])
           /\ run[r].pc \in {"poll", "pollFollowUp"}
    BY <1>9 DEF Drain
  <2> DEFINE rec == [run[r] EXCEPT !.pc = "drained", !.out = taken, !.queue = kind]
  <2>2. /\ rec.pc = "drained" /\ rec.put = run[r].put /\ rec.ctx = run[r].ctx
        /\ rec.failing = run[r].failing
    BY <1>1 DEF WellRun, RunShape
  <2>3. Becomes(r, rec)
    BY <2>1
  <2>. HIDE DEF rec
  <2>4. RunContext(rec, tree, leaf)
    BY <1>1, <2>1, <2>2 DEF RunContext, Starting
  <2>. QED
    BY <1>2, <2>3, <2>4, ContextStays
<1>10. CASE Drained(r)
  <2> DEFINE rec == [run[r] EXCEPT !.pc = "emit", !.next = "request", !.queue = "none"]
  <2>1. Becomes(r, rec) /\ run[r].pc = "drained"
    BY <1>10 DEF Drained
  <2>2. /\ rec.pc = "emit" /\ rec.put = run[r].put /\ rec.ctx = run[r].ctx
        /\ rec.failing = run[r].failing /\ rec.next = "request"
    BY <1>1 DEF WellRun, RunShape
  <2>. HIDE DEF rec
  <2>3. RunContext(rec, tree, leaf)
    BY <1>1, <2>1, <2>2 DEF RunContext, Starting
  <2>. QED
    BY <1>2, <2>1, <2>3, ContextStays
<1>11. CASE Prepared(r)
  <2> DEFINE rec == [run[r] EXCEPT !.pc = "poll"]
  <2>1. Becomes(r, rec) /\ run[r].pc = "prepare"
    BY <1>11 DEF Prepared
  <2>2. /\ rec.pc = "poll" /\ rec.put = run[r].put /\ rec.ctx = run[r].ctx
        /\ rec.failing = run[r].failing
    BY <1>1 DEF WellRun, RunShape
  <2>. HIDE DEF rec
  <2>3. RunContext(rec, tree, leaf)
    BY <1>1, <2>1, <2>2 DEF RunContext, Starting
  <2>. QED
    BY <1>2, <2>1, <2>3, ContextStays
<1>12. CASE LastFlushFails(r)
  <2> DEFINE rec == [run[r] EXCEPT !.pc = "release", !.put = NoPut, !.threw = TRUE]
  <2>1. Becomes(r, rec) /\ run[r].pc = "flushing"
    BY <1>12 DEF LastFlushFails
  <2>2. /\ rec.pc = "release" /\ rec.put = NoPut
        /\ rec.failing = run[r].failing /\ rec.next = run[r].next /\ rec.reply = run[r].reply
    BY <1>1 DEF WellRun, RunShape
  <2>. HIDE DEF rec
  <2>3. RunContext(rec, tree, leaf)
    BY <1>1, <2>1, <2>2 DEF RunContext, Starting
  <2>. QED
    BY <1>2, <2>1, <2>3, ContextStays
<1>13. CASE \E kind \in ReplyKinds : Reply(r, kind)
  <2>1. PICK told, reply :
           /\ Becomes(r, [run[r] EXCEPT !.pc = "emit", !.out = told, !.next = "turnEnd",
                                        !.reply = reply])
           /\ run[r].pc = "request"
    BY <1>13 DEF Reply
  <2> DEFINE rec == [run[r] EXCEPT !.pc = "emit", !.out = told, !.next = "turnEnd", !.reply = reply]
  <2>2. /\ rec.pc = "emit" /\ rec.put = run[r].put /\ rec.ctx = run[r].ctx
        /\ rec.failing = run[r].failing /\ rec.next = "turnEnd"
    BY <1>1 DEF WellRun, RunShape
  <2>3. Becomes(r, rec)
    BY <2>1
  <2>. HIDE DEF rec
  <2>4. RunContext(rec, tree, leaf)
    BY <1>1, <2>1, <2>2 DEF RunContext, Starting
  <2>. QED
    BY <1>2, <2>3, <2>4, ContextStays
<1>. QED
  BY <1>3, <1>4, <1>5, <1>6, <1>7, <1>8, <1>9, <1>10, <1>11, <1>12, <1>13

\* Steps that flush the pending writes, or go on with it.
LEMMA FlushContexts ==
    ASSUME NEW r \in Runs, RunAlone(r),
           \/ NothingPolled(r) \/ TurnEndTold(r) \/ TurnEndThrows(r) \/ SavePoint(r)
           \/ Flushed(r) \/ Settled(r)
    PROVE  ContextInv'
<1>1. /\ WellRun(run[r]) /\ RunData(run[r], pendingSessionWrites) /\ RunContext(run[r], tree, leaf)
      /\ tree \in Seq(Puts) /\ leaf \in 0..Len(tree) /\ Rooted(tree)
  BY AloneMeans
<1>2. UNCHANGED <<op, writer>>
  BY DEF NothingPolled, TurnEndTold, TurnEndThrows, TurnEnd, SavePoint, Flushed, Settled
<1>3. ASSUME NEW ret \in ReturnPlaces \ {"none"}, FlushThen(r, run[r], ret, pendingSessionWrites, tree, leaf),
             UNCHANGED <<tree, leaf>>, run[r].failing => ret # "prepare"
      PROVE  ContextInv'
  <2>1. FlushThen(r, run[r], ret, pendingSessionWrites, tree', leaf')
    BY <1>3
  <2>2. tree' \in Seq(Puts) /\ leaf' \in 0..Len(tree') /\ Rooted(tree')
    BY <1>1, <1>3
  <2>3. run[r].failing => run[r].next = "turnEnd" /\ run[r].reply = "failed" /\ ret # "prepare"
    BY <1>1, <1>3 DEF RunContext
  <2>4. PICK pending : FlushThen(r, run[r], ret, pending, tree', leaf')
    BY <2>1
  <2>. QED
    BY <1>1, <1>2, <2>2, <2>3, <2>4, ContextFlush
<1>4. CASE NothingPolled(r)
  <2>1. UNCHANGED <<tree, leaf>> /\ ~run[r].failing
    BY <1>1, <1>4 DEF NothingPolled, sessionVars, RunContext
  <2>2. CASE run[r].pc = "pollFollowUp"
    BY <1>3, <1>4, <2>1, <2>2 DEF NothingPolled, ReturnPlaces
  <2>3. CASE run[r].pc # "pollFollowUp"
    <3>1. run[r].pc = "poll"
      BY <1>4, <2>3 DEF NothingPolled
    <3>2. PICK pc \in {"pollFollowUp", "request"} : Becomes(r, [run[r] EXCEPT !.pc = pc])
      BY <1>4, <3>1 DEF NothingPolled
    <3> DEFINE rec == [run[r] EXCEPT !.pc = pc]
    <3>3. rec.pc = pc /\ rec.put = run[r].put /\ rec.ctx = run[r].ctx /\ rec.failing = run[r].failing
      BY <1>1 DEF WellRun, RunShape
    <3>4. Becomes(r, rec)
      BY <3>2
    <3>. HIDE DEF rec
    <3>5. RunContext(rec, tree, leaf)
      BY <1>1, <2>1, <3>1, <3>3 DEF RunContext, Starting
    <3>. QED
      BY <1>2, <2>1, <3>4, <3>5, ContextStays
  <2>. QED
    BY <2>2, <2>3
<1>5. CASE TurnEndTold(r) \/ TurnEndThrows(r) \/ Settled(r)
  BY <1>3, <1>5 DEF TurnEndTold, TurnEndThrows, TurnEnd, Settled, sessionVars, ReturnPlaces
<1>6. CASE SavePoint(r)
  <2>1. run[r].failing => run[r].reply \in {"failed", "aborted"}
    BY <1>1 DEF RunContext
  <2>2. PICK ret \in {"ended", "prepare"} :
           /\ FlushThen(r, run[r], ret, pendingSessionWrites, tree, leaf)
           /\ ret = IF run[r].reply \in {"failed", "aborted"} THEN "ended" ELSE "prepare"
    BY <1>6 DEF SavePoint
  <2>. QED
    BY <1>3, <1>6, <2>1, <2>2 DEF SavePoint, sessionVars, ReturnPlaces
<1>7. CASE Flushed(r)
  <2>1. /\ run[r].pc = "flushing" /\ Appended(run[r].put)
        /\ FlushThen(r, run[r], run[r].ret, pendingSessionWrites', tree', leaf')
    BY <1>7 DEF Flushed
  <2>2. run[r].put \in Puts /\ PutOn(run[r].put, Len(tree))
    BY <1>1 DEF RunData, RunContext
  <2>3. tree' \in Seq(Puts) /\ leaf' \in 0..Len(tree') /\ Rooted(tree')
    BY <1>1, <2>1, <2>2, LeafGrows
  <2>4. run[r].ret \in ReturnPlaces \ {"none"}
    BY <1>1, <2>1 DEF WellRun, RunShape
  <2>5. run[r].failing => run[r].next = "turnEnd" /\ run[r].reply = "failed" /\ run[r].ret # "prepare"
    BY <1>1, <2>1 DEF RunContext
  <2>6. PICK pending : FlushThen(r, run[r], run[r].ret, pending, tree', leaf')
    BY <2>1
  <2>. QED
    BY <1>1, <1>2, <2>3, <2>4, <2>5, <2>6, ContextFlush
<1>. QED
  BY <1>4, <1>5, <1>6, <1>7

\* Steps that fail: the context is not used any more.
LEMMA FailContexts ==
    ASSUME NEW r \in Runs, RunAlone(r), DrainThrows(r) \/ LoopThrows(r) \/ TurnThrew(r)
    PROVE  ContextInv'
<1>1. /\ WellRun(run[r]) /\ RunContext(run[r], tree, leaf)
      /\ tree \in Seq(Puts) /\ leaf \in 0..Len(tree) /\ Rooted(tree) /\ Len(tree) \in Nat
      /\ NoPut.to = 0 /\ \A n \in Nat : PutOn(NoPut, n)
  BY AloneMeans
<1>2. UNCHANGED <<op, writer, tree, leaf>>
  BY DEF DrainThrows, LoopThrows, TurnThrew, sessionVars
<1>3. PICK rec : Fails(r, rec) /\ WellRun(rec) /\ rec.failing = run[r].failing /\ rec.next = run[r].next
                 /\ rec.reply = run[r].reply
  <2>1. CASE LoopThrows(r) \/ TurnThrew(r)
    BY <1>1, <2>1 DEF LoopThrows, TurnThrew
  <2>2. CASE DrainThrows(r)
    <3> DEFINE rec == [run[r] EXCEPT !.out = IF run[r].queue = "orphan" THEN @ ELSE <<>>]
    <3>1. Fails(r, rec)
      BY <2>2 DEF DrainThrows
    <3>2. WellRun(rec) /\ rec.failing = run[r].failing /\ rec.next = run[r].next /\ rec.reply = run[r].reply
      BY <1>1 DEF WellRun, RunShape
    <3>. HIDE DEF rec
    <3>. QED
      BY <3>1, <3>2
  <2>. QED
    BY <2>1, <2>2
<1>4. CASE rec.failing
  <2> DEFINE mid == [rec EXCEPT !.out = <<>>, !.queue = "none", !.threw = TRUE]
  <2>1. FlushThen(r, mid, "release", pendingSessionWrites, tree', leaf')
    BY <1>2, <1>3, <1>4 DEF Fails
  <2>2. /\ WellRun(mid) /\ mid.next = rec.next /\ mid.reply = rec.reply
        /\ "release" \in ReturnPlaces \ {"none"}
    BY <1>3 DEF WellRun, RunShape, ReturnPlaces
  <2>. HIDE DEF mid
  <2>3. mid.next = "turnEnd" /\ mid.reply = "failed"
    BY <1>1, <1>3, <1>4, <2>2 DEF RunContext
  <2>4. tree' \in Seq(Puts) /\ leaf' \in 0..Len(tree') /\ Rooted(tree')
    BY <1>1, <1>2
  <2>. QED
    BY <1>2, <2>1, <2>2, <2>3, <2>4, ContextFlush
<1>5. CASE ~rec.failing
  <2> DEFINE out == <<Item(nextId, "failure")>>
             new == [rec EXCEPT !.pc = "emit", !.failing = TRUE, !.put = NoPut,
                                !.out = out, !.queue = "none",
                                !.next = "turnEnd", !.reply = "failed"]
  <2>1. Becomes(r, new)
    BY <1>3, <1>5 DEF Fails
  <2>. HIDE DEF out
  <2>2. new.pc = "emit" /\ new.put = NoPut /\ new.failing /\ new.next = "turnEnd" /\ new.reply = "failed"
    BY <1>3 DEF WellRun, RunShape
  <2>. HIDE DEF new
  <2>3. RunContext(new, tree, leaf)
    BY <1>1, <2>2 DEF RunContext, Starting
  <2>. QED
    BY <1>2, <2>1, <2>3, ContextStays
<1>. QED
  BY <1>4, <1>5

\* The calls of the application, and the appends of an idle harness.
LEMMA PromptContext ==
    ASSUME AwaitedInv, TypeInv, ContextInv, scenario.awaits, UNCHANGED scenario, NEW r \in Runs, Prompt(r)
    PROVE  ContextInv'
<1> DEFINE rec == [NoRun EXCEPT !.pc = "snapshot", !.ctx = Branch(tree, leaf),
                                !.out = <<Item(nextId, "prompt")>>]
<1>1. /\ Becomes(r, rec) /\ \A q \in Runs : run[q].pc = "none"
      /\ \A w \in Writers : writer[w] = NoPut
      /\ UNCHANGED <<op, writer, tree, leaf>>
  BY DEF Prompt, sessionVars
<1>2. rec.pc = "snapshot" /\ ~rec.failing /\ rec.put = NoPut /\ rec.ctx = Branch(tree, leaf)
  BY DEF NoRun
<1>. HIDE DEF rec
<1>3. run'[r] = rec /\ \A q \in Runs \ {r} : run'[q] = run[q]
  BY <1>1 DEF Becomes, AwaitedInv, ShapeInv
<1>4. Len(tree) \in Nat
  BY DEF TypeInv, Types
<1>5. RunContext(rec, tree, leaf)
  BY <1>2, <1>4 DEF RunContext, Starting, NoPut, PutOn
<1>6. \A q \in Runs : run'[q].pc # "none" => RunContext(run'[q], tree', leaf')
  BY <1>1, <1>3, <1>5
<1>. QED
  BY <1>1, <1>6 DEF ContextInv

\* Other calls append to the session while no run is under way.
LEMMA OtherContext ==
    ASSUME AwaitedInv, TypeInv, ContextInv, scenario.awaits, UNCHANGED scenario,
           \/ Steer \/ FollowUp \/ NextTurn \/ WriteBusy \/ Abort \/ OpStep
           \/ Compact \/ (\E target \in DOMAIN tree : Navigate(target))
           \/ \E w \in Writers : WriteIdle(w) \/ WriterStep(w)
    PROVE  ContextInv'
<1>1. /\ tree \in Seq(Puts) /\ Len(tree) \in Nat /\ leaf \in 0..Len(tree) /\ Rooted(tree)
      /\ op \in OpShape(op) /\ PutOn(op.put, Len(tree)) /\ op.to \in 0..Len(tree) /\ op.put \in Puts
      /\ \A w \in Writers : PutOn(writer[w], Len(tree)) /\ writer[w].to = 0 /\ writer[w] \in Puts
      /\ NoPut.to = 0 /\ (\A n \in Nat : PutOn(NoPut, n)) /\ NoOp.put = NoPut /\ NoOp.to = 0
      /\ writer \in [Writers -> Puts]
  BY DEF AwaitedInv, ShapeInv, TypeInv, Types, CallTypes, ContextInv, NoPut, PutOn, NoOp
<1>2. CASE Steer \/ FollowUp \/ NextTurn \/ WriteBusy
  BY <1>2 DEF Steer, FollowUp, NextTurn, WriteBusy, sessionVars, ContextInv
<1>3. CASE Abort
  <2>1. /\ run' = [r \in Runs |-> IF run[r].pc = "drained" THEN [run[r] EXCEPT !.queue = "orphan"]
                               ELSE run[r]]
        /\ UNCHANGED <<op, writer, tree, leaf>>
    BY <1>3 DEF Abort, sessionVars
  <2>2. ASSUME NEW r \in Runs, run'[r].pc # "none"
        PROVE  run[r].pc # "none" /\ RunContext(run'[r], tree, leaf)
    <3>1. WellRun(run[r])
      BY DEF AwaitedInv, ShapeInv
    <3>2. /\ run'[r].pc = run[r].pc /\ run'[r].put = run[r].put /\ run'[r].ctx = run[r].ctx
          /\ run'[r].failing = run[r].failing /\ run'[r].next = run[r].next /\ run'[r].out = run[r].out
          /\ run'[r].reply = run[r].reply /\ run'[r].ret = run[r].ret
      BY <2>1, <3>1 DEF WellRun, RunShape
    <3>3. RunContext(run[r], tree, leaf)
      BY <2>2, <3>2 DEF ContextInv
    <3>. QED
      BY <2>2, <3>2, <3>3 DEF RunContext
  <2>. QED
    BY <1>1, <2>1, <2>2 DEF ContextInv
<1>4. ASSUME UNCHANGED <<tree, leaf, run, writer>>, PutOn(op'.put, Len(tree)), op'.to \in 0..Len(tree)
      PROVE  ContextInv'
  BY <1>4 DEF ContextInv
<1>5. CASE Compact \/ \E target \in DOMAIN tree : Navigate(target)
  <2>1. UNCHANGED <<tree, leaf, run, writer>>
    BY <1>5 DEF Compact, Navigate, Starts, sessionVars
  <2>2. op'.put = NoPut /\ op'.to \in 0..Len(tree)
    <3>1. CASE Compact
      BY <1>1, <3>1 DEF Compact, Starts, NoOp
    <3>2. ASSUME NEW target \in DOMAIN tree, Navigate(target)
          PROVE  op'.put = NoPut /\ op'.to \in 0..Len(tree)
      <4>1. target \in 1..Len(tree) /\ tree[target].parent \in 0..(target - 1)
        BY <1>1 DEF Rooted
      <4>2. target \in 0..Len(tree) /\ tree[target].parent \in 0..Len(tree)
        BY <1>1, <4>1
      <4>. QED
        BY <3>2, <4>2 DEF Navigate, Starts, NoOp
    <3>. QED
      BY <1>5, <3>1, <3>2
  <2>. QED
    BY <1>1, <1>4, <2>1, <2>2
<1>6. CASE OpEnds
  BY <1>1, <1>4, <1>6 DEF OpEnds, sessionVars
<1>7. CASE OpAppends
  <2> DEFINE put == IF op.kind = "compact" THEN Put(Item(nextId, "compaction"))
                    ELSE LeafEntry(Item(nextId, "leaf"), leaf, op.to)
  <2>1. op' = [op EXCEPT !.pc = "appending", !.put = put] /\ UNCHANGED <<tree, leaf, run, writer>>
    BY <1>7 DEF OpAppends, sessionVars
  <2>2. PutOn(put, Len(tree))
    BY <1>1 DEF Put, Entry, LeafEntry, PutOn
  <2>. HIDE DEF put
  <2>3. op'.put = put /\ op'.to = op.to
    BY <1>1, <2>1 DEF OpShape
  <2>. QED
    BY <1>1, <1>4, <2>1, <2>2, <2>3
<1>8. ASSUME Appended(op.put), op # NoOp, PutOn(op'.put, Len(tree) + 1), op'.to = op.to, UNCHANGED <<run, writer>>
      PROVE  ContextInv'
  <2>1. /\ tree' \in Seq(Puts) /\ leaf' \in 0..Len(tree') /\ Rooted(tree') /\ Len(tree') = Len(tree) + 1
    BY <1>1, <1>8, LeafGrows
  <2>2. \A r \in Runs : run[r].pc = "none"
    BY <1>8 DEF AwaitedInv, PhaseInv, Alone
  <2>3. \A w \in Writers : PutOn(writer[w], Len(tree'))
    BY <1>1, <2>1 DEF PutOn
  <2>. QED
    BY <1>1, <1>8, <2>1, <2>2, <2>3 DEF ContextInv
<1>9. ASSUME NEW summarizes \in BOOLEAN, OpAppended(summarizes)
      PROVE  ContextInv'
  <2>1. /\ Appended(op.put) /\ op # NoOp /\ UNCHANGED <<run, writer>>
    BY <1>9 DEF OpAppended, NoOp
  <2>2. CASE summarizes
    <3> DEFINE new == Entry(Item(nextId, "summary"), op.to)
    <3>1. op' = [op EXCEPT !.put = new]
      BY <1>9, <2>2 DEF OpAppended
    <3>2. PutOn(new, Len(tree) + 1)
      BY <1>1 DEF Entry, PutOn
    <3>. HIDE DEF new
    <3>3. op'.put = new /\ op'.to = op.to
      BY <1>1, <3>1 DEF OpShape
    <3>. QED
      BY <1>8, <2>1, <3>2, <3>3
  <2>3. CASE ~summarizes
    <3>1. op' = [op EXCEPT !.pc = "told", !.put = NoPut]
      BY <1>9, <2>3 DEF OpAppended
    <3>2. op'.put = NoPut /\ op'.to = op.to
      BY <1>1, <3>1 DEF OpShape
    <3>3. Len(tree) + 1 \in Nat
      BY <1>1
    <3>. QED
      BY <1>1, <1>8, <2>1, <3>2, <3>3
  <2>. QED
    BY <2>2, <2>3
<1>10. ASSUME NEW w \in Writers, WriteIdle(w) \/ WriterStep(w)
       PROVE  ContextInv'
  <2>1. \A r \in Runs : run[r].pc = "none"
    <3>1. CASE WriteIdle(w)
      BY <3>1 DEF WriteIdle, Quiet
    <3>2. CASE WriterStep(w)
      <4>1. writer[w] # NoPut
        BY <3>2 DEF WriterStep, Written, WriteFails
      <4>. QED
        BY <4>1 DEF ContextInv
    <3>. QED
      BY <1>10, <3>1, <3>2
  <2>2. UNCHANGED <<run, op>>
    BY <1>10 DEF WriteIdle, WriterStep, Written, WriteFails
  <2>3. CASE WriteIdle(w)
    <3> DEFINE put == Put(Item(nextId, "write"))
    <3>1. writer' = [writer EXCEPT ![w] = put] /\ UNCHANGED <<tree, leaf>>
      BY <2>3 DEF WriteIdle, sessionVars
    <3>2. PutOn(put, Len(tree)) /\ put.to = 0
      BY <1>1 DEF Put, Entry, PutOn
    <3>. HIDE DEF put
    <3>3. \A v \in Writers : writer'[v] = IF v = w THEN put ELSE writer[v]
      BY <1>1, <3>1
    <3>. QED
      BY <1>1, <2>1, <2>2, <3>1, <3>2, <3>3 DEF ContextInv
  <2>4. CASE Written(w)
    <3>1. writer' = [writer EXCEPT ![w] = NoPut] /\ Appended(writer[w])
      BY <2>4 DEF Written
    <3>2. /\ tree' \in Seq(Puts) /\ leaf' \in 0..Len(tree') /\ Rooted(tree') /\ Len(tree') = Len(tree) + 1
      BY <1>1, <3>1, LeafGrows
    <3>3. \A v \in Writers : writer'[v] = IF v = w THEN NoPut ELSE writer[v]
      BY <1>1, <3>1
    <3>4. Len(tree') \in Nat /\ \A n \in Nat : PutOn(NoPut, n)
      BY <1>1, <3>2
    <3>5. \A v \in Writers : PutOn(writer'[v], Len(tree')) /\ writer'[v].to = 0
      <4>1. \A put : PutOn(put, Len(tree)) => PutOn(put, Len(tree'))
        BY <1>1, <3>2 DEF PutOn
      <4>. QED
        BY <1>1, <3>3, <3>4, <4>1
    <3>6. PutOn(op.put, Len(tree')) /\ op.to \in 0..Len(tree')
      BY <1>1, <3>2 DEF PutOn
    <3>. QED
      BY <2>1, <2>2, <3>2, <3>5, <3>6 DEF ContextInv
  <2>5. CASE WriteFails(w)
    <3>1. writer' = [writer EXCEPT ![w] = NoPut] /\ UNCHANGED <<tree, leaf>>
      BY <2>5 DEF WriteFails, sessionVars
    <3>2. \A v \in Writers : writer'[v] = IF v = w THEN NoPut ELSE writer[v]
      BY <1>1, <3>1
    <3>3. \A v \in Writers : PutOn(writer'[v], Len(tree)) /\ writer'[v].to = 0
      BY <1>1, <3>2
    <3>. QED
      BY <1>1, <2>1, <2>2, <3>1, <3>3 DEF ContextInv
  <2>. QED
    BY <1>10, <2>3, <2>4, <2>5 DEF WriterStep
<1>. QED
  BY <1>2, <1>3, <1>5, <1>6, <1>7, <1>9, <1>10 DEF OpStep

\* Every step keeps the contexts.
LEMMA ContextsKept ==
    AwaitedInv /\ TypeInv /\ ContextInv /\ scenario.awaits /\ [Next]_vars => ContextInv'
<1> SUFFICES ASSUME AwaitedInv, TypeInv, ContextInv, scenario.awaits, [Next]_vars
             PROVE  ContextInv'
  OBVIOUS
<1>1. CASE UNCHANGED vars
  <2>1. UNCHANGED <<run, writer, op, tree, leaf>>
    BY <1>1 DEF vars, sessionVars
  <2>. QED
    BY <2>1 DEF ContextInv
<1>2. CASE Next
  <2>1. UNCHANGED scenario
    BY <1>2 DEF Next
  <2>2. CASE Application
    BY <2>1, <2>2, PromptContext, OtherContext DEF Application
  <2>3. ASSUME NEW r \in Runs, RunStep(r)
        PROVE  ContextInv'
    <3>1. run[r].pc # "none"
      BY <2>3 DEF RunStep, Snapshot, SnapshotThrows, Taken, TakenThrows, Before, BeforeThrows, MessageStart,
         MessageAppended, MessageTold, Drain, Drained, DrainThrows, NothingPolled, Reply, TurnEndTold,
         TurnEndThrows, TurnEnd, SavePoint, Prepared, Flushed, LoopThrows, TurnThrew, Settled,
         LastFlushFails, Release
    <3>2. RunAlone(r)
      BY <2>1, <3>1 DEF RunAlone
    <3>. QED
      BY <2>3, <3>2, MessageContext, QuietContext, FlushContexts, FailContexts DEF RunStep
  <2>4. CASE OpStep
    BY <2>1, <2>4, OtherContext
  <2>5. CASE \E w \in Writers : WriterStep(w)
    BY <2>1, <2>5, OtherContext
  <2>. QED
    BY <1>2, <2>2, <2>3, <2>4, <2>5 DEF Next
<1>. QED
  BY <1>1, <1>2

\* While the application awaits its operations, the context of a request is
\* the branch of the session that is open when it is made.
THEOREM RequestIsBranchHolds == Spec => []RequestIsBranch
<1> DEFINE Inv == AwaitedInv /\ (Kept => PlacedInv) /\ (scenario.awaits => ContextInv)
<1>1. Init => Inv
  <2>1. Init => ContextInv
    <3> SUFFICES ASSUME Init
                 PROVE  ContextInv
      OBVIOUS
    <3>1. (\A r \in Runs : run[r].pc = "none") /\ op = NoOp /\ NoOp.put = NoPut /\ NoOp.to = 0
      BY DEF Init, NoRun, NoOp
    <3>2. tree = <<>> /\ leaf = 0 /\ Len(tree) = 0 /\ DOMAIN tree = {}
      BY DEF Init
    <3>3. \A w \in Writers : PutOn(writer[w], 0) /\ writer[w].to = 0
      BY DEF Init, NoPut, PutOn
    <3>. QED
      BY <3>1, <3>2, <3>3 DEF ContextInv, Rooted, PutOn, NoPut
  <2>. QED
    BY <2>1, InitPlaced, AwaitedStart
<1>2. Inv /\ [Next]_vars => Inv'
  <2>1. [Next]_vars => (Kept' => Kept) /\ scenario' = scenario
    BY DEF Next, vars, Kept
  <2>2. scenario.awaits /\ PlacedInv => TypeInv
    BY DEF PlacedInv
  <2>3. scenario.awaits => Kept
    BY DEF Kept
  <2>. QED
    BY <2>1, <2>2, <2>3, AwaitedStep, PlacedStep, ContextsKept
<1>3. Inv => RequestIsBranch
  BY DEF ContextInv, RunContext, RequestIsBranch
<1>. QED
  BY <1>1, <1>2, <1>3, PTL DEF Spec
=============================================================================
