------------------------------ MODULE Channel ------------------------------
(***************************************************************************)
(* One channel of Emove/less: internal/channel/channel.go with its task    *)
(* WaitGroup (waitgroup.go) and its pooled pipeline (pipeline.go), and the *)
(* goroutines that meet on it:                                             *)
(*                                                                         *)
(*   - Reads: one per inbound message, from OnMessage's Reader() check     *)
(*     through TriggerInbound and the Recorder to the handler;             *)
(*   - Writes: calls of Write (outbound middlewares, Recorder, Writer());  *)
(*   - Directs: calls of WriteDirectly (keepalive's Ping and GoAway);      *)
(*   - Closers: calls of Close, the goroutine the successful one starts,   *)
(*     and the goroutine that one starts to wait for the write tasks;      *)
(*   - the goroutines addTask starts to record when the channel is idle.   *)
(*                                                                         *)
(* A sync.WaitGroup is the set of tasks counted in it.  Its Wait blocks    *)
(* while the set is not empty; the Done that empties it releases the       *)
(* waiter, and a waiter that wakes up to find the set non-empty again      *)
(* panics ("WaitGroup is reused before previous Wait has returned").  A    *)
(* panic ends its goroutine: the pool's PanicHandler only logs it.         *)
(***************************************************************************)
EXTENDS FiniteSets

CONSTANTS Reads,          \* inbound messages
          Writes,         \* calls of Write
          Directs,        \* calls of WriteDirectly
          Closers,        \* calls of Close
          EarlyClosers,   \* those made by an OnChannel hook, before active()
          WithErr,        \* those with err /= nil
          Deadline,       \* those whose ctx expires
          HalfCloses,     \* directions the application closes on their own
          UserPanics      \* may handlers and hooks panic?

Tasks == Reads \cup Writes          \* what the Recorder counts
Calls == Tasks \cup Directs
NoCloser == "none"

ASSUME CallsDisjoint ==
    /\ Reads \cap Writes = {}
    /\ Tasks \cap Directs = {}
ASSUME CloserSets ==
    /\ EarlyClosers \subseteq Closers
    /\ WithErr \subseteq Closers
    /\ Deadline \subseteq Closers
    /\ NoCloser \notin Closers
ASSUME HalfClosesAssumption == HalfCloses \subseteq {"readable", "writeable"}
ASSUME UserPanicsAssumption == UserPanics \in BOOLEAN

VARIABLES
    \* the fields of Channel
    state,       \* the directions still open; {} is the code's inactive
    done,        \* has ch.done been closed?
    idle,        \* ch.idle: "busy" is the zero time, "since" any other
    readTask, writeTask, allTask,   \* the three sync.WaitGroups
    plch,        \* pl.ch of the channel's pipeline: "self", "nil", "other"
    connOpen,    \* is the connection open?
    hooksFired,  \* has FireOnChannelClosed run?
    \* the goroutines
    act,         \* Activate: "hooks", "active", "failed"
    pc, out,     \* of each call of Calls: where it is, how it ended
    cpc, old,    \* of each Closer: where it is, the state it loaded
    winner,      \* the Closer whose CAS succeeded
    closer,      \* its goroutine
    inner,       \* the goroutine that one starts to wait for write tasks
    why,         \* which return (or panic) ended the closer goroutine's body
    watch,       \* the goroutine addTask starts: "none", "select", "quit"
    fin,         \* the goroutine that one starts to wait for all tasks
    \* history
    owedReads, owedWrites   \* tasks recorded when the Close took effect

chVars  == <<state, done, idle, plch, connOpen, hooksFired>>
wgVars  == <<readTask, writeTask, allTask>>
clVars  == <<cpc, old, winner, owedReads, owedWrites>>
gorVars == <<closer, inner, why>>
wtVars  == <<watch, fin>>
vars == <<chVars, wgVars, act, pc, out, clVars, gorVars, wtVars>>

readWriteMode == {"readable", "writeable"}

PCs  == {"start", "fire", "add1", "add2", "busy", "handle", "flush",
         "done1", "done2", "end"}
Outs == {"none", "refused", "stray", "panic", "handled", "sent",
         "writerClosed", "connErr"}
CPCs == {"start", "cas", "nil", "ErrChannelClosed"}
GPCs == {"none", "waitRead", "blocked", "released", "hooks", "select",
         "closeDone", "release", "connClose", "end"}
WPCs == {"none", "wait", "blocked", "released", "ready", "panicked"}
Whys == {"none", "err", "drained", "expired", "panic"}

TypeOK ==
    /\ state \subseteq readWriteMode
    /\ done \in BOOLEAN /\ connOpen \in BOOLEAN /\ hooksFired \in BOOLEAN
    /\ idle \in {"since", "busy"}
    /\ readTask \subseteq Reads /\ writeTask \subseteq Writes
    /\ allTask \subseteq Tasks
    /\ plch \in {"self", "nil", "other"}
    /\ act \in {"hooks", "active", "failed"}
    /\ pc \in [Calls -> PCs] /\ out \in [Calls -> Outs]
    /\ \A d \in Directs : pc[d] \in {"start", "fire", "handle", "flush", "end"}
    /\ cpc \in [Closers -> CPCs] /\ old \in [Closers -> SUBSET readWriteMode]
    /\ winner \in Closers \cup {NoCloser}
    /\ closer \in GPCs /\ inner \in WPCs /\ why \in Whys
    /\ watch \in {"none", "select", "quit"} /\ fin \in WPCs
    /\ owedReads \subseteq Reads /\ owedWrites \subseteq Writes

\* NewChannel, up to the OnChannel hooks of Activate.
Init ==
    /\ state = {}
    /\ done = FALSE
    /\ idle = "since"
    /\ readTask = {} /\ writeTask = {} /\ allTask = {}
    /\ plch = "self"
    /\ connOpen = TRUE
    /\ hooksFired = FALSE
    /\ act = "hooks"
    /\ pc = [t \in Calls |-> "start"]
    /\ out = [t \in Calls |-> "none"]
    /\ cpc = [c \in Closers |-> "start"]
    /\ old = [c \in Closers |-> {}]
    /\ winner = NoCloser
    /\ closer = "none" /\ inner = "none" /\ why = "none"
    /\ watch = "none" /\ fin = "none"
    /\ owedReads = {} /\ owedWrites = {}

-----------------------------------------------------------------------------
(* Activation and half-close *)

\* FireOnChannel with every hook content, then active().
Activate ==
    /\ act = "hooks"
    /\ act' = "active"
    /\ state' = readWriteMode
    /\ UNCHANGED <<done, idle, plch, connOpen, hooksFired, wgVars, pc, out,
                   clVars, gorVars, wtVars>>

\* FireOnChannel when a hook returns an error: active() is not reached.
ActivateFails ==
    /\ act = "hooks"
    /\ act' = "failed"
    /\ UNCHANGED <<chVars, wgVars, pc, out, clVars, gorVars, wtVars>>

\* CloseReader and CloseWriter: close() retries its CAS until it wins or the
\* bit is gone, so that it takes effect in one step.
HalfClose(side) ==
    /\ side \in state
    /\ state' = state \ {side}
    /\ UNCHANGED <<done, idle, plch, connOpen, hooksFired, wgVars, act, pc,
                   out, clVars, gorVars, wtVars>>

-----------------------------------------------------------------------------
(* Messages: TriggerInbound, Write, WriteDirectly *)

Goto(t, label) == pc' = [pc EXCEPT ![t] = label]

Ended(t, how) ==
    /\ pc' = [pc EXCEPT ![t] = "end"]
    /\ out' = [out EXCEPT ![t] = how]

\* OnMessage asks Reader(), Write asks calState(writeable), WriteDirectly
\* asks nothing.  The check and the use of the pipeline are apart: OnRead
\* decodes and submits in between.
Admit(t) ==
    /\ pc[t] = "start"
    /\ act = "active"
    /\ IF \/ t \in Reads /\ "readable" \in state
          \/ t \in Writes /\ "writeable" \in state
          \/ t \in Directs
       THEN Goto(t, "fire") /\ UNCHANGED out
       ELSE Ended(t, "refused")
    /\ UNCHANGED <<chVars, wgVars, act, clVars, gorVars, wtVars>>

\* FireInbound, FireOutbound and Outbound go to the channel pl.ch names
\* now.  Once the pipeline is released it names none (nil dereference), and
\* once it is taken from the pool again it names another channel.
Fire(t) ==
    /\ pc[t] = "fire"
    /\ \/ /\ plch = "self"
          /\ Goto(t, IF t \in Directs THEN "handle" ELSE "add1")
          /\ UNCHANGED out
       \/ plch = "nil" /\ Ended(t, "panic")
       \/ plch = "other" /\ Ended(t, "stray")
    /\ UNCHANGED <<chVars, wgVars, act, clVars, gorVars, wtVars>>

\* WaitGroup.Add, its first half: readTask or writeTask.
AddTask(t) ==
    /\ pc[t] = "add1"
    /\ readTask' = readTask \cup ({t} \cap Reads)
    /\ writeTask' = writeTask \cup ({t} \cap Writes)
    /\ Goto(t, "add2")
    /\ UNCHANGED <<chVars, allTask, act, out, clVars, gorVars, wtVars>>

\* WaitGroup.Add, its second half: allTask.
AddAll(t) ==
    /\ pc[t] = "add2"
    /\ allTask' = allTask \cup {t}
    /\ Goto(t, "busy")
    /\ UNCHANGED <<chVars, readTask, writeTask, act, out, clVars, gorVars, wtVars>>

\* Mutation of MarkBusy: a task that runs while the channel closes clears
\* idle but starts no watcher.
MutMarkBusy(t) ==
    /\ pc[t] = "busy"
    /\ Goto(t, "handle")
    /\ idle' = "busy"
    /\ IF idle = "busy" \/ state = {}
       THEN UNCHANGED wtVars
       ELSE watch' = "select" /\ fin' = "wait"
    /\ UNCHANGED <<state, done, plch, connOpen, hooksFired, wgVars, act, out,
                   clVars, gorVars>>

\* The rest of addTask: the first task of a busy period clears idle and
\* starts the goroutine that will set it again.
MarkBusy(t) ==
    /\ pc[t] = "busy"
    /\ Goto(t, "handle")
    /\ IF idle = "busy"
       THEN UNCHANGED <<idle, wtVars>>
       ELSE idle' = "busy" /\ watch' = "select" /\ fin' = "wait"
    /\ UNCHANGED <<state, done, plch, connOpen, hooksFired, wgVars, act, out,
                   clVars, gorVars>>

\* The inbound handler (middlewares, router, user code) returns.
HandleInbound(t) ==
    /\ pc[t] = "handle"
    /\ t \in Reads
    /\ Goto(t, "done1")
    /\ out' = [out EXCEPT ![t] = "handled"]
    /\ UNCHANGED <<chVars, wgVars, act, clVars, gorVars, wtVars>>

\* A handler or a middleware panics: Recorder does not reach tasks.Done.
HandlerPanics(t) ==
    /\ UserPanics
    /\ pc[t] = "handle"
    /\ t \in Tasks
    /\ Ended(t, "panic")
    /\ UNCHANGED <<chVars, wgVars, act, clVars, gorVars, wtVars>>

\* Mutation of AfterOutbound: a direct write is counted down too.
MutAfterOutbound(t) == "done1"

\* Where a write goes next once outboundHandler has returned.
AfterOutbound(t) == IF t \in Directs THEN "end" ELSE "done1"

\* outboundHandler asks Writer(), which tests the readable bit.
GetWriter(t) ==
    /\ pc[t] = "handle"
    /\ t \in Writes \cup Directs
    /\ IF "readable" \in state
       THEN Goto(t, "flush") /\ UNCHANGED out
       ELSE /\ Goto(t, AfterOutbound(t))
            /\ out' = [out EXCEPT ![t] = "writerClosed"]
    /\ UNCHANGED <<chVars, wgVars, act, clVars, gorVars, wtVars>>

\* OnWrite encodes and flushes to the connection.
Flush(t) ==
    /\ pc[t] = "flush"
    /\ Goto(t, AfterOutbound(t))
    /\ out' = [out EXCEPT ![t] = IF connOpen THEN "sent" ELSE "connErr"]
    /\ UNCHANGED <<chVars, wgVars, act, clVars, gorVars, wtVars>>

\* Mutation of Release: nobody is woken.
MutRelease(g, tasks) == g

\* What a Done after which tasks are counted does to a goroutine blocked in Wait.
Release(g, tasks) == IF tasks = {} /\ g = "blocked" THEN "released" ELSE g

\* WaitGroup.Done, its first half.
DoneTask(t) ==
    /\ pc[t] = "done1"
    /\ readTask' = readTask \ {t}
    /\ writeTask' = writeTask \ {t}
    /\ closer' = Release(closer, readTask')
    /\ inner' = Release(inner, writeTask')
    /\ Goto(t, "done2")
    /\ UNCHANGED <<chVars, allTask, act, out, clVars, why, wtVars>>

\* WaitGroup.Done, its second half.
DoneAll(t) ==
    /\ pc[t] = "done2"
    /\ allTask' = allTask \ {t}
    /\ fin' = Release(fin, allTask')
    /\ Goto(t, "end")
    /\ UNCHANGED <<chVars, readTask, writeTask, act, out, clVars, gorVars, watch>>

-----------------------------------------------------------------------------
(* Close *)

\* Mutation of CloseLoad: an inactive channel is not refused.
MutCloseLoad(c) ==
    /\ cpc[c] = "start"
    /\ c \in EarlyClosers \/ act = "active"
    /\ old' = [old EXCEPT ![c] = state]
    /\ cpc' = [cpc EXCEPT ![c] = "cas"]
    /\ UNCHANGED <<chVars, wgVars, act, pc, out, winner, owedReads, owedWrites,
                   gorVars, wtVars>>

\* Close loads the state.
CloseLoad(c) ==
    /\ cpc[c] = "start"
    /\ c \in EarlyClosers \/ act = "active"
    /\ old' = [old EXCEPT ![c] = state]
    /\ cpc' = [cpc EXCEPT ![c] = IF state = {} THEN "ErrChannelClosed" ELSE "cas"]
    /\ UNCHANGED <<chVars, wgVars, act, pc, out, winner, owedReads, owedWrites,
                   gorVars, wtVars>>

\* ... and tries once to swap it for inactive.
CloseCAS(c) ==
    /\ cpc[c] = "cas"
    /\ IF state = old[c]
       THEN /\ state' = {}
            /\ cpc' = [cpc EXCEPT ![c] = "nil"]
            /\ winner' = c
            /\ owedReads' = readTask
            /\ owedWrites' = writeTask
            /\ closer' = "waitRead"
       ELSE /\ cpc' = [cpc EXCEPT ![c] = "ErrChannelClosed"]
            /\ UNCHANGED <<state, winner, owedReads, owedWrites, closer>>
    /\ UNCHANGED <<done, idle, plch, connOpen, hooksFired, wgVars, act, pc, out,
                   old, inner, why, wtVars>>

\* Mutation of WaitReadTask: the hooks fire without waiting.
MutWaitReadTask ==
    /\ closer = "waitRead"
    /\ closer' = "hooks"
    /\ UNCHANGED <<chVars, wgVars, act, pc, out, clVars, inner, why, wtVars>>

\* The closer goroutine enters tasks.WaitReadTask.
WaitReadTask ==
    /\ closer = "waitRead"
    /\ closer' = IF readTask = {} THEN "hooks" ELSE "blocked"
    /\ UNCHANGED <<chVars, wgVars, act, pc, out, clVars, inner, why, wtVars>>

\* It wakes up.
WakeReadTask ==
    /\ closer = "released"
    /\ IF readTask = {}
       THEN closer' = "hooks" /\ UNCHANGED why
       ELSE closer' = "closeDone" /\ why' = "panic"
    /\ UNCHANGED <<chVars, wgVars, act, pc, out, clVars, inner, wtVars>>

\* FireOnChannelClosed; then return at once if Close was given an error,
\* else start the goroutine that waits for the write tasks.
FireHooks ==
    /\ closer = "hooks"
    /\ hooksFired' = TRUE
    /\ IF winner \in WithErr
       THEN closer' = "closeDone" /\ why' = "err" /\ UNCHANGED inner
       ELSE closer' = "select" /\ inner' = "wait" /\ UNCHANGED why
    /\ UNCHANGED <<state, done, idle, plch, connOpen, wgVars, act, pc, out,
                   clVars, wtVars>>

\* A hook panics: the deferred clean-up still runs.
HookPanics ==
    /\ UserPanics
    /\ closer = "hooks"
    /\ hooksFired' = TRUE
    /\ closer' = "closeDone"
    /\ why' = "panic"
    /\ UNCHANGED <<state, done, idle, plch, connOpen, wgVars, act, pc, out,
                   clVars, inner, wtVars>>

\* Mutation of WaitStep: Wait does not wait.
MutWaitStep(g, tasks) == "ready"

\* What a goroutine in Wait does next when the counted tasks are tasks.
WaitStep(g, tasks) ==
    CASE g = "wait"     -> IF tasks = {} THEN "ready" ELSE "blocked"
      [] g = "released" -> IF tasks = {} THEN "ready" ELSE "panicked"

\* The inner goroutine: WaitWriteTask, then close(done).
InnerStep ==
    /\ inner \in {"wait", "released"}
    /\ inner' = WaitStep(inner, writeTask)
    /\ UNCHANGED <<chVars, wgVars, act, pc, out, clVars, closer, why, wtVars>>

\* The closer's select: the write tasks are done ...
SelectDrained ==
    /\ closer = "select"
    /\ inner = "ready"
    /\ closer' = "closeDone"
    /\ why' = "drained"
    /\ UNCHANGED <<chVars, wgVars, act, pc, out, clVars, inner, wtVars>>

\* ... or the ctx has expired.
SelectExpired ==
    /\ closer = "select"
    /\ winner \in Deadline
    /\ closer' = "closeDone"
    /\ why' = "expired"
    /\ UNCHANGED <<chVars, wgVars, act, pc, out, clVars, inner, wtVars>>

\* The deferred clean-up, one call a step: close(ch.done) ...
CloseDone ==
    /\ closer = "closeDone"
    /\ done' = TRUE
    /\ closer' = "release"
    /\ UNCHANGED <<state, idle, plch, connOpen, hooksFired, wgVars, act, pc, out,
                   clVars, inner, why, wtVars>>

\* ... pl.Release(), which puts the pipeline back into the pool ...
ReleasePipeline ==
    /\ closer = "release"
    /\ plch' = "nil"
    /\ closer' = "connClose"
    /\ UNCHANGED <<state, done, idle, connOpen, hooksFired, wgVars, act, pc, out,
                   clVars, inner, why, wtVars>>

\* ... and conn.Close().
CloseConn ==
    /\ closer = "connClose"
    /\ connOpen' = FALSE
    /\ closer' = "end"
    /\ UNCHANGED <<state, done, idle, plch, hooksFired, wgVars, act, pc, out,
                   clVars, inner, why, wtVars>>

\* The pool hands the released pipeline to a new channel.
PoolGet ==
    /\ closer \in {"connClose", "end"}
    /\ plch = "nil"
    /\ plch' = "other"
    /\ UNCHANGED <<state, done, idle, connOpen, hooksFired, wgVars, act, pc, out,
                   clVars, gorVars, wtVars>>

-----------------------------------------------------------------------------
(* The idle watcher of addTask *)

\* Its inner goroutine: tasks.Wait, then close(fin).
WatchWait ==
    /\ fin \in {"wait", "released"}
    /\ fin' = WaitStep(fin, allTask)
    /\ UNCHANGED <<chVars, wgVars, act, pc, out, clVars, gorVars, watch>>

\* Its select: all tasks are done, the channel is idle from now on ...
WatchIdle ==
    /\ watch = "select"
    /\ fin = "ready"
    /\ idle' = "since"
    /\ watch' = "none"
    /\ fin' = "none"
    /\ UNCHANGED <<state, done, plch, connOpen, hooksFired, wgVars, act, pc, out,
                   clVars, gorVars>>

\* ... or the channel is closed.
WatchQuit ==
    /\ watch = "select"
    /\ done
    /\ watch' = "quit"
    /\ UNCHANGED <<chVars, wgVars, act, pc, out, clVars, gorVars, fin>>

-----------------------------------------------------------------------------
\* What a call does once it was admitted: its goroutine keeps running.
CallStep(t) ==
    \/ Fire(t) \/ AddTask(t) \/ AddAll(t) \/ MarkBusy(t)
    \/ HandleInbound(t) \/ HandlerPanics(t) \/ GetWriter(t) \/ Flush(t)
    \/ DoneTask(t) \/ DoneAll(t)

CloserStep ==
    \/ WaitReadTask \/ WakeReadTask \/ FireHooks \/ HookPanics
    \/ SelectDrained \/ SelectExpired
    \/ CloseDone \/ ReleasePipeline \/ CloseConn

WatchStep == WatchIdle \/ WatchQuit

Next ==
    \/ Activate \/ ActivateFails
    \/ \E side \in HalfCloses : HalfClose(side)
    \/ \E t \in Calls : Admit(t) \/ CallStep(t)
    \/ \E c \in Closers : CloseLoad(c) \/ CloseCAS(c)
    \/ CloserStep \/ InnerStep
    \/ PoolGet
    \/ WatchWait \/ WatchStep

Spec == Init /\ [][Next]_vars

\* A goroutine that can run does run; when a call is made, a connection
\* activated, or a pipeline reused is up to the environment.
Fairness ==
    /\ \A t \in Calls : WF_vars(CallStep(t))
    /\ \A c \in Closers : WF_vars(CloseCAS(c))
    /\ WF_vars(CloserStep) /\ WF_vars(InnerStep)
    /\ WF_vars(WatchWait) /\ WF_vars(WatchStep)

FairSpec == Spec /\ Fairness
-----------------------------------------------------------------------------
(* Safety *)

\* At most one Close ever succeeds, and once one has, the channel is inactive
\* for good: no second closer goroutine can close ch.done or release the
\* pipeline again, and neither a half-close nor active() revives the channel.
SingleClose ==
    /\ \A c \in Closers : cpc[c] = "nil" => c = winner
    /\ winner # NoCloser => state = {} /\ act = "active"

\* No inbound task that was recorded when Close took effect is still running
\* when the OnChannelClosed hooks fire, nor when the deferred clean-up runs
\* (also the clean-up after a panic of WaitReadTask).
ReadsDrainedBeforeHooks ==
    hooksFired \/ done => owedReads \cap readTask = {}

\* A graceful Close that ends because the write tasks are done never closes
\* the connection under a write that was recorded when it took effect.
DrainedWritesSeeOpenConn ==
    why = "drained" => \A t \in owedWrites : out[t] # "connErr" /\ t \notin writeTask

\* The hooks are given the channel that is closing, with its connection
\* still open: the pipeline is not back in the pool while they run.
HooksSeeOwnChannel == closer = "hooks" => plch = "self" /\ connOpen /\ ~done

\* idle is the zero time exactly while a goroutine started by addTask is
\* there to set it again, unless that goroutine saw the channel closed: no
\* busy period is left without its watcher and none has two.
BusyHasWatcher ==
    /\ idle = "busy" <=> watch # "none"
    /\ watch = "none" => fin = "none"
    /\ watch = "quit" => done

\* The channel implements the life cycle of ChannelLife.
phaseBar ==
    CASE act = "hooks"   -> "opening"
      [] act = "failed"  -> "rejected"
      [] act = "active" /\ winner = NoCloser -> "open"
      [] act = "active" /\ winner # NoCloser /\ connOpen /\ ~hooksFired -> "closing"
      [] act = "active" /\ winner # NoCloser /\ connOpen /\ hooksFired -> "notified"
      [] OTHER -> "closed"

Life == INSTANCE ChannelLife WITH Tasks <- Reads, phase <- phaseBar,
                                  running <- readTask,
                                  owed <- owedReads \cap readTask

\* Every step of the channel is a step of ChannelLife or changes nothing that
\* ChannelLife speaks of.
LifeSpec == Life!Spec

-----------------------------------------------------------------------------
(* Liveness, under Fairness *)

\* A Close that took effect ends with the connection closed.  There are two
\* exceptions: a task whose handler panicked stays counted, and a Close that
\* waits for it never ends; and a Close without error and without deadline
\* whose wait for the write tasks panicked has nothing left to wait for.
CloseCompletes ==
    winner # NoCloser
      ~> \/ ~connOpen
         \/ \E t \in readTask \cup writeTask : out[t] = "panic"
         \/ winner \notin WithErr \cup Deadline /\ inner = "panicked"

-----------------------------------------------------------------------------
(* What the code says of itself and does not do *)

\* router/router.go: a message is handled with the channel, and the context,
\* of the connection that received it.
NoStrayMessage == \A t \in Calls : out[t] # "stray"
=============================================================================
