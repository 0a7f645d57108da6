------------------------------- MODULE Keeper -------------------------------
(***************************************************************************)
(* The keeper of one channel (internal/keepalive/keepliave.go): the idle,  *)
(* age and health timers that Keepalive arms, their callbacks, the GoAway  *)
(* and its grace timer, and the keepalive middleware, which answers Pings  *)
(* and records Pongs before the Recorder of the channel can see them: they *)
(* are no reads of the channel.                                            *)
(*                                                                         *)
(* The callbacks run in goroutines of their own, so they interleave with   *)
(* each other, with the messages of the channel and with Close, by which   *)
(* the transport handler ends the keeper before or after it closes the     *)
(* channel.  Time is counted in ticks.  The time wheel is taken at its     *)
(* word (TimeWheel.tla): a timer is started at its tick.  The channel is   *)
(* its open/closed state, the time of its last read and its idle time, as  *)
(* Channel.tla keeps them.                                                 *)
(***************************************************************************)
EXTENDS Integers, FiniteSets

CONSTANTS Server,       \* is it the server's side of the channel?
          MaxIdle,      \* kp.MaxChannelIdleTime; 0 is never
          MaxAge,       \* kp.MaxChannelAge; 0 is never
          Jitter,       \* a tenth of it
          CloseGrace,   \* kp.CloseGrace; 0 is the default
          GoAway,       \* are GoAway messages configured?
          Time,         \* kp.HealthParams.Time; 0 is no health check
          Timeout,      \* kp.HealthParams.Timeout; 0 is the default
          Second, defaultCloseGrace, defaultTimeout,
          CanPing,      \* are Ping, Pong and their recognizers configured?
          Preempted,    \* may time pass inside a callback?
          Horizon       \* bound: the last tick

ASSUME DurationsAssumption ==
    /\ {MaxIdle, MaxAge, CloseGrace, Time, Timeout, Horizon} \subseteq Nat
    /\ {Jitter, Second, defaultCloseGrace, defaultTimeout} \subseteq Nat \ {0}
    /\ MaxAge > 0 => Jitter < MaxAge
ASSUME FlagsAssumption ==
    {Server, GoAway, CanPing, Preempted} \subseteq BOOLEAN

\* ConsummateKeepaliveParams, once for a handler.
closeGrace == IF CloseGrace > 0 THEN CloseGrace ELSE defaultCloseGrace
time == IF Time \in 1 .. Second - 1 THEN Second ELSE Time
timeout == IF Timeout > 0 THEN Timeout ELSE defaultTimeout
Jittered == IF MaxAge > 0 THEN MaxAge - Jitter .. MaxAge + Jitter - 1 ELSE {0}

Never == -1                          \* no time: an unset timer, a busy channel
Epoch == -(Horizon + time + 1)       \* the zero time stamp, long ago
Checks == {"idle", "age", "health"}  \* the callbacks that Keepalive arms
Graces == {"idle", "age"}            \* those that may send a GoAway

VARIABLES
    maxAge,               \* kp.MaxChannelAge with its jitter
    now,                  \* the clock
    chState,              \* open, readClosed or closed
    tasks, idle,          \* messages being handled; idle since, or Never
    lastRead,             \* time of the last read
    done,                 \* k.done
    lastPing, lastPong,   \* k.lastPing, k.lastPong
    timer, grace,         \* armed timers: the tick they run at, or Never
    cb,                   \* the running callbacks
    owedPong,             \* when the Ping that the peer has yet to answer was
                          \* sent, or Never
    closing,              \* is the handler about to close the channel?
    verdict,              \* history: was the last Ping answered when the
                          \* health check gave the peer up?
    late                  \* history: callbacks run after the keeper was closed

taskVars == <<tasks, idle, lastRead>>
chVars == <<chState, taskVars>>
timerVars == <<timer, grace>>
closeVars == <<closing, late>>
pingVars == <<lastPing, lastPong, owedPong, verdict>>
vars == <<maxAge, now, chVars, done, pingVars, timerVars, cb, closeVars>>

Instant == Never .. Horizon
Stamp == {Epoch} \cup 0 .. Horizon
Kinds == {"in", "out"}
Pending == Never .. Horizon + MaxIdle + MaxAge + Jitter + closeGrace + time + timeout
Labels == {"none", "start", "check", "goaway", "ping", "pinged", "stop", "close",
           "grace"}

TypeOK ==
    /\ now \in 0 .. Horizon /\ maxAge \in Jittered
    /\ chState \in {"open", "readClosed", "closed"}
    /\ tasks \subseteq Kinds
    /\ idle \in Instant /\ lastRead \in Stamp
    /\ done \in BOOLEAN /\ closing \in BOOLEAN
    /\ lastPing \in Stamp /\ lastPong \in Stamp /\ owedPong \in Instant
    /\ timer \in [Checks -> Pending]
    /\ grace \in [Graces -> Pending]
    /\ cb \in [Checks -> Labels]
    /\ verdict \in {"none", "unanswered", "answered"}
    /\ late \subseteq Checks

\* NewChannel, then Keepalive: which timers are armed.
Init ==
    /\ now = 0 /\ maxAge \in Jittered
    /\ chState = "open" /\ tasks = {} /\ idle = 0 /\ lastRead = Epoch
    /\ done = FALSE /\ closing = FALSE
    /\ lastPing = Epoch /\ lastPong = Epoch /\ owedPong = Never
    /\ timer = [c \in Checks |->
                   CASE c = "idle" /\ Server /\ MaxIdle > 0 -> MaxIdle
                     [] c = "age" /\ Server /\ maxAge > 0   -> maxAge
                     [] c = "health" /\ time > 0            -> time
                     [] OTHER                               -> Never]
    /\ grace = [c \in Graces |-> Never]
    /\ cb = [c \in Checks |-> "none"]
    /\ verdict = "none" /\ late = {}

Goto(c, label) == cb' = [cb EXCEPT ![c] = label]

\* timewheel.Timer.AfterFunc(d, fn) as the last call of a callback.
Rearm(c, d) ==
    /\ timer' = [timer EXCEPT ![c] = now + d]
    /\ Goto(c, "none")

-----------------------------------------------------------------------------
(* The clock and the wheel *)

\* The handlers of messages may take any time; what else is running does not
\* while time is not Preempted.
Quiet ==
    /\ \A c \in Checks : cb[c] = "none" /\ timer[c] # now
    /\ \A c \in Graces : grace[c] # now
    /\ closing => chState = "closed"

Advance ==
    /\ now < Horizon
    /\ Preempted \/ Quiet
    /\ now' = now + 1
    /\ UNCHANGED <<chVars, done, pingVars, timerVars, cb, closeVars>>

\* The wheel starts the callback of a timer.
Run(c) ==
    /\ timer[c] # Never /\ timer[c] <= now
    /\ cb[c] = "none"
    /\ timer' = [timer EXCEPT ![c] = Never]
    /\ late' = IF done THEN late \cup {c} ELSE late
    /\ Goto(c, "start")
    /\ UNCHANGED <<now, chVars, done, pingVars, grace, closing>>

\* Mutation of Closed: the keeper is not asked.
MutClosed == FALSE

Closed == done

\* Every callback first looks, under k.mu, whether the keeper is closed.
Start(c) ==
    /\ cb[c] = "start"
    /\ Goto(c, IF Closed THEN "none" ELSE IF c = "age" THEN "goaway" ELSE "check")
    /\ UNCHANGED <<now, chVars, done, pingVars, timerVars, closeVars>>

-----------------------------------------------------------------------------
(* Idle time *)

\* Mutation of LookAgain: a busy channel is not looked at again.
MutLookAgain == Goto("idle", "none") /\ UNCHANGED timer

LookAgain == Rearm("idle", MaxIdle)

\* A busy channel is looked at again MaxIdle later, an idle one when its idle
\* time can have reached MaxIdle.
IdleCheck ==
    /\ cb["idle"] = "check"
    /\ \/ idle = Never /\ LookAgain
       \/ /\ idle # Never /\ now - idle >= MaxIdle
          /\ Goto("idle", "goaway") /\ UNCHANGED timer
       \/ /\ idle # Never /\ now - idle < MaxIdle
          /\ Rearm("idle", MaxIdle - (now - idle))
    /\ UNCHANGED <<now, chVars, done, pingVars, grace, closeVars>>

-----------------------------------------------------------------------------
(* Health *)

\* A message is written: the connection may be broken without anyone knowing,
\* and a channel that is not open refuses it.  On a closed channel, whose
\* pipeline is released, the callback may panic and end.
Writes(c, ok, failed) ==
    \/ chState = "open" /\ Goto(c, ok)
    \/ Goto(c, failed)
    \/ chState = "closed" /\ Goto(c, "none")

silent == now - lastRead
waited == now - lastPing

\* Mutation of Talking: the silence is not compared with time.
MutTalking == TRUE

Talking == silent < time

\* After Time without a read: give the peer up when the Ping sent last has
\* been waiting for its Pong for timeout, else send one.
HealthCheck ==
    /\ cb["health"] = "check"
    /\ IF chState # "open" THEN Goto("health", "none") /\ UNCHANGED <<timer, verdict>>
       ELSE IF Talking THEN Rearm("health", time - silent) /\ UNCHANGED verdict
       ELSE \/ lastPing <= lastPong /\ Goto("health", "ping") /\ UNCHANGED <<timer, verdict>>
            \/ /\ lastPing > lastPong /\ waited < timeout
               /\ Rearm("health", timeout - waited) /\ UNCHANGED verdict
            \/ /\ lastPing > lastPong /\ waited >= timeout
               /\ Goto("health", "stop") /\ UNCHANGED timer
               /\ verdict' = IF owedPong = Never THEN "answered" ELSE "unanswered"
    /\ UNCHANGED <<now, chVars, done, lastPing, lastPong, owedPong, grace, closeVars>>

\* sendPing: without a complete configuration, or when the write fails, the
\* channel is stopped.
SendPing ==
    /\ cb["health"] = "ping"
    /\ IF CanPing THEN Writes("health", "pinged", "stop") ELSE Goto("health", "stop")
    /\ owedPong' = IF cb'["health"] = "pinged" THEN now ELSE owedPong
    /\ UNCHANGED <<now, chVars, done, lastPing, lastPong, verdict, timerVars, closeVars>>

\* Mutation of PingTime: the time of the Ping is not recorded.
MutPingTime == lastPing

PingTime == now

\* The time of the Ping is recorded after it was written.
Pinged ==
    /\ cb["health"] = "pinged"
    /\ lastPing' = PingTime
    /\ Rearm("health", timeout)
    /\ UNCHANGED <<now, chVars, done, lastPong, owedPong, verdict, grace, closeVars>>

-----------------------------------------------------------------------------
(* stopChannel and goAwayChannel *)

\* Where goAwayChannel goes on after stopChannel: it does not return.
AfterStop(c) == IF c \in Graces /\ GoAway THEN "grace" ELSE "none"

\* stopChannel: unless the keeper is closed, close it ...
StopMark(c) ==
    /\ cb[c] = "stop"
    /\ done' = TRUE
    /\ Goto(c, IF done THEN AfterStop(c) ELSE "close")
    /\ UNCHANGED <<now, chVars, pingVars, timerVars, closeVars>>

\* ... and the channel.
StopClose(c) ==
    /\ cb[c] = "close"
    /\ chState' = "closed"
    /\ Goto(c, AfterStop(c))
    /\ UNCHANGED <<now, taskVars, done, pingVars, timerVars, closeVars>>

\* goAwayChannel: the GoAway is written, or the channel is stopped.
GoAwayChannel(c) ==
    /\ cb[c] = "goaway"
    /\ IF GoAway THEN Writes(c, "grace", "stop") ELSE Goto(c, "stop")
    /\ UNCHANGED <<now, chVars, done, pingVars, timerVars, closeVars>>

\* Mutation of GraceEnd: after the age check, the peer is trusted to close.
MutGraceEnd(c) == IF c = "age" THEN Never ELSE now + closeGrace

GraceEnd(c) == now + closeGrace

\* The timer for a peer that does not act on the GoAway.
GraceArm(c) ==
    /\ cb[c] = "grace"
    /\ grace' = [grace EXCEPT ![c] = GraceEnd(c)]
    /\ Goto(c, "none")
    /\ UNCHANGED <<now, chVars, done, pingVars, timer, closeVars>>

\* It closes the channel if that is still active, closed keeper or not.
GraceRun(c) ==
    /\ grace[c] # Never /\ grace[c] <= now
    /\ grace' = [grace EXCEPT ![c] = Never]
    /\ chState' = "closed"
    /\ UNCHANGED <<now, taskVars, done, pingVars, timer, cb, closeVars>>

-----------------------------------------------------------------------------
(* The channel and its handler *)

\* A message comes in or goes out, and the Recorder makes the channel busy; one
\* that comes in sets lastRead.  A Ping of the peer does not get that far: the
\* middleware answers it with a write, and only that is recorded.
TaskStart(k) ==
    /\ chState = "open"
    /\ k \notin tasks
    /\ tasks' = tasks \cup {k}
    /\ idle' = Never
    /\ lastRead' = IF k = "in" THEN now ELSE lastRead
    /\ UNCHANGED <<now, chState, done, pingVars, timerVars, cb, closeVars>>

\* It is done: the last task to end makes the channel idle.
TaskEnd(k) ==
    /\ k \in tasks
    /\ tasks' = tasks \ {k}
    /\ idle' = IF tasks' = {} THEN now ELSE idle
    /\ UNCHANGED <<now, chState, lastRead, done, pingVars, timerVars, cb, closeVars>>

\* Mutation of PongTime: the Pong is recognized and dropped.
MutPongTime == lastPong

PongTime == now

\* A Pong comes in, and the middleware records it if the handler still has the
\* keeper; else it is a message like any other.
Pong ==
    /\ chState = "open" /\ ~closing
    /\ owedPong # Never
    /\ lastPong' = PongTime
    /\ owedPong' = Never
    /\ UNCHANGED <<now, chVars, done, lastPing, verdict, timerVars, cb, closeVars>>

\* The application closes its reader.
CloseReader ==
    /\ chState = "open"
    /\ chState' = "readClosed"
    /\ UNCHANGED <<now, taskVars, done, pingVars, timerVars, cb, closeVars>>

\* The application, or a GoAway from the server, closes the channel; and the
\* handler does, after the keeper.
Close ==
    /\ chState # "closed"
    /\ chState' = "closed"
    /\ UNCHANGED <<now, taskVars, done, pingVars, timerVars, cb, closeVars>>

\* closeChannel of the handler removes and closes the keeper.
KeeperClose ==
    /\ ~closing
    /\ done' = TRUE
    /\ closing' = TRUE
    /\ UNCHANGED <<now, chVars, pingVars, timerVars, cb, late>>

-----------------------------------------------------------------------------
Step ==
    \/ Advance
    \/ \E c \in Checks : Run(c) \/ Start(c) \/ StopMark(c) \/ StopClose(c)
    \/ IdleCheck \/ HealthCheck \/ SendPing \/ Pinged
    \/ \E c \in Graces : GoAwayChannel(c) \/ GraceArm(c) \/ GraceRun(c)
    \/ \E k \in Kinds : TaskStart(k) \/ TaskEnd(k)
    \/ Pong
    \/ CloseReader \/ Close \/ KeeperClose

Next == Step /\ UNCHANGED maxAge

Spec == Init /\ [][Next]_vars

-----------------------------------------------------------------------------
(* Safety *)

Largest(a, b) == IF a > b THEN a ELSE b

\* A silent peer does not keep its channel: with a health check, an open
\* channel has had a message or a Pong within the longer of time and timeout,
\* plus timeout, whatever the timers, the answers to earlier Pings and the
\* messages before the silence were.
SilentPeerClosed ==
    time > 0 /\ chState = "open" =>
        now - Largest(0, Largest(lastRead, lastPong))
          <= Largest(time, timeout) + timeout

\* keepalive/keepalive.go:36: the channel is closed "if no read activity is
\* seen even after that" Ping.  The health check never gives up a peer that
\* has answered the Ping sent last, whatever timers, earlier Pings and Pongs
\* and messages were under way.  It holds while no time passes within a
\* callback; the run that lets it pass shows that this is needed.
AnsweredNotGivenUp == verdict # "answered"

\* A server's channel that has been idle for MaxIdle is closed within the
\* grace period, however often it was busy when its timer ran.
IdleEnforced ==
    Server /\ MaxIdle > 0 /\ chState # "closed" /\ idle # Never =>
        now - idle <= MaxIdle + closeGrace

\* A server's channel lives for MaxAge, with its jitter of a tenth, and the
\* grace period at most, also if the GoAway is lost or the peer does not act on
\* it.
AgeEnforced ==
    Server /\ MaxAge > 0 /\ chState # "closed" => now < MaxAge + Jitter + closeGrace

\* A closed keeper goes quiet: a callback that the wheel runs after Close does
\* not get to the channel and its timer is never armed again, by itself or by
\* an earlier run of it, so that the wheel does not turn for a dead channel.
DoneGoesQuiet ==
    \A c \in late : timer[c] = Never /\ cb[c] \in {"none", "start"}
=============================================================================
