---------------------------- MODULE KeeperProofs ----------------------------
(***************************************************************************)
(* Proofs, for all durations and configurations, about the keeper of a     *)
(* channel (Keeper.tla).                                                   *)
(*                                                                         *)
(* IndInv holds however time passes.  TimedInv needs that none passes      *)
(* inside a callback (~Preempted), which the four bounds rest on: timers   *)
(* are not behind the clock (Prompt), a keeper that is done has a channel  *)
(* that is about to be closed (DoneSoon), each check of a live channel is  *)
(* armed, running or in its grace (Alive), and how far the clock and the   *)
(* armed timers can be ahead of the last sign of life of the peer          *)
(* (HealthInv), the begin of the idle time (IdleInv) and the birth of the  *)
(* channel (AgeInv).                                                       *)
(***************************************************************************)
EXTENDS Keeper, TLAPS

Past == \A t \in {lastRead, lastPing, lastPong, idle, owedPong} : t <= now

LabelInv ==
    /\ cb["health"] \in {"none", "start", "check", "ping", "pinged", "stop", "close"}
    /\ \A c \in Graces : cb[c] \in {"none", "start", "check", "goaway", "stop", "close", "grace"}
    /\ cb["age"] # "check"

LateInv == late # {} => done

IndInv == TypeOK /\ Past /\ LabelInv /\ LateInv /\ DoneGoesQuiet

-----------------------------------------------------------------------------
(* While no time passes inside a callback *)

Prompt ==
    /\ \A c \in Checks : timer[c] = Never \/ now <= timer[c]
    /\ \A c \in Graces : grace[c] = Never \/ now <= grace[c]

DoneSoon ==
    done /\ chState # "closed" => closing \/ \E c \in Checks : cb[c] = "close"

\* Keepalive arms the timer of check c.
Applies(c) ==
    CASE c = "idle"   -> Server /\ MaxIdle > 0
      [] c = "age"    -> Server /\ MaxAge > 0
      [] c = "health" -> time > 0

Alive ==
    /\ ~done /\ chState # "closed" =>
        \A c \in Graces : Applies(c) => timer[c] # Never \/ cb[c] # "none" \/ grace[c] # Never
    /\ ~done /\ chState = "open" /\ time > 0 => timer["health"] # Never \/ cb["health"] # "none"

\* The last sign of life, and how long after it the peer is asked for another.
heard == Largest(0, Largest(lastRead, lastPong))
patience == Largest(time, timeout)

HealthInv ==
    /\ lastPing <= heard + patience
    /\ timer["health"] # Never => \/ timer["health"] <= heard + patience
                                  \/ timer["health"] <= lastPing + timeout
    /\ cb["health"] \in {"start", "check"} => \/ now <= heard + patience
                                              \/ now <= lastPing + timeout
    /\ cb["health"] \in {"ping", "pinged"} => now <= heard + patience

AnswerInv ==
    /\ lastPing > lastPong => owedPong # Never
    /\ cb["health"] = "pinged" => owedPong # Never \/ lastPong = now

IdleInv ==
    /\ timer["idle"] <= now + MaxIdle /\ grace["idle"] <= now + closeGrace
    /\ idle # Never =>
        /\ timer["idle"] <= idle + MaxIdle
        /\ grace["idle"] <= idle + MaxIdle + closeGrace
        /\ cb["idle"] # "none" => now <= idle + MaxIdle

AgeInv ==
    /\ timer["age"] < MaxAge + Jitter
    /\ cb["age"] # "none" => now < MaxAge + Jitter
    /\ grace["age"] < MaxAge + Jitter + closeGrace

TimedInv ==
    /\ Prompt /\ DoneSoon /\ Alive
    /\ HealthInv /\ AnswerInv /\ IdleInv /\ AgeInv
    /\ SilentPeerClosed /\ AnsweredNotGivenUp /\ IdleEnforced /\ AgeEnforced
-----------------------------------------------------------------------------
(* Durations *)

\* The durations after the defaults were put in: grace and timeout are never
\* zero, and the zero time stamp is further away than Time.
LEMMA Durations ==
    /\ MaxIdle \in Nat /\ MaxAge \in Nat /\ Jitter \in Nat /\ Jitter > 0 /\ Horizon \in Nat
    /\ closeGrace \in Nat /\ closeGrace > 0
    /\ time \in Nat /\ timeout \in Nat /\ timeout > 0
    /\ Never = -1 /\ Epoch \in Int /\ Epoch < -time
    /\ patience \in Nat /\ time <= patience /\ timeout <= patience
<1>1. closeGrace \in Nat /\ closeGrace > 0 /\ timeout \in Nat /\ timeout > 0 /\ time \in Nat
  BY DurationsAssumption DEF closeGrace, timeout, time
<1>2. QED
  BY <1>1, DurationsAssumption DEF Never, Epoch, patience, Largest

\* The jitter takes an age neither to zero nor to twice itself.
LEMMA JitteredRange ==
    ASSUME NEW a \in Jittered
    PROVE  /\ a \in Int /\ a < MaxAge + Jitter
           /\ a > 0 <=> MaxAge > 0
BY DurationsAssumption DEF Jittered

\* No step leaves the types.
LEMMA TypeStep ==
    ASSUME TypeOK, Past, Step, UNCHANGED maxAge
    PROVE  TypeOK'
<1> USE Durations DEF TypeOK, Checks, Graces, Kinds, Instant, Stamp, Pending,
       Labels, taskVars, chVars, timerVars, closeVars, pingVars
<1>1. ASSUME Advance PROVE TypeOK'
  BY <1>1 DEF Advance, Quiet
<1>2. ASSUME NEW c \in Checks, Run(c) PROVE TypeOK'
  BY <1>2 DEF Run, Goto
<1>3. ASSUME NEW c \in Checks, Start(c) PROVE TypeOK'
  BY <1>3 DEF Start, Goto, Closed
<1>4. ASSUME NEW c \in Checks, StopMark(c) PROVE TypeOK'
  BY <1>4 DEF StopMark, Goto, AfterStop
<1>5. ASSUME NEW c \in Checks, StopClose(c) PROVE TypeOK'
  BY <1>5 DEF StopClose, Goto, AfterStop
<1>6. ASSUME IdleCheck PROVE TypeOK'
  BY <1>6 DEF IdleCheck, Goto, LookAgain, Rearm
<1>7. ASSUME HealthCheck PROVE TypeOK'
  BY <1>7 DEF HealthCheck, Goto, Rearm, Talking, silent, waited
<1>8. ASSUME SendPing PROVE TypeOK'
  BY <1>8 DEF SendPing, Goto, Writes
<1>9. ASSUME Pinged PROVE TypeOK'
  BY <1>9 DEF Pinged, Goto, Rearm, PingTime
<1>10. ASSUME NEW c \in Graces, GoAwayChannel(c) PROVE TypeOK'
  BY <1>10 DEF GoAwayChannel, Goto, Writes
<1>11. ASSUME NEW c \in Graces, GraceArm(c) PROVE TypeOK'
  BY <1>11 DEF GraceArm, Goto, GraceEnd
<1>12. ASSUME NEW c \in Graces, GraceRun(c) PROVE TypeOK'
  BY <1>12 DEF GraceRun
<1>13. ASSUME NEW k \in Kinds, TaskStart(k) PROVE TypeOK'
  BY <1>13 DEF TaskStart
<1>14. ASSUME NEW k \in Kinds, TaskEnd(k) PROVE TypeOK'
  BY <1>14 DEF TaskEnd
<1>15. ASSUME Pong PROVE TypeOK'
  BY <1>15 DEF Pong, PongTime
<1>16. ASSUME CloseReader PROVE TypeOK'
  BY <1>16 DEF CloseReader
<1>17. ASSUME Close PROVE TypeOK'
  BY <1>17 DEF Close
<1>18. ASSUME KeeperClose PROVE TypeOK'
  BY <1>18 DEF KeeperClose
<1> HIDE DEF TypeOK, Checks, Graces, Kinds, Instant, Stamp, Pending, Labels
<1>19. QED
  BY <1>1, <1>2, <1>3, <1>4, <1>5, <1>6, <1>7, <1>8, <1>9, <1>10, <1>11,
     <1>12, <1>13, <1>14, <1>15, <1>16, <1>17, <1>18 DEF Step

\* No time stamp is ahead of the clock.
LEMMA PastStep ==
    ASSUME TypeOK, Past, Step
    PROVE  Past'
<1> USE Durations DEF TypeOK, Past, Instant, Stamp, taskVars, chVars,
       timerVars, closeVars, pingVars
<1>1. ASSUME Advance PROVE Past'
  BY <1>1 DEF Advance, Quiet
<1>2. ASSUME NEW c \in Checks, Run(c) \/ Start(c) PROVE Past'
  BY <1>2 DEF Run, Goto, Start, Closed
<1>3. ASSUME NEW c \in Checks, StopMark(c) \/ StopClose(c) PROVE Past'
  BY <1>3 DEF StopMark, Goto, AfterStop, StopClose
<1>4. ASSUME IdleCheck PROVE Past'
  BY <1>4 DEF IdleCheck, Goto, LookAgain, Rearm
<1>5. ASSUME HealthCheck PROVE Past'
  BY <1>5 DEF HealthCheck, Goto, Rearm, Talking, silent, waited
<1>6. ASSUME SendPing \/ Pinged PROVE Past'
  BY <1>6 DEF SendPing, Goto, Writes, Pinged, Rearm, PingTime
<1>7. ASSUME NEW c \in Graces, GoAwayChannel(c) \/ GraceArm(c) \/
        GraceRun(c)
      PROVE  Past'
  BY <1>7 DEF GoAwayChannel, Goto, Writes, GraceArm, GraceEnd, GraceRun
<1>8. ASSUME NEW k \in Kinds, TaskStart(k) \/ TaskEnd(k) PROVE Past'
  BY <1>8 DEF TaskStart, TaskEnd
<1>9. ASSUME Pong \/ CloseReader \/ Close \/ KeeperClose PROVE Past'
  BY <1>9 DEF Pong, PongTime, CloseReader, Close, KeeperClose
<1> HIDE DEF TypeOK, Past, Instant, Stamp
<1>10. QED
  BY <1>1, <1>2, <1>3, <1>4, <1>5, <1>6, <1>7, <1>8, <1>9 DEF Step

\* Every callback keeps to its own labels.
LEMMA LabelStep ==
    ASSUME TypeOK, LabelInv, Step
    PROVE  LabelInv'
<1> USE DEF TypeOK, LabelInv, Checks, Graces, taskVars, chVars, timerVars,
       closeVars, pingVars
<1>1. ASSUME Advance PROVE LabelInv'
  BY <1>1 DEF Advance, Quiet
<1>2. ASSUME NEW c \in Checks, Run(c) \/ Start(c) PROVE LabelInv'
  BY <1>2 DEF Run, Goto, Start, Closed
<1>3. ASSUME NEW c \in Checks, StopMark(c) \/ StopClose(c) PROVE LabelInv'
  BY <1>3 DEF StopMark, Goto, AfterStop, StopClose
<1>4. ASSUME IdleCheck PROVE LabelInv'
  BY <1>4 DEF IdleCheck, Goto, LookAgain, Rearm
<1>5. ASSUME HealthCheck PROVE LabelInv'
  BY <1>5 DEF HealthCheck, Goto, Rearm, Talking, silent, waited
<1>6. ASSUME SendPing \/ Pinged PROVE LabelInv'
  BY <1>6 DEF SendPing, Goto, Writes, Pinged, Rearm, PingTime
<1>7. ASSUME NEW c \in Graces, GoAwayChannel(c) \/ GraceArm(c) \/
        GraceRun(c)
      PROVE  LabelInv'
  BY <1>7 DEF GoAwayChannel, Goto, Writes, GraceArm, GraceEnd, GraceRun
<1>8. ASSUME NEW k \in Kinds, TaskStart(k) \/ TaskEnd(k) PROVE LabelInv'
  BY <1>8 DEF TaskStart, TaskEnd
<1>9. ASSUME Pong \/ CloseReader \/ Close \/ KeeperClose PROVE LabelInv'
  BY <1>9 DEF Pong, PongTime, CloseReader, Close, KeeperClose
<1> HIDE DEF TypeOK, LabelInv, Checks, Graces
<1>10. QED
  BY <1>1, <1>2, <1>3, <1>4, <1>5, <1>6, <1>7, <1>8, <1>9 DEF Step

\* A callback that starts late finds the keeper done.
LEMMA LateStep ==
    ASSUME TypeOK, LabelInv, LateInv, DoneGoesQuiet, Step
    PROVE  LateInv' /\ DoneGoesQuiet'
<1> USE Durations DEF TypeOK, LabelInv, LateInv, DoneGoesQuiet, Checks,
       Graces, taskVars, chVars, timerVars, closeVars, pingVars
<1>1. ASSUME Advance PROVE LateInv' /\ DoneGoesQuiet'
  BY <1>1 DEF Advance, Quiet
<1>2. ASSUME NEW c \in Checks, Run(c) \/ Start(c)
      PROVE  LateInv' /\ DoneGoesQuiet'
  BY <1>2, ZenonT(30) DEF Run, Goto, Start, Closed
<1>3. ASSUME NEW c \in Checks, StopMark(c) \/ StopClose(c)
      PROVE  LateInv' /\ DoneGoesQuiet'
  BY <1>3 DEF StopMark, Goto, AfterStop, StopClose
<1>4. ASSUME IdleCheck PROVE LateInv' /\ DoneGoesQuiet'
  BY <1>4 DEF IdleCheck, Goto, LookAgain, Rearm
<1>5. ASSUME HealthCheck PROVE LateInv' /\ DoneGoesQuiet'
  BY <1>5 DEF HealthCheck, Goto, Rearm, Talking, silent, waited
<1>6. ASSUME SendPing \/ Pinged PROVE LateInv' /\ DoneGoesQuiet'
  BY <1>6 DEF SendPing, Goto, Writes, Pinged, Rearm, PingTime
<1>7. ASSUME NEW c \in Graces, GoAwayChannel(c) \/ GraceArm(c) \/
        GraceRun(c)
      PROVE  LateInv' /\ DoneGoesQuiet'
  BY <1>7 DEF GoAwayChannel, Goto, Writes, GraceArm, GraceEnd, GraceRun
<1>8. ASSUME NEW k \in Kinds, TaskStart(k) \/ TaskEnd(k)
      PROVE  LateInv' /\ DoneGoesQuiet'
  BY <1>8 DEF TaskStart, TaskEnd
<1>9. ASSUME Pong \/ CloseReader \/ Close \/ KeeperClose
      PROVE  LateInv' /\ DoneGoesQuiet'
  BY <1>9 DEF Pong, PongTime, CloseReader, Close, KeeperClose
<1> HIDE DEF TypeOK, LabelInv, LateInv, DoneGoesQuiet, Checks, Graces
<1>10. QED
  BY <1>1, <1>2, <1>3, <1>4, <1>5, <1>6, <1>7, <1>8, <1>9 DEF Step

\* While no time passes inside a callback, no timer falls behind the clock.
LEMMA PromptStep ==
    ASSUME TypeOK, Past, Prompt, ~Preempted, Step
    PROVE  Prompt'
<1> USE Durations DEF TypeOK, Past, Prompt, Checks, Graces, Instant, Stamp,
       Pending, taskVars, chVars, timerVars, closeVars, pingVars
<1>1. ASSUME Advance PROVE Prompt'
  BY <1>1 DEF Advance, Quiet
<1>2. ASSUME NEW c \in Checks, Run(c) \/ Start(c) PROVE Prompt'
  BY <1>2 DEF Run, Goto, Start, Closed
<1>3. ASSUME NEW c \in Checks, StopMark(c) \/ StopClose(c) PROVE Prompt'
  BY <1>3 DEF StopMark, Goto, AfterStop, StopClose
<1>4. ASSUME IdleCheck PROVE Prompt'
  BY <1>4 DEF IdleCheck, Goto, LookAgain, Rearm
<1>5. ASSUME HealthCheck PROVE Prompt'
  BY <1>5 DEF HealthCheck, Goto, Rearm, Talking, silent, waited
<1>6. ASSUME SendPing \/ Pinged PROVE Prompt'
  BY <1>6 DEF SendPing, Goto, Writes, Pinged, Rearm, PingTime
<1>7. ASSUME NEW c \in Graces, GoAwayChannel(c) \/ GraceArm(c) \/
        GraceRun(c)
      PROVE  Prompt'
  BY <1>7 DEF GoAwayChannel, Goto, Writes, GraceArm, GraceEnd, GraceRun
<1>8. ASSUME NEW k \in Kinds, TaskStart(k) \/ TaskEnd(k) PROVE Prompt'
  BY <1>8 DEF TaskStart, TaskEnd
<1>9. ASSUME Pong \/ CloseReader \/ Close \/ KeeperClose PROVE Prompt'
  BY <1>9 DEF Pong, PongTime, CloseReader, Close, KeeperClose
<1> HIDE DEF TypeOK, Past, Prompt, Checks, Graces, Instant, Stamp, Pending
<1>10. QED
  BY <1>1, <1>2, <1>3, <1>4, <1>5, <1>6, <1>7, <1>8, <1>9 DEF Step

\* A keeper that is done has a channel that is closed, or about to be.
LEMMA DoneSoonStep ==
    ASSUME TypeOK, LabelInv, DoneSoon, Step
    PROVE  DoneSoon'
<1> USE DEF TypeOK, DoneSoon, Checks, Graces, taskVars, chVars, timerVars,
       closeVars, pingVars
<1>1. ASSUME Advance PROVE DoneSoon'
  BY <1>1 DEF Advance, Quiet
<1>2. ASSUME NEW c \in Checks, Run(c) \/ Start(c) PROVE DoneSoon'
  BY <1>2 DEF Run, Goto, Start, Closed
<1>3. ASSUME NEW c \in Checks, StopMark(c) \/ StopClose(c) PROVE DoneSoon'
  BY <1>3 DEF StopMark, Goto, AfterStop, StopClose
<1>4. ASSUME IdleCheck PROVE DoneSoon'
  BY <1>4 DEF IdleCheck, Goto, LookAgain, Rearm
<1>5. ASSUME HealthCheck PROVE DoneSoon'
  BY <1>5 DEF HealthCheck, Goto, Rearm, Talking, silent, waited
<1>6. ASSUME SendPing \/ Pinged PROVE DoneSoon'
  BY <1>6 DEF SendPing, Goto, Writes, Pinged, Rearm, PingTime
<1>7. ASSUME NEW c \in Graces, GoAwayChannel(c) \/ GraceArm(c) \/
        GraceRun(c)
      PROVE  DoneSoon'
  BY <1>7 DEF GoAwayChannel, Goto, Writes, GraceArm, GraceEnd, GraceRun
<1>8. ASSUME NEW k \in Kinds, TaskStart(k) \/ TaskEnd(k) PROVE DoneSoon'
  BY <1>8 DEF TaskStart, TaskEnd
<1>9. ASSUME Pong \/ CloseReader \/ Close \/ KeeperClose PROVE DoneSoon'
  BY <1>9 DEF Pong, PongTime, CloseReader, Close, KeeperClose
<1> HIDE DEF TypeOK, DoneSoon, Checks, Graces
<1>10. QED
  BY <1>1, <1>2, <1>3, <1>4, <1>5, <1>6, <1>7, <1>8, <1>9 DEF Step

\* Each check of a live channel stays armed, running or in its grace.
LEMMA AliveStep ==
    ASSUME TypeOK, Past, LabelInv, Alive, Step
    PROVE  Alive'
<1> USE Durations DEF TypeOK, Past, LabelInv, Alive, Applies, Checks, Graces,
       Instant, Stamp, taskVars, chVars, timerVars, closeVars, pingVars
<1>1. ASSUME Advance PROVE Alive'
  BY <1>1 DEF Advance, Quiet
<1>2. ASSUME NEW c \in Checks, Run(c) \/ Start(c) PROVE Alive'
  BY <1>2 DEF Run, Goto, Start, Closed
<1>3. ASSUME NEW c \in Checks, StopMark(c) \/ StopClose(c) PROVE Alive'
  BY <1>3 DEF StopMark, Goto, AfterStop, StopClose
<1>4. ASSUME IdleCheck PROVE Alive'
  BY <1>4 DEF IdleCheck, Goto, LookAgain, Rearm
<1>5. ASSUME HealthCheck PROVE Alive'
  BY <1>5 DEF HealthCheck, Goto, Rearm, Talking, silent, waited
<1>6. ASSUME SendPing \/ Pinged PROVE Alive'
  BY <1>6 DEF SendPing, Goto, Writes, Pinged, Rearm, PingTime
<1>7. ASSUME NEW c \in Graces, GoAwayChannel(c) \/ GraceArm(c) \/
        GraceRun(c)
      PROVE  Alive'
  BY <1>7 DEF GoAwayChannel, Goto, Writes, GraceArm, GraceEnd, GraceRun
<1>8. ASSUME NEW k \in Kinds, TaskStart(k) \/ TaskEnd(k) PROVE Alive'
  BY <1>8 DEF TaskStart, TaskEnd
<1>9. ASSUME Pong \/ CloseReader \/ Close \/ KeeperClose PROVE Alive'
  BY <1>9 DEF Pong, PongTime, CloseReader, Close, KeeperClose
<1> HIDE DEF TypeOK, Past, LabelInv, Alive, Applies, Checks, Graces, Instant, Stamp
<1>10. QED
  BY <1>1, <1>2, <1>3, <1>4, <1>5, <1>6, <1>7, <1>8, <1>9 DEF Step

\* The health check stays within its patience.
LEMMA HealthStep ==
    ASSUME TypeOK, Past, LabelInv, Prompt, HealthInv, ~Preempted, Step
    PROVE  HealthInv'
<1> USE Durations DEF TypeOK, Past, LabelInv, Prompt, HealthInv, heard,
       Largest, Checks, Instant, Stamp, Pending, taskVars, chVars, timerVars,
       closeVars, pingVars
<1>1. ASSUME Advance PROVE HealthInv'
  BY <1>1 DEF Advance, Quiet
<1>2. ASSUME NEW c \in Checks, Run(c) \/ Start(c) PROVE HealthInv'
  BY <1>2 DEF Run, Goto, Start, Closed
<1>3. ASSUME NEW c \in Checks, StopMark(c) \/ StopClose(c) PROVE HealthInv'
  BY <1>3 DEF StopMark, Goto, AfterStop, StopClose
<1>4. ASSUME IdleCheck PROVE HealthInv'
  BY <1>4 DEF IdleCheck, Goto, LookAgain, Rearm
<1>5. ASSUME HealthCheck PROVE HealthInv'
  BY <1>5 DEF HealthCheck, Goto, Rearm, Talking, silent, waited
<1>6. ASSUME SendPing \/ Pinged PROVE HealthInv'
  BY <1>6 DEF SendPing, Goto, Writes, Pinged, Rearm, PingTime
<1>7. ASSUME NEW c \in Graces, GoAwayChannel(c) \/ GraceArm(c) \/
        GraceRun(c)
      PROVE  HealthInv'
  BY <1>7 DEF GoAwayChannel, Goto, Writes, GraceArm, GraceEnd, GraceRun
<1>8. ASSUME NEW k \in Kinds, TaskStart(k) \/ TaskEnd(k) PROVE HealthInv'
  BY <1>8 DEF TaskStart, TaskEnd
<1>9. ASSUME Pong \/ CloseReader \/ Close \/ KeeperClose PROVE HealthInv'
  BY <1>9 DEF Pong, PongTime, CloseReader, Close, KeeperClose
<1> HIDE DEF TypeOK, Past, LabelInv, Prompt, HealthInv, heard, Largest, Checks, Instant, Stamp, Pending
<1>10. QED
  BY <1>1, <1>2, <1>3, <1>4, <1>5, <1>6, <1>7, <1>8, <1>9 DEF Step

\* The Ping sent last is unanswered, or its answer is on record.
LEMMA AnswerStep ==
    ASSUME TypeOK, Past, LabelInv, AnswerInv, ~Preempted, Step
    PROVE  AnswerInv'
<1> USE Durations DEF TypeOK, Past, LabelInv, AnswerInv, Checks, Instant,
       Stamp, taskVars, chVars, timerVars, closeVars, pingVars
<1>1. ASSUME Advance PROVE AnswerInv'
  BY <1>1 DEF Advance, Quiet
<1>2. ASSUME NEW c \in Checks, Run(c) \/ Start(c) PROVE AnswerInv'
  BY <1>2 DEF Run, Goto, Start, Closed
<1>3. ASSUME NEW c \in Checks, StopMark(c) \/ StopClose(c) PROVE AnswerInv'
  BY <1>3 DEF StopMark, Goto, AfterStop, StopClose
<1>4. ASSUME IdleCheck PROVE AnswerInv'
  BY <1>4 DEF IdleCheck, Goto, LookAgain, Rearm
<1>5. ASSUME HealthCheck PROVE AnswerInv'
  BY <1>5 DEF HealthCheck, Goto, Rearm, Talking, silent, waited
<1>6. ASSUME SendPing \/ Pinged PROVE AnswerInv'
  BY <1>6 DEF SendPing, Goto, Writes, Pinged, Rearm, PingTime
<1>7. ASSUME NEW c \in Graces, GoAwayChannel(c) \/ GraceArm(c) \/
        GraceRun(c)
      PROVE  AnswerInv'
  BY <1>7 DEF GoAwayChannel, Goto, Writes, GraceArm, GraceEnd, GraceRun
<1>8. ASSUME NEW k \in Kinds, TaskStart(k) \/ TaskEnd(k) PROVE AnswerInv'
  BY <1>8 DEF TaskStart, TaskEnd
<1>9. ASSUME Pong \/ CloseReader \/ Close \/ KeeperClose PROVE AnswerInv'
  BY <1>9 DEF Pong, PongTime, CloseReader, Close, KeeperClose
<1> HIDE DEF TypeOK, Past, LabelInv, AnswerInv, Checks, Instant, Stamp
<1>10. QED
  BY <1>1, <1>2, <1>3, <1>4, <1>5, <1>6, <1>7, <1>8, <1>9 DEF Step

\* The idle check stays close to the begin of the idle time.
LEMMA IdleStep ==
    ASSUME TypeOK, Past, LabelInv, Prompt, IdleInv, ~Preempted, Step
    PROVE  IdleInv'
<1> USE Durations DEF TypeOK, Past, LabelInv, Prompt, IdleInv, Checks, Graces,
       Instant, Pending, taskVars, chVars, timerVars, closeVars, pingVars
<1>1. ASSUME Advance PROVE IdleInv'
  BY <1>1 DEF Advance, Quiet
<1>2. ASSUME NEW c \in Checks, Run(c) \/ Start(c) PROVE IdleInv'
  BY <1>2 DEF Run, Goto, Start, Closed
<1>3. ASSUME NEW c \in Checks, StopMark(c) \/ StopClose(c) PROVE IdleInv'
  BY <1>3 DEF StopMark, Goto, AfterStop, StopClose
<1>4. ASSUME IdleCheck PROVE IdleInv'
  BY <1>4 DEF IdleCheck, Goto, LookAgain, Rearm
<1>5. ASSUME HealthCheck PROVE IdleInv'
  BY <1>5 DEF HealthCheck, Goto, Rearm, Talking, silent, waited
<1>6. ASSUME SendPing \/ Pinged PROVE IdleInv'
  BY <1>6 DEF SendPing, Goto, Writes, Pinged, Rearm, PingTime
<1>7. ASSUME NEW c \in Graces, GoAwayChannel(c) \/ GraceArm(c) \/
        GraceRun(c)
      PROVE  IdleInv'
  BY <1>7 DEF GoAwayChannel, Goto, Writes, GraceArm, GraceEnd, GraceRun
<1>8. ASSUME NEW k \in Kinds, TaskStart(k) \/ TaskEnd(k) PROVE IdleInv'
  BY <1>8 DEF TaskStart, TaskEnd
<1>9. ASSUME Pong \/ CloseReader \/ Close \/ KeeperClose PROVE IdleInv'
  BY <1>9 DEF Pong, PongTime, CloseReader, Close, KeeperClose
<1> HIDE DEF TypeOK, Past, LabelInv, Prompt, IdleInv, Checks, Graces, Instant, Pending
<1>10. QED
  BY <1>1, <1>2, <1>3, <1>4, <1>5, <1>6, <1>7, <1>8, <1>9 DEF Step

\* The age check stays close to the age.
LEMMA AgeStep ==
    ASSUME TypeOK, Past, LabelInv, Prompt, AgeInv, ~Preempted, Step
    PROVE  AgeInv'
<1> USE Durations DEF TypeOK, Past, LabelInv, Prompt, AgeInv, Checks, Graces,
       Pending, taskVars, chVars, timerVars, closeVars, pingVars
<1>1. ASSUME Advance PROVE AgeInv'
  BY <1>1 DEF Advance, Quiet
<1>2. ASSUME NEW c \in Checks, Run(c) \/ Start(c) PROVE AgeInv'
  BY <1>2 DEF Run, Goto, Start, Closed
<1>3. ASSUME NEW c \in Checks, StopMark(c) \/ StopClose(c) PROVE AgeInv'
  BY <1>3 DEF StopMark, Goto, AfterStop, StopClose
<1>4. ASSUME IdleCheck PROVE AgeInv'
  BY <1>4 DEF IdleCheck, Goto, LookAgain, Rearm
<1>5. ASSUME HealthCheck PROVE AgeInv'
  BY <1>5 DEF HealthCheck, Goto, Rearm, Talking, silent, waited
<1>6. ASSUME SendPing \/ Pinged PROVE AgeInv'
  BY <1>6 DEF SendPing, Goto, Writes, Pinged, Rearm, PingTime
<1>7. ASSUME NEW c \in Graces, GoAwayChannel(c) \/ GraceArm(c) \/
        GraceRun(c)
      PROVE  AgeInv'
  BY <1>7 DEF GoAwayChannel, Goto, Writes, GraceArm, GraceEnd, GraceRun
<1>8. ASSUME NEW k \in Kinds, TaskStart(k) \/ TaskEnd(k) PROVE AgeInv'
  BY <1>8 DEF TaskStart, TaskEnd
<1>9. ASSUME Pong \/ CloseReader \/ Close \/ KeeperClose PROVE AgeInv'
  BY <1>9 DEF Pong, PongTime, CloseReader, Close, KeeperClose
<1> HIDE DEF TypeOK, Past, LabelInv, Prompt, AgeInv, Checks, Graces, Pending
<1>10. QED
  BY <1>1, <1>2, <1>3, <1>4, <1>5, <1>6, <1>7, <1>8, <1>9 DEF Step

\* When time passes, a channel that is not closed has its checks armed or in
\* their grace, all of them later than now.
LEMMA QuietIsArmed ==
    ASSUME IndInv, TimedInv, Advance, ~Preempted, chState # "closed"
    PROVE  /\ Server /\ MaxIdle > 0 => now < timer["idle"] \/ now < grace["idle"]
           /\ Server /\ MaxAge > 0 => now < timer["age"] \/ now < grace["age"]
           /\ time > 0 /\ chState = "open" => now < timer["health"]
<1>1. Quiet /\ now \in Int /\ timer \in [Checks -> Pending] /\ grace \in [Graces -> Pending]
  BY DEF Advance, IndInv, TypeOK
<1>2. ~done
  BY <1>1 DEF TimedInv, DoneSoon, Quiet
<1>3. ASSUME NEW c \in Graces, Applies(c) PROVE timer[c] # Never \/ grace[c] # Never
  BY <1>1, <1>2, <1>3 DEF TimedInv, Alive, Quiet, Checks, Graces
<1>4. time > 0 /\ chState = "open" => timer["health"] # Never
  BY <1>1, <1>2 DEF TimedInv, Alive, Quiet, Checks
<1>5. ASSUME NEW c \in Checks, timer[c] # Never PROVE now < timer[c]
  BY <1>1, <1>5, Durations DEF TimedInv, Prompt, Quiet, Pending
<1>6. ASSUME NEW c \in Graces, grace[c] # Never PROVE now < grace[c]
  BY <1>1, <1>6, Durations DEF TimedInv, Prompt, Quiet, Pending
<1>7. QED
  BY <1>3, <1>4, <1>5, <1>6 DEF Applies, Checks, Graces


\* A silent peer does not keep its channel.
LEMMA SilentStep ==
    ASSUME IndInv, TimedInv, ~Preempted, Step, UNCHANGED maxAge
    PROVE  SilentPeerClosed'
<1> USE Durations DEF IndInv, TypeOK, Past, TimedInv, SilentPeerClosed,
       Largest, Instant, Stamp, taskVars, chVars, timerVars, closeVars,
       pingVars
<1>1. ASSUME Advance PROVE SilentPeerClosed'
  BY <1>1, QuietIsArmed DEF Advance, Quiet, HealthInv, heard, patience,
     Checks, Pending
<1>2. ASSUME NEW c \in Checks, Run(c) \/ Start(c) PROVE SilentPeerClosed'
  BY <1>2 DEF Run, Goto, Start, Closed
<1>3. ASSUME NEW c \in Checks, StopMark(c) \/ StopClose(c)
      PROVE  SilentPeerClosed'
  BY <1>3 DEF StopMark, Goto, AfterStop, StopClose
<1>4. ASSUME IdleCheck PROVE SilentPeerClosed'
  BY <1>4 DEF IdleCheck, Goto, LookAgain, Rearm
<1>5. ASSUME HealthCheck PROVE SilentPeerClosed'
  BY <1>5 DEF HealthCheck, Goto, Rearm, Talking, silent, waited
<1>6. ASSUME SendPing \/ Pinged PROVE SilentPeerClosed'
  BY <1>6 DEF SendPing, Goto, Writes, Pinged, Rearm, PingTime
<1>7. ASSUME NEW c \in Graces, GoAwayChannel(c) \/ GraceArm(c) \/
        GraceRun(c)
      PROVE  SilentPeerClosed'
  BY <1>7 DEF GoAwayChannel, Goto, Writes, GraceArm, GraceEnd, GraceRun
<1>8. ASSUME NEW k \in Kinds, TaskStart(k) \/ TaskEnd(k)
      PROVE  SilentPeerClosed'
  BY <1>8 DEF TaskStart, TaskEnd
<1>9. ASSUME Pong \/ CloseReader \/ Close \/ KeeperClose
      PROVE  SilentPeerClosed'
  BY <1>9 DEF Pong, PongTime, CloseReader, Close, KeeperClose
<1> HIDE DEF IndInv, TypeOK, Past, TimedInv, SilentPeerClosed, Largest, Instant, Stamp
<1>10. QED
  BY <1>1, <1>2, <1>3, <1>4, <1>5, <1>6, <1>7, <1>8, <1>9 DEF Step

\* An answer is seen.
LEMMA AnsweredStep ==
    ASSUME IndInv, TimedInv, ~Preempted, Step, UNCHANGED maxAge
    PROVE  AnsweredNotGivenUp'
<1> USE Durations DEF IndInv, TypeOK, Past, TimedInv, AnsweredNotGivenUp,
       AnswerInv, taskVars, chVars, timerVars, closeVars, pingVars
<1>1. ASSUME Advance PROVE AnsweredNotGivenUp'
  BY <1>1, QuietIsArmed DEF Advance, Quiet
<1>2. ASSUME NEW c \in Checks, Run(c) \/ Start(c) PROVE AnsweredNotGivenUp'
  BY <1>2 DEF Run, Goto, Start, Closed
<1>3. ASSUME NEW c \in Checks, StopMark(c) \/ StopClose(c)
      PROVE  AnsweredNotGivenUp'
  BY <1>3 DEF StopMark, Goto, AfterStop, StopClose
<1>4. ASSUME IdleCheck PROVE AnsweredNotGivenUp'
  BY <1>4 DEF IdleCheck, Goto, LookAgain, Rearm
<1>5. ASSUME HealthCheck PROVE AnsweredNotGivenUp'
  BY <1>5 DEF HealthCheck, Goto, Rearm, Talking, silent, waited
<1>6. ASSUME SendPing \/ Pinged PROVE AnsweredNotGivenUp'
  BY <1>6 DEF SendPing, Goto, Writes, Pinged, Rearm, PingTime
<1>7. ASSUME NEW c \in Graces, GoAwayChannel(c) \/ GraceArm(c) \/
        GraceRun(c)
      PROVE  AnsweredNotGivenUp'
  BY <1>7 DEF GoAwayChannel, Goto, Writes, GraceArm, GraceEnd, GraceRun
<1>8. ASSUME NEW k \in Kinds, TaskStart(k) \/ TaskEnd(k)
      PROVE  AnsweredNotGivenUp'
  BY <1>8 DEF TaskStart, TaskEnd
<1>9. ASSUME Pong \/ CloseReader \/ Close \/ KeeperClose
      PROVE  AnsweredNotGivenUp'
  BY <1>9 DEF Pong, PongTime, CloseReader, Close, KeeperClose
<1> HIDE DEF IndInv, TypeOK, Past, TimedInv, AnsweredNotGivenUp, AnswerInv
<1>10. QED
  BY <1>1, <1>2, <1>3, <1>4, <1>5, <1>6, <1>7, <1>8, <1>9 DEF Step

\* An idle channel is closed.
LEMMA IdleEnforcedStep ==
    ASSUME IndInv, TimedInv, ~Preempted, Step, UNCHANGED maxAge
    PROVE  IdleEnforced'
<1> USE Durations DEF IndInv, TypeOK, Past, TimedInv, IdleEnforced, Instant,
       taskVars, chVars, timerVars, closeVars, pingVars
<1>1. ASSUME Advance PROVE IdleEnforced'
  BY <1>1, QuietIsArmed DEF Advance, Quiet, IdleInv, Checks, Graces, Pending
<1>2. ASSUME NEW c \in Checks, Run(c) \/ Start(c) PROVE IdleEnforced'
  BY <1>2 DEF Run, Goto, Start, Closed
<1>3. ASSUME NEW c \in Checks, StopMark(c) \/ StopClose(c) PROVE IdleEnforced'
  BY <1>3 DEF StopMark, Goto, AfterStop, StopClose
<1>4. ASSUME IdleCheck PROVE IdleEnforced'
  BY <1>4 DEF IdleCheck, Goto, LookAgain, Rearm
<1>5. ASSUME HealthCheck PROVE IdleEnforced'
  BY <1>5 DEF HealthCheck, Goto, Rearm, Talking, silent, waited
<1>6. ASSUME SendPing \/ Pinged PROVE IdleEnforced'
  BY <1>6 DEF SendPing, Goto, Writes, Pinged, Rearm, PingTime
<1>7. ASSUME NEW c \in Graces, GoAwayChannel(c) \/ GraceArm(c) \/
        GraceRun(c)
      PROVE  IdleEnforced'
  BY <1>7 DEF GoAwayChannel, Goto, Writes, GraceArm, GraceEnd, GraceRun
<1>8. ASSUME NEW k \in Kinds, TaskStart(k) \/ TaskEnd(k) PROVE IdleEnforced'
  BY <1>8 DEF TaskStart, TaskEnd
<1>9. ASSUME Pong \/ CloseReader \/ Close \/ KeeperClose PROVE IdleEnforced'
  BY <1>9 DEF Pong, PongTime, CloseReader, Close, KeeperClose
<1> HIDE DEF IndInv, TypeOK, Past, TimedInv, IdleEnforced, Instant
<1>10. QED
  BY <1>1, <1>2, <1>3, <1>4, <1>5, <1>6, <1>7, <1>8, <1>9 DEF Step

\* An old channel is closed.
LEMMA AgeEnforcedStep ==
    ASSUME IndInv, TimedInv, ~Preempted, Step, UNCHANGED maxAge
    PROVE  AgeEnforced'
<1> USE Durations DEF IndInv, TypeOK, Past, TimedInv, AgeEnforced, taskVars,
       chVars, timerVars, closeVars, pingVars
<1>1. ASSUME Advance PROVE AgeEnforced'
  BY <1>1, QuietIsArmed DEF Advance, Quiet, AgeInv, Checks, Graces, Pending
<1>2. ASSUME NEW c \in Checks, Run(c) \/ Start(c) PROVE AgeEnforced'
  BY <1>2 DEF Run, Goto, Start, Closed
<1>3. ASSUME NEW c \in Checks, StopMark(c) \/ StopClose(c) PROVE AgeEnforced'
  BY <1>3 DEF StopMark, Goto, AfterStop, StopClose
<1>4. ASSUME IdleCheck PROVE AgeEnforced'
  BY <1>4 DEF IdleCheck, Goto, LookAgain, Rearm
<1>5. ASSUME HealthCheck PROVE AgeEnforced'
  BY <1>5 DEF HealthCheck, Goto, Rearm, Talking, silent, waited
<1>6. ASSUME SendPing \/ Pinged PROVE AgeEnforced'
  BY <1>6 DEF SendPing, Goto, Writes, Pinged, Rearm, PingTime
<1>7. ASSUME NEW c \in Graces, GoAwayChannel(c) \/ GraceArm(c) \/
        GraceRun(c)
      PROVE  AgeEnforced'
  BY <1>7 DEF GoAwayChannel, Goto, Writes, GraceArm, GraceEnd, GraceRun
<1>8. ASSUME NEW k \in Kinds, TaskStart(k) \/ TaskEnd(k) PROVE AgeEnforced'
  BY <1>8 DEF TaskStart, TaskEnd
<1>9. ASSUME Pong \/ CloseReader \/ Close \/ KeeperClose PROVE AgeEnforced'
  BY <1>9 DEF Pong, PongTime, CloseReader, Close, KeeperClose
<1> HIDE DEF IndInv, TypeOK, Past, TimedInv, AgeEnforced
<1>10. QED
  BY <1>1, <1>2, <1>3, <1>4, <1>5, <1>6, <1>7, <1>8, <1>9 DEF Step

-----------------------------------------------------------------------------
(* The invariants *)

\* Which timers Keepalive arms.
LEMMA InitTimers ==
    ASSUME Init
    PROVE  /\ timer \in [Checks -> Pending]
           /\ timer["idle"] = IF Server /\ MaxIdle > 0 THEN MaxIdle ELSE Never
           /\ timer["age"] = IF Server /\ maxAge > 0 THEN maxAge ELSE Never
           /\ timer["health"] = IF time > 0 THEN time ELSE Never
<1>1. maxAge \in Int /\ maxAge < MaxAge + Jitter
  BY JitteredRange DEF Init
<1>2. /\ timer["idle"] = IF Server /\ MaxIdle > 0 THEN MaxIdle ELSE Never
      /\ timer["age"] = IF Server /\ maxAge > 0 THEN maxAge ELSE Never
      /\ timer["health"] = IF time > 0 THEN time ELSE Never
  BY DEF Init, Checks
<1>3. \A c \in Checks : timer[c] \in Pending
  BY <1>1, <1>2, Durations DEF Checks, Pending
<1>4. QED
  BY <1>2, <1>3 DEF Init

\* What holds when Keepalive has armed its timers, however time passes ...
LEMMA IndInit == Init => IndInv
<1> SUFFICES ASSUME Init PROVE IndInv
  OBVIOUS
<1>1. TypeOK
  <2>1. timer \in [Checks -> Pending]
    BY InitTimers
  <2>2. grace \in [Graces -> Pending] /\ cb \in [Checks -> Labels]
    BY Durations DEF Init, Pending, Labels
  <2>3. /\ now \in 0 .. Horizon /\ idle \in Instant /\ owedPong \in Instant
        /\ lastRead \in Stamp /\ lastPing \in Stamp /\ lastPong \in Stamp
    BY Durations DEF Init, Instant, Stamp
  <2>4. /\ maxAge \in Jittered /\ chState = "open" /\ tasks = {} /\ done = FALSE
        /\ closing = FALSE /\ verdict = "none" /\ late = {}
    BY DEF Init
  <2>5. QED
    BY <2>1, <2>2, <2>3, <2>4 DEF TypeOK
<1>2. Past /\ LabelInv /\ LateInv /\ DoneGoesQuiet
  BY Durations DEF Init, Past, LabelInv, LateInv, DoneGoesQuiet, Checks, Graces
<1>3. QED
  BY <1>1, <1>2 DEF IndInv

\* ... and after every step.
LEMMA IndStep == IndInv /\ [Next]_vars => IndInv'
<1> SUFFICES ASSUME IndInv, [Next]_vars PROVE IndInv'
  OBVIOUS
<1>1. CASE Next
  <2>1. TypeOK' /\ Past' /\ LabelInv' /\ LateInv' /\ DoneGoesQuiet'
    BY <1>1, TypeStep, PastStep, LabelStep, LateStep DEF IndInv, Next
  <2>2. QED
    BY <2>1 DEF IndInv
<1>2. CASE UNCHANGED vars
  BY <1>2 DEF vars, taskVars, chVars, timerVars, closeVars, pingVars, IndInv, TypeOK, Past,
              LabelInv, LateInv, DoneGoesQuiet
<1>3. QED
  BY <1>1, <1>2

\* The bounds at the birth of the channel ...
LEMMA TimedInit == Init => TimedInv
<1> SUFFICES ASSUME Init PROVE TimedInv
  OBVIOUS
<1>1. maxAge \in Int /\ maxAge < MaxAge + Jitter /\ (MaxAge > 0 <=> maxAge > 0)
  BY JitteredRange DEF Init
<1>2. /\ now = 0 /\ chState = "open" /\ idle = 0 /\ lastRead = Epoch /\ done = FALSE
      /\ lastPing = Epoch /\ lastPong = Epoch /\ owedPong = Never /\ verdict = "none"
      /\ \A c \in Checks : cb[c] = "none"
      /\ \A c \in Graces : grace[c] = Never
  BY DEF Init
<1>3. Prompt /\ DoneSoon /\ Alive
  BY <1>1, <1>2, InitTimers, Durations DEF Prompt, DoneSoon, Alive, Applies, Checks, Graces
<1>4. HealthInv /\ AnswerInv
  BY <1>2, InitTimers, Durations DEF HealthInv, AnswerInv, heard, Largest, Checks
<1>5. IdleInv /\ AgeInv
  BY <1>1, <1>2, InitTimers, Durations DEF IdleInv, AgeInv, Checks, Graces
<1>6. SilentPeerClosed /\ AnsweredNotGivenUp /\ IdleEnforced /\ AgeEnforced
  BY <1>2, Durations DEF SilentPeerClosed, AnsweredNotGivenUp, IdleEnforced, AgeEnforced, Largest
<1>7. QED
  BY <1>3, <1>4, <1>5, <1>6 DEF TimedInv

\* ... and after every step, if callbacks take no time.
LEMMA TimedStep == ~Preempted /\ IndInv /\ TimedInv /\ [Next]_vars => TimedInv'
<1> SUFFICES ASSUME ~Preempted, IndInv, TimedInv, [Next]_vars PROVE TimedInv'
  OBVIOUS
<1>1. CASE Next
  <2>1. Step /\ UNCHANGED maxAge
    BY <1>1 DEF Next
  <2>2. Prompt' /\ DoneSoon' /\ Alive'
    BY <2>1, PromptStep, DoneSoonStep, AliveStep DEF IndInv, TimedInv
  <2>3. HealthInv' /\ AnswerInv' /\ IdleInv' /\ AgeInv'
    BY <2>1, HealthStep, AnswerStep, IdleStep, AgeStep DEF IndInv, TimedInv
  <2>4. SilentPeerClosed' /\ AnsweredNotGivenUp' /\ IdleEnforced' /\ AgeEnforced'
    BY <2>1, SilentStep, AnsweredStep, IdleEnforcedStep, AgeEnforcedStep
  <2>5. QED
    BY <2>2, <2>3, <2>4 DEF TimedInv
<1>2. CASE UNCHANGED vars
  BY <1>2 DEF vars, taskVars, chVars, timerVars, closeVars, pingVars, TimedInv, Prompt, DoneSoon,
              Alive, HealthInv, AnswerInv, IdleInv, AgeInv, heard, SilentPeerClosed,
              AnsweredNotGivenUp, IdleEnforced, AgeEnforced
<1>3. QED
  BY <1>1, <1>2

-----------------------------------------------------------------------------
(* Theorems *)

\* The types, the order of the time stamps and of the labels, however long the
\* callbacks take.
THEOREM KeeperInductive == Spec => []IndInv
BY IndInit, IndStep, PTL DEF Spec

\* The variables of the keeper keep their types: no timer is armed for a time
\* that is past the longest duration.
THEOREM KeeperTypes == Spec => []TypeOK
<1>1. IndInv => TypeOK
  BY DEF IndInv
<1>2. QED
  BY <1>1, KeeperInductive, PTL

\* However long the callbacks take and wherever Close gets in between, a
\* callback that is started after Close ends at once and arms nothing.
THEOREM DoneIsQuiet == Spec => []DoneGoesQuiet
<1>1. IndInv => DoneGoesQuiet
  BY DEF IndInv
<1>2. QED
  BY <1>1, KeeperInductive, PTL

\* What the bounds rest on.  Like them, it is proved for callbacks inside which
\* no time passes; KeeperRace.cfg shows what can happen if it does.
THEOREM TimedInductive ==
    ASSUME ~Preempted PROVE Spec => []TimedInv
<1>1. IndInv /\ TimedInv /\ [Next]_vars => TimedInv'
  BY TimedStep
<1>2. QED
  BY <1>1, TimedInit, KeeperInductive, PTL DEF Spec

\* With any durations, HealthParams.Time below a second and defaults included,
\* and any configuration of the Pings: an open channel has had a message or a
\* Pong within the longer of time and timeout, plus timeout.
THEOREM SilentPeerIsClosed ==
    ASSUME ~Preempted PROVE Spec => []SilentPeerClosed
<1>1. TimedInv => SilentPeerClosed
  BY DEF TimedInv
<1>2. QED
  BY <1>1, TimedInductive, PTL

\* A peer that has answered the last Ping is never given up.
THEOREM AnsweredIsNotGivenUp ==
    ASSUME ~Preempted PROVE Spec => []AnsweredNotGivenUp
<1>1. TimedInv => AnsweredNotGivenUp
  BY DEF TimedInv
<1>2. QED
  BY <1>1, TimedInductive, PTL

\* A server's channel is idle for at most MaxChannelIdleTime and the grace,
\* whether a GoAway is configured or not, written or not.
THEOREM IdleIsEnforced ==
    ASSUME ~Preempted PROVE Spec => []IdleEnforced
<1>1. TimedInv => IdleEnforced
  BY DEF TimedInv
<1>2. QED
  BY <1>1, TimedInductive, PTL

\* A server's channel is never older than MaxChannelAge, its jitter and the
\* grace.
THEOREM AgeIsEnforced ==
    ASSUME ~Preempted PROVE Spec => []AgeEnforced
<1>1. TimedInv => AgeEnforced
  BY DEF TimedInv
<1>2. QED
  BY <1>1, TimedInductive, PTL
=============================================================================
