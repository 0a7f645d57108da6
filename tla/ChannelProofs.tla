--------------------------- MODULE ChannelProofs ---------------------------
(***************************************************************************)
(* Proofs, for every set of calls, about the channel of Channel.tla.       *)
(*                                                                         *)
(* The safety properties are not inductive by themselves.  IndInv adds     *)
(* what each goroutine knows of the others at each of its labels: what the *)
(* deferred clean-up of the closer goroutine has done so far (CleanupInv), *)
(* which calls the WaitGroups count (CountInv), and that a task recorded   *)
(* when Close took effect is never recorded again, so that the wait it is  *)
(* owed, once over, stays over (OwedReadsInv, OwedWritesInv).              *)
(***************************************************************************)
EXTENDS Channel, TLAPS

\* Labels of a call that the Recorder counts, and those after it was counted.
Counted == {"add2", "busy", "handle", "flush", "done1"}
Recorded == Counted \cup {"done2", "end"}

\* A CAS compares with a state that was not inactive, so that it can succeed
\* only while no Close has taken effect.
CloseInv ==
    /\ SingleClose
    /\ \A c \in Closers : cpc[c] = "cas" => old[c] # {}
    /\ state # {} => act = "active"
    /\ winner = NoCloser <=> closer = "none"

\* What the deferred clean-up has done when the closer is at each label.
CleanupInv ==
    /\ done <=> closer \in {"release", "connClose", "end"}
    /\ plch = "self" <=> closer \notin {"connClose", "end"}
    /\ connOpen <=> closer # "end"
    /\ hooksFired => closer \in {"select", "closeDone", "release", "connClose", "end"}
    /\ why = "drained" => closer \in {"closeDone", "release", "connClose", "end"}

\* The counters hold the calls that are between their Add and their Done.
CountInv ==
    /\ \A t \in readTask \cup writeTask : pc[t] \in Recorded
    /\ \A t \in Writes : pc[t] \in Counted => t \in writeTask
    /\ \A t \in Calls : pc[t] # "start" => act = "active"

\* The read tasks recorded when Close took effect are over once the closer
\* goroutine is released from WaitReadTask, and stay so.
OwedReadsInv ==
    /\ \A t \in owedReads : pc[t] \in Recorded
    /\ closer \in {"released", "hooks", "select", "closeDone", "release", "connClose", "end"}
         => owedReads \cap readTask = {}

\* The same of the write tasks and the goroutine in WaitWriteTask.
OwedWritesInv ==
    /\ \A t \in owedWrites : pc[t] \in Recorded
    /\ inner \in {"released", "ready", "panicked"} => owedWrites \cap writeTask = {}
    /\ why = "drained" => inner = "ready"
    /\ inner # "none" => closer \in {"select", "closeDone", "release", "connClose", "end"}
    /\ \A t \in Calls : out[t] = "connErr" => closer = "end"
    /\ \A t \in owedWrites : why = "drained" => out[t] # "connErr"

IndInv ==
    /\ TypeOK
    /\ CloseInv
    /\ CleanupInv
    /\ CountInv
    /\ OwedReadsInv
    /\ OwedWritesInv
    /\ BusyHasWatcher
-----------------------------------------------------------------------------

\* Every action keeps the fields and labels in their types.
LEMMA TypeStep ==
    ASSUME TypeOK, Next
    PROVE  TypeOK'
<1> USE DEF TypeOK, vars, chVars, wgVars, clVars, gorVars, wtVars
<1>1. ASSUME Activate PROVE TypeOK'
  BY <1>1 DEF Activate, readWriteMode
<1>2. ASSUME ActivateFails PROVE TypeOK'
  BY <1>2 DEF ActivateFails
<1>3. ASSUME NEW side \in HalfCloses, HalfClose(side) PROVE TypeOK'
  BY <1>3 DEF HalfClose
<1>4. ASSUME NEW t \in Calls, Admit(t) PROVE TypeOK'
  BY <1>4, CallsDisjoint DEF Admit, Goto, Ended, PCs, Outs, Calls, Tasks
<1>5. ASSUME NEW t \in Calls, Fire(t) PROVE TypeOK'
  BY <1>5, CallsDisjoint DEF Fire, Goto, Ended, PCs, Outs, Calls, Tasks
<1>6. ASSUME NEW t \in Calls, AddTask(t) PROVE TypeOK'
  BY <1>6 DEF AddTask, Goto, PCs
<1>7. ASSUME NEW t \in Calls, AddAll(t) PROVE TypeOK'
  BY <1>7 DEF AddAll, Goto, PCs, Calls, Tasks
<1>8. ASSUME NEW t \in Calls, MarkBusy(t) PROVE TypeOK'
  BY <1>8 DEF MarkBusy, Goto, PCs, WPCs
<1>9. ASSUME NEW t \in Calls, HandleInbound(t) PROVE TypeOK'
  BY <1>9, CallsDisjoint DEF HandleInbound, Goto, PCs, Outs, Calls, Tasks
<1>10. ASSUME NEW t \in Calls, HandlerPanics(t) PROVE TypeOK'
  BY <1>10, CallsDisjoint DEF HandlerPanics, Ended, PCs, Outs, Calls, Tasks
<1>11. ASSUME NEW t \in Calls, GetWriter(t) PROVE TypeOK'
  BY <1>11, CallsDisjoint DEF GetWriter, Goto, AfterOutbound, PCs, Outs, Calls, Tasks
<1>12. ASSUME NEW t \in Calls, Flush(t) PROVE TypeOK'
  BY <1>12 DEF Flush, Goto, AfterOutbound, PCs, Outs, Calls, Tasks
<1>13. ASSUME NEW t \in Calls, DoneTask(t) PROVE TypeOK'
  BY <1>13 DEF DoneTask, Goto, Release, PCs, GPCs, WPCs
<1>14. ASSUME NEW t \in Calls, DoneAll(t) PROVE TypeOK'
  BY <1>14 DEF DoneAll, Goto, Release, PCs, WPCs
<1>15. ASSUME NEW c \in Closers, CloseLoad(c) PROVE TypeOK'
  BY <1>15 DEF CloseLoad, CPCs
<1>16. ASSUME NEW c \in Closers, CloseCAS(c) PROVE TypeOK'
  BY <1>16 DEF CloseCAS, CPCs, GPCs
<1>17. ASSUME WaitReadTask PROVE TypeOK'
  BY <1>17 DEF WaitReadTask, GPCs
<1>18. ASSUME WakeReadTask PROVE TypeOK'
  BY <1>18 DEF WakeReadTask, GPCs, Whys
<1>19. ASSUME FireHooks PROVE TypeOK'
  BY <1>19 DEF FireHooks, GPCs, WPCs, Whys
<1>20. ASSUME HookPanics PROVE TypeOK'
  BY <1>20 DEF HookPanics, GPCs, Whys
<1>21. ASSUME SelectDrained PROVE TypeOK'
  BY <1>21 DEF SelectDrained, GPCs, Whys
<1>22. ASSUME SelectExpired PROVE TypeOK'
  BY <1>22 DEF SelectExpired, GPCs, Whys
<1>23. ASSUME CloseDone PROVE TypeOK'
  BY <1>23 DEF CloseDone, GPCs
<1>24. ASSUME ReleasePipeline PROVE TypeOK'
  BY <1>24 DEF ReleasePipeline, GPCs
<1>25. ASSUME CloseConn PROVE TypeOK'
  BY <1>25 DEF CloseConn, GPCs
<1>26. ASSUME InnerStep PROVE TypeOK'
  BY <1>26 DEF InnerStep, WaitStep, WPCs
<1>27. ASSUME PoolGet PROVE TypeOK'
  BY <1>27 DEF PoolGet
<1>28. ASSUME WatchWait PROVE TypeOK'
  BY <1>28 DEF WatchWait, WaitStep, WPCs
<1>29. ASSUME WatchIdle PROVE TypeOK'
  BY <1>29 DEF WatchIdle, WPCs
<1>30. ASSUME WatchQuit PROVE TypeOK'
  BY <1>30 DEF WatchQuit
<1>31. QED
  BY <1>1, <1>2, <1>3, <1>4, <1>5, <1>6, <1>7, <1>8, <1>9, <1>10,
     <1>11, <1>12, <1>13, <1>14, <1>15, <1>16, <1>17, <1>18, <1>19,
     <1>20, <1>21, <1>22, <1>23, <1>24, <1>25, <1>26, <1>27, <1>28,
     <1>29, <1>30
     DEF Next, CallStep, CloserStep, WatchStep

\* At most one Close wins: its CAS found a state that was still active.
LEMMA CloseStep ==
    ASSUME TypeOK, CloseInv, Next
    PROVE  CloseInv'
<1> USE DEF CloseInv, SingleClose, chVars, wgVars, clVars, gorVars, wtVars
<1>1. ASSUME Activate PROVE CloseInv'
  BY <1>1 DEF Activate, TypeOK
<1>2. ASSUME ActivateFails PROVE CloseInv'
  BY <1>2 DEF ActivateFails, TypeOK
<1>3. ASSUME NEW side \in HalfCloses, HalfClose(side) PROVE CloseInv'
  BY <1>3 DEF HalfClose
<1>4. ASSUME NEW t \in Calls, DoneTask(t) PROVE CloseInv'
  BY <1>4 DEF DoneTask, Goto, Release
<1>5. ASSUME NEW c \in Closers, CloseLoad(c) PROVE CloseInv'
  BY <1>5, CloserSets DEF CloseLoad, TypeOK
<1>6. ASSUME NEW c \in Closers, CloseCAS(c) PROVE CloseInv'
  BY <1>6, CloserSets DEF CloseCAS, TypeOK
<1>7. ASSUME WaitReadTask PROVE CloseInv'
  BY <1>7 DEF WaitReadTask
<1>8. ASSUME WakeReadTask PROVE CloseInv'
  BY <1>8 DEF WakeReadTask
<1>9. ASSUME FireHooks PROVE CloseInv'
  BY <1>9 DEF FireHooks
<1>10. ASSUME HookPanics PROVE CloseInv'
  BY <1>10 DEF HookPanics
<1>11. ASSUME SelectDrained PROVE CloseInv'
  BY <1>11 DEF SelectDrained
<1>12. ASSUME SelectExpired PROVE CloseInv'
  BY <1>12 DEF SelectExpired
<1>13. ASSUME CloseDone PROVE CloseInv'
  BY <1>13 DEF CloseDone
<1>14. ASSUME ReleasePipeline PROVE CloseInv'
  BY <1>14 DEF ReleasePipeline
<1>15. ASSUME CloseConn PROVE CloseInv'
  BY <1>15 DEF CloseConn
<1>16. ASSUME NEW t \in Calls, Admit(t) \/ Fire(t) \/ AddTask(t) \/ AddAll(t)
        \/ MarkBusy(t) \/ HandleInbound(t) \/ HandlerPanics(t)
        \/ GetWriter(t) \/ Flush(t) \/ DoneAll(t) PROVE CloseInv'
  BY <1>16 DEF Admit, Fire, AddTask, AddAll, MarkBusy, HandleInbound,
       HandlerPanics, GetWriter, Flush, DoneAll
<1>17. ASSUME InnerStep \/ PoolGet \/ WatchWait \/ WatchIdle \/ WatchQuit
        PROVE CloseInv'
  BY <1>17 DEF InnerStep, PoolGet, WatchWait, WatchIdle, WatchQuit
<1>18. QED
  BY <1>1, <1>2, <1>3, <1>4, <1>5, <1>6, <1>7, <1>8, <1>9, <1>10, <1>11,
       <1>12, <1>13, <1>14, <1>15, <1>16, <1>17 DEF Next, CallStep,
       CloserStep, WatchStep

\* The closer goroutine alone performs the clean-up, in its order.
LEMMA CleanupStep ==
    ASSUME TypeOK, CloseInv, CleanupInv, Next
    PROVE  CleanupInv'
<1> USE DEF CleanupInv, chVars, wgVars, clVars, gorVars, wtVars
<1>1. ASSUME NEW t \in Calls, DoneTask(t) PROVE CleanupInv'
  BY <1>1 DEF DoneTask, Goto, Release
<1>2. ASSUME NEW c \in Closers, CloseCAS(c) PROVE CleanupInv'
  BY <1>2 DEF CloseCAS, CloseInv, SingleClose, TypeOK
<1>3. ASSUME WaitReadTask PROVE CleanupInv'
  BY <1>3 DEF WaitReadTask
<1>4. ASSUME WakeReadTask PROVE CleanupInv'
  BY <1>4 DEF WakeReadTask
<1>5. ASSUME FireHooks PROVE CleanupInv'
  BY <1>5 DEF FireHooks
<1>6. ASSUME HookPanics PROVE CleanupInv'
  BY <1>6 DEF HookPanics
<1>7. ASSUME SelectDrained PROVE CleanupInv'
  BY <1>7 DEF SelectDrained
<1>8. ASSUME SelectExpired PROVE CleanupInv'
  BY <1>8 DEF SelectExpired
<1>9. ASSUME CloseDone PROVE CleanupInv'
  BY <1>9 DEF CloseDone
<1>10. ASSUME ReleasePipeline PROVE CleanupInv'
  BY <1>10 DEF ReleasePipeline
<1>11. ASSUME CloseConn PROVE CleanupInv'
  BY <1>11 DEF CloseConn
<1>12. ASSUME PoolGet PROVE CleanupInv'
  BY <1>12 DEF PoolGet
<1>13. ASSUME NEW t \in Calls, Admit(t) \/ Fire(t) \/ AddTask(t) \/ AddAll(t)
        \/ MarkBusy(t) \/ HandleInbound(t) \/ HandlerPanics(t)
        \/ GetWriter(t) \/ Flush(t) \/ DoneAll(t) PROVE CleanupInv'
  BY <1>13 DEF Admit, Fire, AddTask, AddAll, MarkBusy, HandleInbound,
       HandlerPanics, GetWriter, Flush, DoneAll
<1>14. ASSUME NEW c \in Closers, CloseLoad(c) PROVE CleanupInv'
  BY <1>14 DEF CloseLoad
<1>15. ASSUME NEW side \in HalfCloses, HalfClose(side) PROVE CleanupInv'
  BY <1>15 DEF HalfClose
<1>16. ASSUME Activate \/ ActivateFails \/ InnerStep \/ WatchWait
        \/ WatchIdle \/ WatchQuit PROVE CleanupInv'
  BY <1>16 DEF Activate, ActivateFails, InnerStep, WatchWait, WatchIdle,
       WatchQuit
<1>17. QED
  BY <1>1, <1>2, <1>3, <1>4, <1>5, <1>6, <1>7, <1>8, <1>9, <1>10, <1>11,
       <1>12, <1>13, <1>14, <1>15, <1>16 DEF Next, CallStep, CloserStep,
       WatchStep

\* A task is counted from its Add to its Done.
LEMMA CountStep ==
    ASSUME TypeOK, CountInv, Next
    PROVE  CountInv'
<1> USE DEF CountInv, TypeOK, Counted, Recorded, Calls, Tasks, chVars, wgVars, clVars, gorVars, wtVars
<1>1. ASSUME Activate PROVE CountInv'
  BY <1>1 DEF Activate
<1>2. ASSUME ActivateFails PROVE CountInv'
  BY <1>2 DEF ActivateFails
<1>3. ASSUME NEW t \in Calls, Admit(t) PROVE CountInv'
  BY <1>3, CallsDisjoint DEF Admit, Goto, Ended
<1>4. ASSUME NEW t \in Calls, Fire(t) PROVE CountInv'
  BY <1>4, CallsDisjoint DEF Fire, Goto, Ended
<1>5. ASSUME NEW t \in Calls, AddTask(t) PROVE CountInv'
  BY <1>5, CallsDisjoint DEF AddTask, Goto
<1>6. ASSUME NEW t \in Calls, AddAll(t) PROVE CountInv'
  BY <1>6, CallsDisjoint DEF AddAll, Goto
<1>7. ASSUME NEW t \in Calls, MarkBusy(t) PROVE CountInv'
  BY <1>7, CallsDisjoint DEF MarkBusy, Goto
<1>8. ASSUME NEW t \in Calls, HandleInbound(t) PROVE CountInv'
  BY <1>8, CallsDisjoint DEF HandleInbound, Goto
<1>9. ASSUME NEW t \in Calls, HandlerPanics(t) PROVE CountInv'
  BY <1>9, CallsDisjoint DEF HandlerPanics, Ended
<1>10. ASSUME NEW t \in Calls, GetWriter(t) PROVE CountInv'
  BY <1>10, CallsDisjoint DEF GetWriter, Goto, AfterOutbound
<1>11. ASSUME NEW t \in Calls, Flush(t) PROVE CountInv'
  BY <1>11, CallsDisjoint DEF Flush, Goto, AfterOutbound
<1>12. ASSUME NEW t \in Calls, DoneTask(t) PROVE CountInv'
  BY <1>12, CallsDisjoint DEF DoneTask, Goto, Release
<1>13. ASSUME NEW t \in Calls, DoneAll(t) PROVE CountInv'
  BY <1>13, CallsDisjoint DEF DoneAll, Goto, Release
<1>14. ASSUME NEW c \in Closers, CloseLoad(c) \/ CloseCAS(c) PROVE CountInv'
  BY <1>14 DEF CloseLoad, CloseCAS
<1>15. ASSUME NEW side \in HalfCloses, HalfClose(side) PROVE CountInv'
  BY <1>15 DEF HalfClose
<1>16. ASSUME WaitReadTask \/ WakeReadTask \/ FireHooks \/ HookPanics
        \/ SelectDrained \/ SelectExpired \/ CloseDone \/ ReleasePipeline
        \/ CloseConn \/ InnerStep \/ PoolGet \/ WatchWait \/ WatchIdle
        \/ WatchQuit PROVE CountInv'
  BY <1>16 DEF WaitReadTask, WakeReadTask, FireHooks, HookPanics,
       SelectDrained, SelectExpired, CloseDone, ReleasePipeline, CloseConn,
       InnerStep, PoolGet, WatchWait, WatchIdle, WatchQuit
<1>17. QED
  BY <1>1, <1>2, <1>3, <1>4, <1>5, <1>6, <1>7, <1>8, <1>9, <1>10, <1>11,
       <1>12, <1>13, <1>14, <1>15, <1>16 DEF Next, CallStep, CloserStep,
       WatchStep

\* A recorded task never goes back to its Add: the wait for it ends once.
LEMMA OwedReadsStep ==
    ASSUME TypeOK, CloseInv, CountInv, OwedReadsInv, Next
    PROVE  OwedReadsInv'
<1> USE DEF OwedReadsInv, TypeOK, Counted, Recorded, Calls, Tasks, chVars, wgVars, clVars, gorVars, wtVars
<1>1. ASSUME NEW t \in Calls, Admit(t) PROVE OwedReadsInv'
  BY <1>1, CallsDisjoint DEF Admit, Goto, Ended
<1>2. ASSUME NEW t \in Calls, Fire(t) PROVE OwedReadsInv'
  BY <1>2, CallsDisjoint DEF Fire, Goto, Ended
<1>3. ASSUME NEW t \in Calls, AddTask(t) PROVE OwedReadsInv'
  BY <1>3, CallsDisjoint DEF AddTask, Goto
<1>4. ASSUME NEW t \in Calls, AddAll(t) PROVE OwedReadsInv'
  BY <1>4, CallsDisjoint DEF AddAll, Goto
<1>5. ASSUME NEW t \in Calls, MarkBusy(t) PROVE OwedReadsInv'
  BY <1>5, CallsDisjoint DEF MarkBusy, Goto
<1>6. ASSUME NEW t \in Calls, HandleInbound(t) PROVE OwedReadsInv'
  BY <1>6, CallsDisjoint DEF HandleInbound, Goto
<1>7. ASSUME NEW t \in Calls, HandlerPanics(t) PROVE OwedReadsInv'
  BY <1>7, CallsDisjoint DEF HandlerPanics, Ended
<1>8. ASSUME NEW t \in Calls, GetWriter(t) PROVE OwedReadsInv'
  BY <1>8, CallsDisjoint DEF GetWriter, Goto, AfterOutbound
<1>9. ASSUME NEW t \in Calls, Flush(t) PROVE OwedReadsInv'
  BY <1>9, CallsDisjoint DEF Flush, Goto, AfterOutbound
<1>10. ASSUME NEW t \in Calls, DoneTask(t) PROVE OwedReadsInv'
  BY <1>10, CallsDisjoint DEF DoneTask, Goto, Release
<1>11. ASSUME NEW t \in Calls, DoneAll(t) PROVE OwedReadsInv'
  BY <1>11, CallsDisjoint DEF DoneAll, Goto, Release
<1>12. ASSUME NEW c \in Closers, CloseCAS(c) PROVE OwedReadsInv'
  BY <1>12 DEF CloseCAS, CountInv
<1>13. ASSUME WaitReadTask PROVE OwedReadsInv'
  BY <1>13 DEF WaitReadTask, GPCs
<1>14. ASSUME WakeReadTask PROVE OwedReadsInv'
  BY <1>14 DEF WakeReadTask
<1>15. ASSUME FireHooks PROVE OwedReadsInv'
  BY <1>15 DEF FireHooks
<1>16. ASSUME HookPanics PROVE OwedReadsInv'
  BY <1>16 DEF HookPanics
<1>17. ASSUME SelectDrained PROVE OwedReadsInv'
  BY <1>17 DEF SelectDrained
<1>18. ASSUME SelectExpired PROVE OwedReadsInv'
  BY <1>18 DEF SelectExpired
<1>19. ASSUME CloseDone PROVE OwedReadsInv'
  BY <1>19 DEF CloseDone
<1>20. ASSUME ReleasePipeline PROVE OwedReadsInv'
  BY <1>20 DEF ReleasePipeline
<1>21. ASSUME CloseConn PROVE OwedReadsInv'
  BY <1>21 DEF CloseConn
<1>22. ASSUME NEW c \in Closers, CloseLoad(c) PROVE OwedReadsInv'
  BY <1>22 DEF CloseLoad
<1>23. ASSUME NEW side \in HalfCloses, HalfClose(side) PROVE OwedReadsInv'
  BY <1>23 DEF HalfClose
<1>24. ASSUME Activate \/ ActivateFails \/ InnerStep \/ PoolGet \/ WatchWait
        \/ WatchIdle \/ WatchQuit PROVE OwedReadsInv'
  BY <1>24 DEF Activate, ActivateFails, InnerStep, PoolGet, WatchWait,
       WatchIdle, WatchQuit
<1>25. QED
  BY <1>1, <1>2, <1>3, <1>4, <1>5, <1>6, <1>7, <1>8, <1>9, <1>10, <1>11,
       <1>12, <1>13, <1>14, <1>15, <1>16, <1>17, <1>18, <1>19, <1>20, <1>21,
       <1>22, <1>23, <1>24 DEF Next, CallStep, CloserStep, WatchStep

\* The same of the writes; a recorded write flushes before the count is zero.
LEMMA OwedWritesStep ==
    ASSUME TypeOK, CloseInv, CleanupInv, CountInv, OwedWritesInv, Next
    PROVE  OwedWritesInv'
<1> USE DEF OwedWritesInv, TypeOK, Counted, Recorded, Calls, Tasks, chVars, wgVars, clVars, gorVars, wtVars
<1>1. ASSUME NEW t \in Calls, Admit(t) PROVE OwedWritesInv'
  BY <1>1, CallsDisjoint DEF Admit, Goto, Ended
<1>2. ASSUME NEW t \in Calls, Fire(t) PROVE OwedWritesInv'
  BY <1>2, CallsDisjoint DEF Fire, Goto, Ended
<1>3. ASSUME NEW t \in Calls, AddTask(t) PROVE OwedWritesInv'
  BY <1>3, CallsDisjoint DEF AddTask, Goto
<1>4. ASSUME NEW t \in Calls, AddAll(t) PROVE OwedWritesInv'
  BY <1>4, CallsDisjoint DEF AddAll, Goto
<1>5. ASSUME NEW t \in Calls, MarkBusy(t) PROVE OwedWritesInv'
  BY <1>5, CallsDisjoint DEF MarkBusy, Goto
<1>6. ASSUME NEW t \in Calls, HandleInbound(t) PROVE OwedWritesInv'
  BY <1>6, CallsDisjoint DEF HandleInbound, Goto
<1>7. ASSUME NEW t \in Calls, HandlerPanics(t) PROVE OwedWritesInv'
  BY <1>7, CallsDisjoint DEF HandlerPanics, Ended
<1>8. ASSUME NEW t \in Calls, GetWriter(t) PROVE OwedWritesInv'
  BY <1>8, CallsDisjoint DEF GetWriter, Goto, AfterOutbound
<1>9. ASSUME NEW t \in Calls, Flush(t) PROVE OwedWritesInv'
  BY <1>9, CallsDisjoint DEF Flush, Goto, AfterOutbound, CountInv, CleanupInv
<1>10. ASSUME NEW t \in Calls, DoneTask(t) PROVE OwedWritesInv'
  BY <1>10, CallsDisjoint DEF DoneTask, Goto, Release
<1>11. ASSUME NEW t \in Calls, DoneAll(t) PROVE OwedWritesInv'
  BY <1>11, CallsDisjoint DEF DoneAll, Goto, Release
<1>12. ASSUME NEW c \in Closers, CloseCAS(c) PROVE OwedWritesInv'
  <2>1. CASE state = old[c]
    <3>1. closer = "none"
      BY <1>12, <2>1 DEF CloseCAS, CloseInv, SingleClose
    <3>2. inner = "none" /\ why # "drained"
      BY <3>1 DEF CleanupInv
    <3>3. QED
      BY <1>12, <2>1, <3>1, <3>2 DEF CloseCAS, CountInv
  <2>2. CASE state # old[c]
    BY <1>12, <2>2 DEF CloseCAS
  <2>3. QED
    BY <2>1, <2>2
<1>13. ASSUME WaitReadTask PROVE OwedWritesInv'
  BY <1>13 DEF WaitReadTask
<1>14. ASSUME WakeReadTask PROVE OwedWritesInv'
  BY <1>14 DEF WakeReadTask
<1>15. ASSUME FireHooks PROVE OwedWritesInv'
  BY <1>15 DEF FireHooks, CleanupInv, CloseInv
<1>16. ASSUME HookPanics PROVE OwedWritesInv'
  BY <1>16 DEF HookPanics
<1>17. ASSUME SelectDrained PROVE OwedWritesInv'
  BY <1>17 DEF SelectDrained
<1>18. ASSUME SelectExpired PROVE OwedWritesInv'
  BY <1>18 DEF SelectExpired
<1>19. ASSUME CloseDone PROVE OwedWritesInv'
  BY <1>19 DEF CloseDone
<1>20. ASSUME ReleasePipeline PROVE OwedWritesInv'
  BY <1>20 DEF ReleasePipeline
<1>21. ASSUME CloseConn PROVE OwedWritesInv'
  BY <1>21 DEF CloseConn
<1>22. ASSUME InnerStep PROVE OwedWritesInv'
  BY <1>22 DEF InnerStep, WaitStep
<1>23. ASSUME NEW c \in Closers, CloseLoad(c) PROVE OwedWritesInv'
  BY <1>23 DEF CloseLoad
<1>24. ASSUME NEW side \in HalfCloses, HalfClose(side) PROVE OwedWritesInv'
  BY <1>24 DEF HalfClose
<1>25. ASSUME Activate \/ ActivateFails \/ PoolGet \/ WatchWait \/ WatchIdle
        \/ WatchQuit PROVE OwedWritesInv'
  BY <1>25 DEF Activate, ActivateFails, PoolGet, WatchWait, WatchIdle,
       WatchQuit
<1>26. QED
  BY <1>1, <1>2, <1>3, <1>4, <1>5, <1>6, <1>7, <1>8, <1>9, <1>10, <1>11,
       <1>12, <1>13, <1>14, <1>15, <1>16, <1>17, <1>18, <1>19, <1>20, <1>21,
       <1>22, <1>23, <1>24, <1>25 DEF Next, CallStep, CloserStep, WatchStep

\* idle is cleared only together with the start of its watcher.
LEMMA BusyStep ==
    ASSUME TypeOK, BusyHasWatcher, Next
    PROVE  BusyHasWatcher'
<1> USE DEF BusyHasWatcher, chVars, wgVars, clVars, gorVars, wtVars
<1>1. ASSUME NEW t \in Calls, MarkBusy(t) PROVE BusyHasWatcher'
  BY <1>1 DEF MarkBusy, Goto, TypeOK
<1>2. ASSUME NEW t \in Calls, DoneAll(t) PROVE BusyHasWatcher'
  BY <1>2 DEF DoneAll, Goto, Release
<1>3. ASSUME CloseDone PROVE BusyHasWatcher'
  BY <1>3 DEF CloseDone
<1>4. ASSUME WatchWait PROVE BusyHasWatcher'
  BY <1>4 DEF WatchWait, WaitStep
<1>5. ASSUME WatchIdle PROVE BusyHasWatcher'
  BY <1>5 DEF WatchIdle, TypeOK
<1>6. ASSUME WatchQuit PROVE BusyHasWatcher'
  BY <1>6 DEF WatchQuit
<1>7. ASSUME NEW t \in Calls, Admit(t) \/ Fire(t) \/ AddTask(t) \/ AddAll(t)
        \/ HandleInbound(t) \/ HandlerPanics(t) \/ GetWriter(t) \/ Flush(t)
        \/ DoneTask(t) PROVE BusyHasWatcher'
  BY <1>7 DEF Admit, Fire, AddTask, AddAll, HandleInbound, HandlerPanics,
       GetWriter, Flush, DoneTask
<1>8. ASSUME NEW c \in Closers, CloseLoad(c) \/ CloseCAS(c)
        PROVE BusyHasWatcher'
  BY <1>8 DEF CloseLoad, CloseCAS
<1>9. ASSUME NEW side \in HalfCloses, HalfClose(side) PROVE BusyHasWatcher'
  BY <1>9 DEF HalfClose
<1>10. ASSUME Activate \/ ActivateFails \/ WaitReadTask \/ WakeReadTask
        \/ FireHooks \/ HookPanics \/ SelectDrained \/ SelectExpired
        \/ ReleasePipeline \/ CloseConn \/ InnerStep \/ PoolGet
        PROVE BusyHasWatcher'
  BY <1>10 DEF Activate, ActivateFails, WaitReadTask, WakeReadTask,
       FireHooks, HookPanics, SelectDrained, SelectExpired, ReleasePipeline,
       CloseConn, InnerStep, PoolGet
<1>11. QED
  BY <1>1, <1>2, <1>3, <1>4, <1>5, <1>6, <1>7, <1>8, <1>9, <1>10 DEF Next,
       CallStep, CloserStep, WatchStep

-----------------------------------------------------------------------------
\* The fields and the labels of every goroutine keep their types, whatever the
\* interleaving of the calls, the closer and the watcher.
THEOREM TypeCorrect == Spec => []TypeOK
<1>1. Init => TypeOK
  BY DEF Init, TypeOK, Calls, readWriteMode, PCs, Outs, CPCs, GPCs,
       WPCs, Whys
<1>2. TypeOK /\ [Next]_vars => TypeOK'
  <2>1. ASSUME TypeOK, UNCHANGED vars PROVE TypeOK'
    BY <2>1 DEF TypeOK, vars, chVars, wgVars, clVars, gorVars, wtVars
  <2>2. QED
    BY <2>1, TypeStep
<1>3. QED
  BY <1>1, <1>2, PTL DEF Spec

\* The inductive invariant holds in every reachable state.
THEOREM Inductive == Spec => []IndInv
<1>1. Init => IndInv
  <2> SUFFICES ASSUME Init PROVE IndInv
    OBVIOUS
  <2>1. TypeOK
    BY DEF Init, TypeOK, Calls, readWriteMode, PCs, Outs, CPCs, GPCs,
       WPCs, Whys
  <2>2. CloseInv /\ CleanupInv /\ BusyHasWatcher
    BY CloserSets DEF Init, CloseInv, SingleClose, CleanupInv, BusyHasWatcher
  <2>3. CountInv /\ OwedReadsInv /\ OwedWritesInv
    BY DEF Init, CountInv, OwedReadsInv, OwedWritesInv, Counted, Recorded, Calls, Tasks
  <2>4. QED
    BY <2>1, <2>2, <2>3 DEF IndInv
<1>2. IndInv /\ [Next]_vars => IndInv'
  <2>1. ASSUME IndInv, UNCHANGED vars PROVE IndInv'
    <3> USE <2>1 DEF IndInv, vars, chVars, wgVars, clVars, gorVars, wtVars
    <3>1. TypeOK'
      BY DEF TypeOK
    <3>2. CloseInv' /\ CleanupInv' /\ BusyHasWatcher'
      BY DEF CloseInv, SingleClose, CleanupInv, BusyHasWatcher
    <3>3. CountInv' /\ OwedReadsInv' /\ OwedWritesInv'
      BY DEF CountInv, OwedReadsInv, OwedWritesInv
    <3>4. QED
      BY <3>1, <3>2, <3>3
  <2>2. ASSUME IndInv, Next PROVE IndInv'
    BY <2>2, TypeStep, CloseStep, CleanupStep, CountStep, OwedReadsStep,
       OwedWritesStep, BusyStep DEF IndInv
  <2>3. QED
    BY <2>1, <2>2
<1>3. QED
  BY <1>1, <1>2, PTL DEF Spec

\* Close takes effect at most once, and for good, under every interleaving of
\* its Load and CAS with other Closes, half-closes and the activation.
THEOREM CloseOnce == Spec => []SingleClose
<1>1. IndInv => SingleClose
  BY DEF IndInv, CloseInv
<1>2. QED
  BY <1>1, Inductive, PTL

\* The OnChannelClosed hooks, and the clean-up, come after every inbound task
\* that was recorded when the Close took effect, even when WaitReadTask panics.
THEOREM HooksWaitForReads == Spec => []ReadsDrainedBeforeHooks
<1>1. IndInv => ReadsDrainedBeforeHooks
  BY DEF IndInv, ReadsDrainedBeforeHooks, CleanupInv, OwedReadsInv
<1>2. QED
  BY <1>1, Inductive, PTL

\* A graceful Close that drained its writes closed the connection under none of
\* those it found recorded.
THEOREM GracefulCloseDrains == Spec => []DrainedWritesSeeOpenConn
<1>1. IndInv => DrainedWritesSeeOpenConn
  BY DEF IndInv, DrainedWritesSeeOpenConn, OwedWritesInv
<1>2. QED
  BY <1>1, Inductive, PTL

\* The hooks run on the closing channel itself, not on a recycled pipeline.
THEOREM HooksOnOwnChannel == Spec => []HooksSeeOwnChannel
<1>1. IndInv => HooksSeeOwnChannel
  BY DEF IndInv, HooksSeeOwnChannel, CleanupInv
<1>2. QED
  BY <1>1, Inductive, PTL

\* A busy channel has exactly one goroutine that will record its idleness.
THEOREM WatcherPerBusyPeriod == Spec => []BusyHasWatcher
<1>1. IndInv => BusyHasWatcher
  BY DEF IndInv
<1>2. QED
  BY <1>1, Inductive, PTL

-----------------------------------------------------------------------------
\* A step that touches neither the phase nor the inbound tasks stutters.
LEMMA LifeStutter ==
    ASSUME UNCHANGED <<act, winner, connOpen, hooksFired, readTask, owedReads>>
    PROVE  UNCHANGED Life!vars
BY DEF Life!vars, phaseBar

\* Every step of the channel is a step of ChannelLife, or a stutter.
LEMMA LifeStep ==
    ASSUME IndInv, Next
    PROVE  [Life!Next]_(Life!vars)
<1> USE DEF IndInv, chVars, wgVars, clVars, gorVars, wtVars
<1>1. ASSUME Activate PROVE Life!Open
  <2>1. winner = NoCloser
    BY <1>1 DEF Activate, CloseInv, SingleClose
  <2>2. QED
    BY <1>1, <2>1 DEF Activate, Life!Open, phaseBar
<1>2. ASSUME ActivateFails PROVE Life!Reject
  BY <1>2 DEF ActivateFails, Life!Reject, phaseBar
<1>3. ASSUME NEW t \in Calls, AddTask(t)
      PROVE  (Life!Begin(t) /\ t \in Reads) \/ UNCHANGED Life!vars
  <2>1. t \notin readTask \cup owedReads /\ act = "active"
    BY <1>3 DEF AddTask, CountInv, OwedReadsInv, Recorded, Counted
  <2>2. CASE t \in Reads
    BY <1>3, <2>1, <2>2 DEF AddTask, Life!Begin, phaseBar
  <2>3. CASE t \notin Reads
    BY <1>3, <2>3, LifeStutter DEF AddTask
  <2>4. QED
    BY <2>2, <2>3
<1>4. ASSUME NEW t \in Calls, DoneTask(t)
      PROVE  (Life!End(t) /\ t \in Reads) \/ UNCHANGED Life!vars
  <2>1. CASE t \in readTask
    BY <1>4, <2>1 DEF DoneTask, TypeOK, Life!End, phaseBar
  <2>2. CASE t \notin readTask
    BY <1>4, <2>2, LifeStutter DEF DoneTask
  <2>3. QED
    BY <2>1, <2>2
<1>5. ASSUME NEW c \in Closers, CloseCAS(c)
      PROVE  Life!Close \/ UNCHANGED Life!vars
  <2>1. CASE state = old[c]
    <3>1. winner = NoCloser /\ act = "active" /\ closer = "none"
      BY <1>5, <2>1 DEF CloseCAS, CloseInv, SingleClose
    <3>2. connOpen /\ ~hooksFired
      BY <3>1 DEF CleanupInv
    <3>3. phaseBar = "open" /\ phaseBar' = "closing"
      BY <1>5, <2>1, <3>1, <3>2, CloserSets DEF CloseCAS, phaseBar
    <3>4. QED
      BY <1>5, <2>1, <3>3 DEF CloseCAS, Life!Close
  <2>2. CASE state # old[c]
    BY <1>5, <2>2, LifeStutter DEF CloseCAS
  <2>3. QED
    BY <2>1, <2>2
<1>6. ASSUME FireHooks \/ HookPanics PROVE Life!Notify
  <2>1. act = "active" /\ winner # NoCloser /\ connOpen /\ ~hooksFired
    BY <1>6 DEF FireHooks, HookPanics, CloseInv, SingleClose, CleanupInv
  <2>2. phaseBar = "closing" /\ phaseBar' = "notified"
    BY <1>6, <2>1 DEF FireHooks, HookPanics, phaseBar
  <2>3. QED
    BY <1>6, <2>2 DEF FireHooks, HookPanics, OwedReadsInv, Life!Notify
<1>7. ASSUME CloseConn PROVE Life!Finish
  <2>1. act = "active" /\ winner # NoCloser /\ connOpen
    BY <1>7 DEF CloseConn, CloseInv, SingleClose, CleanupInv
  <2>2. phaseBar \in {"closing", "notified"} /\ phaseBar' = "closed"
    BY <1>7, <2>1 DEF CloseConn, phaseBar
  <2>3. QED
    BY <1>7, <2>2 DEF CloseConn, OwedReadsInv, Life!Finish
<1>8. ASSUME NEW side \in HalfCloses, HalfClose(side) PROVE UNCHANGED Life!vars
  BY <1>8, LifeStutter DEF HalfClose
<1>9. ASSUME NEW t \in Calls, Admit(t) \/ Fire(t) \/ AddAll(t) \/ MarkBusy(t)
        \/ HandleInbound(t) \/ HandlerPanics(t) \/ GetWriter(t) \/ Flush(t)
        \/ DoneAll(t)
      PROVE UNCHANGED Life!vars
  BY <1>9, LifeStutter DEF Admit, Fire, AddAll, MarkBusy, HandleInbound,
     HandlerPanics, GetWriter, Flush, DoneAll
<1>10. ASSUME NEW c \in Closers, CloseLoad(c) PROVE UNCHANGED Life!vars
  BY <1>10, LifeStutter DEF CloseLoad
<1>11. ASSUME WaitReadTask \/ WakeReadTask \/ SelectDrained \/ SelectExpired
         \/ CloseDone \/ ReleasePipeline \/ InnerStep \/ PoolGet \/ WatchWait
         \/ WatchIdle \/ WatchQuit
       PROVE UNCHANGED Life!vars
  BY <1>11, LifeStutter DEF WaitReadTask, WakeReadTask, SelectDrained,
     SelectExpired, CloseDone, ReleasePipeline, InnerStep, PoolGet, WatchWait,
     WatchIdle, WatchQuit
<1>12. QED
  BY <1>1, <1>2, <1>3, <1>4, <1>5, <1>6, <1>7, <1>8, <1>9, <1>10, <1>11
     DEF Next, CallStep, CloserStep, WatchStep, Life!Next

\* The channel implements ChannelLife: it opens, takes one Close, notifies the
\* hooks after the inbound tasks it owes, and closes the connection last.
THEOREM ImplementsLife == Spec => LifeSpec
<1>1. Init => Life!Init
  BY DEF Init, Life!Init, phaseBar
<1>2. IndInv /\ [Next]_vars => [Life!Next]_(Life!vars)
  <2>1. ASSUME UNCHANGED vars PROVE UNCHANGED Life!vars
    BY <2>1, LifeStutter DEF vars, chVars, wgVars, clVars
  <2>2. QED
    BY <2>1, LifeStep
<1>3. QED
  BY <1>1, <1>2, Inductive, PTL DEF Spec, LifeSpec, Life!Spec
=============================================================================
