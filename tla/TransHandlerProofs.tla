------------------------- MODULE TransHandlerProofs -------------------------
(***************************************************************************)
(* Proofs, for every set of connections and every limit, about the         *)
(* transport handler of TransHandler.tla.                                  *)
(*                                                                         *)
(* The safety properties are not inductive by themselves.  IndInv adds     *)
(* where a connection can be while its OnConnect is on the way (PathInv),  *)
(* that a channel is stored once and what was removed by a shutdown stays  *)
(* away (RegInv), and what the Range of Close knows of the registry that   *)
(* changes under it (RangeInv).                                            *)
(***************************************************************************)
EXTENDS TransHandler, FiniteSetTheorems, TLAPS

Early == {"start", "limit", "activate"}    \* OnConnect before the activation
Stored == {"defer", "ret"}                 \* OnConnect past the Store

\* Types, without the sign of the count.
Types ==
    /\ thState \in {"serving", "closed"}
    /\ channels \subseteq Conns /\ channelCount \in Int /\ others \in 0 .. Others
    /\ state \in [Conns -> SUBSET readWriteMode]
    /\ closer \in [Conns -> {"none", "waiting", "hooks", "end"}]
    /\ lost \in [Conns -> BOOLEAN]
    /\ connOpen \in [Conns -> BOOLEAN]
    /\ keeper \in [Conns -> {"none", "running", "done"}]
    /\ stop \in [Conns -> {"idle", "close", "end"}]
    /\ pc \in [Conns -> InConnect \cup {"start", "ret"}]
    /\ err \in [Conns -> BOOLEAN] /\ unseen \subseteq Conns
    /\ cc \in [Conns -> [Callers -> CCs]]
    /\ th \in {"idle", "range", "wait", "returned"}
    /\ must \subseteq Conns /\ visited \subseteq Conns

\* A channel is opened once, by its activation, and its closer runs once: the
\* hook of the closer and its closeChannel belong to that run.
PathInv ==
    \A i \in Conns :
        /\ pc[i] \in Early => state[i] = {} /\ closer[i] = "none"
        /\ pc[i] \in InConnect /\ err[i] => pc[i] = "defer" /\ state[i] = {}
        /\ closer[i] # "none" => state[i] = {}
        /\ cc[i]["hook"] # "idle" => closer[i] \in {"hooks", "end"}
        /\ i \in unseen => pc[i] \notin {"start", "limit"}

\* A channel is stored once: what has left the registry does not come back.
RegInv ==
    \A i \in Conns :
        /\ i \in channels \cup must \cup visited => pc[i] \in Stored
        /\ cc[i]["shutdown"] # "idle" => i \in visited
        /\ cc[i]["shutdown"] \notin {"idle", "enter"} => i \notin channels

\* What ActiveIsReachable says, from the Store on.
ReachInv ==
    \A i \in Conns :
        pc[i] \in Stored /\ Live(i) /\ ~lost[i] => i \in channels \/ Closing(i, Callers)

\* What NoOrphanKeeper says, from the Store on.
KeepInv ==
    \A i \in Conns :
        pc[i] \in Stored /\ ~err[i] /\ keeper[i] = "running" =>
            i \in channels \/ \E w \in Callers : cc[i][w] = "keeper"

\* Close of the handler has met every channel that was registered when it
\* began; one that was stored later is closed by its own OnConnect.
RangeInv ==
    /\ th = "idle" <=> thState = "serving"
    /\ th = "idle" => visited = {}
    /\ th \in {"wait", "returned"} => must \cap channels \subseteq visited
    /\ th = "returned" => \A i \in visited : cc[i]["shutdown"] = "end"
    /\ thState = "closed" =>
        \A i \in channels \ must : pc[i] = "ret" => ~Live(i) \/ lost[i]

\* The channels that are registered or have passed the limit on their way
\* into the registry.
Present == channels \cup {i \in Conns : pc[i] \in {"activate", "keepalive", "inc", "store"}}

LimitInv == Max > 0 => others + Cardinality(Present) <= Max + 1 + Cardinality(unseen)

IndInv ==
    /\ Types
    /\ PathInv
    /\ RegInv
    /\ CountMatchesRegistry
    /\ ReachInv
    /\ KeepInv
    /\ RangeInv
    /\ LimitInv
-----------------------------------------------------------------------------

\* closeChannel has these four callers.
LEMMA CallerNames == {"read", "write", "hook", "shutdown"} \subseteq Callers
BY DEF Callers

\* The read loop and the writes: a step of a caller that is not in closeChannel.
LEMMA CallerForm ==
    ASSUME NEW i \in Conns, ReadStart(i) \/ ReadOk(i) \/ ReadFails(i) \/ WritePanics(i)
    PROVE  \E w \in {"read", "write"}, from \in {"idle", "reading"},
              to \in {"idle", "reading", "enter"} : CallerStep(i, w, from, to)
BY DEF ReadStart, ReadOk, ReadFails, WritePanics

\* Channel.Close keeps the types of the channel, closes it or marks it lost, and
\* starts a closer where there was none.
LEMMA ChannelCloseStep ==
    ASSUME Types, NEW i \in Conns, ChannelClose(i)
    PROVE  /\ state' \in [Conns -> SUBSET readWriteMode]
           /\ closer' \in [Conns -> {"none", "waiting", "hooks", "end"}]
           /\ lost' \in [Conns -> BOOLEAN]
           /\ \A j \in Conns : j # i => /\ state'[j] = state[j]
                                       /\ closer'[j] = closer[j]
                                       /\ lost'[j] = lost[j]
           /\ ~Live(i)' \/ lost'[i]
           /\ state[i] = {} => state'[i] = {} /\ closer'[i] = closer[i]
           /\ closer'[i] # closer[i] => state'[i] = {} /\ closer'[i] = "waiting"
<1> USE DEF Types, chVars, Live, readWriteMode
<1>1. CASE ~Live(i) /\ UNCHANGED chVars
  BY <1>1
<1>2. CASE /\ Live(i)
           /\ state' = [state EXCEPT ![i] = {}]
           /\ closer' = [closer EXCEPT ![i] = "waiting"]
           /\ UNCHANGED lost
  BY <1>2
<1>3. ASSUME NEW d \in state[i] \cap HalfCloses,
             state' = [state EXCEPT ![i] = @ \ {d}],
             lost' = [lost EXCEPT ![i] = TRUE],
             UNCHANGED closer
      PROVE  /\ state' \in [Conns -> SUBSET readWriteMode]
             /\ closer' \in [Conns -> {"none", "waiting", "hooks", "end"}]
             /\ lost' \in [Conns -> BOOLEAN]
             /\ \A j \in Conns : j # i => /\ state'[j] = state[j]
                                         /\ closer'[j] = closer[j]
                                         /\ lost'[j] = lost[j]
             /\ lost'[i]
             /\ state[i] # {}
             /\ closer'[i] = closer[i]
  BY <1>3
<1>4. QED
  BY <1>1, <1>2, <1>3 DEF ChannelClose

\* Every action keeps the fields and labels in their types.
LEMMA TypesStep ==
    ASSUME Types, Next
    PROVE  Types'
<1> USE DEF Types, regVars, chVars, keepVars, connectVars, thVars, InConnect,
       CCs, readWriteMode
<1>1. ASSUME NEW i \in Conns, ConnectStart(i) PROVE Types'
  BY <1>1 DEF ConnectStart, Goto, isActive
<1>2. ASSUME NEW i \in Conns, CheckLimit(i) PROVE Types'
  BY <1>2 DEF CheckLimit, Goto, OutOfLimit
<1>3. ASSUME NEW i \in Conns, ActivateOk(i) PROVE Types'
  BY <1>3 DEF ActivateOk, Goto
<1>4. ASSUME NEW i \in Conns, ActivateFails(i) PROVE Types'
  BY <1>4 DEF ActivateFails, Goto
<1>5. ASSUME NEW i \in Conns, PrepareKeepalive(i) PROVE Types'
  BY <1>5 DEF PrepareKeepalive, Goto
<1>6. ASSUME NEW i \in Conns, Inc(i) PROVE Types'
  BY <1>6 DEF Inc, Goto
<1>7. ASSUME NEW i \in Conns, Store(i) PROVE Types'
  BY <1>7 DEF Store, Goto
<1>8. ASSUME NEW i \in Conns, ConnectDefer(i) PROVE Types'
  BY <1>8, ChannelCloseStep DEF ConnectDefer, Goto, ClosedMeanwhile, isActive
<1>9. ASSUME NEW i \in Conns, NEW w \in Callers, LoadAndDelete(i, w)
      PROVE  Types'
  BY <1>9 DEF LoadAndDelete, CCGoto, Back
<1>10. ASSUME NEW i \in Conns, NEW w \in Callers, KeeperClose(i, w)
      PROVE  Types'
  BY <1>10 DEF KeeperClose, CCGoto, Closed
<1>11. ASSUME NEW i \in Conns, NEW w \in Callers, Dec(i, w) PROVE Types'
  BY <1>11 DEF Dec, CCGoto
<1>12. ASSUME NEW i \in Conns, NEW w \in Callers, CloseChannelEnd(i, w)
      PROVE  Types'
  BY <1>12, ChannelCloseStep DEF CloseChannelEnd, CCGoto, Back
<1>13. ASSUME NEW i \in Conns, NEW w \in {"read", "write"}, NEW from \in
        {"idle", "reading"}, NEW to \in {"idle", "reading", "enter"},
        CallerStep(i, w, from, to)
      PROVE  Types'
  BY <1>13, CallerNames DEF CallerStep, CCGoto
<1>14. ASSUME NEW i \in Conns, StopMark(i) PROVE Types'
  BY <1>14 DEF StopMark
<1>15. ASSUME NEW i \in Conns, StopClose(i) PROVE Types'
  BY <1>15, ChannelCloseStep DEF StopClose
<1>16. ASSUME NEW i \in Conns, UserClose(i) PROVE Types'
  BY <1>16, ChannelCloseStep DEF UserClose
<1>17. ASSUME NEW i \in Conns, NEW d \in HalfCloses, HalfClose(i, d)
      PROVE  Types'
  BY <1>17 DEF HalfClose
<1>18. ASSUME NEW i \in Conns, HooksStart(i) PROVE Types'
  <2>1. CASE CCGoto(i, "hook", "enter")
    BY <1>18, <2>1, CallerNames DEF HooksStart, CCGoto
  <2>2. CASE CCGoto(i, "hook", "end")
    BY <1>18, <2>2, CallerNames DEF HooksStart, CCGoto
  <2>3. QED
    BY <1>18, <2>1, <2>2 DEF HooksStart
<1>19. ASSUME NEW i \in Conns, ConnClose(i) PROVE Types'
  BY <1>19 DEF ConnClose
<1>20. ASSUME ThClose PROVE Types'
  BY <1>20 DEF ThClose
<1>21. ASSUME OtherLeaves PROVE Types'
  BY <1>21, MaxAssumption DEF OtherLeaves
<1>22. ASSUME NEW i \in Conns, RangeVisit(i) PROVE Types'
  BY <1>22, CallerNames DEF RangeVisit, CCGoto
<1>23. ASSUME RangeEnd PROVE Types'
  BY <1>23 DEF RangeEnd, ThGoto
<1>24. ASSUME ThReturn PROVE Types'
  BY <1>24 DEF ThReturn, ThGoto
<1> HIDE DEF Types
<1>25. QED
  BY CallerForm, ConnsAssumption, <1>1, <1>2, <1>3, <1>4, <1>5, <1>6, <1>7,
     <1>8, <1>9, <1>10, <1>11, <1>12, <1>13, <1>14, <1>15, <1>16, <1>17,
     <1>18, <1>19, <1>20, <1>21, <1>22, <1>23, <1>24 DEF Next, ConnStep,
     ConnectStep, CloseChannelStep, CloserStep, ThStep

\* No step but the activation opens a channel, and nothing runs for it before.
LEMMA PathStep ==
    ASSUME Types, PathInv, Next
    PROVE  PathInv'
<1> USE DEF PathInv, Types, regVars, chVars, keepVars, connectVars, thVars,
       Early, InConnect, Live, readWriteMode
<1>1. ASSUME NEW i \in Conns, ConnectStart(i) PROVE PathInv'
  BY <1>1, ZenonT(30) DEF ConnectStart, Goto, isActive
<1>2. ASSUME NEW i \in Conns, CheckLimit(i) PROVE PathInv'
  BY <1>2 DEF CheckLimit, Goto, OutOfLimit
<1>3. ASSUME NEW i \in Conns, ActivateOk(i) PROVE PathInv'
  BY <1>3 DEF ActivateOk, Goto
<1>4. ASSUME NEW i \in Conns, ActivateFails(i) PROVE PathInv'
  BY <1>4 DEF ActivateFails, Goto
<1>5. ASSUME NEW i \in Conns, PrepareKeepalive(i) PROVE PathInv'
  BY <1>5 DEF PrepareKeepalive, Goto
<1>6. ASSUME NEW i \in Conns, Inc(i) PROVE PathInv'
  BY <1>6 DEF Inc, Goto
<1>7. ASSUME NEW i \in Conns, Store(i) PROVE PathInv'
  BY <1>7 DEF Store, Goto
<1>8. ASSUME NEW i \in Conns, ConnectDefer(i) PROVE PathInv'
  <2>1. CASE err'[i]
    BY <1>8, <2>1, ChannelCloseStep DEF ConnectDefer, Goto
  <2>2. CASE ~err'[i]
    BY <1>8, <2>2 DEF ConnectDefer, Goto, ClosedMeanwhile, isActive
  <2>3. QED
    BY <2>1, <2>2
<1>9. ASSUME NEW i \in Conns, NEW w \in Callers, LoadAndDelete(i, w)
      PROVE  PathInv'
  BY <1>9 DEF LoadAndDelete, CCGoto, Back
<1>10. ASSUME NEW i \in Conns, NEW w \in Callers, KeeperClose(i, w)
      PROVE  PathInv'
  BY <1>10 DEF KeeperClose, CCGoto
<1>11. ASSUME NEW i \in Conns, NEW w \in Callers, Dec(i, w) PROVE PathInv'
  BY <1>11 DEF Dec, CCGoto
<1>12. ASSUME NEW i \in Conns, NEW w \in Callers, CloseChannelEnd(i, w)
      PROVE  PathInv'
  BY <1>12, ChannelCloseStep DEF CloseChannelEnd, CCGoto, Back
<1>13. ASSUME NEW i \in Conns, NEW w \in {"read", "write"}, NEW from \in
        {"idle", "reading"}, NEW to \in {"idle", "reading", "enter"},
        CallerStep(i, w, from, to)
      PROVE  PathInv'
  BY <1>13, CallerNames DEF CallerStep, CCGoto
<1>14. ASSUME NEW i \in Conns, StopMark(i) PROVE PathInv'
  BY <1>14 DEF StopMark
<1>15. ASSUME NEW i \in Conns, StopClose(i) PROVE PathInv'
  BY <1>15, ChannelCloseStep DEF StopClose
<1>16. ASSUME NEW i \in Conns, UserClose(i) PROVE PathInv'
  BY <1>16, ChannelCloseStep DEF UserClose
<1>17. ASSUME NEW i \in Conns, NEW d \in HalfCloses, HalfClose(i, d)
      PROVE  PathInv'
  BY <1>17 DEF HalfClose
<1>18. ASSUME NEW i \in Conns, HooksStart(i) PROVE PathInv'
  <2>1. CASE CCGoto(i, "hook", "enter")
    BY <1>18, <2>1, CallerNames DEF HooksStart, CCGoto
  <2>2. CASE CCGoto(i, "hook", "end")
    BY <1>18, <2>2, CallerNames DEF HooksStart, CCGoto
  <2>3. QED
    BY <1>18, <2>1, <2>2 DEF HooksStart
<1>19. ASSUME NEW i \in Conns, ConnClose(i) PROVE PathInv'
  BY <1>19 DEF ConnClose
<1>20. ASSUME NEW i \in Conns, RangeVisit(i) PROVE PathInv'
  BY <1>20 DEF RangeVisit, CCGoto
<1>21. ASSUME ThClose \/ RangeEnd \/ ThReturn \/ OtherLeaves PROVE PathInv'
  BY <1>21 DEF ThClose, RangeEnd, ThGoto, ThReturn, OtherLeaves
<1> HIDE DEF PathInv, Types
<1>22. QED
  BY CallerForm, ConnsAssumption, <1>1, <1>2, <1>3, <1>4, <1>5, <1>6, <1>7,
     <1>8, <1>9, <1>10, <1>11, <1>12, <1>13, <1>14, <1>15, <1>16, <1>17,
     <1>18, <1>19, <1>20, <1>21 DEF Next, ConnStep, ConnectStep,
     CloseChannelStep, CloserStep, ThStep

\* Only Store puts a channel into the registry, and OnConnect comes by once.
LEMMA RegStep ==
    ASSUME Types, RegInv, Next
    PROVE  RegInv'
<1> USE DEF RegInv, Types, regVars, chVars, keepVars, connectVars, thVars,
       Stored, InConnect
<1>1. ASSUME NEW i \in Conns, ConnectStart(i) PROVE RegInv'
  BY <1>1 DEF ConnectStart, Goto, isActive
<1>2. ASSUME NEW i \in Conns, CheckLimit(i) PROVE RegInv'
  BY <1>2 DEF CheckLimit, Goto, OutOfLimit
<1>3. ASSUME NEW i \in Conns, ActivateOk(i) PROVE RegInv'
  BY <1>3 DEF ActivateOk, Goto
<1>4. ASSUME NEW i \in Conns, ActivateFails(i) PROVE RegInv'
  BY <1>4 DEF ActivateFails, Goto
<1>5. ASSUME NEW i \in Conns, PrepareKeepalive(i) PROVE RegInv'
  BY <1>5 DEF PrepareKeepalive, Goto
<1>6. ASSUME NEW i \in Conns, Inc(i) PROVE RegInv'
  BY <1>6 DEF Inc, Goto
<1>7. ASSUME NEW i \in Conns, Store(i) PROVE RegInv'
  BY <1>7 DEF Store, Goto
<1>8. ASSUME NEW i \in Conns, ConnectDefer(i) PROVE RegInv'
  <2>1. CASE err'[i]
    BY <1>8, <2>1, ChannelCloseStep DEF ConnectDefer, Goto
  <2>2. CASE ~err'[i]
    BY <1>8, <2>2 DEF ConnectDefer, Goto, ClosedMeanwhile, isActive
  <2>3. QED
    BY <2>1, <2>2
<1>9. ASSUME NEW i \in Conns, NEW w \in Callers, LoadAndDelete(i, w)
      PROVE  RegInv'
  BY <1>9 DEF LoadAndDelete, CCGoto, Back
<1>10. ASSUME NEW i \in Conns, NEW w \in Callers, KeeperClose(i, w)
      PROVE  RegInv'
  BY <1>10 DEF KeeperClose, CCGoto
<1>11. ASSUME NEW i \in Conns, NEW w \in Callers, Dec(i, w) PROVE RegInv'
  BY <1>11 DEF Dec, CCGoto
<1>12. ASSUME NEW i \in Conns, NEW w \in Callers, CloseChannelEnd(i, w)
      PROVE  RegInv'
  BY <1>12, ChannelCloseStep DEF CloseChannelEnd, CCGoto, Back
<1>13. ASSUME NEW i \in Conns, NEW w \in {"read", "write"}, NEW from \in
        {"idle", "reading"}, NEW to \in {"idle", "reading", "enter"},
        CallerStep(i, w, from, to)
      PROVE  RegInv'
  BY <1>13, CallerNames DEF CallerStep, CCGoto
<1>14. ASSUME NEW i \in Conns, StopMark(i) \/ StopClose(i) \/ UserClose(i)
        \/ ConnClose(i)
      PROVE  RegInv'
  BY <1>14 DEF StopMark, StopClose, UserClose, ConnClose
<1>15. ASSUME NEW i \in Conns, NEW d \in HalfCloses, HalfClose(i, d)
      PROVE  RegInv'
  BY <1>15 DEF HalfClose
<1>16. ASSUME NEW i \in Conns, HooksStart(i) PROVE RegInv'
  <2>1. CASE CCGoto(i, "hook", "enter")
    BY <1>16, <2>1, CallerNames DEF HooksStart, CCGoto
  <2>2. CASE CCGoto(i, "hook", "end")
    BY <1>16, <2>2, CallerNames DEF HooksStart, CCGoto
  <2>3. QED
    BY <1>16, <2>1, <2>2 DEF HooksStart
<1>17. ASSUME NEW i \in Conns, RangeVisit(i) PROVE RegInv'
  BY <1>17 DEF RangeVisit, CCGoto
<1>18. ASSUME ThClose PROVE RegInv'
  BY <1>18 DEF ThClose
<1>19. ASSUME RangeEnd \/ ThReturn \/ OtherLeaves PROVE RegInv'
  BY <1>19 DEF RangeEnd, ThGoto, ThReturn, OtherLeaves
<1> HIDE DEF RegInv, Types
<1>20. QED
  BY CallerForm, ConnsAssumption, <1>1, <1>2, <1>3, <1>4, <1>5, <1>6, <1>7,
     <1>8, <1>9, <1>10, <1>11, <1>12, <1>13, <1>14, <1>15, <1>16, <1>17,
     <1>18, <1>19 DEF Next, ConnStep, ConnectStep, CloseChannelStep,
     CloserStep, ThStep

\* Whoever removes a channel closes it, or its Close is lost.
LEMMA ReachStep ==
    ASSUME Types, PathInv, RegInv, ReachInv, Next
    PROVE  ReachInv'
<1> USE DEF ReachInv, Types, PathInv, regVars, chVars, keepVars, connectVars,
       thVars, Early, Stored, InConnect, Live, Closing
<1>1. ASSUME NEW i \in Conns, ConnectStart(i) PROVE ReachInv'
  BY <1>1 DEF ConnectStart, Goto, isActive
<1>2. ASSUME NEW i \in Conns, CheckLimit(i) PROVE ReachInv'
  BY <1>2 DEF CheckLimit, Goto, OutOfLimit
<1>3. ASSUME NEW i \in Conns, ActivateOk(i) PROVE ReachInv'
  BY <1>3 DEF ActivateOk, Goto
<1>4. ASSUME NEW i \in Conns, ActivateFails(i) PROVE ReachInv'
  BY <1>4 DEF ActivateFails, Goto
<1>5. ASSUME NEW i \in Conns, PrepareKeepalive(i) PROVE ReachInv'
  BY <1>5 DEF PrepareKeepalive, Goto
<1>6. ASSUME NEW i \in Conns, Inc(i) PROVE ReachInv'
  BY <1>6 DEF Inc, Goto
<1>7. ASSUME NEW i \in Conns, Store(i) PROVE ReachInv'
  BY <1>7 DEF Store, Goto
<1>8. ASSUME NEW i \in Conns, ConnectDefer(i) PROVE ReachInv'
  <2>1. CASE err'[i]
    <3> SUFFICES ASSUME NEW j \in Conns, pc'[j] \in Stored, Live(j)', ~lost'[j]
                 PROVE  (j \in channels \/ Closing(j, Callers))'
      OBVIOUS
    <3>1. j # i
      BY <1>8, <2>1, ChannelCloseStep DEF ConnectDefer
    <3>2. pc[j] \in Stored /\ Live(j) /\ ~lost[j]
      BY <1>8, <2>1, <3>1, ChannelCloseStep DEF ConnectDefer, Goto
    <3>3. QED
      BY <1>8, <3>2 DEF ConnectDefer
  <2>2. CASE ~err'[i]
    BY <1>8, <2>2, SMTT(30) DEF ConnectDefer, Goto, ClosedMeanwhile, isActive
  <2>3. QED
    BY <2>1, <2>2
<1>9. ASSUME NEW i \in Conns, NEW w \in Callers, LoadAndDelete(i, w)
      PROVE  ReachInv'
  BY <1>9 DEF LoadAndDelete, CCGoto, Back, Removes
<1>10. ASSUME NEW i \in Conns, NEW w \in Callers, KeeperClose(i, w)
      PROVE  ReachInv'
  BY <1>10, SMTT(30) DEF KeeperClose, CCGoto
<1>11. ASSUME NEW i \in Conns, NEW w \in Callers, Dec(i, w) PROVE ReachInv'
  BY <1>11 DEF Dec, CCGoto
<1>12. ASSUME NEW i \in Conns, NEW w \in Callers, CloseChannelEnd(i, w)
      PROVE  ReachInv'
  BY <1>12, ChannelCloseStep, SMTT(30) DEF CloseChannelEnd, CCGoto, Back
<1>13. ASSUME NEW i \in Conns, NEW w \in {"read", "write"}, NEW from \in
        {"idle", "reading"}, NEW to \in {"idle", "reading", "enter"},
        CallerStep(i, w, from, to)
      PROVE  ReachInv'
  BY <1>13, CallerNames DEF CallerStep, CCGoto
<1>14. ASSUME NEW i \in Conns, StopMark(i) PROVE ReachInv'
  BY <1>14 DEF StopMark
<1>15. ASSUME NEW i \in Conns, StopClose(i) PROVE ReachInv'
  <2> SUFFICES ASSUME NEW j \in Conns, pc'[j] \in Stored, Live(j)', ~lost'[j]
               PROVE  (j \in channels \/ Closing(j, Callers))'
    OBVIOUS
  <2>1. CASE j = i
    BY <1>15, <2>1, ChannelCloseStep DEF StopClose
  <2>2. CASE j # i
    BY <1>15, <2>2, ChannelCloseStep DEF StopClose
  <2>3. QED
    BY <2>1, <2>2
<1>16. ASSUME NEW i \in Conns, UserClose(i) PROVE ReachInv'
  BY <1>16, ChannelCloseStep DEF UserClose
<1>17. ASSUME NEW i \in Conns, NEW d \in HalfCloses, HalfClose(i, d)
      PROVE  ReachInv'
  BY <1>17 DEF HalfClose
<1>18. ASSUME NEW i \in Conns, HooksStart(i) PROVE ReachInv'
  <2>1. CASE CCGoto(i, "hook", "enter")
    BY <1>18, <2>1, CallerNames, SMTT(30) DEF HooksStart, CCGoto
  <2>2. CASE CCGoto(i, "hook", "end")
    BY <1>18, <2>2, CallerNames DEF HooksStart, CCGoto
  <2>3. QED
    BY <1>18, <2>1, <2>2 DEF HooksStart
<1>19. ASSUME NEW i \in Conns, ConnClose(i) PROVE ReachInv'
  BY <1>19 DEF ConnClose
<1>20. ASSUME NEW i \in Conns, RangeVisit(i) PROVE ReachInv'
  <2> SUFFICES ASSUME NEW j \in Conns, pc'[j] \in Stored, Live(j)', ~lost'[j]
               PROVE  (j \in channels \/ Closing(j, Callers))'
    OBVIOUS
  <2>1. CASE j = i
    BY <1>20, <2>1 DEF RangeVisit
  <2>2. CASE j # i
    BY <1>20, <2>2, CallerNames DEF RangeVisit, CCGoto
  <2>3. QED
    BY <2>1, <2>2
<1>21. ASSUME ThClose \/ RangeEnd \/ ThReturn \/ OtherLeaves PROVE ReachInv'
  BY <1>21 DEF ThClose, RangeEnd, ThGoto, ThReturn, OtherLeaves
<1> HIDE DEF ReachInv, Types, PathInv
<1>22. QED
  BY CallerForm, ConnsAssumption, <1>1, <1>2, <1>3, <1>4, <1>5, <1>6, <1>7,
     <1>8, <1>9, <1>10, <1>11, <1>12, <1>13, <1>14, <1>15, <1>16, <1>17,
     <1>18, <1>19, <1>20, <1>21 DEF Next, ConnStep, ConnectStep,
     CloseChannelStep, CloserStep, ThStep

\* Whoever removes a channel ends its keeper first.
LEMMA KeepStep ==
    ASSUME Types, PathInv, RegInv, KeepInv, Next
    PROVE  KeepInv'
<1> USE DEF KeepInv, Types, PathInv, regVars, chVars, keepVars, connectVars,
       thVars, Early, Stored, InConnect
<1>1. ASSUME NEW i \in Conns, ConnectStart(i) PROVE KeepInv'
  BY <1>1, ZenonT(30) DEF ConnectStart, Goto, isActive
<1>2. ASSUME NEW i \in Conns, CheckLimit(i) PROVE KeepInv'
  BY <1>2, ZenonT(30) DEF CheckLimit, Goto, OutOfLimit
<1>3. ASSUME NEW i \in Conns, ActivateOk(i) PROVE KeepInv'
  BY <1>3 DEF ActivateOk, Goto
<1>4. ASSUME NEW i \in Conns, ActivateFails(i) PROVE KeepInv'
  BY <1>4 DEF ActivateFails, Goto
<1>5. ASSUME NEW i \in Conns, PrepareKeepalive(i) PROVE KeepInv'
  BY <1>5 DEF PrepareKeepalive, Goto
<1>6. ASSUME NEW i \in Conns, Inc(i) PROVE KeepInv'
  BY <1>6 DEF Inc, Goto
<1>7. ASSUME NEW i \in Conns, Store(i) PROVE KeepInv'
  BY <1>7 DEF Store, Goto
<1>8. ASSUME NEW i \in Conns, ConnectDefer(i) PROVE KeepInv'
  BY <1>8 DEF ConnectDefer, Goto, ClosedMeanwhile, isActive
<1>9. ASSUME NEW i \in Conns, NEW w \in Callers, LoadAndDelete(i, w)
      PROVE  KeepInv'
  BY <1>9 DEF LoadAndDelete, CCGoto, Back, Removes
<1>10. ASSUME NEW i \in Conns, NEW w \in Callers, KeeperClose(i, w)
      PROVE  KeepInv'
  BY <1>10 DEF KeeperClose, CCGoto, Closed
<1>11. ASSUME NEW i \in Conns, NEW w \in Callers, Dec(i, w) PROVE KeepInv'
  BY <1>11 DEF Dec, CCGoto
<1>12. ASSUME NEW i \in Conns, NEW w \in Callers, CloseChannelEnd(i, w)
      PROVE  KeepInv'
  BY <1>12 DEF CloseChannelEnd, CCGoto, Back
<1>13. ASSUME NEW i \in Conns, NEW w \in {"read", "write"}, NEW from \in
        {"idle", "reading"}, NEW to \in {"idle", "reading", "enter"},
        CallerStep(i, w, from, to)
      PROVE  KeepInv'
  BY <1>13, CallerNames DEF CallerStep, CCGoto
<1>14. ASSUME NEW i \in Conns, StopMark(i) PROVE KeepInv'
  BY <1>14 DEF StopMark
<1>15. ASSUME NEW i \in Conns, StopClose(i) \/ UserClose(i) PROVE KeepInv'
  BY <1>15 DEF StopClose, UserClose
<1>16. ASSUME NEW i \in Conns, NEW d \in HalfCloses, HalfClose(i, d)
      PROVE  KeepInv'
  BY <1>16 DEF HalfClose
<1>17. ASSUME NEW i \in Conns, HooksStart(i) PROVE KeepInv'
  <2>1. cc[i]["hook"] = "idle"
    BY <1>17 DEF HooksStart
  <2>2. ASSUME NEW j \in Conns, \E w \in Callers : cc[j][w] = "keeper"
        PROVE  \E w \in Callers : cc'[j][w] = "keeper"
    BY <1>17, <2>1, <2>2, CallerNames DEF HooksStart, CCGoto
  <2>3. QED
    BY <1>17, <2>2 DEF HooksStart
<1>18. ASSUME NEW i \in Conns, ConnClose(i) PROVE KeepInv'
  BY <1>18 DEF ConnClose
<1>19. ASSUME NEW i \in Conns, RangeVisit(i) PROVE KeepInv'
  BY <1>19, CallerNames DEF RangeVisit, CCGoto, RegInv
<1>20. ASSUME ThClose \/ RangeEnd \/ ThReturn \/ OtherLeaves PROVE KeepInv'
  BY <1>20 DEF ThClose, RangeEnd, ThGoto, ThReturn, OtherLeaves
<1> HIDE DEF KeepInv, Types, PathInv
<1>21. QED
  BY CallerForm, ConnsAssumption, <1>1, <1>2, <1>3, <1>4, <1>5, <1>6, <1>7,
     <1>8, <1>9, <1>10, <1>11, <1>12, <1>13, <1>14, <1>15, <1>16, <1>17,
     <1>18, <1>19, <1>20 DEF Next, ConnStep, ConnectStep, CloseChannelStep,
     CloserStep, ThStep

\* The registry shrinks under the Range, but for channels whose OnConnect sees
\* that the handler is closed.
LEMMA RangeStep ==
    ASSUME Types, PathInv, RegInv, RangeInv, Next
    PROVE  RangeInv'
<1> USE DEF RangeInv, Types, regVars, chVars, keepVars, connectVars, thVars,
       Live
<1>1. ASSUME NEW i \in Conns, ConnectStart(i) \/ CheckLimit(i) \/
        ActivateOk(i) \/ ActivateFails(i) \/ PrepareKeepalive(i) \/ Inc(i)
      PROVE  RangeInv'
  BY <1>1 DEF ConnectStart, Goto, CheckLimit, ActivateOk, ActivateFails,
     PrepareKeepalive, Inc, RegInv, Stored, PathInv, Early, InConnect,
     isActive
<1>2. ASSUME NEW i \in Conns, Store(i) PROVE RangeInv'
  BY <1>2 DEF Store, Goto, RegInv, Stored
<1>3. ASSUME NEW i \in Conns, ConnectDefer(i) PROVE RangeInv'
  <2>1. CASE err'[i]
    BY <1>3, <2>1, ChannelCloseStep DEF ConnectDefer, Goto
  <2>2. CASE ~err'[i]
    BY <1>3, <2>2 DEF ConnectDefer, Goto, ClosedMeanwhile, isActive
  <2>3. QED
    BY <2>1, <2>2
<1>4. ASSUME NEW i \in Conns, NEW w \in Callers, LoadAndDelete(i, w)
      PROVE  RangeInv'
  BY <1>4 DEF LoadAndDelete, CCGoto, Back, Removes
<1>5. ASSUME NEW i \in Conns, NEW w \in Callers, KeeperClose(i, w)
      PROVE  RangeInv'
  BY <1>5 DEF KeeperClose, CCGoto
<1>6. ASSUME NEW i \in Conns, NEW w \in Callers, Dec(i, w) PROVE RangeInv'
  BY <1>6 DEF Dec, CCGoto
<1>7. ASSUME NEW i \in Conns, NEW w \in Callers, CloseChannelEnd(i, w)
      PROVE  RangeInv'
  BY <1>7, ChannelCloseStep DEF CloseChannelEnd, CCGoto, Back
<1>8. ASSUME NEW i \in Conns, NEW w \in {"read", "write"}, NEW from \in
        {"idle", "reading"}, NEW to \in {"idle", "reading", "enter"},
        CallerStep(i, w, from, to)
      PROVE  RangeInv'
  BY <1>8, CallerNames DEF CallerStep, CCGoto
<1>9. ASSUME NEW i \in Conns, StopMark(i) PROVE RangeInv'
  BY <1>9 DEF StopMark
<1>10. ASSUME NEW i \in Conns, StopClose(i) PROVE RangeInv'
  <2>1. \A j \in Conns : ~Live(j) \/ lost[j] => ~Live(j)' \/ lost'[j]
    BY <1>10, ChannelCloseStep DEF StopClose
  <2>2. QED
    BY <1>10, <2>1 DEF StopClose
<1>11. ASSUME NEW i \in Conns, UserClose(i) PROVE RangeInv'
  BY <1>11, ChannelCloseStep DEF UserClose
<1>12. ASSUME NEW i \in Conns, NEW d \in HalfCloses, HalfClose(i, d)
      PROVE  RangeInv'
  BY <1>12 DEF HalfClose
<1>13. ASSUME NEW i \in Conns, HooksStart(i) PROVE RangeInv'
  <2>1. CASE CCGoto(i, "hook", "enter")
    BY <1>13, <2>1, CallerNames DEF HooksStart, CCGoto
  <2>2. CASE CCGoto(i, "hook", "end")
    BY <1>13, <2>2, CallerNames DEF HooksStart, CCGoto
  <2>3. QED
    BY <1>13, <2>1, <2>2 DEF HooksStart
<1>14. ASSUME NEW i \in Conns, ConnClose(i) PROVE RangeInv'
  BY <1>14 DEF ConnClose
<1>15. ASSUME NEW i \in Conns, RangeVisit(i) PROVE RangeInv'
  BY <1>15, CallerNames DEF RangeVisit, CCGoto, RegInv
<1>16. ASSUME ThClose PROVE RangeInv'
  BY <1>16 DEF ThClose
<1>17. ASSUME RangeEnd PROVE RangeInv'
  BY <1>17 DEF RangeEnd, ThGoto, RangeOver
<1>18. ASSUME ThReturn PROVE RangeInv'
  BY <1>18 DEF ThReturn, ThGoto
<1>19. ASSUME OtherLeaves PROVE RangeInv'
  BY <1>19 DEF OtherLeaves
<1> HIDE DEF RangeInv, Types
<1>20. QED
  BY CallerForm, ConnsAssumption, <1>1, <1>2, <1>3, <1>4, <1>5, <1>6, <1>7,
     <1>8, <1>9, <1>10, <1>11, <1>12, <1>13, <1>14, <1>15, <1>16, <1>17,
     <1>18, <1>19 DEF Next, ConnStep, ConnectStep, CloseChannelStep,
     CloserStep, ThStep

\* Everything that is counted is finite.
LEMMA Finite ==
    ASSUME Types
    PROVE  /\ IsFiniteSet(channels) /\ Cardinality(channels) \in Nat
           /\ IsFiniteSet(Storing) /\ Cardinality(Storing) \in Nat
           /\ IsFiniteSet(Removing) /\ Cardinality(Removing) \in Nat
           /\ IsFiniteSet(Present) /\ Cardinality(Present) \in Nat
           /\ IsFiniteSet(unseen) /\ Cardinality(unseen) \in Nat
<1>1. IsFiniteSet(Callers)
  <2>1. IsFiniteSet({"read"} \cup {"write"} \cup {"hook"} \cup {"shutdown"})
    BY FS_Singleton, FS_Union, Zenon
  <2>2. QED
    BY <2>1 DEF Callers
<1>2. IsFiniteSet(Conns \X Callers)
  BY <1>1, ConnsAssumption, FS_Product
<1>3. /\ channels \in SUBSET Conns /\ Storing \in SUBSET Conns
      /\ Present \in SUBSET Conns /\ unseen \in SUBSET Conns
      /\ Removing \in SUBSET (Conns \X Callers)
  BY DEF Types, Storing, Present, Removing
<1>4. /\ IsFiniteSet(channels) /\ IsFiniteSet(Storing) /\ IsFiniteSet(Present)
      /\ IsFiniteSet(unseen) /\ IsFiniteSet(Removing)
  BY <1>2, <1>3, ConnsAssumption, FS_Subset
<1>5. QED
  BY <1>4, FS_CardinalityType

\* The pairs that are counted as removed, after a step of one caller.
LEMMA RemovingStep ==
    ASSUME Types, NEW i \in Conns, NEW w \in Callers, NEW label, CCGoto(i, w, label)
    PROVE  /\ <<i, w>> \in Removing <=> cc[i][w] \in {"keeper", "dec"}
           /\ label \in {"keeper", "dec"} => Removing' = Removing \cup {<<i, w>>}
           /\ label \notin {"keeper", "dec"} => Removing' = Removing \ {<<i, w>>}
<1>1. <<i, w>> \in Removing <=> cc[i][w] \in {"keeper", "dec"}
  BY DEF Removing
<1>2. cc'[i][w] = label
  BY DEF Types, CCGoto
<1>3. ASSUME NEW p \in Conns \X Callers
      PROVE  /\ p = <<i, w>> => cc'[p[1]][p[2]] = label
             /\ p # <<i, w>> => cc'[p[1]][p[2]] = cc[p[1]][p[2]]
  <2>1. PICK j \in Conns, v \in Callers : p = <<j, v>>
    OBVIOUS
  <2>2. j # i => cc'[j] = cc[j]
    BY DEF Types, CCGoto
  <2>3. v # w => cc'[i][v] = cc[i][v]
    BY DEF Types, CCGoto
  <2>4. QED
    BY <1>2, <2>1, <2>2, <2>3
<1>4. label \in {"keeper", "dec"} => Removing' = Removing \cup {<<i, w>>}
  BY <1>3 DEF Removing
<1>5. label \notin {"keeper", "dec"} => Removing' = Removing \ {<<i, w>>}
  BY <1>3 DEF Removing
<1>6. QED
  BY <1>1, <1>4, <1>5

\* A step of a caller that is not the removal, nor the end of it.
LEMMA RemovingSame ==
    ASSUME Types, NEW i \in Conns, NEW w \in Callers, NEW label, CCGoto(i, w, label),
           cc[i][w] \in {"keeper", "dec"} <=> label \in {"keeper", "dec"}
    PROVE  Removing' = Removing
<1>1. CASE label \in {"keeper", "dec"}
  <2>1. <<i, w>> \in Removing /\ Removing' = Removing \cup {<<i, w>>}
    BY <1>1, RemovingStep
  <2>2. QED
    BY <2>1, Zenon
<1>2. CASE label \notin {"keeper", "dec"}
  BY <1>2, RemovingStep, ZenonT(30)
<1>3. QED
  BY <1>1, <1>2

\* A step that changes nothing that is counted.
LEMMA CountSame ==
    ASSUME CountMatchesRegistry, UNCHANGED regVars, Storing' = Storing, Removing' = Removing
    PROVE  CountMatchesRegistry'
BY DEF CountMatchesRegistry, regVars

\* Inc and Store, LoadAndDelete and Dec move a channel from one summand to the
\* next.
LEMMA CountStep ==
    ASSUME Types, PathInv, RegInv, CountMatchesRegistry, Next
    PROVE  CountMatchesRegistry'
<1> USE DEF regVars, chVars, keepVars, connectVars, thVars
<1>1. ASSUME NEW i \in Conns, ConnectStart(i) \/ CheckLimit(i) \/
        ActivateOk(i) \/ ActivateFails(i) \/ PrepareKeepalive(i) \/
        ConnectDefer(i)
      PROVE  CountMatchesRegistry'
  <2>1. Storing' = Storing /\ Removing' = Removing
    BY <1>1 DEF Storing, Removing, Types, Goto, ConnectStart, CheckLimit, ActivateOk,
       ActivateFails, PrepareKeepalive, ConnectDefer
  <2>2. QED
    BY <1>1, <2>1, CountSame DEF ConnectStart, CheckLimit, ActivateOk,
       ActivateFails, PrepareKeepalive, ConnectDefer
<1>2. ASSUME NEW i \in Conns, Inc(i) PROVE CountMatchesRegistry'
  <2>1. Storing' = Storing \cup {i} /\ i \notin Storing
    BY <1>2 DEF Storing, Inc, Goto, Types
  <2>2. Removing' = Removing
    BY <1>2 DEF Removing, Inc
  <2>3. Cardinality(Storing') = Cardinality(Storing) + 1
    BY <2>1, Finite, FS_AddElement
  <2>4. QED
    BY <1>2, <2>2, <2>3, Finite DEF Inc, CountMatchesRegistry, Types
<1>3. ASSUME NEW i \in Conns, Store(i) PROVE CountMatchesRegistry'
  <2>1. Storing' = Storing \ {i} /\ i \in Storing
    BY <1>3 DEF Storing, Store, Goto, Types
  <2>2. Removing' = Removing
    BY <1>3 DEF Removing, Store
  <2>3. i \notin channels
    BY <1>3 DEF RegInv, Stored, Store
  <2>4. Cardinality(Storing') = Cardinality(Storing) - 1
    BY <2>1, Finite, FS_RemoveElement
  <2>5. Cardinality(channels') = Cardinality(channels) + 1
    BY <1>3, <2>3, Finite, FS_AddElement DEF Store
  <2>6. QED
    BY <1>3, <2>2, <2>4, <2>5, Finite DEF Store, CountMatchesRegistry, Types
<1>4. ASSUME NEW i \in Conns, NEW w \in Callers, LoadAndDelete(i, w)
      PROVE  CountMatchesRegistry'
  <2>1. Storing' = Storing
    BY <1>4 DEF Storing, LoadAndDelete
  <2>2. <<i, w>> \notin Removing
    BY <1>4 DEF Removing, LoadAndDelete
  <2>3. CASE i \in channels
    <3>1. Removing' = Removing \cup {<<i, w>>}
      BY <1>4, <2>3, RemovingStep DEF LoadAndDelete, Removes
    <3>2. Cardinality(Removing') = Cardinality(Removing) + 1
      BY <2>2, <3>1, Finite, FS_AddElement
    <3>3. Cardinality(channels') = Cardinality(channels) - 1
      BY <1>4, <2>3, Finite, FS_RemoveElement DEF LoadAndDelete
    <3>4. QED
      BY <1>4, <2>1, <3>2, <3>3, Finite DEF LoadAndDelete, CountMatchesRegistry, Types
  <2>4. CASE i \notin channels
    <3>1. Removing' = Removing
      BY <1>4, <2>2, <2>4, RemovingStep DEF LoadAndDelete, Removes, Back
    <3>2. QED
      BY <1>4, <2>1, <2>4, <3>1, CountSame DEF LoadAndDelete
  <2>5. QED
    BY <2>3, <2>4
<1>5. ASSUME NEW i \in Conns, NEW w \in Callers, KeeperClose(i, w)
      PROVE  CountMatchesRegistry'
  <2>1. Storing' = Storing
    BY <1>5 DEF Storing, KeeperClose
  <2>2. Removing' = Removing
    BY <1>5, RemovingSame, CallerNames DEF KeeperClose
  <2>3. QED
    BY <1>5, <2>1, <2>2, CountSame DEF KeeperClose
<1>6. ASSUME NEW i \in Conns, NEW w \in Callers, Dec(i, w)
      PROVE  CountMatchesRegistry'
  <2>1. Storing' = Storing
    BY <1>6 DEF Storing, Dec
  <2>2. Removing' = Removing \ {<<i, w>>} /\ <<i, w>> \in Removing
    BY <1>6, RemovingStep DEF Dec
  <2>3. Cardinality(Removing') = Cardinality(Removing) - 1
    BY <2>2, Finite, FS_RemoveElement
  <2>4. QED
    BY <1>6, <2>1, <2>3, Finite DEF Dec, CountMatchesRegistry, Types
<1>7. ASSUME NEW i \in Conns, NEW w \in Callers, CloseChannelEnd(i, w)
      PROVE  CountMatchesRegistry'
  <2>1. Storing' = Storing
    BY <1>7 DEF Storing, CloseChannelEnd
  <2>2. Removing' = Removing
    BY <1>7, RemovingSame, CallerNames DEF Back, CloseChannelEnd
  <2>3. QED
    BY <1>7, <2>1, <2>2, CountSame DEF CloseChannelEnd
<1>8. ASSUME NEW i \in Conns, NEW w \in {"read", "write"}, NEW from \in
        {"idle", "reading"}, NEW to \in {"idle", "reading", "enter"},
        CallerStep(i, w, from, to)
      PROVE  CountMatchesRegistry'
  <2>1. Storing' = Storing
    BY <1>8 DEF Storing, CallerStep
  <2>2. Removing' = Removing
    BY <1>8, RemovingSame, CallerNames DEF CallerStep
  <2>3. QED
    BY <1>8, <2>1, <2>2, CountSame DEF CallerStep
<1>9. ASSUME NEW i \in Conns, StopMark(i) \/ StopClose(i) \/ UserClose(i) \/
        ConnClose(i)
      PROVE  CountMatchesRegistry'
  <2>1. Storing' = Storing /\ Removing' = Removing
    BY <1>9 DEF Storing, Removing, StopMark, StopClose, UserClose, ConnClose
  <2>2. QED
    BY <1>9, <2>1, CountSame DEF StopMark, StopClose, UserClose, ConnClose
<1>10. ASSUME NEW i \in Conns, NEW d \in HalfCloses, HalfClose(i, d)
      PROVE  CountMatchesRegistry'
  <2>1. Storing' = Storing /\ Removing' = Removing
    BY <1>10 DEF Storing, Removing, HalfClose
  <2>2. QED
    BY <1>10, <2>1, CountSame DEF HalfClose
<1>11. ASSUME NEW i \in Conns, HooksStart(i) PROVE CountMatchesRegistry'
  <2>0. cc[i]["hook"] = "idle"
    BY <1>11 DEF PathInv, HooksStart
  <2>1. Storing' = Storing
    BY <1>11 DEF Storing, HooksStart
  <2>2. Removing' = Removing
    BY <1>11, <2>0, RemovingSame, CallerNames DEF HooksStart
  <2>3. QED
    BY <1>11, <2>1, <2>2, CountSame DEF HooksStart
<1>12. ASSUME NEW i \in Conns, RangeVisit(i) PROVE CountMatchesRegistry'
  <2>0. cc[i]["shutdown"] = "idle"
    BY <1>12 DEF RegInv, RangeVisit
  <2>1. Storing' = Storing
    BY <1>12 DEF Storing, RangeVisit
  <2>2. Removing' = Removing
    BY <1>12, <2>0, RemovingSame, CallerNames DEF RangeVisit
  <2>3. QED
    BY <1>12, <2>1, <2>2, CountSame DEF RangeVisit
<1>13. ASSUME ThClose \/ RangeEnd \/ ThReturn PROVE CountMatchesRegistry'
  <2>1. Storing' = Storing /\ Removing' = Removing
    BY <1>13 DEF Storing, Removing, ThClose, RangeEnd, ThReturn, ThGoto
  <2>2. QED
    BY <1>13, <2>1, CountSame DEF ThClose, RangeEnd, ThReturn, ThGoto
<1>14. ASSUME OtherLeaves PROVE CountMatchesRegistry'
  <2>1. Storing' = Storing /\ Removing' = Removing
    BY <1>14 DEF Storing, Removing, OtherLeaves
  <2>2. QED
    BY <1>14, <2>1, Finite DEF OtherLeaves, CountMatchesRegistry, Types
<1>15. QED
  BY CallerForm, ConnsAssumption, <1>1, <1>2, <1>3, <1>4, <1>5, <1>6, <1>7,
     <1>8, <1>9, <1>10, <1>11, <1>12, <1>13, <1>14 DEF Next, ConnStep,
     ConnectStep, CloseChannelStep, CloserStep, ThStep

\* The limit is tested against a count that misses only those whose test came
\* first and who are not counted yet.
LEMMA LimitStep ==
    ASSUME Types, PathInv, RegInv, CountMatchesRegistry, LimitInv, Next
    PROVE  LimitInv'
<1> USE DEF regVars, chVars, keepVars, connectVars, thVars, LimitInv
<1>1. ASSUME NEW i \in Conns, ConnectStart(i) PROVE LimitInv'
  <2>1. Present' = Present
    BY <1>1 DEF Present, Types, Goto, ConnectStart
  <2>2. QED
    BY <1>1, <2>1 DEF ConnectStart
<1>2. ASSUME NEW i \in Conns, CheckLimit(i) PROVE LimitInv'
  <2> SUFFICES ASSUME Max > 0
               PROVE  others + Cardinality(Present') <= Max + 1 + Cardinality(unseen')
    BY <1>2 DEF CheckLimit
  <2>1. i \notin Present /\ i \notin unseen
    BY <1>2 DEF CheckLimit, Present, RegInv, Stored, PathInv
  <2>2. CASE OutOfLimit
    <3>1. Present' = Present /\ unseen' = unseen
      BY <1>2, <2>2 DEF CheckLimit, Goto, Present, Types
    <3>2. QED
      BY <3>1
  <2>3. CASE ~OutOfLimit
    <3>1. Present' = Present \cup {i}
      BY <1>2, <2>3 DEF CheckLimit, Goto, Present, Types
    <3>2. Cardinality(Present') = Cardinality(Present) + 1
      BY <2>1, <3>1, Finite, FS_AddElement
    <3>3. CASE \E j \in Conns : Uncounted(j)
      <4>1. unseen' = unseen \cup {i}
        BY <1>2, <2>3, <3>3 DEF CheckLimit
      <4>2. Cardinality(unseen') = Cardinality(unseen) + 1
        BY <2>1, <4>1, Finite, FS_AddElement
      <4>3. QED
        BY <3>2, <4>2, Finite, MaxAssumption DEF Types
    <3>4. CASE ~\E j \in Conns : Uncounted(j)
      <4>1. unseen' = unseen
        BY <1>2, <3>4 DEF CheckLimit
      <4>2. Present = channels \cup Storing
        BY <3>4 DEF Present, Storing, Uncounted
      <4>3. Cardinality(Present) <= Cardinality(channels) + Cardinality(Storing)
        <5>1. /\ Cardinality(Present) = Cardinality(channels) + Cardinality(Storing)
                                         - Cardinality(channels \cap Storing)
              /\ IsFiniteSet(channels \cap Storing)
          BY <4>2, Finite, FS_Union, FS_Intersection
        <5>2. Cardinality(channels \cap Storing) \in Nat
          BY <5>1, FS_CardinalityType
        <5>3. QED
          BY <5>1, <5>2, Finite
      <4>4. channelCount <= Max
        BY <2>3, MaxAssumption DEF OutOfLimit, Types
      <4>5. QED
        BY <3>2, <4>1, <4>3, <4>4, Finite, MaxAssumption DEF CountMatchesRegistry, Types
    <3>5. QED
      BY <3>3, <3>4
  <2>4. QED
    BY <2>2, <2>3
<1>3. ASSUME NEW i \in Conns, ActivateOk(i) \/ PrepareKeepalive(i) \/ Inc(i)
      PROVE  LimitInv'
  <2>1. Present' = Present
    BY <1>3 DEF Present, Types, Goto, ActivateOk, PrepareKeepalive, Inc
  <2>2. QED
    BY <1>3, <2>1 DEF ActivateOk, PrepareKeepalive, Inc
<1>4. ASSUME NEW i \in Conns, ActivateFails(i) PROVE LimitInv'
  <2>1. Present' \in SUBSET Present
    BY <1>4 DEF ActivateFails, Goto, Present, Types
  <2>2. Cardinality(Present') <= Cardinality(Present) /\ Cardinality(Present') \in Nat
    BY <2>1, Finite, FS_Subset, FS_CardinalityType
  <2>3. QED
    BY <1>4, <2>2, Finite, MaxAssumption DEF ActivateFails, Types
<1>5. ASSUME NEW i \in Conns, Store(i) PROVE LimitInv'
  <2>1. Present' = Present
    BY <1>5 DEF Present, Types, Goto, Store
  <2>2. QED
    BY <1>5, <2>1 DEF Store
<1>6. ASSUME NEW i \in Conns, ConnectDefer(i) PROVE LimitInv'
  <2>1. Present' = Present
    BY <1>6 DEF Present, Types, Goto, ConnectDefer
  <2>2. QED
    BY <1>6, <2>1 DEF ConnectDefer
<1>7. ASSUME NEW i \in Conns, NEW w \in Callers, LoadAndDelete(i, w)
      PROVE  LimitInv'
  <2>1. Present' \in SUBSET Present
    BY <1>7 DEF LoadAndDelete, Present
  <2>2. Cardinality(Present') <= Cardinality(Present) /\ Cardinality(Present') \in Nat
    BY <2>1, Finite, FS_Subset, FS_CardinalityType
  <2>3. QED
    BY <1>7, <2>2, Finite, MaxAssumption DEF LoadAndDelete, Types
<1>8. ASSUME NEW i \in Conns, NEW w \in Callers, KeeperClose(i, w) \/ Dec(i,
        w) \/ CloseChannelEnd(i, w)
      PROVE  LimitInv'
  <2>1. Present' = Present
    BY <1>8 DEF Present, KeeperClose, Dec, CloseChannelEnd
  <2>2. QED
    BY <1>8, <2>1 DEF KeeperClose, Dec, CloseChannelEnd
<1>9. ASSUME NEW i \in Conns, NEW w \in {"read", "write"}, NEW from \in
        {"idle", "reading"}, NEW to \in {"idle", "reading", "enter"},
        CallerStep(i, w, from, to)
      PROVE  LimitInv'
  <2>1. Present' = Present
    BY <1>9 DEF Present, CallerStep
  <2>2. QED
    BY <1>9, <2>1 DEF CallerStep
<1>10. ASSUME NEW i \in Conns, StopMark(i) \/ StopClose(i) \/ UserClose(i)
        \/ HooksStart(i) \/ ConnClose(i) \/ RangeVisit(i)
      PROVE  LimitInv'
  <2>1. Present' = Present
    BY <1>10 DEF Present, StopMark, StopClose, UserClose, HooksStart,
       ConnClose, RangeVisit
  <2>2. QED
    BY <1>10, <2>1 DEF StopMark, StopClose, UserClose, HooksStart,
       ConnClose, RangeVisit
<1>11. ASSUME NEW i \in Conns, NEW d \in HalfCloses, HalfClose(i, d)
      PROVE  LimitInv'
  <2>1. Present' = Present
    BY <1>11 DEF Present, HalfClose
  <2>2. QED
    BY <1>11, <2>1 DEF HalfClose
<1>12. ASSUME ThClose \/ RangeEnd \/ ThReturn PROVE LimitInv'
  <2>1. Present' = Present
    BY <1>12 DEF Present, ThClose, RangeEnd, ThReturn, ThGoto
  <2>2. QED
    BY <1>12, <2>1 DEF ThClose, RangeEnd, ThReturn, ThGoto
<1>13. ASSUME OtherLeaves PROVE LimitInv'
  <2>1. Present' = Present
    BY <1>13 DEF Present, OtherLeaves
  <2>2. QED
    BY <1>13, <2>1, Finite, MaxAssumption DEF OtherLeaves, Types
<1>14. QED
  BY CallerForm, ConnsAssumption, <1>1, <1>2, <1>3, <1>4, <1>5, <1>6, <1>7,
     <1>8, <1>9, <1>10, <1>11, <1>12, <1>13 DEF Next, ConnStep, ConnectStep,
     CloseChannelStep, CloserStep, ThStep

-----------------------------------------------------------------------------
\* The inductive invariant holds at the start.
LEMMA IndInit == Init => IndInv
<1> SUFFICES ASSUME Init PROVE IndInv
  OBVIOUS
<1>1. Types
  BY MaxAssumption DEF Init, Types, InConnect, CCs, Callers
<1>2. PathInv /\ RegInv /\ ReachInv /\ KeepInv /\ RangeInv
  BY CallerNames DEF Init, PathInv, RegInv, ReachInv, KeepInv, RangeInv,
     Early, Stored, InConnect, Live
<1>3. Storing = {} /\ Removing = {} /\ Present = {}
  BY DEF Init, Storing, Removing, Present
<1>4. CountMatchesRegistry
  BY <1>3, FS_EmptySet, MaxAssumption DEF Init, CountMatchesRegistry
<1>5. LimitInv
  BY <1>3, FS_EmptySet, MaxAssumption DEF Init, LimitInv
<1>6. QED
  BY <1>1, <1>2, <1>4, <1>5 DEF IndInv

\* It is kept by every step, and by a step that leaves the handler alone.
LEMMA IndStep ==
    ASSUME IndInv, [Next]_vars
    PROVE  IndInv'
<1>1. CASE Next
  BY <1>1, TypesStep, PathStep, RegStep, CountStep, ReachStep, KeepStep, RangeStep,
     LimitStep DEF IndInv
<1>2. CASE UNCHANGED vars
  <2> USE <1>2 DEF IndInv, vars, regVars, chVars, keepVars, connectVars, thVars
  <2>1. Types' /\ PathInv' /\ RegInv'
    BY DEF Types, PathInv, RegInv
  <2>2. ReachInv' /\ KeepInv' /\ RangeInv'
    BY DEF ReachInv, KeepInv, RangeInv, Live, Closing
  <2>3. CountMatchesRegistry' /\ LimitInv'
    BY DEF CountMatchesRegistry, Storing, Removing, LimitInv, Present
  <2>4. QED
    BY <2>1, <2>2, <2>3
<1>3. QED
  BY <1>1, <1>2

\* The inductive invariant gives the properties.  LimitKept: a live channel that
\* nobody is closing is registered, or its OnConnect is on the way there.
LEMMA IndImplies ==
    ASSUME IndInv
    PROVE  /\ TypeOK /\ CountMatchesRegistry /\ LimitKept
           /\ ActiveIsReachable /\ NoOrphanKeeper /\ ShutdownClosesAll
<1> USE DEF IndInv
<1>1. TypeOK
  <2>1. channelCount \in Nat
    BY Finite, MaxAssumption DEF Types, CountMatchesRegistry
  <2>2. QED
    BY <2>1 DEF Types, TypeOK
<1>2. ActiveIsReachable
  BY DEF ReachInv, Stored, ActiveIsReachable
<1>3. NoOrphanKeeper
  BY DEF KeepInv, Stored, NoOrphanKeeper
<1>4. ShutdownClosesAll
  <2> SUFFICES ASSUME th = "returned", NEW i \in Conns, Live(i),
                      pc[i] \notin InConnect, ~lost[i]
               PROVE  Closing(i, Callers \ {"shutdown"})
    BY DEF ShutdownClosesAll
  <2>1. pc[i] = "ret"
    BY DEF Types, PathInv, Early, Live
  <2>2. cc[i]["shutdown"] \in {"idle", "end"}
    BY DEF RegInv, RangeInv
  <2>3. thState = "closed"
    BY DEF RangeInv, Types
  <2>4. i \notin channels
    <3>1. CASE i \in must
      BY <3>1 DEF RegInv, RangeInv
    <3>2. CASE i \notin must
      BY <2>1, <2>3, <3>2 DEF RangeInv
    <3>3. QED
      BY <3>1, <3>2
  <2>5. Closing(i, Callers)
    BY <2>1, <2>4 DEF ReachInv, Stored
  <2>6. QED
    BY <2>2, <2>5 DEF Closing
<1>5. LimitKept
  <2> DEFINE Lives == {i \in Conns : Live(i) /\ ~lost[i] /\ ~Closing(i, Callers)}
  <2>1. ASSUME NEW i \in Lives PROVE i \in Present
    <3>1. CASE pc[i] \in Stored
      BY <2>1, <3>1 DEF ReachInv, Present
    <3>2. CASE pc[i] \notin Stored
      BY <2>1, <3>2 DEF Stored, Types, InConnect, PathInv, Early, Live, Present
    <3>3. QED
      BY <3>1, <3>2
  <2>2. Lives \in SUBSET Present
    BY <2>1
  <2>3. Cardinality(Lives) <= Cardinality(Present) /\ Cardinality(Lives) \in Nat
    BY <2>2, Finite, FS_Subset, FS_CardinalityType
  <2>4. QED
    BY <2>3, Finite, MaxAssumption DEF LimitKept, LimitInv, Types
<1>6. QED
  BY <1>1, <1>2, <1>3, <1>4, <1>5

\* The inductive invariant holds in every reachable state.
THEOREM HandlerInductive == Spec => []IndInv
<1>1. Init => IndInv
  BY IndInit
<1>2. IndInv /\ [Next]_vars => IndInv'
  BY IndStep
<1>3. QED
  BY <1>1, <1>2, PTL DEF Spec

\* The fields and the labels of every goroutine keep their types; in particular
\* the count of channels is never negative.
THEOREM HandlerTypes == Spec => []TypeOK
<1>1. IndInv => TypeOK
  BY IndImplies
<1>2. QED
  BY <1>1, HandlerInductive, PTL

\* Whatever the interleaving of OnConnect with the callers of closeChannel, the
\* count is that of the registry and of the channels on their way in and out.
THEOREM CountIsExact == Spec => []CountMatchesRegistry
<1>1. IndInv => CountMatchesRegistry
  BY IndImplies
<1>2. QED
  BY <1>1, HandlerInductive, PTL

\* The limit is exceeded by one channel, and by one for each OnConnect whose
\* test came between the test and the count of another, and by no more.
THEOREM LimitHolds == Spec => []LimitKept
<1>1. IndInv => LimitKept
  BY IndImplies
<1>2. QED
  BY <1>1, HandlerInductive, PTL

\* A live channel whose OnConnect has returned can be found by Close of the
\* handler, or is about to be closed, unless a half-close defeated its Close.
THEOREM LiveIsReachable == Spec => []ActiveIsReachable
<1>1. IndInv => ActiveIsReachable
  BY IndImplies
<1>2. QED
  BY <1>1, HandlerInductive, PTL

\* No keeper outlives the registration of its channel.
THEOREM KeepersEnd == Spec => []NoOrphanKeeper
<1>1. IndInv => NoOrphanKeeper
  BY IndImplies
<1>2. QED
  BY <1>1, HandlerInductive, PTL

\* When Close of the handler has returned, only channels that an OnConnect or a
\* closeChannel under way is about to close are live, or ones whose Close a
\* half-close defeated, although the registry changed during the Range.
THEOREM ShutdownLeavesNone == Spec => []ShutdownClosesAll
<1>1. IndInv => ShutdownClosesAll
  BY IndImplies
<1>2. QED
  BY <1>1, HandlerInductive, PTL
=============================================================================
