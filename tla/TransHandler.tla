---------------------------- MODULE TransHandler ----------------------------
(***************************************************************************)
(* The transport handler of Emove/less (internal/trans/trans_handler.go):  *)
(* the registry of channels, the channel count and the connection limit,   *)
(* and the goroutines that use them:                                       *)
(*                                                                         *)
(*   - OnConnect, called by a transport, perhaps concurrently;            *)
(*   - the read loop of each connection, whose decode errors and panics    *)
(*     end in closeChannel (OnRead);                                       *)
(*   - writes of the application, whose panics end there too (OnWrite);    *)
(*   - the keeper of each connection (internal/keepalive), which may close *)
(*     its channel as soon as it runs;                                     *)
(*   - the application, which may close or half-close a channel;           *)
(*   - the closer goroutine of each channel, whose first OnChannelClosed   *)
(*     hook is closeChannel again;                                         *)
(*   - Close, which ranges over the registry while the others change it.   *)
(*                                                                         *)
(* A channel is abstracted to what Channel.tla proves of it: its Close     *)
(* takes effect once, only while a direction is open, and starts a         *)
(* goroutine that runs the hooks (or, if its wait panics, skips them) and  *)
(* then closes the connection.                                             *)
(***************************************************************************)
EXTENDS Integers, FiniteSets

CONSTANTS Conns,        \* connections
          Others,       \* registered channels of further connections
          Max,          \* ops.maxChannelSize; 0 is no limit
          Keepalive,    \* do the parameters start keepers?
          HooksSkipped, \* may a closer goroutine panic before its hooks?
          Busy,         \* connections that are used; the others just stay
          Writers,      \* those of them on which a write may panic
          HalfCloses    \* directions the application may close

ASSUME ConnsAssumption == IsFiniteSet(Conns) /\ Writers \subseteq Busy /\ Busy \subseteq Conns
\* The further channels passed the limit one after the other.
ASSUME MaxAssumption == Max \in Nat /\ Others \in Nat /\ (Max > 0 => Others <= Max + 1)
ASSUME FlagsAssumption ==
    /\ {Keepalive, HooksSkipped} \subseteq BOOLEAN
    /\ HalfCloses \subseteq {"readable", "writeable"}

Callers == {"read", "write", "hook", "shutdown"}    \* callers of closeChannel
readWriteMode == {"readable", "writeable"}

VARIABLES
    thState,       \* th.state
    channels,      \* th.channels: the connections with a registered channel
    channelCount,  \* th.channelCount
    others,        \* how many of the further channels are still there
    state,         \* the open directions of each channel
    closer,        \* the closer goroutine of each channel
    lost,          \* has a Close of the channel lost its CAS to a half-close?
    connOpen,      \* is the connection open?
    keeper,        \* the keeper of each channel: k.done
    stop,          \* stopChannel of each keeper
    unseen,        \* connections whose OnConnect passed the limit while another
                   \* one had passed it and was not counted yet
    pc,            \* OnConnect of each connection
    err,           \* does OnConnect return an error?
    cc,            \* closeChannel, for each connection and caller
    th,            \* Close of the handler
    must, visited  \* its Range: keys it has to visit, keys it visited

regVars == <<channels, channelCount, others>>
chVars == <<state, closer, lost>>
keepVars == <<keeper, stop>>
connectVars == <<pc, err, unseen>>
thVars == <<thState, th, must, visited>>
vars == <<regVars, chVars, connOpen, keepVars, connectVars, cc, thVars>>

InConnect == {"limit", "activate", "keepalive", "inc", "store", "defer"}
CCs == {"idle", "reading", "enter", "keeper", "dec", "close", "end"}

TypeOK ==
    /\ thState \in {"serving", "closed"}
    /\ channels \subseteq Conns /\ channelCount \in Nat /\ others \in 0 .. Others
    /\ state \in [Conns -> SUBSET readWriteMode]
    /\ closer \in [Conns -> {"none", "waiting", "hooks", "end"}]
    /\ lost \in [Conns -> BOOLEAN]
    /\ connOpen \in [Conns -> BOOLEAN]
    /\ keeper \in [Conns -> {"none", "running", "done"}]
    /\ stop \in [Conns -> {"idle", "close", "end"}]
    /\ pc \in [Conns -> InConnect \cup {"start", "ret"}]
    /\ err \in [Conns -> BOOLEAN] /\ unseen \subseteq Conns
    /\ cc \in [Conns -> [Callers -> CCs]]
    /\ th \in {"idle", "range", "wait", "returned"}
    /\ must \subseteq Conns /\ visited \subseteq Conns

Init ==
    /\ thState = "serving"
    /\ channels = {} /\ channelCount = Others /\ others = Others
    /\ state = [i \in Conns |-> {}]
    /\ closer = [i \in Conns |-> "none"]
    /\ lost = [i \in Conns |-> FALSE]
    /\ connOpen = [i \in Conns |-> TRUE]
    /\ keeper = [i \in Conns |-> "none"]
    /\ stop = [i \in Conns |-> "idle"]
    /\ pc = [i \in Conns |-> "start"]
    /\ err = [i \in Conns |-> FALSE] /\ unseen = {}
    /\ cc = [i \in Conns |-> [w \in Callers |-> "idle"]]
    /\ th = "idle" /\ must = {} /\ visited = {}

isActive == thState = "serving"
Live(i) == state[i] # {}

Goto(i, label) == pc' = [pc EXCEPT ![i] = label]

\* Channel.Close: it takes effect on a channel with an open direction only,
\* and starts the closer goroutine.  It is a load and a compare-and-swap, and
\* fails if a direction is closed between the two.
ChannelClose(i) ==
    \/ ~Live(i) /\ UNCHANGED chVars
    \/ /\ Live(i)
       /\ state' = [state EXCEPT ![i] = {}]
       /\ closer' = [closer EXCEPT ![i] = "waiting"]
       /\ UNCHANGED lost
    \/ \E d \in state[i] \cap HalfCloses :
        /\ i \in Busy
        /\ state' = [state EXCEPT ![i] = @ \ {d}]
        /\ lost' = [lost EXCEPT ![i] = TRUE]
        /\ UNCHANGED closer

-----------------------------------------------------------------------------
(* OnConnect *)

\* A transport calls OnConnect, which refuses the connection once the handler
\* is closed.
ConnectStart(i) ==
    /\ pc[i] = "start"
    /\ Goto(i, IF isActive THEN "limit" ELSE "ret")
    /\ err' = [err EXCEPT ![i] = ~isActive]
    /\ UNCHANGED <<regVars, chVars, connOpen, keepVars, unseen, cc, thVars>>

\* Mutation of OutOfLimit: one off once more.
MutOutOfLimit == Max > 0 /\ channelCount > Max + 1

OutOfLimit == Max > 0 /\ channelCount > Max

\* Past the limit and not yet counted.
Uncounted(j) == pc[j] \in {"activate", "keepalive", "inc"}

\* The connection limit; below it NewChannel makes an inactive channel.
CheckLimit(i) ==
    /\ pc[i] = "limit"
    /\ Goto(i, IF OutOfLimit THEN "defer" ELSE "activate")
    /\ err' = [err EXCEPT ![i] = OutOfLimit]
    /\ unseen' = IF ~OutOfLimit /\ \E j \in Conns : Uncounted(j)
                 THEN unseen \cup {i} ELSE unseen
    /\ UNCHANGED <<regVars, chVars, connOpen, keepVars, cc, thVars>>

\* ch.Activate, all hooks content.
ActivateOk(i) ==
    /\ pc[i] = "activate"
    /\ state' = [state EXCEPT ![i] = readWriteMode]
    /\ Goto(i, "keepalive")
    /\ UNCHANGED <<regVars, closer, lost, connOpen, keepVars, err, unseen, cc, thVars>>

\* ch.Activate, when an OnChannel hook returns an error.
ActivateFails(i) ==
    /\ pc[i] = "activate"
    /\ Goto(i, "defer")
    /\ err' = [err EXCEPT ![i] = TRUE]
    /\ UNCHANGED <<regVars, chVars, connOpen, keepVars, unseen, cc, thVars>>

\* prepareKeepalive starts the keeper's timers.
PrepareKeepalive(i) ==
    /\ pc[i] = "keepalive"
    /\ keeper' = [keeper EXCEPT ![i] = IF Keepalive THEN "running" ELSE "none"]
    /\ Goto(i, "inc")
    /\ UNCHANGED <<regVars, chVars, connOpen, stop, err, unseen, cc, thVars>>

Inc(i) ==
    /\ pc[i] = "inc"
    /\ channelCount' = channelCount + 1
    /\ Goto(i, "store")
    /\ UNCHANGED <<channels, others, chVars, connOpen, keepVars, err, unseen, cc, thVars>>

Store(i) ==
    /\ pc[i] = "store"
    /\ channels' = channels \cup {i}
    /\ Goto(i, "defer")
    /\ UNCHANGED <<channelCount, others, chVars, connOpen, keepVars, err, unseen, cc, thVars>>

\* Mutation of ClosedMeanwhile: the handler's state is not looked at again.
MutClosedMeanwhile == FALSE

ClosedMeanwhile == ~isActive

\* The deferred function: the handler may have been closed meanwhile.  The
\* accept loop only goes on to the next connection when it gets an error.
ConnectDefer(i) ==
    /\ pc[i] = "defer"
    /\ Goto(i, "ret")
    /\ err' = [err EXCEPT ![i] = @ \/ ClosedMeanwhile]
    /\ IF err'[i] THEN ChannelClose(i) ELSE UNCHANGED chVars
    /\ UNCHANGED <<regVars, connOpen, keepVars, unseen, cc, thVars>>

-----------------------------------------------------------------------------
(* closeChannel, by the caller w *)

CCGoto(i, w, label) == cc' = [cc EXCEPT ![i][w] = label]

\* Where the caller is once closeChannel has returned: the read loop loops.
Back(w) == IF w = "read" THEN "idle" ELSE "end"

\* Mutation of Removes: Load and Delete, whose result is not looked at.
MutRemoves(i) == TRUE

Removes(i) == i \in channels

\* Only the caller that removes the channel from the registry goes on.
LoadAndDelete(i, w) ==
    /\ cc[i][w] = "enter"
    /\ channels' = channels \ {i}
    /\ CCGoto(i, w, IF Removes(i) THEN "keeper" ELSE Back(w))
    /\ UNCHANGED <<channelCount, others, chVars, connOpen, keepVars, connectVars, thVars>>

\* Mutation of Closed: the keeper is left running.
MutClosed(k) == k

\* Keeper.Close, when there is a keeper.
Closed(k) == IF k = "none" THEN "none" ELSE "done"

KeeperClose(i, w) ==
    /\ cc[i][w] = "keeper"
    /\ keeper' = [keeper EXCEPT ![i] = Closed(@)]
    /\ CCGoto(i, w, "dec")
    /\ UNCHANGED <<regVars, chVars, connOpen, stop, connectVars, thVars>>

\* Mutation of Dec: a channel closed by its own hook is not subtracted.
MutDec(i, w) ==
    /\ cc[i][w] = "dec"
    /\ channelCount' = IF w = "hook" THEN channelCount ELSE channelCount - 1
    /\ CCGoto(i, w, "close")
    /\ UNCHANGED <<channels, others, chVars, connOpen, keepVars, connectVars, thVars>>

\* th.channelCount.Dec().
Dec(i, w) ==
    /\ cc[i][w] = "dec"
    /\ channelCount' = channelCount - 1
    /\ CCGoto(i, w, "close")
    /\ UNCHANGED <<channels, others, chVars, connOpen, keepVars, connectVars, thVars>>

\* Mutation of CloseChannelEnd: a keeper is trusted to have closed it.
MutCloseChannelEnd(i, w) ==
    /\ cc[i][w] = "close"
    /\ IF keeper[i] = "none" THEN ChannelClose(i) ELSE UNCHANGED chVars
    /\ CCGoto(i, w, Back(w))
    /\ UNCHANGED <<regVars, connOpen, keepVars, connectVars, thVars>>

\* ch.Close(ctx, err), whose error is dropped.
CloseChannelEnd(i, w) ==
    /\ cc[i][w] = "close"
    /\ ChannelClose(i)
    /\ CCGoto(i, w, Back(w))
    /\ UNCHANGED <<regVars, connOpen, keepVars, connectVars, thVars>>

CloseChannelStep(i, w) ==
    \/ LoadAndDelete(i, w) \/ KeeperClose(i, w) \/ Dec(i, w) \/ CloseChannelEnd(i, w)

-----------------------------------------------------------------------------
(* The read loop (OnMessage and OnRead) and writes (OnWrite) *)

\* A step of caller w to a label of closeChannel or of its loop.
CallerStep(i, w, from, to) ==
    /\ cc[i][w] = from
    /\ CCGoto(i, w, to)
    /\ UNCHANGED <<regVars, chVars, connOpen, keepVars, connectVars, thVars>>

\* OnMessage passes its checks and OnRead blocks in Decode.
ReadStart(i) ==
    /\ pc[i] = "ret" /\ ~err[i]
    /\ isActive
    /\ "readable" \in state[i]
    /\ CallerStep(i, "read", "idle", "reading")

\* A message is decoded and submitted, or dropped for its size.
ReadOk(i) ==
    /\ i \in Busy /\ connOpen[i]
    /\ CallerStep(i, "read", "reading", "idle")

\* Decode fails or panics (the peer or the closer goroutine closed the
\* connection, or the bytes are not a packet).
ReadFails(i) ==
    /\ i \in Busy \/ ~connOpen[i]
    /\ CallerStep(i, "read", "reading", "enter")

\* OnWrite panics in a codec and recovers with closeChannel.  outboundHandler
\* asks for the readable direction, Write for the writeable one.
WritePanics(i) ==
    /\ isActive
    /\ state[i] = readWriteMode
    /\ CallerStep(i, "write", "idle", "enter")

-----------------------------------------------------------------------------
(* The keeper, the application and the closer goroutine *)

\* stopChannel: unless the keeper is closed, mark it done ...
StopMark(i) ==
    /\ i \in Busy
    /\ keeper[i] = "running"
    /\ stop[i] = "idle"
    /\ keeper' = [keeper EXCEPT ![i] = "done"]
    /\ stop' = [stop EXCEPT ![i] = "close"]
    /\ UNCHANGED <<regVars, chVars, connOpen, connectVars, cc, thVars>>

\* ... and close the channel.
StopClose(i) ==
    /\ stop[i] = "close"
    /\ ChannelClose(i)
    /\ stop' = [stop EXCEPT ![i] = "end"]
    /\ UNCHANGED <<regVars, connOpen, keeper, connectVars, cc, thVars>>

\* A handler, or the GoAway timer, closes the channel.
UserClose(i) ==
    /\ i \in Busy /\ Live(i)
    /\ ChannelClose(i)
    /\ UNCHANGED <<regVars, connOpen, keepVars, connectVars, cc, thVars>>

\* CloseReader (also called for a GoAway of the peer) or CloseWriter.  Once
\* both have been called the state is inactive and no Close takes effect.
HalfClose(i, d) ==
    /\ i \in Busy
    /\ d \in state[i] \cap HalfCloses
    /\ state' = [state EXCEPT ![i] = @ \ {d}]
    /\ UNCHANGED <<regVars, closer, lost, connOpen, keepVars, connectVars, cc, thVars>>

\* One of the further channels is closed.
OtherLeaves ==
    /\ others > 0
    /\ others' = others - 1
    /\ channelCount' = channelCount - 1
    /\ UNCHANGED <<channels, chVars, connOpen, keepVars, connectVars, cc, thVars>>

\* The inbound tasks are done and the first hook, closeChannel, is called; or
\* the wait panics and the hooks are skipped.
HooksStart(i) ==
    /\ closer[i] = "waiting"
    /\ closer' = [closer EXCEPT ![i] = "hooks"]
    /\ \/ CCGoto(i, "hook", "enter")
       \/ HooksSkipped /\ CCGoto(i, "hook", "end")
    /\ UNCHANGED <<regVars, state, lost, connOpen, keepVars, connectVars, thVars>>

\* The clean-up closes the connection.
ConnClose(i) ==
    /\ closer[i] = "hooks"
    /\ cc[i]["hook"] = "end"
    /\ closer' = [closer EXCEPT ![i] = "end"]
    /\ connOpen' = [connOpen EXCEPT ![i] = FALSE]
    /\ UNCHANGED <<regVars, state, lost, keepVars, connectVars, cc, thVars>>

-----------------------------------------------------------------------------
(* Close of the handler *)

ThClose ==
    /\ thState = "serving"
    /\ thState' = "closed"
    /\ th' = "range"
    /\ must' = channels
    /\ UNCHANGED <<regVars, chVars, connOpen, keepVars, connectVars, cc, visited>>

\* Range visits a key that is in the registry now, at most once, and starts
\* a goroutine for it.
RangeVisit(i) ==
    /\ th = "range"
    /\ i \in channels \ visited
    /\ visited' = visited \cup {i}
    /\ CCGoto(i, "shutdown", "enter")
    /\ UNCHANGED <<regVars, chVars, connOpen, keepVars, connectVars, thState, th, must>>

\* Mutation of RangeOver: the iteration may stop early.
MutRangeOver == TRUE

\* A key that was there from the start to the end has been visited; one that
\* was stored meanwhile may have been missed.
RangeOver == must \cap channels \subseteq visited

ThGoto(from, to) ==
    /\ th = from
    /\ th' = to
    /\ UNCHANGED <<regVars, chVars, connOpen, keepVars, connectVars, cc, thState, must, visited>>

RangeEnd == RangeOver /\ ThGoto("range", "wait")

\* closingChannels.Wait is over and Close returns nil.
ThReturn ==
    /\ \A i \in visited : cc[i]["shutdown"] = "end"
    /\ ThGoto("wait", "returned")

-----------------------------------------------------------------------------
ConnectStep(i) ==
    \/ CheckLimit(i) \/ ActivateOk(i) \/ ActivateFails(i) \/ PrepareKeepalive(i)
    \/ Inc(i) \/ Store(i) \/ ConnectDefer(i)

CloserStep(i) == HooksStart(i) \/ ConnClose(i)

ThStep == (\E i \in Conns : RangeVisit(i)) \/ RangeEnd \/ ThReturn

\* The steps of a connection but the first, ConnectStart.
ConnStep(i) ==
    \/ ConnectStep(i)
    \/ \E w \in Callers : CloseChannelStep(i, w)
    \/ ReadOk(i) \/ ReadFails(i)
    \/ StopMark(i) \/ StopClose(i) \/ UserClose(i)
    \/ \E d \in HalfCloses : HalfClose(i, d)
    \/ CloserStep(i)

Next ==
    \/ \E i \in Conns : ConnectStart(i) \/ ReadStart(i) \/ ConnStep(i)
    \/ \E i \in Writers : WritePanics(i)
    \/ ThClose \/ ThStep \/ OtherLeaves

Spec == Init /\ [][Next]_vars

-----------------------------------------------------------------------------
(* Safety *)

\* The calls of OnConnect between the Inc of the count and the Store.
Storing == {i \in Conns : pc[i] = "store"}

\* The steps of closeChannel between LoadAndDelete and the Dec of the count.
Removing == {p \in Conns \X Callers : cc[p[1]][p[2]] \in {"keeper", "dec"}}

\* The count is the number of registered channels, plus those about to be
\* stored, plus those removed and about to be subtracted: no interleaving of
\* the callers of closeChannel counts a channel down twice or misses one.
CountMatchesRegistry ==
    channelCount = others + Cardinality(channels) + Cardinality(Storing) + Cardinality(Removing)

\* A caller of closeChannel in W has removed the channel and is to close it.
Closing(i, W) == \E w \in W : cc[i][w] \in {"keeper", "dec", "close"}

\* There is never more than one channel above the limit, and one for each
\* OnConnect whose test came between the test and the count of another.  What
\* counts is a channel with an open direction that nobody who removed it is
\* about to close: one that is counted down early, or twice, would make room.
LimitKept ==
    Max > 0 =>
        others + Cardinality({i \in Conns : Live(i) /\ ~lost[i] /\ ~Closing(i, Callers)})
            <= Max + 1 + Cardinality(unseen)

\* Once OnConnect has returned, a channel with an open direction is in the
\* registry, where Close and the read loop find it, or someone who took it out
\* is about to close it.  The one exception: the Close of closeChannel lost
\* against CloseReader or CloseWriter and nobody tries again.
ActiveIsReachable ==
    \A i \in Conns :
        pc[i] = "ret" /\ Live(i) /\ ~lost[i] => i \in channels \/ Closing(i, Callers)

\* A channel taken out of the registry leaves no keeper running behind.
NoOrphanKeeper ==
    \A i \in Conns :
        pc[i] = "ret" /\ ~err[i] /\ keeper[i] = "running" =>
            i \in channels \/ \E w \in Callers : cc[i][w] = "keeper"

\* When Close of the handler has returned, no channel has an open direction
\* unless its OnConnect is still on its way to look at the handler's state
\* again, another caller of closeChannel, which Close does not wait for, is
\* about to close it, or a Close lost against a half-close.
ShutdownClosesAll ==
    th = "returned" =>
        \A i \in Conns :
            Live(i) => pc[i] \in InConnect \/ Closing(i, Callers \ {"shutdown"}) \/ lost[i]

-----------------------------------------------------------------------------
(* What the code says of itself and does not do *)

\* internal/trans/trans_handler.go:126: channelCount is the number of
\* "concurrent channel nums", when nothing is in progress.
Quiet ==
    \A i \in Conns :
        /\ pc[i] \in {"start", "ret"}
        /\ closer[i] \in {"none", "end"}
        /\ stop[i] # "close"
        /\ \A w \in Callers : cc[i][w] \in {"idle", "reading", "end"}

CountIsConcurrentChannels ==
    Quiet => channelCount = others + Cardinality({i \in Conns : Live(i)})
=============================================================================
