---------------------------- MODULE ServerProofs ----------------------------
(***************************************************************************)
(* The transport handler keeps its invariants when a server drives it: the *)
(* accept loop, the read loops and the Shutdowns of Server.tla only take   *)
(* steps of the handler that TransHandlerProofs covers, or leave it alone. *)
(* The one exception, a socket that cannot be configured and never gets to *)
(* OnConnect, is covered here.                                             *)
(***************************************************************************)
EXTENDS Server, TransHandlerProofs

\* A connection that is refused before OnConnect has no channel.
LEMMA ApplyOptionsFailsStep ==
    ASSUME IndInv, NEW i \in Conns, ApplyOptionsFails(i)
    PROVE  IndInv'
<1> USE DEF IndInv, ApplyOptionsFails, Goto, regVars, chVars, keepVars, thVars
<1>1. Types'
  BY DEF Types
<1>2. PathInv' /\ RegInv'
  BY DEF Types, PathInv, RegInv, Early, Stored, InConnect
<1>3. ReachInv' /\ KeepInv' /\ RangeInv'
  BY DEF Types, PathInv, RegInv, ReachInv, KeepInv, RangeInv, Early, Stored, Live, Closing
<1>4. Storing' = Storing /\ Removing' = Removing /\ Present' = Present
  BY DEF Types, Storing, Removing, Present
<1>5. CountMatchesRegistry' /\ LimitInv'
  BY <1>4 DEF CountMatchesRegistry, LimitInv
<1>6. QED
  BY <1>1, <1>2, <1>3, <1>5

\* Every step of the server is one of the handler, leaves the handler alone, or
\* refuses a socket.
LEMMA ServerStep ==
    ASSUME [SrvNext]_allVars
    PROVE  [Next]_vars \/ \E i \in Conns : ApplyOptionsFails(i)
<1>1. CASE UNCHANGED allVars
  BY <1>1 DEF allVars
<1>2. CASE Run \/ Listen \/ ListenFails \/ AcceptTemporaryError
  BY <1>2 DEF Run, Listen, ListenFails, AcceptTemporaryError
<1>3. ASSUME NEW i \in Conns, Accept(i) \/ LoopRead(i) PROVE Next
  BY <1>3 DEF Accept, LoopRead, Next
<1>4. ASSUME NEW i \in Conns, LoopEnd(i) PROVE UNCHANGED vars
  BY <1>4 DEF LoopEnd
<1>5. ASSUME NEW c \in Shutters, Shutdown(c) PROVE [Next]_vars
  BY <1>5 DEF Shutdown, Next
<1>6. ASSUME NEW c \in Shutters, ShutdownStep(c) PROVE UNCHANGED vars
  BY <1>6 DEF ShutdownStep, HandlerClosed, TransportClose
<1>7. ASSUME HandlerStep PROVE Next
  BY <1>7 DEF HandlerStep, Next
<1>8. QED
  BY <1>1, <1>2, <1>3, <1>4, <1>5, <1>6, <1>7 DEF SrvNext, Runs

\* The inductive invariant of the handler is one of the server.
THEOREM ServerInductive == SrvSpec => []IndInv
<1>1. SrvInit => IndInv
  BY IndInit DEF SrvInit
<1>2. IndInv /\ [SrvNext]_allVars => IndInv'
  BY ServerStep, IndStep, ApplyOptionsFailsStep
<1>3. QED
  BY <1>1, <1>2, PTL DEF SrvSpec

\* While a server runs, and after any of its Shutdowns, a live channel whose
\* OnConnect has returned is in the registry or about to be closed, also on
\* connections whose writes panic and whose sockets could not be configured.
THEOREM ServerLiveIsReachable == SrvSpec => []ActiveIsReachable
<1>1. IndInv => ActiveIsReachable
  BY IndImplies
<1>2. QED
  BY <1>1, ServerInductive, PTL

\* A Shutdown that has got past Close of the handler leaves no channel open
\* but those that ShutdownClosesAll excepts, and counts none twice.
THEOREM ServerShutdownLeavesNone == SrvSpec => [](ShutdownClosesAll /\ CountMatchesRegistry)
<1>1. IndInv => ShutdownClosesAll /\ CountMatchesRegistry
  BY IndImplies
<1>2. QED
  BY <1>1, ServerInductive, PTL
=============================================================================
