------------------------------- MODULE Server -------------------------------
(***************************************************************************)
(* A server of Emove/less over its TCP transport: Run and Shutdown         *)
(* (server/server.go), Listen with its accept loop, the read loops and     *)
(* Close (transport/tcp/trans_std.go), composed with the transport handler *)
(* that they drive.                                                        *)
(*                                                                         *)
(* Shutdown may be called by the application and is called by the          *)
(* goroutine of Listen when Listen fails, which then ends the process.     *)
(* The listener is closed by nobody: the accept loop outlives a Shutdown   *)
(* and a connection it accepts then is refused by the handler.             *)
(***************************************************************************)
EXTENDS TransHandler

Shutters == {"app", "listen"}    \* callers of Shutdown

VARIABLES listen,    \* the goroutine of Run
          ctx,       \* t.ctx of the transport
          shutdown,  \* Shutdown by each caller
          ended,     \* connections whose read loop has returned
          proc       \* the process

srvVars == <<listen, ctx, shutdown, ended, proc>>
allVars == <<vars, srvVars>>

SrvTypeOK ==
    /\ TypeOK
    /\ listen \in {"new", "binding", "accepting", "failed"}
    /\ ctx \in {"nil", "live", "cancelled"}
    /\ shutdown \in [Shutters -> {"idle", "handler", "transport", "returned"}]
    /\ ended \subseteq Conns
    /\ proc \in {"up", "crashed", "exited"}

SrvInit ==
    /\ Init
    /\ listen = "new" /\ ctx = "nil"
    /\ shutdown = [c \in Shutters |-> "idle"]
    /\ ended = {}
    /\ proc = "up"

Up == proc = "up"    \* no panic or Fatalf has ended the process

-----------------------------------------------------------------------------
(* Run, Listen and the accept loop *)

Run ==
    /\ Up /\ listen = "new"
    /\ listen' = "binding"
    /\ UNCHANGED <<vars, ctx, shutdown, ended, proc>>

\* Listen resolves and binds its address; t.Close has nothing to cancel until
\* then.
Listen ==
    /\ Up /\ listen = "binding"
    /\ listen' = "accepting"
    /\ ctx' = "live"
    /\ UNCHANGED <<vars, shutdown, ended, proc>>

Accepting == Up /\ listen = "accepting" /\ \A j \in Conns : pc[j] \notin InConnect

\* The address cannot be bound, or Accept fails for good.
ListenFails ==
    /\ Up /\ (listen = "binding" \/ Accepting)
    /\ listen' = "failed"
    /\ UNCHANGED <<vars, ctx, shutdown, ended, proc>>

\* Accept fails for a moment: the loop sleeps and then goes on with the nil
\* connection, whose type assertion panics.
AcceptTemporaryError ==
    /\ Accepting
    /\ proc' = "crashed"
    /\ UNCHANGED <<vars, listen, ctx, shutdown, ended>>

\* The connection of an accepted socket is handed to OnConnect; the loop goes
\* on when that has returned.
Accept(i) ==
    /\ Accepting
    /\ ConnectStart(i)
    /\ UNCHANGED srvVars

\* A socket that cannot be configured is closed.
ApplyOptionsFails(i) ==
    /\ Accepting
    /\ pc[i] = "start"
    /\ Goto(i, "ret")
    /\ err' = [err EXCEPT ![i] = TRUE]
    /\ connOpen' = [connOpen EXCEPT ![i] = FALSE]
    /\ UNCHANGED <<regVars, chVars, keepVars, unseen, cc, thVars, srvVars>>

-----------------------------------------------------------------------------
(* The read loop of an accepted connection *)

Looping(i) == Up /\ pc[i] = "ret" /\ ~err[i] /\ i \notin ended

\* OnMessage.  When it refuses (a closed handler, a channel that cannot be
\* read) its error is dropped and the loop comes back at once.
LoopRead(i) ==
    /\ Looping(i) /\ ctx = "live"
    /\ ReadStart(i)
    /\ UNCHANGED srvVars

\* Mutation of LoopEnd: only an open connection is asked for its context.
MutLoopEnd(i) ==
    /\ Looping(i) /\ cc[i]["read"] = "idle"
    /\ ctx = "cancelled" /\ connOpen[i]
    /\ ended' = ended \cup {i}
    /\ UNCHANGED <<vars, listen, ctx, shutdown, proc>>

\* The transport was closed.
LoopEnd(i) ==
    /\ Looping(i) /\ cc[i]["read"] = "idle"
    /\ ctx = "cancelled"
    /\ ended' = ended \cup {i}
    /\ UNCHANGED <<vars, listen, ctx, shutdown, proc>>

-----------------------------------------------------------------------------
(* Shutdown *)

\* Close of the handler, by the first caller; a second one goes on at once.
Shutdown(c) ==
    /\ Up /\ shutdown[c] = "idle"
    /\ IF c = "listen" THEN listen = "failed" ELSE listen # "new"
    /\ shutdown' = [shutdown EXCEPT ![c] = IF isActive THEN "handler" ELSE "transport"]
    /\ IF isActive THEN ThClose ELSE UNCHANGED vars
    /\ UNCHANGED <<listen, ctx, ended, proc>>

HandlerClosed(c) ==
    /\ Up /\ shutdown[c] = "handler"
    /\ th = "returned"
    /\ shutdown' = [shutdown EXCEPT ![c] = "transport"]
    /\ UNCHANGED <<vars, listen, ctx, ended, proc>>

\* t.Close, and Release of the goroutine pool, which reboots it.  After its
\* own Shutdown the goroutine of Listen ends the process.
TransportClose(c) ==
    /\ Up /\ shutdown[c] = "transport"
    /\ shutdown' = [shutdown EXCEPT ![c] = "returned"]
    /\ ctx' = IF ctx = "nil" THEN "nil" ELSE "cancelled"
    /\ proc' = IF c = "listen" THEN "exited" ELSE "up"
    /\ UNCHANGED <<vars, listen, ended>>

-----------------------------------------------------------------------------
ShutdownStep(c) == HandlerClosed(c) \/ TransportClose(c)

\* The steps of the handler's goroutines.
HandlerStep ==
    \/ \E i \in Conns : ConnStep(i)
    \/ \E i \in Writers : WritePanics(i)
    \/ ThStep \/ OtherLeaves

\* A step of the handler's goroutines, which leaves the server alone.
Runs(A) == Up /\ A /\ UNCHANGED srvVars

SrvNext ==
    \/ Run \/ Listen \/ ListenFails \/ AcceptTemporaryError
    \/ \E i \in Conns : Accept(i) \/ ApplyOptionsFails(i) \/ LoopRead(i) \/ LoopEnd(i)
    \/ \E c \in Shutters : Shutdown(c) \/ ShutdownStep(c)
    \/ Runs(HandlerStep)

\* Goroutines run while the process does, and a read of a closed connection
\* fails.  Whether a peer connects or sends, Listen or Accept fails, or anyone
\* closes a channel or the server is up to the environment.
\*
\* The goroutines are the accept loop, and for each connection the read loop, a
\* writer, the closer, the keeper, and the one that Close of the handler starts.
AcceptLoop == Runs(\E i \in Conns : ConnectStep(i))
ReadLoop(i) ==
    \/ Runs(CloseChannelStep(i, "read") \/ (~connOpen[i] /\ ReadFails(i)))
    \/ LoopEnd(i)

SrvFairness ==
    /\ WF_allVars(AcceptLoop)
    /\ \A i \in Conns :
        /\ WF_allVars(ReadLoop(i))
        /\ WF_allVars(Runs(CloseChannelStep(i, "write")))
        /\ WF_allVars(Runs(CloserStep(i) \/ CloseChannelStep(i, "hook")))
        /\ WF_allVars(Runs(StopClose(i)))
        /\ WF_allVars(Runs(CloseChannelStep(i, "shutdown")))
    /\ WF_allVars(Runs(ThStep))
    /\ \A c \in Shutters : WF_allVars(ShutdownStep(c))

SrvSpec == SrvInit /\ [][SrvNext]_allVars /\ SrvFairness

-----------------------------------------------------------------------------
(* Properties *)

\* The connection stays open for good: it was refused before its channel was
\* active, both directions were closed one by one and no Close takes effect
\* any more, or the Close of the one who removed the channel lost against such
\* a half-close.
Stranded(i) ==
    \/ ~Live(i) /\ closer[i] = "none"
    \/ lost[i] /\ (i \notin channels \/ err[i])

\* Once the handler is closed, every accepted connection is closed in the end,
\* also when its OnConnect raced with Shutdown, unless it is stranded or the
\* process is gone.
ShutdownCompletes ==
    \A i \in Conns :
        thState = "closed" /\ pc[i] # "start" ~> ~connOpen[i] \/ Stranded(i) \/ ~Up

\* Once a Shutdown has begun, every running read loop returns (so the Shutdown
\* gets past the handler and cancels the transport), unless the loop is reading
\* a stranded connection or the process is gone.
ReadLoopsEnd ==
    \A i \in Conns :
        (\E c \in Shutters : shutdown[c] # "idle") /\ Looping(i)
            ~> i \in ended \/ Stranded(i) \/ ~Up
=============================================================================
