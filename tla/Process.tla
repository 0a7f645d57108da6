------------------------------ MODULE Process ------------------------------
(***************************************************************************)
(* What all servers and channels of a process share: the default options,  *)
(* which every NewServer and every Run change through the same pointers,   *)
(* the pool of pipelines with its New function, the array behind the       *)
(* OnChannelClosed hooks of a handler, and the goroutine pool in which     *)
(* channels are closed.                                                    *)
(*                                                                         *)
(* Of the options the model keeps the OnChannelClosed hooks.  Of a Close   *)
(* it keeps what its goroutine does with the pipeline; module Channel has  *)
(* the rest.                                                               *)
(***************************************************************************)
EXTENDS Naturals, Sequences, FiniteSets, SequencesExt

CONSTANTS Servers, Channels, Pipelines, None,
          Configured,   \* OnChannelClosed hooks given to a server
          Disables,     \* servers made with DisableGoPool
          PoolSize,     \* capacity of the goroutine pool
          Adds          \* bound: hooks added for a channel

ASSUME ProcessAssumption ==
    /\ None \notin Servers \cup Channels /\ IsFiniteSet(Channels)
    /\ {Configured, PoolSize, Adds} \subseteq Nat
    /\ Disables \subseteq Servers

VARIABLES
    transOptions,    \* defaultServerOptions: the servers whose options it has
    onChannelClosed, \* defaultTransOptions: the hooks
    srv,             \* where Run of a server is
    chain, spare,    \* the hooks of a server's handler, and what is written
                     \* behind their end in the same array
    new,             \* the server whose pipelines pool.New makes
    pl, free,        \* the pipelines, and those in the pool
    global, gen,     \* the goroutine pool and its number
    crashed,         \* a panic has ended the process
    pc, serverOf, plOf, worker, hooks, called,   \* of a channel: its state,
                     \* server, pipeline, the goroutine of its Close, the
                     \* slice of specific hooks it walks, the hooks it called
    sharing,         \* channels whose slice lies in the array of the chain
    added, want, dirty, stray, full  \* history: see the properties

optVars == <<transOptions, onChannelClosed, srv, chain, new>>
goVars == <<global, gen, crashed, full>>
closeVars == <<worker, hooks, sharing, called, want>>
vars == <<optVars, spare, pl, free, goVars, pc, serverOf, plOf, closeVars, added, dirty, stray>>

\* The hook of a handler, the hooks of a server (one entry for all of them) and
\* those of a channel.
Hook == ({"closeChannel", "server"} \X Servers) \cup ({"channel"} \X Channels \X Nat)
Started == {s \in Servers : srv[s] \notin {"none", "new"}}

TypeOK ==
    /\ transOptions \in Seq(Servers) /\ onChannelClosed \in Seq(Hook)
    /\ srv \in [Servers -> {"none", "new", "handler", "released", "running"}]
    /\ chain \in [Servers -> Seq(Hook)] /\ spare \in [Servers -> Seq(Hook)]
    /\ new \in Servers \cup {None}
    /\ pl \in [Pipelines -> [of : Servers \cup {None}, ch : Channels \cup {None},
                             chocc : Seq(Hook)]]
    /\ free \subseteq Pipelines
    /\ global \in {"nil", "open", "closed"} /\ gen \in Nat /\ crashed \in BOOLEAN
    /\ pc \in [Channels -> {"none", "open", "closing", "hooks", "closed"}]
    /\ serverOf \in [Channels -> Servers \cup {None}]
    /\ plOf \in [Channels -> Pipelines \cup {None}]
    /\ worker \in [Channels -> Nat] /\ called \in [Channels -> Seq(Hook)]
    /\ hooks \in [Channels -> Seq(Hook)] /\ sharing \subseteq Channels
    /\ \A c \in Channels : pc[c] \notin {"none", "closed"} => pl[plOf[c]].ch = c
    /\ added \in [Channels -> Seq(Hook)] /\ want \in [Channels -> Seq(Hook)]
    /\ dirty \subseteq Channels /\ stray \subseteq Pipelines /\ full \in BOOLEAN

Init ==
    /\ transOptions = <<>> /\ onChannelClosed = <<>>
    /\ srv = [s \in Servers |-> "none"]
    /\ chain = [s \in Servers |-> <<>>] /\ spare = [s \in Servers |-> <<>>]
    /\ new = None
    /\ pl = [p \in Pipelines |-> [of |-> None, ch |-> None, chocc |-> <<>>]] /\ free = {}
    /\ global = "nil" /\ gen = 0 /\ crashed = FALSE
    /\ pc = [c \in Channels |-> "none"]
    /\ serverOf = [c \in Channels |-> None] /\ plOf = [c \in Channels |-> None]
    /\ worker = [c \in Channels |-> 0]
    /\ hooks = [c \in Channels |-> <<>>] /\ called = [c \in Channels |-> <<>>]
    /\ sharing = {}
    /\ added = [c \in Channels |-> <<>>] /\ want = [c \in Channels |-> <<>>]
    /\ dirty = {} /\ stray = {} /\ full = FALSE

-----------------------------------------------------------------------------
(* Servers *)

\* The options of s are appended to the ones of the process.
WithOnChannelClosed(s) == Append(transOptions, s)

\* NewServer changes the options of the process, a pointer to which it keeps.
NewServer(s) ==
    /\ srv[s] = "none"
    /\ srv' = [srv EXCEPT ![s] = "new"]
    /\ transOptions' = WithOnChannelClosed(s)
    /\ UNCHANGED <<onChannelClosed, chain, new, spare, pl, free, goVars, pc, serverOf, plOf,
                   closeVars, added, dirty, stray>>

\* What is left when all options are applied.
AllApplied == onChannelClosed \o [i \in DOMAIN transOptions |-> <<"server", transOptions[i]>>]

\* Run, NewTransHandler: all options of the process are applied, once more,
\* to the options of the process; the handler's own hook comes first; the pool
\* of pipelines gets a new New.
NewTransHandler(s) ==
    /\ srv[s] = "new"
    /\ srv' = [srv EXCEPT ![s] = "handler"]
    /\ onChannelClosed' = AllApplied
    /\ chain' = [chain EXCEPT ![s] = <<(<<"closeChannel", s>>)>> \o onChannelClosed']
    /\ new' = s
    /\ UNCHANGED <<transOptions, spare, pl, free, goVars, pc, serverOf, plOf, closeVars,
                   added, dirty, stray>>

Disabled == \E i \in DOMAIN transOptions : transOptions[i] \in Disables

\* Run, Init of the goroutine pool: the old one is released, ...
InitRelease(s) ==
    /\ srv[s] = "handler"
    /\ srv' = [srv EXCEPT ![s] = IF Disabled THEN "running" ELSE "released"]
    /\ global' = IF Disabled \/ global = "nil" THEN global ELSE "closed"
    /\ UNCHANGED <<transOptions, onChannelClosed, chain, new, gen, crashed, full, spare,
                   pl, free, pc, serverOf, plOf, closeVars, added, dirty, stray>>

\* ... and a new one made.
InitPool(s) ==
    /\ srv[s] = "released"
    /\ srv' = [srv EXCEPT ![s] = "running"]
    /\ global' = "open" /\ gen' = gen + 1
    /\ UNCHANGED <<transOptions, onChannelClosed, chain, new, crashed, full, spare,
                   pl, free, pc, serverOf, plOf, closeVars, added, dirty, stray>>

\* Release, at the end of a Shutdown, reboots a pool that is closed.
Release ==
    /\ \E s \in Servers : srv[s] = "running"
    /\ global = "closed"
    /\ global' = "open"
    /\ UNCHANGED <<optVars, gen, crashed, full, spare, pl, free, pc, serverOf, plOf,
                   closeVars, added, dirty, stray>>

-----------------------------------------------------------------------------
(* Pipelines *)

\* Mutation of Get: the pipeline stays in the pool.
MutGet(p) == (p \in free \/ pl[p].of = None) /\ UNCHANGED <<free, new>>

\* sync.Pool: Get returns a pipeline of the pool, or makes a new one.
Get(p) ==
    /\ p \in free \/ pl[p].of = None
    /\ free' = free \ {p}
    /\ UNCHANGED new

\* A server accepts a connection: a channel with a pipeline.
NewChannel(c, s, p) ==
    /\ srv[s] = "running" /\ pc[c] = "none"
    /\ Get(p)
    /\ pl' = [pl EXCEPT ![p].ch = c, ![p].of = IF @ = None THEN new ELSE @]
    /\ pc' = [pc EXCEPT ![c] = "open"]
    /\ serverOf' = [serverOf EXCEPT ![c] = s] /\ plOf' = [plOf EXCEPT ![c] = p]
    /\ UNCHANGED <<transOptions, onChannelClosed, srv, chain, spare, goVars, closeVars,
                   added, dirty, stray>>

\* AddOnChannelClosed, which nothing stops after the channel is closed and
\* its pipeline released.
AddOnChannelClosed(c) ==
    LET p == plOf[c]
        h == <<"channel", c, Len(added[c]) + 1>> IN
    /\ pc[c] # "none" /\ Len(added[c]) < Adds
    /\ pl' = [pl EXCEPT ![p].chocc = Append(@, h)]
    /\ added' = [added EXCEPT ![c] = Append(@, h)]
    /\ stray' = IF pl[p].ch = c THEN stray ELSE stray \cup {p}
    /\ UNCHANGED <<optVars, spare, free, goVars, pc, serverOf, plOf, closeVars, dirty>>

-----------------------------------------------------------------------------
(* Close of a channel *)

Busy == {c \in Channels : pc[c] \in {"closing", "hooks"} /\ worker[c] = gen}

\* Mutation of Pooled: the pool refuses its last worker.
MutPooled == global = "open" /\ Cardinality(Busy) + 1 < PoolSize

\* The pool takes a task.
Pooled == global = "open" /\ Cardinality(Busy) < PoolSize

\* Close submits its work: to the pool or, if there is none or that refuses,
\* to a goroutine of its own, whose panics nobody recovers.
Close(c) ==
    /\ pc[c] = "open"
    /\ pc' = [pc EXCEPT ![c] = "closing"]
    /\ worker' = [worker EXCEPT ![c] = IF Pooled THEN gen ELSE 0]
    /\ full' = (full \/ (global = "open" /\ Cardinality(Busy) >= PoolSize))
    /\ UNCHANGED <<optVars, spare, pl, free, global, gen, crashed, serverOf, plOf,
                   hooks, sharing, called, want, added, dirty, stray>>

\* Room that append leaves behind the chain: a func is a word, and beyond
\* four words (up to 32) the allocator's sizes are even numbers of words.
Room(hs) ==
    LET words == 1 + Configured * (Len(hs) - 1)
    IN IF words > 4 THEN words % 2 ELSE 0

\* The slice that Close of c walks, and the next hook of it.
Slice(c) == IF c \in sharing THEN spare[pl[plOf[c]].of] ELSE hooks[c]
Specific(c) == Len(called[c]) - Len(chain[pl[plOf[c]].of])

\* FireOnChannelClosed appends the channel's hooks to the chain of the handler.
\* Where that has capacity left they go into the array that all pipelines of
\* the handler share.  Then the hooks of the chain are called.
FireOnChannelClosed(c) ==
    LET p == pl[plOf[c]]
        n == Len(p.chocc)
        shares == n \in 1 .. Room(chain[p.of]) IN
    /\ pc[c] = "closing"
    /\ pc' = [pc EXCEPT ![c] = "hooks"]
    /\ hooks' = [hooks EXCEPT ![c] = p.chocc]
    /\ sharing' = IF shares THEN sharing \cup {c} ELSE sharing
    /\ spare' = IF shares THEN [spare EXCEPT ![p.of] = p.chocc] ELSE spare
    /\ called' = [called EXCEPT ![c] = chain[p.of]]
    /\ want' = [want EXCEPT ![c] = added[c]]
    /\ dirty' = dirty \cup
         {d \in Channels : \/ /\ shares /\ pc[d] = "hooks" /\ d \in sharing
                              /\ pl[plOf[d]].of = p.of /\ Specific(d) < Len(Slice(d))
                           \/ d = c /\ plOf[c] \in stray}
    /\ UNCHANGED <<optVars, pl, free, goVars, serverOf, plOf, worker, added, stray>>

CallHook(c) ==
    /\ pc[c] = "hooks" /\ Specific(c) < Len(Slice(c))
    /\ called' = [called EXCEPT ![c] = Append(@, Slice(c)[Specific(c) + 1])]
    /\ UNCHANGED <<optVars, spare, pl, free, goVars, pc, serverOf, plOf, worker, hooks, sharing,
                   want, added, dirty, stray>>

\* Mutation of Reset: the hooks of the channel stay in its pipeline.
MutReset(p) == [p EXCEPT !.ch = None]

\* Release of a pipeline.
Reset(p) == [p EXCEPT !.ch = None, !.chocc = <<>>]

\* The end of the goroutine, by return or, with panics = TRUE, by a hook that
\* panics: the pipeline goes back to the pool.
CloseEnd(c, panics) ==
    /\ pc[c] = "hooks"
    /\ panics \/ Specific(c) = Len(Slice(c))
    /\ pc' = [pc EXCEPT ![c] = "closed"]
    /\ pl' = [pl EXCEPT ![plOf[c]] = Reset(@)]
    /\ free' = free \cup {plOf[c]}
    /\ stray' = stray \ {plOf[c]}
    /\ crashed' = (panics /\ worker[c] = 0)
    /\ UNCHANGED <<optVars, spare, global, gen, full, serverOf, plOf, closeVars, added, dirty>>

-----------------------------------------------------------------------------
Next ==
    /\ ~crashed
    /\ \/ \E s \in Servers : NewServer(s) \/ NewTransHandler(s) \/ InitRelease(s) \/ InitPool(s)
       \/ Release
       \/ \E c \in Channels, s \in Servers, p \in Pipelines : NewChannel(c, s, p)
       \/ \E c \in Channels : AddOnChannelClosed(c) \/ Close(c) \/ FireOnChannelClosed(c)
                              \/ CallHook(c)
       \/ \E c \in Channels, panics \in BOOLEAN : CloseEnd(c, panics)

Spec == Init /\ [][Next]_vars

-----------------------------------------------------------------------------
(* Safety *)

\* When a channel is closed its handler removes it first, then the server's
\* hooks are called, then the channel's own, in the order they were added,
\* each once, and no hook of another channel; a process with one server calls
\* exactly the hooks given to it.  The exceptions: another channel of the
\* same handler fired its hooks meanwhile and both lie in the shared array, or
\* a hook was added to a channel after its end and reached the next owner of
\* its pipeline.
HooksWhole ==
    \A c \in Channels : pc[c] \in {"hooks", "closed"} /\ c \notin dirty =>
        LET of == pl[plOf[c]].of
            common == IF Len(transOptions) > 1 THEN chain[of]
                      ELSE <<(<<"closeChannel", serverOf[c]>>), (<<"server", serverOf[c]>>)>>
        IN IsPrefix(called[c], common \o want[c])

\* A pipeline has one owner; in the pool it has none, and no hooks but those
\* that were added to a channel after its end.
PoolClean ==
    /\ \A c, d \in Channels : c # d /\ {pc[c], pc[d]} \subseteq {"open", "closing", "hooks"}
                                => plOf[c] # plOf[d]
    /\ \A p \in free : /\ pl[p].ch = None
                       /\ p \notin stray => pl[p].chocc = <<>>

\* A hook that panics ends the process only if the goroutine pool was disabled,
\* was full, or had been replaced by the Run of another server.
PanicContained == crashed => Disabled \/ full \/ \E s, t \in Started : s # t
=============================================================================
