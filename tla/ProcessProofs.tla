---------------------------- MODULE ProcessProofs ----------------------------
(***************************************************************************)
(* Proofs, for all servers, channels, pipelines and hooks, about what a    *)
(* process shares (Process.tla).                                           *)
(*                                                                         *)
(* IndInv adds to the safety properties: what the options hold of the      *)
(* servers that were made and started (OptInv), who owns a pipeline and    *)
(* what is in it (PoolInv), that a Close has called the chain and so many  *)
(* of its own hooks (CalledInv), that a slice in the shared array is one   *)
(* hook long and still the channel's own unless it is dirty (SliceInv),    *)
(* and who was running when a Close went without the pool (GoInv).         *)
(***************************************************************************)
EXTENDS Process, FiniteSetTheorems, SequenceTheorems, TLAPS

TwoStarted == \E s, t \in Started : s # t

OptInv ==
    /\ \A s \in Servers : srv[s] # "none" => \E k \in DOMAIN transOptions : transOptions[k] = s
    /\ new # None => new \in Started
    /\ Started # {} => new # None
    /\ Started = {} => onChannelClosed = <<>>
    /\ Len(transOptions) <= 1 =>
        \A s \in Started : chain[s] = <<(<<"closeChannel", s>>), (<<"server", s>>)>>

PoolInv ==
    /\ \A p \in Pipelines :
        /\ pl[p].of # None => pl[p].of \in Started
        /\ pl[p].of = None => /\ p \notin free \cup stray
                              /\ pl[p].chocc = <<>>
                              /\ \A c \in Channels : pc[c] # "none" => plOf[c] # p
        /\ p \in free => pl[p].ch = None /\ (p \notin stray => pl[p].chocc = <<>>)
    /\ \A c \in Channels :
        /\ pc[c] = "none" => added[c] = <<>>
        /\ pc[c] # "none" => plOf[c] \in Pipelines /\ serverOf[c] \in Servers
                             /\ srv[serverOf[c]] = "running"
        /\ pc[c] \in {"open", "closing"} /\ plOf[c] \notin stray => pl[plOf[c]].chocc = added[c]

CalledInv ==
    \A c \in Channels : pc[c] \in {"hooks", "closed"} =>
        /\ Specific(c) >= 0
        /\ c \notin dirty =>
            /\ Specific(c) <= Len(want[c])
            /\ called[c] = chain[pl[plOf[c]].of] \o SubSeq(want[c], 1, Specific(c))

SliceInv ==
    \A c \in Channels :
        /\ c \in sharing => pc[c] \in {"hooks", "closed"}
        /\ c \in sharing /\ pc[c] = "hooks" => Len(spare[pl[plOf[c]].of]) = 1
        /\ pc[c] = "hooks" /\ c \notin dirty =>
            /\ hooks[c] = want[c]
            /\ c \in sharing => /\ Len(want[c]) = 1
                                /\ Specific(c) = 0 => spare[pl[plOf[c]].of] = want[c]

GoInv ==
    /\ global # "nil" => gen > 0
    /\ global # "open" /\ ~Disabled /\ (\E s \in Servers : srv[s] = "running") => TwoStarted
    /\ \A c \in Channels : pc[c] \in {"closing", "hooks"} /\ worker[c] = 0
                             => Disabled \/ full \/ TwoStarted

IndInv ==
    /\ TypeOK
    /\ OptInv
    /\ PoolInv
    /\ CalledInv
    /\ SliceInv
    /\ GoInv
    /\ PanicContained

\* What a step leaves to a channel that was made.
Kept(c) ==
    /\ pc'[c] # "none" /\ plOf'[c] = plOf[c] /\ serverOf'[c] = serverOf[c]
    /\ pl'[plOf[c]].of = pl[plOf[c]].of
    /\ chain'[pl[plOf[c]].of] = chain[pl[plOf[c]].of]

-----------------------------------------------------------------------------
(* The state of a channel *)

\* A channel that was made has a pipeline, made for a server that was started.
LEMMA PipelineOf ==
    ASSUME TypeOK, PoolInv, NEW c \in Channels, pc[c] # "none"
    PROVE  /\ plOf[c] \in Pipelines /\ pl[plOf[c]].of \in Started
           /\ pl[plOf[c]].of \in Servers /\ pl[plOf[c]].chocc \in Seq(Hook)
           /\ chain[pl[plOf[c]].of] \in Seq(Hook) /\ spare[pl[plOf[c]].of] \in Seq(Hook)
           /\ Specific(c) \in Int /\ Len(Slice(c)) \in Nat /\ Slice(c) \in Seq(Hook)
<1>1. plOf[c] \in Pipelines
  BY DEF PoolInv
<1>2. pl[plOf[c]].of # None
  BY <1>1 DEF PoolInv
<1>3. pl[plOf[c]].of \in Started /\ pl[plOf[c]].of \in Servers
  BY <1>1, <1>2 DEF PoolInv, Started
<1>4. pl[plOf[c]].chocc \in Seq(Hook)
  BY <1>1 DEF TypeOK
<1>5. chain[pl[plOf[c]].of] \in Seq(Hook) /\ spare[pl[plOf[c]].of] \in Seq(Hook)
  BY <1>3 DEF TypeOK
<1>6. Slice(c) \in Seq(Hook)
  BY <1>5 DEF TypeOK, Slice
<1>7. called[c] \in Seq(Hook)
  BY DEF TypeOK
<1>8. QED
  BY <1>1, <1>3, <1>4, <1>5, <1>6, <1>7 DEF Specific

\* The values of a pipeline.
Pipeline == [of : Servers \cup {None}, ch : Channels \cup {None}, chocc : Seq(Hook)]

\* The pipelines after Get, ...
LEMMA PlNewChannel ==
    ASSUME TypeOK, NEW c \in Channels, NEW s \in Servers, NEW p \in Pipelines, NewChannel(c, s, p)
    PROVE  /\ pl' \in [Pipelines -> Pipeline]
           /\ pl'[p].ch = c /\ pl'[p].chocc = pl[p].chocc
           /\ pl'[p].of = IF pl[p].of = None THEN new ELSE pl[p].of
           /\ \A q \in Pipelines : q # p => pl'[q] = pl[q]
<1>1. pl \in [Pipelines -> Pipeline] /\ new \in Servers \cup {None}
  BY DEF TypeOK, Pipeline
<1>2. pl' = [pl EXCEPT ![p].ch = c, ![p].of = IF @ = None THEN new ELSE @]
  BY DEF NewChannel
<1>3. QED
  BY <1>1, <1>2 DEF Pipeline

\* ... after a hook was added, ...
LEMMA PlAddOnChannelClosed ==
    ASSUME TypeOK, PoolInv, NEW c \in Channels, AddOnChannelClosed(c)
    PROVE  \E h \in Hook :
            LET p == plOf[c] IN
            /\ p \in Pipelines /\ pl' \in [Pipelines -> Pipeline]
            /\ pl'[p].ch = pl[p].ch /\ pl'[p].of = pl[p].of
            /\ pl'[p].chocc = Append(pl[p].chocc, h)
            /\ added' = [added EXCEPT ![c] = Append(added[c], h)]
            /\ \A q \in Pipelines : q # p => pl'[q] = pl[q]
<1> DEFINE p == plOf[c]
           h == <<"channel", c, Len(added[c]) + 1>>
<1>1. pl \in [Pipelines -> Pipeline] /\ p \in Pipelines
  BY PipelineOf DEF TypeOK, Pipeline, AddOnChannelClosed
<1>2. h \in Hook
  BY DEF Hook, TypeOK
<1>3. pl' = [pl EXCEPT ![p].chocc = Append(pl[p].chocc, h)]
      /\ added' = [added EXCEPT ![c] = Append(added[c], h)]
  BY DEF AddOnChannelClosed
<1> HIDE DEF h, p
<1>4. /\ pl' \in [Pipelines -> Pipeline]
      /\ pl'[p].ch = pl[p].ch /\ pl'[p].of = pl[p].of
      /\ pl'[p].chocc = Append(pl[p].chocc, h)
      /\ \A q \in Pipelines : q # p => pl'[q] = pl[q]
  <2>1. Append(pl[p].chocc, h) \in Seq(Hook)
    BY <1>1, <1>2 DEF Pipeline
  <2>2. QED
    BY <1>1, <1>3, <2>1 DEF Pipeline
<1>5. QED
  BY <1>1, <1>2, <1>3, <1>4 DEF p

\* ... and after Release.
LEMMA PlCloseEnd ==
    ASSUME TypeOK, PoolInv, NEW c \in Channels, NEW panics \in BOOLEAN, CloseEnd(c, panics)
    PROVE  LET p == plOf[c] IN
            /\ p \in Pipelines /\ pl' \in [Pipelines -> Pipeline]
            /\ pl'[p].ch = None /\ pl'[p].of = pl[p].of /\ pl'[p].chocc = <<>>
            /\ \A q \in Pipelines : q # p => pl'[q] = pl[q]
<1> DEFINE p == plOf[c]
<1>1. pl \in [Pipelines -> Pipeline] /\ p \in Pipelines
  BY PipelineOf DEF TypeOK, Pipeline, CloseEnd
<1>2. pl' = [pl EXCEPT ![p] = [@ EXCEPT !.ch = None, !.chocc = <<>>]]
  BY DEF CloseEnd, Reset
<1>3. <<>> \in Seq(Hook)
  OBVIOUS
<1>4. pl'[p] = [pl[p] EXCEPT !.ch = None, !.chocc = <<>>]
  BY <1>1, <1>2
<1>5. pl'[p] \in Pipeline
  BY <1>1, <1>3, <1>4 DEF Pipeline
<1>6. QED
  BY <1>1, <1>2, <1>4, <1>5 DEF Pipeline

\* What a channel that was made relies on does not change: its server, its
\* pipeline, the server that pipeline was made for and the chain of that
\* server.
LEMMA Fixed ==
    ASSUME TypeOK, PoolInv, Next, NEW d \in Channels, pc[d] # "none"
    PROVE  Kept(d)
<1> USE DEF vars, optVars, goVars, closeVars
<1>1. ASSUME NEW s \in Servers, NewServer(s) \/ NewTransHandler(s) \/
        InitRelease(s) \/ InitPool(s)
      PROVE  Kept(d)
  BY <1>1, PipelineOf DEF NewServer, WithOnChannelClosed, NewTransHandler,
     AllApplied, InitRelease, InitPool, Kept, TypeOK, Started
<1>2. ASSUME Release PROVE Kept(d)
  BY <1>2 DEF Release, Kept, TypeOK
<1>3. ASSUME NEW c \in Channels, NEW s \in Servers, NEW p \in Pipelines,
        NewChannel(c, s, p)
      PROVE  Kept(d)
  <2>1. plOf[d] \in Pipelines /\ pl[plOf[d]].of \in Servers
    BY PipelineOf
  <2>2. pl'[p].of = (IF pl[p].of = None THEN new ELSE pl[p].of)
        /\ \A q \in Pipelines : q # p => pl'[q] = pl[q]
    BY <1>3, PlNewChannel
  <2>3. pl'[plOf[d]].of = pl[plOf[d]].of
    BY <2>1, <2>2, ProcessAssumption
  <2>4. d # c /\ pc'[d] = pc[d] /\ plOf'[d] = plOf[d] /\ serverOf'[d] = serverOf[d] /\ chain' = chain
    BY <1>3 DEF NewChannel, TypeOK
  <2>5. QED
    BY <2>3, <2>4 DEF Kept
<1>4. ASSUME NEW c \in Channels, AddOnChannelClosed(c) PROVE Kept(d)
  <2>1. plOf[d] \in Pipelines
    BY PipelineOf
  <2>2. /\ pl'[plOf[c]].of = pl[plOf[c]].of
        /\ \A q \in Pipelines : q # plOf[c] => pl'[q] = pl[q]
    BY <1>4, PlAddOnChannelClosed
  <2>3. QED
    BY <1>4, <2>1, <2>2 DEF Kept, AddOnChannelClosed
<1>5. ASSUME NEW c \in Channels, Close(c) \/ FireOnChannelClosed(c) \/
        CallHook(c)
      PROVE  Kept(d)
  BY <1>5 DEF Close, FireOnChannelClosed, CallHook, Kept, TypeOK
<1>6. ASSUME NEW c \in Channels, NEW panics \in BOOLEAN, CloseEnd(c, panics)
      PROVE  Kept(d)
  <2>1. plOf[d] \in Pipelines
    BY PipelineOf
  <2>2. /\ pl'[plOf[c]].of = pl[plOf[c]].of
        /\ \A q \in Pipelines : q # plOf[c] => pl'[q] = pl[q]
    BY <1>6, PlCloseEnd
  <2>3. QED
    BY <1>6, <2>1, <2>2 DEF Kept, CloseEnd, TypeOK
<1>7. QED
  BY <1>1, <1>2, <1>3, <1>4, <1>5, <1>6 DEF Next

\* The hooks of the servers, in the order in which they were made.
LEMMA AllAppliedType ==
    ASSUME TypeOK PROVE AllApplied \in Seq(Hook)
<1> DEFINE f == [i \in DOMAIN transOptions |-> <<"server", transOptions[i]>>]
<1>1. /\ Len(transOptions) \in Nat /\ DOMAIN transOptions = 1 .. Len(transOptions)
      /\ \A i \in 1 .. Len(transOptions) : transOptions[i] \in Servers
  BY DEF TypeOK
<1>2. ASSUME NEW i \in 1 .. Len(transOptions) PROVE <<"server", transOptions[i]>> \in Hook
  BY <1>1 DEF Hook
<1>3. f \in [1 .. Len(transOptions) -> Hook]
  BY <1>1, <1>2
<1>4. f \in Seq(Hook)
  BY <1>1, <1>3
<1>5. QED
  BY <1>4 DEF AllApplied, TypeOK

\* Every step keeps the types, and a pipeline names the channel that owns it.
LEMMA TypeStep ==
    ASSUME TypeOK, PoolInv, CalledInv, Next
    PROVE  TypeOK'
<1> USE DEF vars, optVars, goVars, closeVars
<1>1. ASSUME NEW s \in Servers, NewServer(s) PROVE TypeOK'
  BY <1>1 DEF NewServer, WithOnChannelClosed, TypeOK
<1>2. ASSUME NEW s \in Servers, InitRelease(s) PROVE TypeOK'
  BY <1>2 DEF InitRelease, TypeOK
<1>3. ASSUME NEW s \in Servers, InitPool(s) PROVE TypeOK'
  BY <1>3 DEF InitPool, TypeOK
<1>4. ASSUME NEW s \in Servers, NewTransHandler(s) PROVE TypeOK'
  <2>1. AllApplied \in Seq(Hook) /\ <<"closeChannel", s>> \in Hook
    BY AllAppliedType DEF Hook
  <2>2. <<(<<"closeChannel", s>>)>> \o AllApplied \in Seq(Hook)
    BY <2>1
  <2>3. QED
    BY <1>4, <2>1, <2>2 DEF NewTransHandler, TypeOK
<1>5. ASSUME Release PROVE TypeOK'
  BY <1>5 DEF Release, TypeOK
<1>6. ASSUME NEW c \in Channels, NEW s \in Servers, NEW p \in Pipelines,
        NewChannel(c, s, p)
      PROVE  TypeOK'
  <2>1. ASSUME NEW d \in Channels, pc[d] \notin {"none", "closed"} PROVE plOf[d] # p
    <3>1. pl[plOf[d]].ch = d /\ d # None
      BY <2>1, ProcessAssumption DEF TypeOK
    <3>2. p \in free \/ pl[p].of = None
      BY <1>6 DEF NewChannel, Get
    <3>3. QED
      BY <2>1, <3>1, <3>2 DEF PoolInv
  <2>2. pl' \in [Pipelines -> Pipeline] /\ pl'[p].ch = c
        /\ \A q \in Pipelines : q # p => pl'[q] = pl[q]
    BY <1>6, PlNewChannel
  <2>3. \A d \in Channels : pc'[d] \notin {"none", "closed"} => pl'[plOf'[d]].ch = d
    <3>1. /\ \A d \in Channels : d # c => pc'[d] = pc[d] /\ plOf'[d] = plOf[d]
          /\ plOf'[c] = p
      BY <1>6 DEF NewChannel, TypeOK
    <3>2. ASSUME NEW d \in Channels, d # c, pc'[d] \notin {"none", "closed"}
          PROVE  pl'[plOf'[d]].ch = d
      <4>1. pc[d] \notin {"none", "closed"} /\ plOf'[d] = plOf[d]
        BY <3>1, <3>2
      <4>2. plOf[d] \in Pipelines /\ pl[plOf[d]].ch = d
        BY <4>1 DEF PoolInv, TypeOK
      <4>3. QED
        BY <2>1, <2>2, <4>1, <4>2
    <3>3. QED
      BY <2>2, <3>1, <3>2
  <2>4. QED
    BY <1>6, <2>2, <2>3 DEF NewChannel, Get, Pipeline, TypeOK
<1>7. ASSUME NEW c \in Channels, AddOnChannelClosed(c) PROVE TypeOK'
  <2>1. PICK h \in Hook :
            /\ plOf[c] \in Pipelines /\ pl' \in [Pipelines -> Pipeline]
            /\ pl'[plOf[c]].ch = pl[plOf[c]].ch
            /\ added' = [added EXCEPT ![c] = Append(added[c], h)]
            /\ \A q \in Pipelines : q # plOf[c] => pl'[q] = pl[q]
    BY <1>7, PlAddOnChannelClosed
  <2>2. \A d \in Channels : pc'[d] \notin {"none", "closed"} => pl'[plOf'[d]].ch = d
    BY <1>7, <2>1 DEF AddOnChannelClosed, PoolInv, TypeOK
  <2>3. added' \in [Channels -> Seq(Hook)]
    BY <2>1 DEF TypeOK
  <2>4. QED
    BY <1>7, <2>1, <2>2, <2>3, ZenonT(30) DEF AddOnChannelClosed, Pipeline, TypeOK
<1>8. ASSUME NEW c \in Channels, Close(c) PROVE TypeOK'
  BY <1>8 DEF Close, TypeOK
<1>9. ASSUME NEW c \in Channels, FireOnChannelClosed(c) PROVE TypeOK'
  BY <1>9, PipelineOf DEF FireOnChannelClosed, TypeOK
<1>10. ASSUME NEW c \in Channels, CallHook(c) PROVE TypeOK'
  <2>1. Slice(c) \in Seq(Hook) /\ Specific(c) + 1 \in 1 .. Len(Slice(c))
    BY <1>10, PipelineOf DEF CallHook, CalledInv
  <2>2. Append(called[c], Slice(c)[Specific(c) + 1]) \in Seq(Hook)
    BY <2>1 DEF TypeOK
  <2>3. QED
    BY <1>10, <2>2 DEF CallHook, TypeOK
<1>11. ASSUME NEW c \in Channels, NEW panics \in BOOLEAN, CloseEnd(c,
        panics)
      PROVE  TypeOK'
  <2>1. /\ plOf[c] \in Pipelines /\ pl' \in [Pipelines -> Pipeline]
        /\ \A q \in Pipelines : q # plOf[c] => pl'[q] = pl[q]
    BY <1>11, PlCloseEnd
  <2>2. \A d \in Channels : pc'[d] \notin {"none", "closed"} => pl'[plOf'[d]].ch = d
    <3> SUFFICES ASSUME NEW d \in Channels, pc'[d] \notin {"none", "closed"}
                 PROVE  pl'[plOf'[d]].ch = d
      OBVIOUS
    <3>1. pc[d] = pc'[d] /\ d # c /\ pc[c] = "hooks" /\ plOf' = plOf
      BY <1>11 DEF CloseEnd, TypeOK
    <3>2. pl[plOf[d]].ch = d /\ pl[plOf[c]].ch = c /\ plOf[d] \in Pipelines
      BY <3>1 DEF PoolInv, TypeOK
    <3>3. QED
      BY <2>1, <3>1, <3>2
  <2>3. QED
    BY <1>11, <2>1, <2>2 DEF CloseEnd, Pipeline, TypeOK
<1>12. QED
  BY <1>1, <1>2, <1>3, <1>4, <1>5, <1>6, <1>7, <1>8, <1>9, <1>10, <1>11 DEF
     Next

\* Append keeps what was there, and puts one element behind it.
LEMMA AppendKeeps ==
    ASSUME NEW S, NEW q \in Seq(S), NEW e \in S
    PROVE  /\ Append(q, e) \in Seq(S) /\ Len(Append(q, e)) = Len(q) + 1
           /\ \A i \in DOMAIN q : i \in DOMAIN Append(q, e) /\ Append(q, e)[i] = q[i]
           /\ Len(q) + 1 \in DOMAIN Append(q, e) /\ Append(q, e)[Len(q) + 1] = e
OBVIOUS

\* Two hooks in a row.
LEMMA TwoInARow == ASSUME NEW a, NEW b PROVE <<a>> \o <<b>> = <<a, b>>
<1>1. <<a>> \in Seq({a, b}) /\ <<b>> \in Seq({a, b}) /\ <<a, b>> \in Seq({a, b})
  OBVIOUS
<1>2. Len(<<a>> \o <<b>>) = 2 /\ (<<a>> \o <<b>>)[1] = a /\ (<<a>> \o <<b>>)[2] = b
  BY <1>1
<1>3. <<a>> \o <<b>> \in Seq({a, b})
  BY <1>1
<1>4. Len(<<a, b>>) = 2 /\ <<a, b>>[1] = a /\ <<a, b>>[2] = b
  OBVIOUS
<1>5. \A i \in 1 .. Len(<<a>> \o <<b>>) : (<<a>> \o <<b>>)[i] = <<a, b>>[i]
  BY <1>2, <1>4
<1>6. QED
  BY <1>1, <1>2, <1>3, <1>4, <1>5, SeqEqual

\* One more element of w.
LEMMA PrefixNext ==
    ASSUME NEW S, NEW a \in Seq(S), NEW w \in Seq(S), NEW k \in Nat, k < Len(w)
    PROVE  Append(a \o SubSeq(w, 1, k), w[k + 1]) = a \o SubSeq(w, 1, k + 1)
<1>1. /\ SubSeq(w, 1, k) \in Seq(S) /\ Len(SubSeq(w, 1, k)) = k
      /\ SubSeq(w, 1, k + 1) \in Seq(S) /\ Len(SubSeq(w, 1, k + 1)) = k + 1
      /\ \A i \in 1 .. k : SubSeq(w, 1, k)[i] = w[i]
      /\ \A i \in 1 .. k + 1 : SubSeq(w, 1, k + 1)[i] = w[i]
      /\ w[k + 1] \in S
  OBVIOUS
<1> DEFINE l == Append(a \o SubSeq(w, 1, k), w[k + 1])
           r == a \o SubSeq(w, 1, k + 1)
<1>2. l \in Seq(S) /\ r \in Seq(S) /\ Len(l) = Len(r) /\ Len(r) = Len(a) + k + 1 /\ Len(a) \in Nat
  BY <1>1
<1>3. \A i \in 1 .. Len(a) + k + 1 : l[i] = r[i]
  BY <1>1
<1>4. QED
  BY <1>2, <1>3, SeqEqual

\* What was called so far is a prefix of what there is to call.
LEMMA PrefixOfAll ==
    ASSUME NEW S, NEW a \in Seq(S), NEW w \in Seq(S), NEW k \in Nat, k <= Len(w)
    PROVE  IsPrefix(a \o SubSeq(w, 1, k), a \o w)
<1> DEFINE p == a \o SubSeq(w, 1, k)
           t == a \o w
           n == Len(a) + k
<1>1. /\ SubSeq(w, 1, k) \in Seq(S) /\ Len(SubSeq(w, 1, k)) = k
      /\ \A i \in 1 .. k : SubSeq(w, 1, k)[i] = w[i]
  OBVIOUS
<1>2. /\ p \in Seq(S) /\ Len(p) = n /\ t \in Seq(S) /\ Len(t) = Len(a) + Len(w)
      /\ n \in Nat /\ n <= Len(t) /\ Len(t) \in Nat
  BY <1>1
<1>3. \A i \in 1 .. n : p[i] = t[i]
  BY <1>1
<1> HIDE DEF p, t, n
<1>4. /\ SubSeq(p, 1, n) \in Seq(S) /\ SubSeq(t, 1, n) \in Seq(S)
      /\ Len(SubSeq(p, 1, n)) = n /\ Len(SubSeq(t, 1, n)) = n
      /\ \A i \in 1 .. n : SubSeq(p, 1, n)[i] = p[i] /\ SubSeq(t, 1, n)[i] = t[i]
  BY <1>2
<1>5. SubSeq(p, 1, n) = SubSeq(t, 1, n)
  BY <1>2, <1>3, <1>4, SeqEqual
<1>6. IsPrefix(p, t)
  BY <1>2, <1>5 DEF IsPrefix
<1>7. QED
  BY <1>6 DEF p, t

\* No step makes a server new again.
LEMMA StartedStep ==
    ASSUME TypeOK, Next
    PROVE  /\ \A s \in Servers : srv[s] # "none" => srv'[s] # "none"
           /\ \A s \in Servers : srv[s] = "running" => srv'[s] = "running"
           /\ Started \subseteq Started' /\ Len(transOptions) <= Len(transOptions')
           /\ Disabled => Disabled'
<1>1. ASSUME NEW s \in Servers, NewServer(s) \/ NewTransHandler(s) \/ InitRelease(s) \/ InitPool(s)
      PROVE  /\ \A t \in Servers : srv[t] # "none" => srv'[t] # "none"
             /\ \A t \in Servers : srv[t] = "running" => srv'[t] = "running"
             /\ Started \subseteq Started'
  BY <1>1 DEF TypeOK, Started, NewServer, NewTransHandler, InitRelease, InitPool
<1>2. ASSUME NEW s \in Servers, NewServer(s)
      PROVE  Len(transOptions) <= Len(transOptions') /\ (Disabled => Disabled')
  <2>1. transOptions' = Append(transOptions, s) /\ transOptions \in Seq(Servers)
    BY <1>2 DEF TypeOK, NewServer, WithOnChannelClosed
  <2>2. Len(transOptions) \in Nat
    BY <2>1
  <2>3. QED
    BY <2>1, <2>2, AppendKeeps DEF Disabled
<1>3. ASSUME NEW s \in Servers, NewTransHandler(s) \/ InitRelease(s) \/ InitPool(s)
      PROVE  transOptions' = transOptions
  BY <1>3 DEF NewTransHandler, InitRelease, InitPool
<1>4. CASE UNCHANGED <<srv, transOptions>>
  BY <1>4 DEF TypeOK, Started, Disabled
<1>5. (\E s \in Servers : NewServer(s) \/ NewTransHandler(s) \/ InitRelease(s) \/ InitPool(s))
      \/ UNCHANGED <<srv, transOptions>>
  BY DEF Next, Release, NewChannel, AddOnChannelClosed, Close, FireOnChannelClosed, CallHook,
         CloseEnd, optVars
<1>6. QED
  BY <1>1, <1>2, <1>3, <1>4, <1>5 DEF Disabled, TypeOK

\* Every step keeps what the options hold.
LEMMA OptStep ==
    ASSUME TypeOK, OptInv, Next
    PROVE  OptInv'
<1> USE DEF vars, optVars, goVars, closeVars
<1>1. ASSUME NEW s \in Servers, NewServer(s) PROVE OptInv'
  <2>1. Started' = Started /\ UNCHANGED <<new, onChannelClosed, chain>>
    BY <1>1 DEF NewServer, Started, TypeOK
  <2>2. transOptions' = Append(transOptions, s) /\ transOptions \in Seq(Servers)
    BY <1>1 DEF NewServer, WithOnChannelClosed, TypeOK
  <2>3. \A t \in Servers : srv'[t] # "none" => \E k \in DOMAIN transOptions' : transOptions'[k] = t
    <3> SUFFICES ASSUME NEW t \in Servers, srv'[t] # "none"
                 PROVE  \E k \in DOMAIN transOptions' : transOptions'[k] = t
      OBVIOUS
    <3>1. srv[t] # "none" \/ t = s
      BY <1>1 DEF NewServer, TypeOK
    <3>2. QED
      BY <2>2, <3>1, AppendKeeps DEF OptInv
  <2>4. ASSUME Len(transOptions') <= 1 PROVE Started' = {}
    <3>1. DOMAIN transOptions = {}
      BY <2>2, <2>4
    <3>2. QED
      BY <2>1, <3>1 DEF OptInv, Started
  <2>5. QED
    BY <2>1, <2>3, <2>4 DEF OptInv
<1>2. ASSUME NEW s \in Servers, NewTransHandler(s) PROVE OptInv'
  <2>1. Started' = Started \cup {s} /\ s \notin Started /\ new' = s /\ transOptions' = transOptions
        /\ \A t \in Servers : srv'[t] # "none" => srv[t] # "none"
    BY <1>2 DEF NewTransHandler, Started, TypeOK
  <2>2. ASSUME Len(transOptions) <= 1
        PROVE  Started = {} /\ Len(transOptions) = 1 /\ transOptions[1] = s
    <3>1. PICK k \in DOMAIN transOptions : transOptions[k] = s
      BY <1>2 DEF NewTransHandler, OptInv
    <3>2. transOptions \in Seq(Servers)
      BY DEF TypeOK
    <3>3. Len(transOptions) \in Nat /\ DOMAIN transOptions = 1 .. Len(transOptions)
      BY <3>2
    <3>4. k = 1 /\ Len(transOptions) = 1 /\ DOMAIN transOptions = {1}
      BY <2>2, <3>1, <3>3
    <3>5. \A t \in Servers : srv[t] # "none" => t = s
      BY <3>1, <3>4 DEF OptInv
    <3>6. QED
      BY <2>1, <3>1, <3>4, <3>5 DEF Started
  <2>3. ASSUME Len(transOptions) <= 1
        PROVE  chain'[s] = <<(<<"closeChannel", s>>), (<<"server", s>>)>>
    <3> DEFINE f == [i \in DOMAIN transOptions |-> <<"server", transOptions[i]>>]
    <3>1. onChannelClosed = <<>> /\ DOMAIN transOptions = {1} /\ transOptions[1] = s
      BY <2>2, <2>3 DEF OptInv, TypeOK
    <3>2. DOMAIN f = 1 .. 1 /\ f[1] = <<"server", s>>
      BY <3>1
    <3>3. f = <<(<<"server", s>>)>>
      BY <3>2
    <3>4. AllApplied = <<(<<"server", s>>)>>
      BY <3>1, <3>3 DEF AllApplied
    <3>5. chain'[s] = <<(<<"closeChannel", s>>)>> \o AllApplied
      BY <1>2 DEF NewTransHandler, TypeOK
    <3>6. QED
      BY <3>4, <3>5, TwoInARow
  <2>4. \A t \in Servers : srv'[t] # "none" => \E k \in DOMAIN transOptions' : transOptions'[k] = t
    BY <2>1 DEF OptInv
  <2>5. ASSUME Len(transOptions') <= 1, NEW t \in Started'
        PROVE  chain'[t] = <<(<<"closeChannel", t>>), (<<"server", t>>)>>
    BY <2>1, <2>2, <2>3, <2>5
  <2>6. new' \in Started' /\ Started' # {} /\ new' # None
    BY <2>1, ProcessAssumption
  <2>7. QED
    BY <2>4, <2>5, <2>6 DEF OptInv
<1>3. ASSUME NEW s \in Servers, InitRelease(s) \/ InitPool(s) PROVE OptInv'
  <2>1. Started' = Started /\ UNCHANGED <<transOptions, new, onChannelClosed, chain>>
        /\ \A t \in Servers : srv'[t] # "none" => srv[t] # "none"
    BY <1>3 DEF InitRelease, InitPool, Started, TypeOK
  <2>2. QED
    BY <2>1 DEF OptInv
<1>4. ASSUME Release PROVE OptInv'
  BY <1>4 DEF Release, TypeOK, OptInv, Started
<1>5. ASSUME NEW c \in Channels, NEW s \in Servers, NEW p \in Pipelines,
        NewChannel(c, s, p)
      PROVE  OptInv'
  BY <1>5 DEF NewChannel, Get, TypeOK, OptInv, Started
<1>6. ASSUME NEW c \in Channels, AddOnChannelClosed(c) PROVE OptInv'
  BY <1>6 DEF AddOnChannelClosed, TypeOK, OptInv, Started
<1>7. ASSUME NEW c \in Channels, Close(c) \/ FireOnChannelClosed(c) \/
        CallHook(c)
      PROVE  OptInv'
  BY <1>7 DEF Close, FireOnChannelClosed, CallHook, TypeOK, OptInv, Started
<1>8. ASSUME NEW c \in Channels, NEW panics \in BOOLEAN, CloseEnd(c, panics)
      PROVE  OptInv'
  BY <1>8 DEF CloseEnd, Reset, TypeOK, OptInv, Started
<1>9. QED
  BY <1>1, <1>2, <1>3, <1>4, <1>5, <1>6, <1>7, <1>8 DEF Next

\* Every step keeps who owns a pipeline and what is in it.
LEMMA PoolStep ==
    ASSUME TypeOK, OptInv, PoolInv, Next
    PROVE  PoolInv'
<1> USE DEF vars, optVars, goVars, closeVars
<1>1. ASSUME NEW s \in Servers, NewServer(s) PROVE PoolInv'
  BY <1>1 DEF NewServer, WithOnChannelClosed, TypeOK, PoolInv, Started
<1>2. ASSUME NEW s \in Servers, InitRelease(s) \/ InitPool(s) PROVE PoolInv'
  BY <1>2, SMTT(30) DEF InitRelease, InitPool, TypeOK, PoolInv, Started
<1>3. ASSUME NEW s \in Servers, NewTransHandler(s) PROVE PoolInv'
  BY <1>3 DEF NewTransHandler, AllApplied, TypeOK, PoolInv, Started
<1>4. ASSUME Release PROVE PoolInv'
  BY <1>4 DEF Release, TypeOK, PoolInv, Started
<1>5. ASSUME NEW c \in Channels, NEW s \in Servers, NEW p \in Pipelines,
        NewChannel(c, s, p)
      PROVE  PoolInv'
  <2>1. /\ pl'[p].ch = c /\ pl'[p].chocc = pl[p].chocc
        /\ pl'[p].of = IF pl[p].of = None THEN new ELSE pl[p].of
        /\ \A q \in Pipelines : q # p => pl'[q] = pl[q]
    BY <1>5, PlNewChannel
  <2>2. new \in Started
    BY <1>5 DEF NewChannel, OptInv, Started
  <2>3. pl'[p].of \in Started /\ p \notin free'
    BY <1>5, <2>1, <2>2 DEF NewChannel, Get, PoolInv
  <2>4. p \notin stray => pl[p].chocc = <<>>
    BY <1>5 DEF NewChannel, Get, PoolInv
  <2>5. /\ \A d \in Channels : d # c => pc'[d] = pc[d] /\ plOf'[d] = plOf[d] /\ serverOf'[d] = serverOf[d]
        /\ pc'[c] = "open" /\ plOf'[c] = p /\ serverOf'[c] = s /\ pc[c] = "none"
        /\ UNCHANGED <<srv, added, stray>> /\ free' = free \ {p} /\ srv[s] = "running"
    BY <1>5 DEF NewChannel, Get, TypeOK
  <2>6. ASSUME NEW q \in Pipelines
        PROVE  /\ pl'[q].of # None => pl'[q].of \in Started'
               /\ pl'[q].of = None => /\ q \notin free' \cup stray' /\ pl'[q].chocc = <<>>
                                      /\ \A d \in Channels : pc'[d] # "none" => plOf'[d] # q
               /\ q \in free' => pl'[q].ch = None /\ (q \notin stray' => pl'[q].chocc = <<>>)
    <3>1. CASE q = p
      BY <2>3, <2>5, <3>1, ProcessAssumption DEF Started
    <3>2. CASE q # p
      BY <2>1, <2>5, <3>2 DEF PoolInv, Started
    <3>3. QED
      BY <3>1, <3>2
  <2>7. ASSUME NEW d \in Channels
        PROVE  /\ pc'[d] = "none" => added'[d] = <<>>
               /\ pc'[d] # "none" => plOf'[d] \in Pipelines /\ serverOf'[d] \in Servers
                                     /\ srv'[serverOf'[d]] = "running"
               /\ pc'[d] \in {"open", "closing"} /\ plOf'[d] \notin stray'
                    => pl'[plOf'[d]].chocc = added'[d]
    <3>1. CASE d = c
      BY <2>1, <2>4, <2>5, <3>1 DEF PoolInv
    <3>2. CASE d # c
      <4>1. pc[d] \in {"open", "closing"} => plOf[d] # p
        <5>1. pc[d] \in {"open", "closing"} => pl[plOf[d]].ch = d /\ d # None
          BY ProcessAssumption DEF TypeOK
        <5>2. p \in free \/ pl[p].of = None
          BY <1>5 DEF NewChannel, Get
        <5>3. QED
          BY <5>1, <5>2 DEF PoolInv
      <4>2. QED
        BY <2>1, <2>5, <3>2, <4>1 DEF PoolInv
    <3>3. QED
      BY <3>1, <3>2
  <2>8. QED
    BY <2>6, <2>7 DEF PoolInv
<1>6. ASSUME NEW c \in Channels, AddOnChannelClosed(c) PROVE PoolInv'
  <2>1. PICK h \in Hook :
            /\ plOf[c] \in Pipelines
            /\ pl'[plOf[c]].ch = pl[plOf[c]].ch /\ pl'[plOf[c]].of = pl[plOf[c]].of
            /\ pl'[plOf[c]].chocc = Append(pl[plOf[c]].chocc, h)
            /\ added' = [added EXCEPT ![c] = Append(added[c], h)]
            /\ \A q \in Pipelines : q # plOf[c] => pl'[q] = pl[q]
    BY <1>6, PlAddOnChannelClosed
  <2>2. /\ UNCHANGED <<srv, free, pc, plOf, serverOf>> /\ pc[c] # "none"
        /\ stray' = IF pl[plOf[c]].ch = c THEN stray ELSE stray \cup {plOf[c]}
    BY <1>6 DEF AddOnChannelClosed
  <2>3. pl[plOf[c]].of # None /\ (plOf[c] \in free => pl[plOf[c]].ch # c)
    BY <2>1, <2>2, ProcessAssumption DEF PoolInv
  <2>4. ASSUME NEW q \in Pipelines
        PROVE  /\ pl'[q].of # None => pl'[q].of \in Started'
               /\ pl'[q].of = None => /\ q \notin free' \cup stray' /\ pl'[q].chocc = <<>>
                                      /\ \A d \in Channels : pc'[d] # "none" => plOf'[d] # q
               /\ q \in free' => pl'[q].ch = None /\ (q \notin stray' => pl'[q].chocc = <<>>)
    <3>1. CASE q = plOf[c]
      BY <2>1, <2>2, <2>3, <3>1 DEF PoolInv, Started
    <3>2. CASE q # plOf[c]
      BY <2>1, <2>2, <3>2 DEF PoolInv, Started
    <3>3. QED
      BY <3>1, <3>2
  <2>5. ASSUME NEW d \in Channels
        PROVE  /\ pc'[d] = "none" => added'[d] = <<>>
               /\ pc'[d] # "none" => plOf'[d] \in Pipelines /\ serverOf'[d] \in Servers
                                     /\ srv'[serverOf'[d]] = "running"
               /\ pc'[d] \in {"open", "closing"} /\ plOf'[d] \notin stray'
                    => pl'[plOf'[d]].chocc = added'[d]
    <3>1. pc[d] \in {"open", "closing"} => pl[plOf[d]].ch = d
      BY DEF TypeOK
    <3>2. added'[d] = IF d = c THEN Append(added[c], h) ELSE added[d]
      BY <2>1 DEF TypeOK
    <3>3. CASE d = c
      BY <2>1, <2>2, <3>1, <3>2, <3>3 DEF PoolInv
    <3>4. CASE d # c /\ plOf[d] = plOf[c]
      BY <2>1, <2>2, <3>1, <3>2, <3>4 DEF PoolInv
    <3>5. CASE d # c /\ plOf[d] # plOf[c]
      BY <2>1, <2>2, <3>1, <3>2, <3>5 DEF PoolInv
    <3>6. QED
      BY <3>3, <3>4, <3>5
  <2>6. QED
    BY <2>4, <2>5 DEF PoolInv
<1>7. ASSUME NEW c \in Channels, Close(c) PROVE PoolInv'
  BY <1>7, SMTT(30) DEF Close, TypeOK, PoolInv, Started
<1>8. ASSUME NEW c \in Channels, FireOnChannelClosed(c) PROVE PoolInv'
  BY <1>8, SMTT(30) DEF FireOnChannelClosed, TypeOK, PoolInv, Started
<1>9. ASSUME NEW c \in Channels, CallHook(c) PROVE PoolInv'
  BY <1>9 DEF CallHook, TypeOK, PoolInv, Started
<1>10. ASSUME NEW c \in Channels, NEW panics \in BOOLEAN, CloseEnd(c,
        panics)
      PROVE  PoolInv'
  <2>1. /\ plOf[c] \in Pipelines
        /\ pl'[plOf[c]].ch = None /\ pl'[plOf[c]].of = pl[plOf[c]].of /\ pl'[plOf[c]].chocc = <<>>
        /\ \A q \in Pipelines : q # plOf[c] => pl'[q] = pl[q]
    BY <1>10, PlCloseEnd
  <2>2. /\ UNCHANGED <<srv, plOf, serverOf, added>> /\ pc[c] = "hooks"
        /\ pc' = [pc EXCEPT ![c] = "closed"]
        /\ free' = free \cup {plOf[c]} /\ stray' = stray \ {plOf[c]}
    BY <1>10 DEF CloseEnd
  <2>3. pl[plOf[c]].of # None
    BY <2>1, <2>2 DEF PoolInv
  <2>4. ASSUME NEW q \in Pipelines
        PROVE  /\ pl'[q].of # None => pl'[q].of \in Started'
               /\ pl'[q].of = None => /\ q \notin free' \cup stray' /\ pl'[q].chocc = <<>>
                                      /\ \A d \in Channels : pc'[d] # "none" => plOf'[d] # q
               /\ q \in free' => pl'[q].ch = None /\ (q \notin stray' => pl'[q].chocc = <<>>)
    <3>1. CASE q = plOf[c]
      BY <2>1, <2>2, <2>3, <3>1 DEF PoolInv, Started
    <3>2. CASE q # plOf[c]
      BY <2>1, <2>2, <3>2, SMTT(30) DEF PoolInv, Started, TypeOK
    <3>3. QED
      BY <3>1, <3>2
  <2>5. ASSUME NEW d \in Channels
        PROVE  /\ pc'[d] = "none" => added'[d] = <<>>
               /\ pc'[d] # "none" => plOf'[d] \in Pipelines /\ serverOf'[d] \in Servers
                                     /\ srv'[serverOf'[d]] = "running"
               /\ pc'[d] \in {"open", "closing"} /\ plOf'[d] \notin stray'
                    => pl'[plOf'[d]].chocc = added'[d]
    <3>1. pc[d] \in {"open", "closing"} => pl[plOf[d]].ch = d /\ pl[plOf[c]].ch = c
      BY <2>2 DEF TypeOK
    <3>2. pc'[d] = IF d = c THEN "closed" ELSE pc[d]
      BY <2>2 DEF TypeOK
    <3>3. QED
      BY <2>1, <2>2, <3>1, <3>2 DEF PoolInv
  <2>6. QED
    BY <2>4, <2>5 DEF PoolInv
<1>11. QED
  BY <1>1, <1>2, <1>3, <1>4, <1>5, <1>6, <1>7, <1>8, <1>9, <1>10 DEF Next

\* A step of another channel or of a server leaves alone what a channel's Close
\* works with, but for the end of the shared array.
LEMMA OtherStep ==
    ASSUME TypeOK, Next, NEW d \in Channels, ~FireOnChannelClosed(d), ~CallHook(d)
    PROVE  /\ called'[d] = called[d] /\ want'[d] = want[d] /\ hooks'[d] = hooks[d]
           /\ d \in sharing' <=> d \in sharing
           /\ pc'[d] \in {"hooks", "closed"} => pc[d] \in {"hooks", "closed"}
           /\ pc'[d] = "hooks" => pc[d] = "hooks"
           /\ pc[d] \in {"hooks", "closed"} => pc'[d] \in {"hooks", "closed"}
           /\ dirty \subseteq dirty'
<1>1. ASSUME NEW c \in Channels, FireOnChannelClosed(c) \/ CallHook(c), c # d
      PROVE  /\ called'[d] = called[d] /\ want'[d] = want[d] /\ hooks'[d] = hooks[d]
             /\ d \in sharing' <=> d \in sharing
             /\ pc'[d] = pc[d] /\ dirty \subseteq dirty'
  <2>1. CASE FireOnChannelClosed(c)
    BY <1>1, <2>1 DEF TypeOK, FireOnChannelClosed
  <2>2. CASE CallHook(c)
    BY <1>1, <2>2 DEF TypeOK, CallHook
  <2>3. QED
    BY <1>1, <2>1, <2>2
<1>2. ASSUME NEW c \in Channels, Close(c) \/ AddOnChannelClosed(c) \/ \E b \in BOOLEAN : CloseEnd(c, b)
      PROVE  /\ UNCHANGED <<called, want, hooks, sharing, dirty>>
             /\ pc'[d] \in {"hooks", "closed"} => pc[d] \in {"hooks", "closed"}
             /\ pc'[d] = "hooks" => pc[d] = "hooks"
             /\ pc[d] \in {"hooks", "closed"} => pc'[d] \in {"hooks", "closed"}
  BY <1>2 DEF TypeOK, Close, AddOnChannelClosed, CloseEnd, closeVars
<1>3. ASSUME NEW c \in Channels, NEW s \in Servers, NEW p \in Pipelines, NewChannel(c, s, p)
      PROVE  /\ UNCHANGED <<called, want, hooks, sharing, dirty>>
             /\ pc'[d] = pc[d] \/ (pc[d] = "none" /\ pc'[d] = "open")
  BY <1>3 DEF TypeOK, NewChannel, closeVars
<1>4. ASSUME NEW s \in Servers, NewServer(s) \/ NewTransHandler(s) \/ InitRelease(s) \/ InitPool(s)
                                \/ Release
      PROVE  UNCHANGED <<called, want, hooks, sharing, dirty, pc>>
  BY <1>4 DEF NewServer, NewTransHandler, InitRelease, InitPool, Release, closeVars
<1>5. QED
  BY <1>1, <1>2, <1>3, <1>4 DEF Next, Release

\* Every step keeps that a Close has called the chain and a prefix of its own
\* hooks.
LEMMA CalledStep ==
    ASSUME TypeOK, PoolInv, CalledInv, SliceInv, Next
    PROVE  CalledInv'
<1> SUFFICES ASSUME NEW d \in Channels, pc'[d] \in {"hooks", "closed"}
             PROVE  /\ Specific(d)' >= 0
                    /\ d \notin dirty' =>
                        /\ Specific(d)' <= Len(want'[d])
                        /\ called'[d] = chain'[pl'[plOf'[d]].of] \o SubSeq(want'[d], 1, Specific(d)')
  BY DEF CalledInv
<1> DEFINE ch == chain[pl[plOf[d]].of]
<1>1. ASSUME pc[d] # "none" PROVE chain'[pl'[plOf'[d]].of] = ch /\ ch \in Seq(Hook)
  BY <1>1, Fixed, PipelineOf DEF Kept
<1>2. CASE FireOnChannelClosed(d)
  <2>1. pc[d] = "closing" /\ called'[d] = ch /\ want'[d] = added[d] /\ added[d] \in Seq(Hook)
    BY <1>2 DEF FireOnChannelClosed, TypeOK
  <2>2. chain'[pl'[plOf'[d]].of] = ch /\ ch \in Seq(Hook)
    BY <1>1, <2>1
  <2>3. Specific(d)' = 0
    BY <2>1, <2>2 DEF Specific
  <2>4. ch \o SubSeq(want'[d], 1, 0) = ch
    BY <2>1, <2>2
  <2>5. QED
    BY <2>1, <2>2, <2>3, <2>4
<1>3. CASE CallHook(d)
  <2> DEFINE k == Specific(d)
  <2>1. /\ pc[d] = "hooks" /\ k < Len(Slice(d)) /\ UNCHANGED <<want, dirty>>
        /\ called'[d] = Append(called[d], Slice(d)[k + 1])
    BY <1>3 DEF CallHook, TypeOK
  <2>2. chain'[pl'[plOf'[d]].of] = ch /\ ch \in Seq(Hook) /\ called[d] \in Seq(Hook)
        /\ k \in Int /\ k >= 0 /\ Slice(d) \in Seq(Hook) /\ want[d] \in Seq(Hook)
        /\ spare[pl[plOf[d]].of] \in Seq(Hook)
    BY <1>1, <2>1, PipelineOf DEF CalledInv, TypeOK
  <2>3. Specific(d)' = k + 1
    BY <2>1, <2>2 DEF Specific
  <2>4. ASSUME d \notin dirty PROVE Slice(d) = want[d]
    BY <2>1, <2>2, <2>4 DEF SliceInv, Slice
  <2>5. ASSUME d \notin dirty
        PROVE  k < Len(want[d]) /\ called'[d] = ch \o SubSeq(want[d], 1, k + 1)
    <3>1. called[d] = ch \o SubSeq(want[d], 1, k) /\ k < Len(want[d])
      BY <2>1, <2>4, <2>5 DEF CalledInv
    <3>2. called'[d] = Append(ch \o SubSeq(want[d], 1, k), want[d][k + 1])
      BY <2>1, <2>4, <2>5, <3>1
    <3> HIDE DEF ch, k
    <3>3. k \in Nat
      BY <2>2
    <3>4. QED
      BY <2>2, <3>1, <3>2, <3>3, PrefixNext
  <2>6. Len(want[d]) \in Nat
    BY <2>2
  <2> HIDE DEF ch, k
  <2>7. Specific(d)' >= 0
    BY <2>2, <2>3
  <2>8. ASSUME d \notin dirty' PROVE Specific(d)' <= Len(want'[d])
    BY <2>1, <2>2, <2>3, <2>5, <2>6, <2>8
  <2>9. ASSUME d \notin dirty'
        PROVE  called'[d] = chain'[pl'[plOf'[d]].of] \o SubSeq(want'[d], 1, Specific(d)')
    BY <2>1, <2>2, <2>3, <2>5, <2>9
  <2>10. QED
    BY <2>7, <2>8, <2>9
<1>4. CASE ~FireOnChannelClosed(d) /\ ~CallHook(d)
  <2>1. /\ called'[d] = called[d] /\ want'[d] = want[d] /\ dirty \subseteq dirty'
        /\ pc[d] \in {"hooks", "closed"}
    BY <1>4, OtherStep
  <2>2. chain'[pl'[plOf'[d]].of] = ch
    BY <1>1, <2>1
  <2>3. Specific(d)' = Specific(d)
    BY <2>1, <2>2 DEF Specific
  <2>4. QED
    BY <2>1, <2>2, <2>3 DEF CalledInv
<1>5. QED
  BY <1>2, <1>3, <1>4

\* The chain has room for one hook at most.
LEMMA RoomForOne ==
    ASSUME NEW hs \in Seq(Hook), NEW n \in Nat, n \in 1 .. Room(hs)
    PROVE  n = 1
<1> DEFINE words == 1 + Configured * (Len(hs) - 1)
<1>1. words \in Int
  BY ProcessAssumption
<1> HIDE DEF words
<1>2. words > 4 => words % 2 \in 0 .. 1
  BY <1>1
<1>3. Room(hs) = IF words > 4 THEN words % 2 ELSE 0
  BY DEF Room, words
<1>4. QED
  BY <1>2, <1>3

\* Every step keeps that the slice a Close walks is its own, unless another
\* Close wrote into the shared array before it got to its hook.
LEMMA SliceStep ==
    ASSUME TypeOK, PoolInv, CalledInv, SliceInv, Next
    PROVE  SliceInv'
<1> DEFINE of(d) == pl[plOf[d]].of
<1> SUFFICES ASSUME NEW d \in Channels
             PROVE  /\ d \in sharing' => pc'[d] \in {"hooks", "closed"}
                    /\ d \in sharing' /\ pc'[d] = "hooks" => Len(spare'[of(d)']) = 1
                    /\ pc'[d] = "hooks" /\ d \notin dirty' =>
                        /\ hooks'[d] = want'[d]
                        /\ d \in sharing' => /\ Len(want'[d]) = 1
                                             /\ Specific(d)' = 0 => spare'[of(d)'] = want'[d]
  BY DEF SliceInv
<1>1. ASSUME pc[d] # "none"
      PROVE  of(d)' = of(d) /\ chain'[of(d)'] = chain[of(d)] /\ of(d) \in Servers
  BY <1>1, Fixed, PipelineOf DEF Kept
<1>2. CASE FireOnChannelClosed(d)
  <2> DEFINE n == Len(pl[plOf[d]].chocc)
             shares == n \in 1 .. Room(chain[of(d)])
  <2>1. /\ pc[d] = "closing" /\ pc'[d] = "hooks" /\ want'[d] = added[d]
        /\ hooks'[d] = pl[plOf[d]].chocc
        /\ plOf[d] \in stray => d \in dirty'
    BY <1>2 DEF FireOnChannelClosed, TypeOK
  <2>2. d \notin sharing
    BY <2>1 DEF SliceInv
  <2>3. d \notin dirty' => pl[plOf[d]].chocc = added[d]
    BY <2>1 DEF PoolInv
  <2>4. of(d)' = of(d) /\ of(d) \in Servers /\ chain[of(d)] \in Seq(Hook) /\ n \in Nat
    BY <1>1, <2>1, PipelineOf
  <2>5. shares => n = 1
    BY <2>4, RoomForOne
  <2>6. d \in sharing' => shares /\ spare'[of(d)] = pl[plOf[d]].chocc
    BY <1>2, <2>2, <2>4 DEF FireOnChannelClosed, TypeOK
  <2>7. QED
    BY <2>1, <2>3, <2>4, <2>5, <2>6
<1>3. CASE CallHook(d)
  <2>1. /\ pc[d] = "hooks" /\ UNCHANGED <<pc, want, dirty, hooks, sharing, spare>>
        /\ called'[d] = Append(called[d], Slice(d)[Specific(d) + 1])
        /\ called[d] \in Seq(Hook)
    BY <1>3 DEF CallHook, TypeOK
  <2>2. of(d)' = of(d) /\ chain'[of(d)'] = chain[of(d)] /\ chain[of(d)] \in Seq(Hook)
    BY <1>1, <2>1, PipelineOf
  <2>3. Specific(d) >= 0 /\ Specific(d) \in Int /\ Slice(d)[Specific(d) + 1] \in Hook
    <3>1. Slice(d) \in Seq(Hook) /\ Specific(d) \in Int /\ Specific(d) < Len(Slice(d))
      BY <1>3, <2>1, PipelineOf DEF CallHook
    <3>2. QED
      BY <2>1, <3>1, ElementOfSeq DEF CalledInv
  <2>4. Specific(d)' = Specific(d) + 1
    BY <2>1, <2>2, <2>3 DEF Specific
  <2>5. QED
    BY <2>1, <2>2, <2>3, <2>4 DEF SliceInv
<1>4. CASE ~FireOnChannelClosed(d) /\ ~CallHook(d)
  <2>1. /\ called'[d] = called[d] /\ want'[d] = want[d] /\ hooks'[d] = hooks[d]
        /\ d \in sharing' <=> d \in sharing
        /\ pc'[d] = "hooks" => pc[d] = "hooks"
        /\ pc[d] \in {"hooks", "closed"} => pc'[d] \in {"hooks", "closed"}
        /\ dirty \subseteq dirty'
    BY <1>4, OtherStep
  <2>2. d \in sharing' => pc'[d] \in {"hooks", "closed"}
    BY <2>1 DEF SliceInv
  <2>3. SUFFICES ASSUME pc'[d] = "hooks"
                 PROVE  /\ d \in sharing' => Len(spare'[of(d)']) = 1
                        /\ d \notin dirty' =>
                            /\ hooks'[d] = want'[d]
                            /\ d \in sharing' => /\ Len(want'[d]) = 1
                                                 /\ Specific(d)' = 0 => spare'[of(d)'] = want'[d]
    BY <2>2
  <2>4. pc[d] = "hooks" /\ of(d)' = of(d) /\ of(d) \in Servers /\ Specific(d)' = Specific(d)
    BY <1>1, <2>1, <2>3 DEF Specific
  <2>5. CASE spare'[of(d)] = spare[of(d)]
    BY <2>1, <2>4, <2>5 DEF SliceInv
  <2>6. CASE spare'[of(d)] # spare[of(d)] /\ d \in sharing
    <3>1. PICK c \in Channels : FireOnChannelClosed(c)
      BY <2>6 DEF Next, NewServer, NewTransHandler, InitRelease, InitPool, Release, NewChannel, AddOnChannelClosed, Close, FireOnChannelClosed, CallHook, CloseEnd
    <3> DEFINE n == Len(pl[plOf[c]].chocc)
               shares == n \in 1 .. Room(chain[of(c)])
    <3>2. of(c) = of(d) /\ shares /\ spare'[of(d)] = pl[plOf[c]].chocc
      BY <2>4, <2>6, <3>1 DEF FireOnChannelClosed, TypeOK
    <3>3. pc[c] = "closing" /\ chain[of(c)] \in Seq(Hook) /\ n \in Nat
      BY <3>1, PipelineOf DEF FireOnChannelClosed
    <3>4. n = 1
      BY <3>2, <3>3, RoomForOne
    <3>5. Specific(d) < Len(Slice(d)) => d \in dirty'
      BY <2>4, <2>6, <3>1, <3>2 DEF FireOnChannelClosed
    <3>6. Len(Slice(d)) = 1
      BY <2>4, <2>6 DEF Slice, SliceInv
    <3>7. QED
      BY <2>1, <2>4, <2>6, <3>2, <3>4, <3>5, <3>6 DEF SliceInv
  <2>7. CASE d \notin sharing
    BY <2>1, <2>4, <2>7 DEF SliceInv
  <2>8. QED
    BY <2>5, <2>6, <2>7
<1>5. QED
  BY <1>2, <1>3, <1>4

\* The workers of a goroutine pool can be counted.
LEMMA BusyCount == Cardinality(Busy) \in Nat
<1>1. Busy \subseteq Channels /\ IsFiniteSet(Channels)
  BY ProcessAssumption DEF Busy
<1>2. QED
  BY <1>1, FS_Subset, FS_CardinalityType

\* A process that has two started servers, or whose options disable the pool,
\* stays that way.
LEMMA Sticky ==
    ASSUME TypeOK, Next
    PROVE  (TwoStarted => TwoStarted') /\ (Disabled => Disabled')
BY StartedStep DEF TwoStarted

\* Every step keeps that a Close went without the pool only because that was
\* disabled, full, or replaced by the Run of another server.
LEMMA GoStep ==
    ASSUME TypeOK, PoolInv, GoInv, Next
    PROVE  GoInv'
<1> USE DEF vars, optVars, goVars, closeVars
<1>1. ASSUME NEW s \in Servers, NewServer(s) \/ NewTransHandler(s)
      PROVE  GoInv'
  <2>1. UNCHANGED <<goVars, pc, worker>>
        /\ \A t \in Servers : srv'[t] = "running" => srv[t] = "running"
    BY <1>1 DEF NewServer, NewTransHandler, TypeOK
  <2>2. QED
    BY <2>1, Sticky DEF GoInv
<1>2. ASSUME NEW s \in Servers, InitRelease(s) PROVE GoInv'
  <2>1. UNCHANGED <<gen, full, pc, worker, transOptions>> /\ (global' # "nil" => global # "nil")
    BY <1>2 DEF InitRelease
  <2>2. Disabled' = Disabled
    BY <2>1 DEF Disabled
  <2>3. ASSUME NEW t \in Servers, srv'[t] = "running", ~Disabled PROVE TwoStarted'
    <3>1. srv[t] = "running" /\ srv[s] = "handler" /\ t # s
      BY <1>2, <2>3 DEF InitRelease, TypeOK
    <3>2. s \in Started /\ t \in Started
      BY <3>1 DEF Started
    <3>3. QED
      BY <3>1, <3>2, Sticky DEF TwoStarted
  <2>4. QED
    BY <2>1, <2>2, <2>3, Sticky DEF GoInv
<1>3. ASSUME NEW s \in Servers, InitPool(s) PROVE GoInv'
  <2>1. UNCHANGED <<full, pc, worker>> /\ global' = "open" /\ gen' > 0
    BY <1>3 DEF InitPool, TypeOK
  <2>2. QED
    BY <2>1, Sticky DEF GoInv
<1>4. ASSUME Release PROVE GoInv'
  <2>1. UNCHANGED <<full, pc, worker, gen>> /\ global' = "open" /\ global = "closed"
    BY <1>4 DEF Release
  <2>2. QED
    BY <2>1, Sticky DEF GoInv
<1>5. ASSUME NEW c \in Channels, NEW s \in Servers, NEW p \in Pipelines,
        NewChannel(c, s, p)
      PROVE  GoInv'
  <2>1. UNCHANGED <<goVars, worker, srv>>
        /\ \A d \in Channels : pc'[d] \in {"closing", "hooks"} => pc[d] = pc'[d]
    BY <1>5 DEF NewChannel, TypeOK
  <2>2. QED
    BY <2>1, Sticky DEF GoInv
<1>6. ASSUME NEW c \in Channels, AddOnChannelClosed(c) PROVE GoInv'
  <2>1. UNCHANGED <<goVars, worker, srv, pc>>
    BY <1>6 DEF AddOnChannelClosed
  <2>2. QED
    BY <2>1, Sticky DEF GoInv
<1>7. ASSUME NEW c \in Channels, Close(c) PROVE GoInv'
  <2>1. /\ UNCHANGED <<global, gen, srv, transOptions>> /\ (full => full')
        /\ worker'[c] = (IF Pooled THEN gen ELSE 0) /\ pc[c] = "open"
        /\ global = "open" /\ Cardinality(Busy) >= PoolSize => full'
        /\ \A d \in Channels : d # c => pc'[d] = pc[d] /\ worker'[d] = worker[d]
    BY <1>7 DEF Close, TypeOK
  <2>2. ASSUME worker'[c] = 0 PROVE Disabled \/ full' \/ TwoStarted
    <3>1. CASE Pooled
      BY <2>1, <2>2, <3>1 DEF Pooled, GoInv
    <3>2. CASE global = "open" /\ ~Pooled
      BY <2>1, <3>2, BusyCount, ProcessAssumption DEF Pooled
    <3>3. CASE global # "open"
      BY <2>1, <3>3 DEF GoInv, PoolInv
    <3>4. QED
      BY <3>1, <3>2, <3>3
  <2>3. QED
    BY <2>1, <2>2, Sticky DEF GoInv
<1>8. ASSUME NEW c \in Channels, FireOnChannelClosed(c) PROVE GoInv'
  <2>1. UNCHANGED <<goVars, worker, srv>>
        /\ \A d \in Channels : pc'[d] \in {"closing", "hooks"} => pc[d] \in {"closing", "hooks"}
    BY <1>8 DEF FireOnChannelClosed, TypeOK
  <2>2. QED
    BY <2>1, Sticky DEF GoInv
<1>9. ASSUME NEW c \in Channels, CallHook(c) PROVE GoInv'
  <2>1. UNCHANGED <<goVars, worker, srv, pc>>
    BY <1>9 DEF CallHook
  <2>2. QED
    BY <2>1, Sticky DEF GoInv
<1>10. ASSUME NEW c \in Channels, NEW panics \in BOOLEAN, CloseEnd(c,
        panics)
      PROVE  GoInv'
  <2>1. UNCHANGED <<global, gen, full, worker, srv>>
        /\ \A d \in Channels : pc'[d] \in {"closing", "hooks"} => pc[d] = pc'[d]
    BY <1>10 DEF CloseEnd, TypeOK
  <2>2. QED
    BY <2>1, Sticky DEF GoInv
<1>11. QED
  BY <1>1, <1>2, <1>3, <1>4, <1>5, <1>6, <1>7, <1>8, <1>9, <1>10 DEF Next

\* A step that ends the process is the end of a Close without the pool.
LEMMA PanicStep ==
    ASSUME TypeOK, GoInv, PanicContained, Next
    PROVE  PanicContained'
<1> SUFFICES ASSUME crashed' PROVE Disabled' \/ full' \/ TwoStarted'
  BY DEF PanicContained, TwoStarted
<1>1. PICK c \in Channels, panics \in BOOLEAN : CloseEnd(c, panics)
  BY DEF Next, NewServer, NewTransHandler, InitRelease, InitPool, Release, NewChannel, AddOnChannelClosed, Close, FireOnChannelClosed, CallHook, CloseEnd, goVars
<1>2. pc[c] = "hooks" /\ worker[c] = 0 /\ full' = full
  BY <1>1 DEF CloseEnd
<1>3. QED
  BY <1>2, Sticky DEF GoInv

-----------------------------------------------------------------------------
(* The invariant *)

\* A process in which nothing was called yet.
LEMMA IndInit == Init => IndInv
<1> SUFFICES ASSUME Init PROVE IndInv
  OBVIOUS
<1> USE ProcessAssumption DEF Init
<1>1. TypeOK
  <2>1. <<>> \in Seq(Hook) /\ <<>> \in Seq(Servers)
    OBVIOUS
  <2>2. \A p \in Pipelines : pl[p] \in [of : Servers \cup {None}, ch : Channels \cup {None},
                                        chocc : Seq(Hook)]
    BY <2>1
  <2> QED
    BY <2>1, <2>2 DEF TypeOK
<1>2. Started = {}
  BY DEF Started
<1>3. OptInv
  BY <1>2 DEF OptInv
<1>4. PoolInv
  BY DEF PoolInv
<1>5. CalledInv /\ SliceInv
  BY DEF CalledInv, SliceInv
<1>6. GoInv /\ PanicContained
  BY DEF GoInv, PanicContained
<1>7. QED
  BY <1>1, <1>3, <1>4, <1>5, <1>6 DEF IndInv

\* Every step keeps the invariant.
LEMMA IndStep == IndInv /\ [Next]_vars => IndInv'
<1> SUFFICES ASSUME IndInv, [Next]_vars PROVE IndInv'
  OBVIOUS
<1>1. CASE Next
  <2> USE <1>1 DEF IndInv
  <2>1. TypeOK' /\ OptInv' /\ PoolInv'
    BY TypeStep, OptStep, PoolStep
  <2>2. CalledInv' /\ SliceInv'
    BY CalledStep, SliceStep
  <2>3. GoInv' /\ PanicContained'
    BY GoStep, PanicStep
  <2>4. QED
    BY <2>1, <2>2, <2>3
<1>2. CASE UNCHANGED vars
  <2> USE <1>2 DEF vars, optVars, goVars, closeVars, IndInv
  <2>1. TypeOK'
    BY DEF TypeOK
  <2>2. Started' = Started /\ Disabled' = Disabled
    BY DEF Started, Disabled
  <2>3. OptInv'
    BY <2>2 DEF OptInv
  <2>4. PoolInv'
    BY <2>2 DEF PoolInv
  <2>5. \A c \in Channels : Specific(c)' = Specific(c)
    BY DEF Specific
  <2>6. CalledInv' /\ SliceInv'
    BY <2>5 DEF CalledInv, SliceInv
  <2>7. GoInv' /\ PanicContained'
    BY <2>2 DEF GoInv, PanicContained, TwoStarted
  <2>8. QED
    BY <2>1, <2>3, <2>4, <2>6, <2>7
<1>3. QED
  BY <1>1, <1>2

\* With one server every pipeline is made for the server of its channel.
LEMMA OneServer ==
    ASSUME TypeOK, OptInv, Len(transOptions) <= 1, NEW s \in Started, NEW t \in Started
    PROVE  s = t
<1>1. /\ Len(transOptions) \in Nat /\ DOMAIN transOptions = 1 .. Len(transOptions)
  BY DEF TypeOK
<1>2. PICK i \in DOMAIN transOptions : transOptions[i] = s
  BY DEF OptInv, Started
<1>3. PICK j \in DOMAIN transOptions : transOptions[j] = t
  BY DEF OptInv, Started
<1>4. i = j
  BY <1>1, <1>2, <1>3
<1>5. QED
  BY <1>2, <1>3, <1>4

\* The hooks that were called are those of the chain and of the channel.
LEMMA IndHooksWhole == IndInv => HooksWhole
<1> SUFFICES ASSUME IndInv, NEW c \in Channels, pc[c] \in {"hooks", "closed"}, c \notin dirty
             PROVE  LET of == pl[plOf[c]].of
                        common == IF Len(transOptions) > 1 THEN chain[of]
                                  ELSE <<(<<"closeChannel", serverOf[c]>>), (<<"server", serverOf[c]>>)>>
                    IN IsPrefix(called[c], common \o want[c])
  BY DEF HooksWhole
<1> DEFINE of == pl[plOf[c]].of
           k == Specific(c)
<1>1. /\ of \in Started /\ chain[of] \in Seq(Hook) /\ k \in Int
      /\ want[c] \in Seq(Hook) /\ Len(transOptions) \in Nat
  BY PipelineOf DEF IndInv, TypeOK
<1>2. k >= 0 /\ k <= Len(want[c]) /\ called[c] = chain[of] \o SubSeq(want[c], 1, k)
  BY DEF IndInv, CalledInv
<1>3. IsPrefix(called[c], chain[of] \o want[c])
  <2> HIDE DEF of, k
  <2>1. k \in Nat
    BY <1>1, <1>2
  <2>2. QED
    BY <1>1, <1>2, <2>1, PrefixOfAll
<1>4. CASE Len(transOptions) > 1
  BY <1>3, <1>4
<1>5. CASE Len(transOptions) <= 1
  <2>1. serverOf[c] \in Started
    BY DEF IndInv, PoolInv, Started
  <2>2. serverOf[c] = of
    BY <1>1, <1>5, <2>1, OneServer DEF IndInv
  <2>3. chain[of] = <<(<<"closeChannel", of>>), (<<"server", of>>)>>
    BY <1>1, <1>5 DEF IndInv, OptInv
  <2>4. ~(Len(transOptions) > 1)
    BY <1>1, <1>5
  <2>5. QED
    BY <1>3, <2>2, <2>3, <2>4
<1>6. QED
  BY <1>1, <1>4, <1>5

\* The owner of a pipeline is the one the pipeline names.
LEMMA IndPoolClean == IndInv => PoolClean
<1> SUFFICES ASSUME IndInv PROVE PoolClean
  OBVIOUS
<1>1. ASSUME NEW c \in Channels, NEW d \in Channels, c # d,
             {pc[c], pc[d]} \subseteq {"open", "closing", "hooks"}
      PROVE  plOf[c] # plOf[d]
  <2>1. pl[plOf[c]].ch = c
    BY <1>1 DEF IndInv, TypeOK
  <2>2. pl[plOf[d]].ch = d
    BY <1>1 DEF IndInv, TypeOK
  <2>3. QED
    BY <1>1, <2>1, <2>2
<1>2. ASSUME NEW p \in free PROVE pl[p].ch = None /\ (p \notin stray => pl[p].chocc = <<>>)
  BY DEF IndInv, PoolInv, TypeOK
<1>3. QED
  BY <1>1, <1>2 DEF PoolClean

-----------------------------------------------------------------------------
(* Theorems *)

\* The invariant holds in every state of every process.
THEOREM ProcessInductive == Spec => []IndInv
BY IndInit, IndStep, PTL DEF Spec

\* The types, and that the pipeline of a channel that is not closed names it.
THEOREM ProcessTypes == Spec => []TypeOK
<1>1. IndInv => TypeOK
  BY DEF IndInv
<1>2. QED
  BY <1>1, ProcessInductive, PTL

\* However many servers share the options of the process, a Close calls the
\* chain of the handler and then its channel's own hooks, in order and each
\* once, unless one of the two exceptions of HooksWhole happened to it.
THEOREM HooksAreWhole == Spec => []HooksWhole
BY ProcessInductive, IndHooksWhole, PTL

\* sync.Pool never hands a pipeline to two channels, and one that is in the
\* pool has no channel and none of the hooks of its last one.
THEOREM PoolIsClean == Spec => []PoolClean
BY ProcessInductive, IndPoolClean, PTL

\* For any capacity of the goroutine pool: a hook that panics ends the process
\* only if the pool is disabled, was full, or another server was started.
THEOREM PanicIsContained == Spec => []PanicContained
<1>1. IndInv => PanicContained
  BY DEF IndInv
<1>2. QED
  BY <1>1, ProcessInductive, PTL
==============================================================================
