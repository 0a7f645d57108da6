----------------------------- MODULE TimeWheel -----------------------------
(***************************************************************************)
(* The hierarchical time wheel behind every keepalive timer of Emove/less: *)
(* internal/timewheel/time_wheel.go with its nodes (time_wheel_node.go)    *)
(* and lists (list.go).                                                    *)
(*                                                                         *)
(* One goroutine turns the wheel: moveAndExec cascades the lists of the    *)
(* coarser levels when the near wheel comes round, advances jiffies, takes *)
(* the near list of the tick and runs it.  AfterFunc and ScheduleFunc read *)
(* jiffies and later push the node; Stop marks a node and unlinks it when  *)
(* the versions of the node and of its list show that it was not moved.    *)
(*                                                                         *)
(* A list is a ring of Next and Prev pointers through its head and the     *)
(* nodes, with a length in the head that is kept by itself: the wheel      *)
(* skips a list whose recorded length is zero.  The sizes (256 near slots, *)
(* 4 levels of 64 in the code) are parameters.  Time is counted in ticks   *)
(* of 10ms.  uint64 subtraction wraps.                                     *)
(***************************************************************************)
EXTENDS Integers, FiniteSets

CONSTANTS Timers,       \* the timers that are started
          NearSize,     \* slots of the near wheel
          LevelSize,    \* slots of each coarser level
          Levels,       \* number of coarser levels
          Delays,       \* delays AfterFunc is called with, in ticks
          Periods,      \* periods ScheduleFunc is called with, in ticks
          Stops,        \* timers that Stop is called on
          MaxStops,     \* bound: calls of Stop on each of them
          LastStart,    \* bound: the last tick in which a timer is started
          Skew,         \* bound: ticks between a caller's load and its push
          Horizon,      \* bound: the last value of jiffies
          Word          \* the size of uint64

ASSUME SizesAssumption ==
    {NearSize, LevelSize, Levels} \subseteq Nat \ {0} /\ LevelSize > 1
ASSUME TimesAssumption ==
    Delays \cup Periods \cup {MaxStops, LastStart, Skew, Horizon} \subseteq Nat

VARIABLES
    jiffies,                  \* the wheel's tick counter
    next, prev,               \* the pointers of each head and node
    len, version,             \* of each slot: recorded length, version
    expire, period,           \* of each node; period -1 is a one-shot timer
    stop, nlist, nversion,    \* of each node: flag, its list, its version
    adding, loaded,           \* its AfterFunc: label, jiffies it loaded
    stopper, calls, cpyList,  \* its Stop: label, calls left, list it loaded
    wheel, level, pos,        \* moveAndExec: label, cascade level, ForEachSafe
    due, lag, ran,            \* history: tick it should run at, delay of its
                              \* last run, has it run?
    pushed,                   \* history: was it pushed in the tick in which
                              \* its caller loaded jiffies ("prompt"), later
                              \* ("late"), or with the delay NearSize - 1
                              \* ("edge")?
    cut                       \* history: did a second Stop unlink a node again?

slotVars == <<next, prev, len, version>>
nodeVars == <<expire, period, stop, nlist, nversion>>
addVars == <<adding, loaded>>
stopVars == <<stopper, calls, cpyList>>
wheelVars == <<wheel, level, pos>>
history == <<due, lag, ran, pushed, cut>>
vars == <<jiffies, slotVars, nodeVars, addVars, stopVars, wheelVars, history>>

\* LevelMax[i] is the code's levelMax: the reach of the near wheel and of the
\* first i levels.
LevelMax[i \in 0 .. Levels] ==
    IF i = 0 THEN NearSize ELSE LevelSize * LevelMax[i - 1]
MaxVal == LevelMax[Levels] - 1

\* No tick and no distance that the wheel reaches is as large as uint64.
ASSUME WordAssumption ==
    /\ Word \in Nat /\ Horizon + LevelMax[Levels] <= Word
    /\ \A d \in Delays \cup Periods : Horizon + d < Word
Sub64(a, b) == (a - b) % Word

Near(i) == <<1, i>>
Slots == {Near(i) : i \in 0 .. NearSize - 1}
         \cup {<<l, i>> : l \in 2 .. Levels + 1, i \in 0 .. LevelSize - 1}
tmp == <<0, 0>>                \* the head that a taken list is moved to
Heads == Slots \cup {tmp}
Links == Heads \cup Timers

ASSUME TimersAssumption ==
    IsFiniteSet(Timers) /\ Timers \cap Heads = {} /\ Stops \subseteq Timers

TypeOK ==
    /\ jiffies \in 0 .. Horizon
    /\ next \in [Links -> Links] /\ prev \in [Links -> Links]
    /\ len \in [Slots -> Int] /\ version \in [Slots -> Nat]
    /\ expire \in [Timers -> 0 .. Word - 1]
    /\ period \in [Timers -> Int]
    /\ stop \in [Timers -> BOOLEAN]
    /\ nlist \in [Timers -> Slots] /\ nversion \in [Timers -> Nat]
    /\ adding \in [Timers -> {"new", "push", "done"}]
    /\ loaded \in [Timers -> Nat]
    /\ stopper \in [Timers -> {"idle", "load", "lock"}]
    /\ calls \in [Timers -> 0 .. MaxStops]
    /\ cpyList \in [Timers -> Slots]
    /\ wheel \in {"idle", "cascade", "readd", "inc", "take", "exec", "again"}
    /\ level \in 0 .. Levels - 1
    /\ pos \in Links
    /\ due \in [Timers -> Nat] /\ lag \in [Timers -> Int]
    /\ ran \in [Timers -> BOOLEAN]
    /\ pushed \in [Timers -> {"no", "prompt", "late", "edge"}]
    /\ cut \in BOOLEAN

Init ==
    /\ jiffies = 0
    /\ next = [x \in Links |-> x] /\ prev = [x \in Links |-> x]
    /\ len = [s \in Slots |-> 0] /\ version = [s \in Slots |-> 0]
    /\ expire = [n \in Timers |-> 0]
    /\ period = [n \in Timers |-> -1]
    /\ stop = [n \in Timers |-> FALSE]
    /\ nlist = [n \in Timers |-> Near(0)] /\ nversion = [n \in Timers |-> 0]
    /\ adding = [n \in Timers |-> "new"]
    /\ loaded = [n \in Timers |-> 0]
    /\ stopper = [n \in Timers |-> "idle"]
    /\ calls = [n \in Timers |-> IF n \in Stops THEN MaxStops ELSE 0]
    /\ cpyList = [n \in Timers |-> Near(0)]
    /\ wheel = "idle" /\ level = 0 /\ pos = tmp
    /\ due = [n \in Timers |-> 0] /\ lag = [n \in Timers |-> 0]
    /\ ran = [n \in Timers |-> FALSE]
    /\ pushed = [n \in Timers |-> "no"]
    /\ cut = FALSE

-----------------------------------------------------------------------------
(* The rings of list.go *)

\* The nodes met when the pointers p are followed from x to the head h.
NodesFrom(p, x, h) ==
    LET at[k \in 0 .. Cardinality(Timers)] ==
            IF k = 0 THEN x ELSE IF at[k - 1] = h THEN h ELSE p[at[k - 1]]
    IN IF x = h THEN {} ELSE {at[k] : k \in DOMAIN at} \ {h}

Nodes(h) == NodesFrom(next, next[h], h)

\* Mutation of add: the Prev of the node that follows is not set.
MutAdd(n, p, x) ==
    /\ next' = [next EXCEPT ![n] = x, ![p] = n]
    /\ prev' = [prev EXCEPT ![n] = p]

\* Put n between p and x; take out what is between p and x.
add(n, p, x) ==
    /\ next' = [next EXCEPT ![n] = x, ![p] = n]
    /\ prev' = [prev EXCEPT ![n] = p, ![x] = n]
del(p, x) == next' = [next EXCEPT ![p] = x] /\ prev' = [prev EXCEPT ![x] = p]

Empty(h) == len[h] = 0
AddTail(n, h) == add(n, prev[h], h)
Del(n) == del(prev[n], next[n])

\* Mutation of ReplaceInit: Replace, so that the old head keeps the nodes.
MutReplaceInit(h) ==
    /\ next' = [next EXCEPT ![tmp] = next[h], ![prev[h]] = tmp]
    /\ prev' = [prev EXCEPT ![tmp] = prev[h], ![next[h]] = tmp]

\* The new head tmp takes the place of h, and h is made empty.
ReplaceInit(h) ==
    IF next[h] = h
    THEN UNCHANGED <<next, prev>>
    ELSE /\ next' = [next EXCEPT ![tmp] = next[h], ![prev[h]] = tmp, ![h] = h]
         /\ prev' = [prev EXCEPT ![tmp] = prev[h], ![next[h]] = tmp, ![h] = h]

-----------------------------------------------------------------------------
(* add: which list a node belongs to *)

\* Mutation of InNear: <= in place of <.
MutInNear(idx) == idx <= NearSize

InNear(idx) == idx < NearSize

\* The list for expire e when jiffies is now: the near wheel if the tick is
\* less than a turn away, else the first level that reaches it, with a
\* distance beyond all levels cut to their reach.
SlotFor(e, now) ==
    LET idx == Sub64(e, now)
        far == idx > MaxVal
        reach == IF far THEN MaxVal ELSE idx
        at == IF far THEN MaxVal + now ELSE e
        l == CHOOSE i \in 0 .. Levels - 1 :
                /\ reach < LevelMax[i + 1]
                /\ \A k \in 0 .. i - 1 : reach >= LevelMax[k + 1]
    IN IF InNear(idx)
       THEN Near(e % NearSize)
       ELSE <<l + 2, (at \div LevelMax[l]) % LevelSize>>

\* lockPushBack: a stopped node is dropped.
PushBack(n, s) ==
    IF stop[n]
    THEN UNCHANGED <<slotVars, nlist, nversion>>
    ELSE /\ AddTail(n, s)
         /\ len' = [len EXCEPT ![s] = @ + 1]
         /\ nlist' = [nlist EXCEPT ![n] = s]
         /\ nversion' = [nversion EXCEPT ![n] = version[s]]
         /\ UNCHANGED version

\* Under the list's lock it is moved to tmp and gets a new version; ForEachSafe
\* starts.
TakeList(s) ==
    /\ ReplaceInit(s)
    /\ len' = [len EXCEPT ![s] = 0]
    /\ version' = [version EXCEPT ![s] = @ + 1]
    /\ pos' = next'[tmp]

-----------------------------------------------------------------------------
(* AfterFunc and ScheduleFunc *)

\* They load jiffies and make the node ...
AddLoad(n, e, p) ==
    /\ adding[n] = "new" /\ jiffies <= LastStart
    /\ adding' = [adding EXCEPT ![n] = "push"]
    /\ loaded' = [loaded EXCEPT ![n] = jiffies]
    /\ expire' = [expire EXCEPT ![n] = jiffies + e]
    /\ period' = [period EXCEPT ![n] = p]
    /\ due' = [due EXCEPT ![n] = jiffies + e]
    /\ UNCHANGED <<jiffies, slotVars, stop, nlist, nversion, stopVars, wheelVars,
                   lag, ran, pushed, cut>>

AfterFunc(n) == \E d \in Delays : AddLoad(n, d, -1)
ScheduleFunc(n) == \E p \in Periods : AddLoad(n, p, p)

\* ... and push it to the list that the loaded value gives.
AddPush(n) ==
    /\ adding[n] = "push"
    /\ adding' = [adding EXCEPT ![n] = "done"]
    /\ PushBack(n, SlotFor(expire[n], loaded[n]))
    /\ pushed' = [pushed EXCEPT ![n] =
                     IF due[n] - loaded[n] = NearSize - 1 THEN "edge"
                     ELSE IF jiffies > loaded[n] THEN "late" ELSE "prompt"]
    /\ UNCHANGED <<jiffies, expire, period, stop, loaded, stopVars, wheelVars, due,
                   lag, ran, cut>>

-----------------------------------------------------------------------------
(* Stop of a node, which its owner may call more than once *)

StopFlag(n) ==
    /\ stopper[n] = "idle" /\ calls[n] > 0
    /\ adding[n] = "done"
    /\ stop' = [stop EXCEPT ![n] = TRUE]
    /\ stopper' = [stopper EXCEPT ![n] = "load"]
    /\ calls' = [calls EXCEPT ![n] = @ - 1]
    /\ UNCHANGED <<jiffies, slotVars, expire, period, nlist, nversion, addVars,
                   cpyList, wheelVars, history>>

StopLoad(n) ==
    /\ stopper[n] = "load"
    /\ cpyList' = [cpyList EXCEPT ![n] = nlist[n]]
    /\ stopper' = [stopper EXCEPT ![n] = "lock"]
    /\ UNCHANGED <<jiffies, slotVars, nodeVars, addVars, calls, wheelVars, history>>

\* Mutation of Unmoved: the versions are not compared.
MutUnmoved(n, s) == TRUE

\* The versions show that the node was not moved.  They carry level and index
\* of their list.
Unmoved(n, s) == nlist[n] = s /\ nversion[n] = version[s]

\* Under the lock of the list it loaded: the node is unlinked unless it was
\* moved.  Nothing tells whether an earlier Stop has unlinked it already.
StopDel(n) ==
    LET s == cpyList[n] IN
    /\ stopper[n] = "lock"
    /\ stopper' = [stopper EXCEPT ![n] = "idle"]
    /\ IF Unmoved(n, s)
       THEN /\ Del(n)
            /\ len' = [len EXCEPT ![s] = @ - 1]
            /\ cut' = (cut \/ (calls[n] < MaxStops - 1 /\ n \notin Nodes(s)))
       ELSE UNCHANGED <<next, prev, len, cut>>
    /\ UNCHANGED <<jiffies, version, nodeVars, addVars, calls, cpyList, wheelVars,
                   due, lag, ran, pushed>>

-----------------------------------------------------------------------------
(* moveAndExec *)

nearIndex == jiffies % NearSize
levelIndex == (jiffies \div LevelMax[level]) % LevelSize

\* It starts; the near wheel has come round when its index is zero.
Tick ==
    /\ wheel = "idle"
    /\ jiffies < Horizon
    /\ wheel' = IF nearIndex = 0 THEN "cascade" ELSE "inc"
    /\ level' = 0
    /\ UNCHANGED <<jiffies, slotVars, nodeVars, addVars, stopVars, pos, history>>

\* cascade takes the list of the level's index ...
CascadeTake ==
    LET s == <<level + 2, levelIndex>> IN
    /\ wheel = "cascade"
    /\ wheel' = "readd"
    /\ IF Empty(s) THEN UNCHANGED <<slotVars, pos>> ELSE TakeList(s)
    /\ UNCHANGED <<jiffies, nodeVars, addVars, stopVars, level, history>>

\* ForEachSafe has read the Next of pos before its callback changes it.
SafeNext == next[pos]

\* ... and adds its nodes again, one by one; they are not unlinked from tmp.
\* Pointers that a second Stop has cut may lead the loop to the head of a slot,
\* from which it does not come back to tmp: the wheel then stands still.
CascadeAdd ==
    /\ wheel = "readd"
    /\ pos \in Timers
    /\ PushBack(pos, SlotFor(expire[pos], jiffies))
    /\ pos' = SafeNext
    /\ UNCHANGED <<jiffies, expire, period, stop, addVars, stopVars, wheel, level, history>>

\* tmp is not used any more.
DropTmp ==
    /\ pos = tmp
    /\ next' = [next EXCEPT ![tmp] = tmp]
    /\ prev' = [prev EXCEPT ![tmp] = tmp]
    /\ UNCHANGED <<len, version, pos>>

\* Mutations of MoreLevels: only the first level is cascaded; the loop over
\* the levels has no bound.
MutMoreLevels == FALSE
MutLevelBound == levelIndex = 0

\* The next level follows when this one has come round too.
MoreLevels == levelIndex = 0 /\ level < Levels - 1

CascadeNext ==
    /\ wheel = "readd"
    /\ DropTmp
    /\ IF MoreLevels
       THEN wheel' = "cascade" /\ level' = level + 1
       ELSE wheel' = "inc" /\ UNCHANGED level
    /\ UNCHANGED <<jiffies, nodeVars, addVars, stopVars, history>>

\* jiffies advances.  No caller is left behind by more than Skew ticks.
Inc ==
    /\ wheel = "inc"
    /\ \A n \in Timers : adding[n] = "push" => jiffies < loaded[n] + Skew
    /\ jiffies' = jiffies + 1
    /\ wheel' = "take"
    /\ UNCHANGED <<slotVars, nodeVars, addVars, stopVars, level, pos, history>>

\* The near list of the tick is taken, unless its length is zero.
Take ==
    LET s == Near((jiffies - 1) % NearSize) IN
    /\ wheel = "take"
    /\ IF Empty(s)
       THEN wheel' = "idle" /\ UNCHANGED <<slotVars, pos>>
       ELSE wheel' = "exec" /\ TakeList(s)
    /\ UNCHANGED <<jiffies, nodeVars, addVars, stopVars, level, history>>

\* History: a period after the last tick it was due at, at the earliest the
\* tick that comes next.
NextDue(t) == IF t < jiffies THEN jiffies ELSE t

\* A node of it is unlinked and runs unless it is stopped; a periodic one is
\* to run again one period after the tick that ran it.
Exec ==
    /\ wheel = "exec"
    /\ pos \in Timers
    /\ Del(pos)
    /\ IF stop[pos]
       THEN UNCHANGED <<due, lag, ran>>
       ELSE /\ ran' = [ran EXCEPT ![pos] = TRUE]
            /\ lag' = [lag EXCEPT ![pos] = jiffies - 1 - due[pos]]
            /\ due' = [due EXCEPT ![pos] = IF period[pos] = -1 THEN @
                                           ELSE NextDue(@ + period[pos])]
    /\ IF stop[pos] \/ period[pos] = -1
       THEN pos' = SafeNext /\ UNCHANGED <<wheel, expire>>
       ELSE /\ wheel' = "again"
            /\ expire' = [expire EXCEPT ![pos] = period[pos] + jiffies - 1]
            /\ UNCHANGED pos
    /\ UNCHANGED <<jiffies, len, version, period, stop, nlist, nversion, addVars,
                   stopVars, level, pushed, cut>>

\* The periodic node is added again.
ExecAdd ==
    /\ wheel = "again"
    /\ PushBack(pos, SlotFor(expire[pos], jiffies))
    /\ pos' = SafeNext
    /\ wheel' = "exec"
    /\ UNCHANGED <<jiffies, expire, period, stop, addVars, stopVars, level, history>>

ExecEnd ==
    /\ wheel = "exec"
    /\ DropTmp
    /\ wheel' = "idle"
    /\ UNCHANGED <<jiffies, nodeVars, addVars, stopVars, level, history>>

-----------------------------------------------------------------------------
WheelStep ==
    \/ Tick \/ CascadeTake \/ CascadeAdd \/ CascadeNext
    \/ Inc \/ Take \/ Exec \/ ExecAdd \/ ExecEnd

Next ==
    \/ WheelStep
    \/ \E n \in Timers : AfterFunc(n) \/ ScheduleFunc(n) \/ AddPush(n)
    \/ \E n \in Stops : StopFlag(n) \/ StopLoad(n) \/ StopDel(n)

Spec == Init /\ [][Next]_vars

-----------------------------------------------------------------------------
(* Safety *)

\* A timer that will still run.
Pending(n) == adding[n] = "done" /\ ~stop[n] /\ (period[n] # -1 \/ ~ran[n])

\* A pending timer is in exactly one list of the wheel or is still to be met
\* by the loop over the taken list: no cascade, re-arming or Stop of another
\* timer loses it or runs it twice.  Only a second Stop of a node, which
\* unlinks with stale pointers, can cut a timer out.
PendingInOneList ==
    ~cut => \A n \in Timers :
        Pending(n) =>
            Cardinality({s \in Slots : n \in Nodes(s)})
                + (IF n \in NodesFrom(next, pos, tmp) THEN 1 ELSE 0) = 1

\* The ring of a list goes through its nodes and back to its head, the same
\* ones forwards and backwards, each of which knows that it is in this list:
\* nodes that are moved without being unlinked first, or unlinked without the
\* lock of their old list, leave no pointer behind, and the loop over a taken
\* list never runs off it to the head of another.
RingsIntact ==
    ~cut =>
        /\ pos \in Timers \cup {tmp}
        /\ \A s \in Slots :
              /\ Nodes(s) = NodesFrom(prev, prev[s], s)
              /\ \A n \in Nodes(s) : n \in Timers /\ Unmoved(n, s)

\* The length in a list's head is the number of its nodes, so that the wheel
\* never skips a list that holds a timer: the version check of Stop never
\* counts down a list its node has left.
LenMatchesList == ~cut => \A s \in Slots : len[s] = Cardinality(Nodes(s))

\* No timer runs before its tick, however late its caller pushed it.  Only the
\* delay NearSize - 1 is not safe: a caller that loads and pushes between the
\* increment of jiffies and the taking of the near list then puts its node into
\* the very list that is taken, a whole turn too soon.  What a loop that has run
\* off its list (see CascadeAdd) would run is beyond this model, hence ~cut.
NeverEarly ==
    ~cut => \A n \in Timers : ran[n] /\ pushed[n] # "edge" => lag[n] >= 0

\* A timer that its caller pushed in the tick in which it loaded jiffies runs
\* exactly at its tick (a periodic one at every multiple of its period),
\* through every cascade and every distance cut to the reach of the wheel,
\* whatever the other timers are, and is not overdue between two ticks.  One
\* that is pushed later may miss its list and wait for a turn of its level.
OnTime ==
    ~cut => \A n \in Timers :
        pushed[n] = "prompt" /\ period[n] # 0 =>
            /\ ran[n] => lag[n] = 0
            /\ wheel = "idle" /\ Pending(n) => jiffies <= due[n]
=============================================================================
