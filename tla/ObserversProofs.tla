--------------------------- MODULE ObserversProofs ----------------------------
(***************************************************************************)
(* Proofs about Observers, for any number of keys, callbacks, observer      *)
(* objects, changes and faults, and any subscribers together: a             *)
(* subscription is lost to nobody else's call, nobody is called after off,  *)
(* and everybody who is subscribed is told.                                 *)
(***************************************************************************)
EXTENDS Observers, SequenceTheorems, TLAPS

List(m) == IF m = "local" THEN localObservers ELSE multiProcessObservers

\* The lists of PreferencesBase hold objects of their mode.
ListsTyped ==
    /\ sub \in Seq(Subs) /\ Len(sub) <= MaxObs
    /\ \A o \in localObservers : o \in Objects /\ sub[o].mode = "local"
    /\ \A o \in multiProcessObservers : o \in Objects /\ sub[o].mode = "multi"
    /\ dataObserversMap \in [DOMAIN dataObserversMap -> SUBSET Keys]
    /\ \A o \in DOMAIN dataObserversMap : o \in Objects /\ sub[o].mode = "data"

\* So do those of the owners.
OwnersTyped ==
    /\ proxy \in [Modes -> SUBSET Objects]
    /\ \A m \in Modes : \A o \in proxy[m] : sub[o].who = "js" /\ sub[o].mode = m
    /\ \A m \in Modes : \A o, p \in proxy[m] : sub[o].fn = sub[p].fn => o = p
    /\ cleared \subseteq Objects /\ \A o \in cleared : sub[o].who = "js"
    /\ ndk \subseteq Objects /\ \A o \in ndk : sub[o].who = "ndk" /\ sub[o].mode = "data"
    /\ native \subseteq Objects /\ \A o \in native : sub[o].who = "native"
    /\ \A o, p \in native : sub[o].mode = sub[p].mode => o = p

LoopTyped ==
    /\ leaving \in [mode : Modes \cup {"none"}, left : SUBSET Objects, keys : SUBSET Keys,
                    dying : BOOLEAN]
    /\ IF leaving.mode \in Modes THEN leaving.left \subseteq proxy[leaving.mode]
                                 ELSE leaving.left = {}

FlowTyped ==
    /\ notify \in [keys : SUBSET Keys, data : SUBSET Objects, local : SUBSET (Objects \X Keys)]
    /\ notify.data \subseteq DOMAIN dataObserversMap
    /\ notify.local \subseteq localObservers \X notify.keys
    /\ announce \subseteq Keys
    /\ wire \subseteq Objects \X Keys /\ \A e \in wire : sub[e[1]].mode = "multi"
    /\ held \subseteq Objects \X SUBSET Keys
    /\ uvQueue \in Seq(Nat \X SUBSET Keys)
    /\ \A e \in Events : e[1] \in Objects /\ sub[e[1]].who = "js"
    /\ changes \in 0 .. MaxChanges /\ faults \in 0 .. MaxFaults

\* A thread has locked an observer that it is about to tell: the notifier while it walks
\* the lists, a thread of the service while the change is on the wire.
HeldTyped ==
    \A h \in held : \/ h[1] \in notify.data /\ h[2] = Records(h[1])
                   \/ \E e \in notify.local \cup wire : h[1] = e[1] /\ h[2] = {e[2]}

HistoryTyped == asked \in [Subs -> SUBSET Keys] /\ owed \subseteq Subs \X Keys

TypeInv == ListsTyped /\ OwnersTyped /\ LoopTyped /\ FlowTyped /\ HeldTyped /\ HistoryTyped

\* A second on with the same callback has asked for k in vain.
Ignored(s, k) == <<s, k>> \in ignored

\* An observer of JS leaves the proxy when its callback is cleared, those of the loop that
\* is under way when the loop ends.
JsCleared ==
    /\ \A o \in Objects : sub[o].who = "js" => o \in cleared \/ o \in proxy[sub[o].mode]
    /\ \A m \in Modes : \A o \in proxy[m] \cap cleared :
          m # "data" /\ leaving.mode = m /\ o \notin leaving.left
    /\ leaving.mode \in {"local", "multi"} => proxy[leaving.mode] \ leaving.left \subseteq cleared

\* A callback that is not cleared has its entry, and has asked for what the entry says.
JsEntries ==
    /\ \A m \in {"local", "multi"} : \A o \in proxy[m] \ cleared :
          o \in List(m) /\ asked[sub[o]] = Keys
    /\ \A o \in proxy["data"] :
          /\ o \in DOMAIN dataObserversMap
          /\ \A k \in dataObserversMap[o] : k \in asked[sub[o]]
          /\ \A k \in asked[sub[o]] : k \in dataObserversMap[o] \/ Ignored(sub[o], k)

JsAsked ==
    \A s \in Subs : \A k \in asked[s] :
       s.who = "js" => Ignored(s, k) \/ \E o \in proxy[s.mode] \ cleared : sub[o] = s

NdkEntries ==
    /\ \A o \in ndk \cap DOMAIN dataObserversMap : \A k \in dataObserversMap[o] :
          k \in asked[sub[o]] \/ <<o, k>> \in excused
    /\ \A s \in Subs : \A k \in asked[s] :
          s.who = "ndk" /\ s.mode = "data" =>
             \E o \in ndk \cap DOMAIN dataObserversMap : sub[o] = s /\ k \in dataObserversMap[o]

NativeEntries ==
    /\ \A o \in native : o \in List(sub[o].mode) =>
          asked[sub[o]] = Keys \/ \A k \in Keys : <<o, k>> \in excused
    /\ \A s \in Subs : s.who = "native" /\ s.mode # "data" /\ asked[s] # {} =>
          \E o \in native : sub[o] = s /\ o \in List(s.mode)

\* The entry of a native observer of keys has exactly the keys it has asked for.
NativeKeys ==
    /\ \A o \in native : sub[o].mode = "data" =>
          \A k \in Keys : k \in asked[sub[o]] <=>
                            o \in DOMAIN dataObserversMap /\ k \in dataObserversMap[o]
    /\ \A s \in Subs : s.who = "native" /\ s.mode = "data" /\ asked[s] # {} =>
          \E o \in native : sub[o] = s

OwnerInv == JsCleared /\ JsEntries /\ JsAsked /\ NdkEntries /\ NativeEntries /\ NativeKeys

\* What is on its way was asked for, or is excused.
InTransit ==
    /\ \A e \in Events : \A k \in e[2] :
          e[1] \in cleared \/ k \in asked[sub[e[1]]] \/ <<e[1], k>> \in excused
    /\ \A e \in wire : e[1] \in native => e[2] \in asked[sub[e[1]]] \/ e \in excused
    /\ \A h \in held : /\ sub[h[1]].who # "js"
                       /\ h[1] \in ndk \cup native \/ \A k \in Keys : <<h[1], k>> \in excused

SilentInv == InTransit /\ SilentAfterOff

\* An observer that will do something when it is told.
Alive(o) == (o \in ndk \cup native \/ \E m \in Modes : o \in proxy[m]) /\ o \notin cleared

\* The function of o will be called about k.
Coming(o, k) ==
    \/ o \in notify.data /\ k \in dataObserversMap[o] /\ k \in notify.keys
    \/ <<o, k>> \in notify.local \cup wire
    \/ \E e \in Events : e[1] = o /\ k \in e[2]

Due(s, k) == \E o \in Objects : sub[o] = s /\ Alive(o) /\ Coming(o, k)

\* What is owed was asked for, and is coming, but for the exceptions of HeardWhenQuiet.
OwedInv ==
    \A e \in owed :
       /\ e[2] \in asked[e[1]]
       /\ Mute(e[1]) \/ Ignored(e[1], e[2]) \/ e \in dropped \/ Due(e[1], e[2])

Inv == TypeInv /\ OwnerInv /\ SilentInv /\ OwedInv

-----------------------------------------------------------------------------
(* The operators of the model. *)

\* A subscription belongs to JS, to the NDK or to a caller of the inner API, and is the
\* same as another when its three fields are.
LEMMA SubsFields ==
    /\ \A s \in Subs : \/ s.who = "js" /\ s.mode \in Modes
                       \/ s.who = "ndk" /\ s.mode \in {"multi", "data"}
                       \/ s.who = "native" /\ s.mode \in Modes /\ s.fn = "OnChange"
    /\ \A s, t \in Subs : s.who = t.who /\ s.mode = t.mode /\ s.fn = t.fn => s = t
  BY DEF Subs, Modes

\* The subscriptions the three owners make.
LEMMA SubsMade ==
    /\ \A m \in Modes, f \in Callbacks :
          /\ JsSub(m, f) \in Subs /\ JsSub(m, f).who = "js"
          /\ JsSub(m, f).mode = m /\ JsSub(m, f).fn = f
    /\ \A m \in {"multi", "data"}, f \in NdkObservers :
          /\ NdkSub(m, f) \in Subs /\ NdkSub(m, f).who = "ndk"
          /\ NdkSub(m, f).mode = m /\ NdkSub(m, f).fn = f
    /\ \A m \in Modes :
          /\ NativeSub(m) \in Subs /\ NativeSub(m).who = "native" /\ NativeSub(m).mode = m
  BY DEF Subs, Modes, JsSub, NdkSub, NativeSub

\* A new object has the next number (the objects of make_shared in on and Register).
LEMMA Created ==
    ASSUME NEW s \in Subs, sub \in Seq(Subs), Create(s)
    PROVE  /\ sub' \in Seq(Subs) /\ Len(sub') <= MaxObs
           /\ Objects' = Objects \cup {Fresh} /\ Fresh \notin Objects /\ Fresh \in Nat
           /\ \A o \in Objects : sub'[o] = sub[o]
           /\ sub'[Fresh] = s
  <1>1. sub' = Append(sub, s) /\ Len(sub) + 1 <= MaxObs
    BY DEF Create, Fresh
  <1>2. /\ sub' \in Seq(Subs) /\ Len(sub') = Len(sub) + 1 /\ Len(sub) \in Nat
        /\ \A o \in 1 .. Len(sub) : sub'[o] = sub[o]
        /\ sub'[Len(sub) + 1] = s
    BY <1>1, AppendProperties, LenProperties
  <1> QED BY <1>1, <1>2 DEF Objects, Fresh

\* The events after uv_queue_work, and after the first has been taken.
LEMMA Queued ==
    ASSUME NEW S, uvQueue \in Seq(S), NEW e \in S, uvQueue' = Append(uvQueue, e)
    PROVE  uvQueue' \in Seq(S) /\ Events' = Events \cup {e}
  <1>1. /\ uvQueue' \in Seq(S) /\ Len(uvQueue') = Len(uvQueue) + 1 /\ Len(uvQueue) \in Nat
        /\ \A i \in 1 .. Len(uvQueue) : uvQueue'[i] = uvQueue[i]
        /\ uvQueue'[Len(uvQueue) + 1] = e
    BY AppendProperties, LenProperties
  <1>2. DOMAIN uvQueue = 1 .. Len(uvQueue) /\ DOMAIN uvQueue' = 1 .. Len(uvQueue) + 1
    BY <1>1, LenProperties
  <1> QED BY <1>1, <1>2 DEF Events

\* The events after the JS thread has taken the first (js_observer.cpp:57-77).
LEMMA Taken ==
    ASSUME NEW S, uvQueue \in Seq(S), uvQueue # <<>>, uvQueue' = Tail(uvQueue)
    PROVE  uvQueue' \in Seq(S) /\ Head(uvQueue) \in Events
           /\ Events = Events' \cup {Head(uvQueue)}
  <1>1. /\ uvQueue' \in Seq(S) /\ Len(uvQueue) \in Nat /\ Len(uvQueue) >= 1
        /\ Len(uvQueue') = Len(uvQueue) - 1 /\ Head(uvQueue) = uvQueue[1]
        /\ \A i \in 1 .. Len(uvQueue) - 1 : uvQueue'[i] = uvQueue[i + 1]
    BY HeadTailProperties, LenProperties, EmptySeq
  <1>2. DOMAIN uvQueue = 1 .. Len(uvQueue) /\ DOMAIN uvQueue' = 1 .. Len(uvQueue) - 1
    BY <1>1, LenProperties
  <1>3. Events' \subseteq Events /\ Head(uvQueue) \in Events
    <2>1. ASSUME NEW i \in DOMAIN uvQueue' PROVE uvQueue'[i] \in Events
      <3>1. i + 1 \in DOMAIN uvQueue /\ uvQueue'[i] = uvQueue[i + 1]
        BY <1>1, <1>2
      <3> QED BY <3>1 DEF Events
    <2>2. Head(uvQueue) \in Events
      BY <1>1, <1>2 DEF Events
    <2> QED BY <2>1, <2>2 DEF Events
  <1>4. ASSUME NEW i \in DOMAIN uvQueue, i # 1 PROVE uvQueue[i] \in Events'
    <2>1. i - 1 \in DOMAIN uvQueue' /\ uvQueue'[i - 1] = uvQueue[i]
      BY <1>1, <1>2, <1>4
    <2> QED BY <2>1 DEF Events
  <1> QED BY <1>1, <1>3, <1>4 DEF Events

\* UnRegisterObserver (preferences_base.cpp:269-302) removes nobody else who is alive.
LEMMA EntryIsDeadOrOwn ==
    ASSUME NEW list, NEW o
    PROVE  /\ UnRegisterObserver(list, o) \subseteq list
           /\ \A p \in list : Strong(p) /\ p # o => p \in UnRegisterObserver(list, o)
           /\ o \in Entry(list, o) => o \notin UnRegisterObserver(list, o)
  BY DEF UnRegisterObserver, Entry, First

\* The same of the list of a mode.
LEMMA TakeEntryIsSafe ==
    ASSUME NEW m, NEW o, TakeEntry(m, o)
    PROVE  /\ localObservers' \subseteq localObservers
           /\ multiProcessObservers' \subseteq multiProcessObservers
           /\ \A p : Strong(p) /\ p # o =>
                 /\ p \in localObservers => p \in localObservers'
                 /\ p \in multiProcessObservers => p \in multiProcessObservers'
  BY EntryIsDeadOrOwn DEF TakeEntry

\* UnRegisterDataObserver (preferences_base.cpp:195-221) leaves the entries of other objects,
\* and entries with keys left.
LEMMA DataEntries ==
    ASSUME NEW os, NEW keys, dataObserversMap' = UnRegisterDataObserver(os, keys),
           dataObserversMap \in [DOMAIN dataObserversMap -> SUBSET Keys]
    PROVE  /\ DOMAIN dataObserversMap' \subseteq DOMAIN dataObserversMap
           /\ dataObserversMap' \in [DOMAIN dataObserversMap' -> SUBSET Keys]
           /\ \A o \in DOMAIN dataObserversMap \ os :
                 o \in DOMAIN dataObserversMap' /\ dataObserversMap'[o] = dataObserversMap[o]
           /\ \A o \in DOMAIN dataObserversMap \cap os :
                 /\ KeysLeft(o, keys) # {} =>
                       o \in DOMAIN dataObserversMap' /\ dataObserversMap'[o] = KeysLeft(o, keys)
                 /\ KeysLeft(o, keys) = {} => o \notin DOMAIN dataObserversMap'
  <1>1. \A o \in DOMAIN dataObserversMap : KeysLeft(o, keys) \in SUBSET Keys
    BY DEF KeysLeft
  <1> QED BY <1>1 DEF UnRegisterDataObserver

\* RegisterDataObserver (preferences_base.cpp:248-262) adds keys to one entry, new or not.
LEMMA DataAdded ==
    ASSUME NEW o, NEW keys \in SUBSET Keys, dataObserversMap' = RegisterDataObserver(o, keys),
           dataObserversMap \in [DOMAIN dataObserversMap -> SUBSET Keys]
    PROVE  /\ DOMAIN dataObserversMap' = DOMAIN dataObserversMap \cup {o}
           /\ dataObserversMap' \in [DOMAIN dataObserversMap' -> SUBSET Keys]
           /\ \A p \in DOMAIN dataObserversMap : p # o => dataObserversMap'[p] = dataObserversMap[p]
           /\ o \notin DOMAIN dataObserversMap => dataObserversMap'[o] = keys
           /\ o \in DOMAIN dataObserversMap =>
                 dataObserversMap'[o] = dataObserversMap[o] \cup keys
  BY DEF RegisterDataObserver

\* JS registers, and the others keep, strong pointers.
LEMMA OwnersAreStrong ==
    \A o : o \in ndk \cup native \/ (\E m \in Modes : o \in proxy[m]) => Strong(o)
  BY DEF Strong

\* Without a new object the numbers stay.
LEMMA SameObjects ==
    ASSUME sub' = sub
    PROVE  Objects' = Objects /\ Fresh' = Fresh
  BY DEF Objects, Fresh

\* A withdrawal leaves what others have asked for, and whether it was ignored.
LEMMA Withdrawn ==
    ASSUME NEW S, NEW keys, Withdraw(S, keys)
    PROVE  \A s \in Subs : \A k \in asked'[s] :
              k \in asked[s] /\ ~(s \in S /\ k \in keys) /\ (Ignored(s, k) => Ignored(s, k)')
  BY DEF Withdraw, Ignored
-----------------------------------------------------------------------------
(* Registration. *)

\* What the four ways to register have in common: a new object with an entry and an owner,
\* except for the multi-process observer of the NDK, which has none.
RegisterStep(s, keys) ==
    /\ Free /\ Create(s) /\ AddEntry(s, keys)
    /\ Ask(s, KeysOf(s.mode, keys))
    /\ proxy' = [m \in Modes |->
                    IF s.who = "js" /\ s.mode = m THEN proxy[m] \cup {Fresh} ELSE proxy[m]]
    /\ ndk' = IF s.who = "ndk" /\ s.mode = "data" THEN ndk \cup {Fresh} ELSE ndk
    /\ native' = IF s.who = "native" THEN native \cup {Fresh} ELSE native
    /\ s.who = "js" => JsFree /\ \A o \in proxy[s.mode] : sub[o].fn # s.fn
    /\ s.who = "native" => \A o \in native : sub[o].mode # s.mode
    /\ UNCHANGED <<cleared, leaving, walk, wire, held, uvQueue, faults, owed, dropped, ignored,
                   unwanted, excused>>

\* A registration, whoever makes it, keeps the lists and owners well formed
\* (preferences_base.cpp:164-193, 248-262).
LEMMA RegisterKeepsType ==
    ASSUME Inv, NEW s \in Subs, NEW keys \in SUBSET Keys, RegisterStep(s, keys)
    PROVE  TypeInv'
  <1> USE DEF RegisterStep, Inv, TypeInv, walk
  <1>1. /\ sub' \in Seq(Subs) /\ Len(sub') <= MaxObs
        /\ Objects' = Objects \cup {Fresh} /\ Fresh \notin Objects /\ Fresh \in Nat
        /\ \A o \in Objects : sub'[o] = sub[o]
        /\ sub'[Fresh] = s
    BY Created DEF ListsTyped
  <1>2. ListsTyped'
    <2>1. CASE s.mode = "data"
      <3>1. dataObserversMap' = RegisterDataObserver(Fresh, keys)
        BY <2>1 DEF AddEntry
      <3>2. /\ DOMAIN dataObserversMap' = DOMAIN dataObserversMap \cup {Fresh}
            /\ dataObserversMap' \in [DOMAIN dataObserversMap' -> SUBSET Keys]
        BY <3>1, DataAdded DEF ListsTyped
      <3> QED BY <1>1, <2>1, <3>2 DEF ListsTyped, AddEntry
    <2>2. CASE s.mode # "data"
      BY <1>1, <2>2 DEF ListsTyped, AddEntry
    <2> QED BY <2>1, <2>2
  <1>3. OwnersTyped'
    <2>1. proxy' \in [Modes -> SUBSET Objects']
      BY <1>1 DEF OwnersTyped
    <2>2. \A m \in Modes : \A o \in proxy'[m] : sub'[o].who = "js" /\ sub'[o].mode = m
      BY <1>1 DEF OwnersTyped
    <2>3. \A m \in Modes : \A o, p \in proxy'[m] : sub'[o].fn = sub'[p].fn => o = p
      BY <1>1 DEF OwnersTyped
    <2>4. /\ cleared' \subseteq Objects' /\ \A o \in cleared' : sub'[o].who = "js"
          /\ ndk' \subseteq Objects'
          /\ \A o \in ndk' : sub'[o].who = "ndk" /\ sub'[o].mode = "data"
          /\ native' \subseteq Objects' /\ \A o \in native' : sub'[o].who = "native"
          /\ \A o, p \in native' : sub'[o].mode = sub'[p].mode => o = p
      BY <1>1 DEF OwnersTyped
    <2> QED BY <2>1, <2>2, <2>3, <2>4 DEF OwnersTyped
  <1>4. LoopTyped'
    BY <1>1 DEF LoopTyped, OwnersTyped, Modes
  <1>5. FlowTyped'
    <2>1. Events' = Events
      BY DEF Events
    <2>2. notify' = NoNotify
      BY DEF Free
    <2>3. /\ wire' \subseteq Objects' \X Keys
          /\ \A e \in wire' : sub'[e[1]].mode = "multi"
      BY <1>1 DEF FlowTyped
    <2>4. \A e \in Events' : e[1] \in Objects' /\ sub'[e[1]].who = "js"
      BY <1>1, <2>1 DEF FlowTyped
    <2>5. held' \subseteq Objects' \X SUBSET Keys
      BY <1>1 DEF FlowTyped
    <2> QED BY <2>2, <2>3, <2>4, <2>5 DEF FlowTyped, NoNotify
  <1>6. HeldTyped'
    BY DEF HeldTyped, Free, NoNotify
  <1>7. HistoryTyped'
    BY DEF HistoryTyped, Ask, KeysOf
  <1> QED BY <1>2, <1>3, <1>4, <1>5, <1>6, <1>7

\* It keeps the relation of the entries to their owners: the new entry has its owner, the others
\* theirs.
LEMMA RegisterKeepsOwners ==
    ASSUME Inv, NEW s \in Subs, NEW keys \in SUBSET Keys, RegisterStep(s, keys)
    PROVE  OwnerInv'
  <1> USE DEF RegisterStep, Inv, TypeInv, OwnerInv
  <1>1. /\ Objects' = Objects \cup {Fresh} /\ Fresh \notin Objects
        /\ \A o \in Objects : sub'[o] = sub[o] /\ sub[o] \in Subs
        /\ sub'[Fresh] = s
    <2>1. \A o \in Objects : sub[o] \in Subs
      BY ElementOfSeq DEF ListsTyped, Objects
    <2> QED BY <2>1, Created DEF ListsTyped
  <1>2. \A t, k : Ignored(t, k) => Ignored(t, k)'
    BY DEF Ignored
  <1>3. /\ asked' = [asked EXCEPT ![s] = @ \cup KeysOf(s.mode, keys)]
        /\ asked \in [Subs -> SUBSET Keys]
        /\ KeysOf(s.mode, keys) \subseteq Keys
        /\ (s.mode = "data" => KeysOf(s.mode, keys) = keys)
        /\ (s.mode # "data" => KeysOf(s.mode, keys) = Keys)
    BY DEF Ask, HistoryTyped, KeysOf
  <1>4. /\ \A t \in Subs : asked[t] \subseteq asked'[t] /\ (t # s => asked'[t] = asked[t])
        /\ asked'[s] = asked[s] \cup KeysOf(s.mode, keys)
        /\ \A t \in Subs : asked[t] \subseteq Keys /\ asked'[t] \subseteq Keys
    BY <1>3
  <1>5. /\ localObservers \subseteq localObservers'
        /\ multiProcessObservers \subseteq multiProcessObservers'
        /\ DOMAIN dataObserversMap \subseteq DOMAIN dataObserversMap'
        /\ \A o \in DOMAIN dataObserversMap :
              o \in Objects /\ dataObserversMap'[o] = dataObserversMap[o]
        /\ \A o \in Objects \cap localObservers' : o \in localObservers
        /\ \A o \in Objects \cap multiProcessObservers' : o \in multiProcessObservers
        /\ \A o \in Objects \cap DOMAIN dataObserversMap' : o \in DOMAIN dataObserversMap
        /\ s.mode = "local" => Fresh \in localObservers'
        /\ s.mode = "multi" => Fresh \in multiProcessObservers'
        /\ s.mode = "data" => Fresh \in DOMAIN dataObserversMap' /\ dataObserversMap'[Fresh] = keys
    <2>1. /\ localObservers' = localObservers \cup {o \in {Fresh} : s.mode = "local"}
          /\ multiProcessObservers' = multiProcessObservers \cup {o \in {Fresh} : s.mode = "multi"}
      BY DEF AddEntry
    <2>2. CASE s.mode = "data"
      <3>1. dataObserversMap' = RegisterDataObserver(Fresh, keys) /\ Fresh \notin DOMAIN dataObserversMap
        BY <1>1, <2>2 DEF AddEntry, ListsTyped
      <3>2. /\ DOMAIN dataObserversMap' = DOMAIN dataObserversMap \cup {Fresh}
            /\ \A p \in DOMAIN dataObserversMap :
                  p # Fresh => dataObserversMap'[p] = dataObserversMap[p]
            /\ dataObserversMap'[Fresh] = keys
        BY <3>1, DataAdded DEF ListsTyped
      <3> HIDE DEF RegisterStep
      <3> QED BY <1>1, <2>1, <2>2, <3>2 DEF ListsTyped
    <2>3. CASE s.mode # "data"
      BY <1>1, <2>1, <2>3 DEF AddEntry, ListsTyped
    <2> QED BY <2>2, <2>3
  <1>6. /\ \A m \in Modes : proxy[m] \subseteq Objects
        /\ \A m \in Modes : \A o \in proxy[m] : sub[o].who = "js" /\ sub[o].mode = m
        /\ cleared \subseteq Objects /\ ndk \subseteq Objects /\ native \subseteq Objects
        /\ \A o \in ndk : sub[o].who = "ndk" /\ sub[o].mode = "data"
        /\ \A o \in native : sub[o].who = "native"
    BY DEF OwnersTyped
  <1>7. /\ \A m \in Modes : \A o \in proxy'[m] :
              o \in proxy[m] \/ (o = Fresh /\ s.who = "js" /\ s.mode = m)
        /\ \A m \in Modes : proxy[m] \subseteq proxy'[m]
        /\ \A m \in Modes : s.who = "js" /\ s.mode = m => Fresh \in proxy'[m]
    OBVIOUS
  <1>8. \/ s.who = "js" /\ s.mode \in Modes
        \/ s.who = "ndk" /\ s.mode \in {"multi", "data"}
        \/ s.who = "native" /\ s.mode \in Modes
    BY SubsFields
  <1>9. JsCleared'
    <2>1. s.who = "js" => leaving.mode = "none"
      BY DEF JsFree, NoLoop
    <2> HIDE DEF RegisterStep
    <2>2. UNCHANGED <<cleared, leaving>>
      BY DEF RegisterStep
    <2>3. \A o \in Objects' : sub'[o].who = "js" => o \in cleared' \/ o \in proxy'[sub'[o].mode]
      BY <1>1, <1>7, <1>8, <2>2, SubsFields DEF JsCleared
    <2>4. \A m \in Modes : \A o \in proxy'[m] \cap cleared' :
              m # "data" /\ leaving'.mode = m /\ o \notin leaving'.left
      BY <1>1, <1>6, <1>7, <2>2 DEF JsCleared
    <2>5. leaving'.mode \in {"local", "multi"} => proxy'[leaving'.mode] \ leaving'.left \subseteq cleared'
      BY <1>7, <2>1, <2>2 DEF JsCleared, Modes
    <2> QED BY <2>3, <2>4, <2>5 DEF JsCleared
  <1>10. JsEntries'
    <2>1. \A m \in {"local", "multi"} : \A o \in proxy'[m] \ cleared' :
              o \in List(m)' /\ asked'[sub'[o]] = Keys
      <3>1. SUFFICES ASSUME NEW m \in {"local", "multi"}, NEW o \in proxy'[m] \ cleared'
                     PROVE  o \in List(m)' /\ asked'[sub'[o]] = Keys
        OBVIOUS
      <3>2. m \in Modes
        BY DEF Modes
      <3>3. CASE o \in proxy[m]
        BY <3>2, <3>3, <1>1, <1>4, <1>5, <1>6 DEF JsEntries, List
      <3>4. CASE o = Fresh /\ s.who = "js" /\ s.mode = m
        BY <3>4, <1>1, <1>3, <1>4, <1>5 DEF List
      <3> QED BY <3>2, <3>3, <3>4, <1>7
    <2>2. ASSUME NEW o \in proxy'["data"]
          PROVE  /\ o \in DOMAIN dataObserversMap'
                 /\ \A k \in dataObserversMap'[o] : k \in asked'[sub'[o]]
                 /\ \A k \in asked'[sub'[o]] : k \in dataObserversMap'[o] \/ Ignored(sub[o], k)'
      <3>1. "data" \in Modes
        BY DEF Modes
      <3>2. CASE o \in proxy["data"]
        <4>1. sub[o] # s /\ o \in Objects /\ sub[o] \in Subs
          BY <3>1, <3>2, <1>1, <1>6
        <4>2. sub'[o] = sub[o] /\ asked'[sub[o]] = asked[sub[o]]
          BY <4>1, <1>1, <1>4
        <4> QED BY <3>2, <4>2, <1>5, <1>2 DEF JsEntries
      <3>3. CASE o = Fresh /\ s.who = "js" /\ s.mode = "data"
        <4>1. \A k \in asked[s] : Ignored(s, k)
          BY <3>3 DEF JsAsked
        <4> QED BY <3>3, <4>1, <1>1, <1>2, <1>3, <1>4, <1>5
      <3> QED BY <3>1, <3>2, <3>3, <1>7
    <2> QED BY <2>1, <2>2 DEF JsEntries
  <1>11. JsAsked'
    <2>1. SUFFICES ASSUME NEW t \in Subs, NEW k \in asked'[t], t.who = "js"
                   PROVE  Ignored(t, k)' \/ \E o \in proxy'[t.mode] \ cleared' : sub'[o] = t
      BY DEF JsAsked
    <2>2. t.mode \in Modes
      BY <2>1, SubsFields DEF Modes
    <2>3. CASE t = s
      BY <2>1, <2>2, <2>3, <1>1, <1>6, <1>7
    <2>4. CASE t # s
      BY <2>1, <2>2, <2>4, <1>1, <1>2, <1>4, <1>6, <1>7 DEF JsAsked
    <2> QED BY <2>3, <2>4
  <1>12. NdkEntries'
    <2>1. ASSUME NEW o \in ndk' \cap DOMAIN dataObserversMap', NEW k \in dataObserversMap'[o]
          PROVE  k \in asked'[sub'[o]] \/ <<o, k>> \in excused'
      <3>1. CASE o \in ndk
        BY <2>1, <3>1, <1>1, <1>4, <1>5, <1>6 DEF NdkEntries
      <3>2. CASE o = Fresh /\ s.who = "ndk" /\ s.mode = "data"
        BY <2>1, <3>2, <1>1, <1>3, <1>4, <1>5
      <3> QED BY <3>1, <3>2
    <2>2. ASSUME NEW t \in Subs, NEW k \in asked'[t], t.who = "ndk", t.mode = "data"
          PROVE  \E o \in ndk' \cap DOMAIN dataObserversMap' :
                    sub'[o] = t /\ k \in dataObserversMap'[o]
      <3>1. CASE k \in asked[t]
        BY <2>2, <3>1, <1>1, <1>5, <1>6 DEF NdkEntries
      <3>2. CASE t = s /\ k \in keys
        BY <2>2, <3>2, <1>1, <1>5
      <3> QED BY <2>2, <3>1, <3>2, <1>3, <1>4
    <2> QED BY <2>1, <2>2 DEF NdkEntries
  <1>13. NativeEntries'
    <2>1. ASSUME NEW o \in native', o \in List(sub[o].mode)'
          PROVE  asked'[sub'[o]] = Keys \/ \A k \in Keys : <<o, k>> \in excused'
      <3>1. CASE o \in native
        BY <2>1, <3>1, <1>1, <1>4, <1>5, <1>6 DEF NativeEntries, List
      <3>2. CASE o = Fresh /\ s.who = "native" /\ s.mode # "data"
        BY <3>2, <1>1, <1>3, <1>4, <1>8
      <3>3. CASE o = Fresh /\ s.who = "native" /\ s.mode = "data"
        <4>1. Fresh \notin multiProcessObservers'
          BY <1>1, <3>3 DEF AddEntry, ListsTyped
        <4> QED BY <1>1, <2>1, <3>3, <4>1 DEF List
      <3> QED BY <3>1, <3>2, <3>3
    <2>2. ASSUME NEW t \in Subs, t.who = "native", t.mode # "data", asked'[t] # {}
          PROVE  \E o \in native' : sub'[o] = t /\ o \in List(t.mode)'
      <3>1. CASE t = s
        BY <2>2, <3>1, <1>1, <1>5, <1>8 DEF List, Modes
      <3>2. CASE t # s
        BY <2>2, <3>2, <1>1, <1>4, <1>5, <1>6 DEF NativeEntries, List
      <3> QED BY <3>1, <3>2
    <2> QED BY <2>1, <2>2 DEF NativeEntries
  <1>14. NativeKeys'
    <2>1. ASSUME NEW o \in native', sub'[o].mode = "data", NEW k \in Keys
          PROVE  k \in asked'[sub'[o]] <=>
                    o \in DOMAIN dataObserversMap' /\ k \in dataObserversMap'[o]
      <3>1. CASE o \in native
        <4>1. o \in Objects /\ sub'[o] = sub[o] /\ sub[o] \in Subs /\ sub[o].who = "native"
          BY <3>1, <1>1, <1>6
        <4>2. sub[o] # s
          BY <2>1, <3>1, <4>1
        <4> QED BY <2>1, <3>1, <4>1, <4>2, <1>4, <1>5 DEF NativeKeys
      <3>2. CASE o = Fresh /\ s.who = "native"
        <4>1. asked[s] = {}
          BY <2>1, <3>2, <1>1 DEF NativeKeys
        <4> QED BY <2>1, <3>2, <4>1, <1>1, <1>3, <1>4, <1>5
      <3> QED BY <3>1, <3>2
    <2>2. ASSUME NEW t \in Subs, t.who = "native", t.mode = "data", asked'[t] # {}
          PROVE  \E o \in native' : sub'[o] = t
      <3>1. CASE t = s
        BY <2>2, <3>1, <1>1
      <3>2. CASE t # s
        BY <2>2, <3>2, <1>1, <1>4, <1>6 DEF NativeKeys
      <3> QED BY <3>1, <3>2
    <2> QED BY <2>1, <2>2 DEF NativeKeys
  <1> QED BY <1>9, <1>10, <1>11, <1>12, <1>13, <1>14

\* It keeps what is on its way and what is owed.
LEMMA RegisterKeeps ==
    ASSUME Inv, NEW s \in Subs, NEW keys \in SUBSET Keys, RegisterStep(s, keys)
    PROVE  Inv'
  <1>1. /\ Objects' = Objects \cup {Fresh} /\ Fresh \notin Objects
        /\ \A o \in Objects : sub'[o] = sub[o] /\ sub[o] \in Subs
    <2>1. \A o \in Objects : sub[o] \in Subs
      BY ElementOfSeq DEF Inv, TypeInv, ListsTyped, Objects
    <2> QED BY <2>1, Created DEF RegisterStep, Inv, TypeInv, ListsTyped
  <1>2. \A t \in Subs : asked[t] \subseteq asked'[t]
    BY DEF RegisterStep, Ask, Inv, TypeInv, HistoryTyped
  <1>3. \A t, k : Ignored(t, k) => Ignored(t, k)'
    BY DEF Ignored, RegisterStep
  <1>4. Events' = Events
    BY DEF RegisterStep, Events
  <1>5. \A e \in wire : e[1] \in Objects
    BY DEF Inv, TypeInv, FlowTyped
  <1>6. SilentInv'
    <2>1. \A e \in Events : e[1] \in Objects
      BY DEF Inv, TypeInv, FlowTyped
    <2>2. \A e \in wire : e[1] \in native' => e[1] \in native
      BY <1>1, <1>5 DEF RegisterStep
    <2>3. \A h \in held : h[1] \in Objects
      BY DEF Inv, TypeInv, FlowTyped
    <2>4. ndk \subseteq ndk' /\ native \subseteq native' /\ UNCHANGED <<held, excused>>
      BY DEF RegisterStep
    <2>5. \A h \in held : /\ sub'[h[1]].who # "js"
                          /\ h[1] \in ndk' \cup native' \/ \A k \in Keys : <<h[1], k>> \in excused'
      BY <1>1, <2>3, <2>4 DEF InTransit, Inv, SilentInv
    <2>6. InTransit'
      BY <1>1, <1>2, <1>4, <1>5, <2>1, <2>2, <2>5 DEF InTransit, RegisterStep, Inv, SilentInv
    <2> QED BY <2>6 DEF SilentInv, SilentAfterOff, RegisterStep, Inv
  <1>7. OwedInv'
    <2>1. SUFFICES ASSUME NEW e \in owed
                   PROVE  /\ e[2] \in asked'[e[1]]
                          /\ Mute(e[1]) \/ Ignored(e[1], e[2])' \/ e \in dropped' \/ Due(e[1], e[2])'
      BY DEF OwedInv, RegisterStep, Mute
    <2>2. e[1] \in Subs /\ e[2] \in asked[e[1]]
      BY DEF Inv, OwedInv, TypeInv, HistoryTyped
    <2>3. Due(e[1], e[2]) => Due(e[1], e[2])'
      <3>1. SUFFICES ASSUME NEW o \in Objects, sub[o] = e[1], Alive(o), Coming(o, e[2])
                     PROVE  Alive(o)' /\ Coming(o, e[2])'
        BY <1>1 DEF Due
      <3>2. Alive(o)'
        BY <3>1 DEF Alive, RegisterStep
      <3>3. Coming(o, e[2])'
        BY <3>1, <1>4 DEF Coming, RegisterStep, Free, NoNotify, walk
      <3> QED BY <3>2, <3>3
    <2>4. dropped' = dropped
      BY DEF RegisterStep
    <2> QED BY <2>2, <2>3, <2>4, <1>2, <1>3 DEF Inv, OwedInv
  <1> QED BY RegisterKeepsType, RegisterKeepsOwners, <1>6, <1>7 DEF Inv

\* The four ways to register.
LEMMA RegistrationKeeps ==
    ASSUME Inv
    PROVE  /\ \A m \in Modes, cb \in Callbacks, keys \in KeySets :
                 (m # "data" => keys = Keys) /\ RegisteredObserver(m, cb, keys) => Inv'
           /\ \A f \in NdkObservers, keys \in SUBSET Keys : NdkRegisterDataObserver(f, keys) => Inv'
           /\ \A f \in NdkObservers : NdkRegisterMultiProcessDataObserver(f) => Inv'
           /\ \A m \in Modes, keys \in SUBSET Keys : Subscribe(m, keys) => Inv'
  <1> USE DEF walk, js
  <1>1. proxy \in [Modes -> SUBSET Objects]
    BY DEF Inv, TypeInv, OwnersTyped
  <1>2. ASSUME NEW m \in Modes, NEW cb \in Callbacks, NEW keys \in KeySets,
               RegisteredObserver(m, cb, keys)
        PROVE  Inv'
    <2>1. proxy' = [n \in Modes |-> IF m = n THEN proxy[n] \cup {Fresh} ELSE proxy[n]]
      BY <1>1, <1>2 DEF RegisteredObserver
    <2>2. PICK s \in Subs : s = JsSub(m, cb) /\ s.who = "js" /\ s.mode = m /\ s.fn = cb
      BY SubsMade
    <2>3. /\ Free /\ JsFree /\ Create(s) /\ AddEntry(s, keys) /\ Ask(s, KeysOf(s.mode, keys))
          /\ \A o \in proxy[s.mode] : sub[o].fn # s.fn
          /\ UNCHANGED <<cleared, leaving, ndk, native, walk, wire, held, uvQueue, faults, owed,
                         dropped, ignored, unwanted, excused>>
      BY <1>2, <2>2 DEF RegisteredObserver, HasRegisteredObserver
    <2>4. RegisterStep(s, keys)
      BY <2>1, <2>2, <2>3 DEF RegisterStep
    <2> QED BY <2>2, <2>4, RegisterKeeps DEF KeySets
  <1>3. ASSUME NEW f \in NdkObservers, NEW keys \in SUBSET Keys, NdkRegisterDataObserver(f, keys)
        PROVE  Inv'
    <2>1. RegisterStep(NdkSub("data", f), keys)
      BY <1>1, <1>3, SubsMade DEF NdkRegisterDataObserver, RegisterStep, KeysOf
    <2> QED BY <2>1, SubsMade, RegisterKeeps
  <1>5. ASSUME NEW f \in NdkObservers, NdkRegisterMultiProcessDataObserver(f)
        PROVE  Inv'
    <2>1. RegisterStep(NdkSub("multi", f), Keys)
      BY <1>1, <1>5, SubsMade DEF NdkRegisterMultiProcessDataObserver, RegisterStep, KeysOf
    <2> QED BY <1>5, <2>1, SubsMade, RegisterKeeps
  <1>6. ASSUME NEW m \in Modes, NEW keys \in SUBSET Keys, Subscribe(m, keys)
        PROVE  Inv'
    <2>1. RegisterStep(NativeSub(m), keys)
      BY <1>1, <1>6, SubsMade DEF Subscribe, RegisterStep, Own
    <2> QED BY <1>6, <2>1, SubsMade, RegisterKeeps
  <1> QED BY <1>2, <1>3, <1>5, <1>6
-----------------------------------------------------------------------------
(* What the steps of the notifier and of the event queue leave alone. *)

\* Steps that touch neither list nor owner keep their relation.
LEMMA SameOwners ==
    ASSUME Inv, UNCHANGED <<sub, base, js, ndk, native>>
    PROVE  /\ ListsTyped' /\ OwnersTyped' /\ LoopTyped' /\ Objects' = Objects
           /\ \A o : Alive(o)' <=> Alive(o)
           /\ UNCHANGED <<asked, ignored, excused>> => OwnerInv'
           /\ ignored' = ignored => \A s, k : Ignored(s, k)' <=> Ignored(s, k)
  <1> USE DEF Inv, TypeInv, base, js
  <1>1. Objects' = Objects
    BY DEF Objects
  <1>2. ListsTyped' /\ OwnersTyped' /\ LoopTyped'
    BY <1>1 DEF ListsTyped, OwnersTyped, LoopTyped
  <1>3. \A o : Alive(o)' <=> Alive(o)
    BY DEF Alive
  <1>4. ignored' = ignored => \A s, k : Ignored(s, k)' <=> Ignored(s, k)
    BY DEF Ignored
  <1>5. ASSUME UNCHANGED <<asked, ignored, excused>> PROVE OwnerInv'
    <2>1. \A s, k : Ignored(s, k)' <=> Ignored(s, k)
      BY <1>4, <1>5
    <2>2. \A m : List(m)' = List(m)
      BY DEF List
    <2>3. JsCleared' /\ JsEntries' /\ JsAsked'
      BY <1>1, <1>5, <2>1, <2>2 DEF OwnerInv, JsCleared, JsEntries, JsAsked
    <2>4. NdkEntries' /\ NativeEntries'
      BY <1>5, <2>2 DEF OwnerInv, NdkEntries, NativeEntries, List
    <2>5. NativeKeys'
      BY <1>5 DEF OwnerInv, NativeKeys
    <2> QED BY <2>3, <2>4, <2>5 DEF OwnerInv
  <1> QED BY <1>1, <1>2, <1>3, <1>4, <1>5

\* An observer that is strong and not cleared is in the hands of its owner, or of a thread
\* about to call it: an event alone keeps only a cleared one (js_observer.cpp:57-77).
LEMMA StrongIsAlive ==
    ASSUME Inv, NEW o \in Objects, Strong(o), o \notin cleared
    PROVE  Alive(o) \/ (sub[o].who # "js" /\ Held(o))
  <1> USE DEF Inv, TypeInv
  <1>1. CASE sub[o].who = "js"
    <2>1. o \in proxy[sub[o].mode] /\ sub[o] \in Subs
      BY <1>1, ElementOfSeq DEF OwnerInv, JsCleared, ListsTyped, Objects
    <2> QED BY <1>1, <2>1, SubsFields DEF Alive
  <1>2. CASE sub[o].who # "js"
    BY <1>2 DEF Strong, Alive, FlowTyped
  <1> QED BY <1>1, <1>2

\* What the notifier or the service has on its way to an observer stays there, but what o is
\* told of.
StillComing(o, keys) ==
    \A p \in Objects, k \in Keys :
       (\/ p \in notify.data /\ k \in dataObserversMap[p] /\ k \in notify.keys
        \/ <<p, k>> \in notify.local \cup wire)
       => (\/ p \in notify'.data /\ k \in dataObserversMap[p] /\ k \in notify'.keys
           \/ <<p, k>> \in notify'.local \cup wire'
           \/ p = o /\ k \in keys)

\* One OnChange, whoever calls it: the calls it makes were asked for, and it discharges what
\* is owed, unless an event carries it on.
LEMMA TellKeeps ==
    ASSUME Inv, NEW o \in Objects, NEW keys \in SUBSET Keys, Tell(o, keys),
           UNCHANGED <<sub, base, js, ndk, native>>, wire' \subseteq wire,
           Alive(o) => \A k \in keys : k \in asked[sub[o]] \/ <<o, k>> \in excused,
           StillComing(o, keys)
    PROVE  /\ OwnerInv' /\ SilentInv' /\ OwedInv' /\ HistoryTyped'
           /\ ListsTyped' /\ OwnersTyped' /\ LoopTyped'
           /\ uvQueue' \in Seq(Nat \X SUBSET Keys)
           /\ \A e \in Events' : e[1] \in Objects' /\ sub'[e[1]].who = "js"
           /\ faults' \in 0 .. MaxFaults
           /\ held' = held \ {<<o, keys>>}
  <1> USE DEF Inv, TypeInv
  <1>1. /\ UNCHANGED <<asked, ignored, excused>> /\ owed' \subseteq owed
        /\ dropped \subseteq dropped' /\ held' = held \ {<<o, keys>>}
    BY DEF Tell, Call, history
  <1>2. /\ ListsTyped' /\ OwnersTyped' /\ LoopTyped' /\ Objects' = Objects /\ OwnerInv'
        /\ \A p : Alive(p)' <=> Alive(p)
        /\ \A s, k : Ignored(s, k)' <=> Ignored(s, k)
    BY <1>1, SameOwners
  <1>3. HistoryTyped'
    BY <1>1 DEF HistoryTyped
  <1>4. o \in Nat /\ sub' = sub /\ cleared' = cleared /\ native' = native
        /\ dataObserversMap' = dataObserversMap
    BY LenProperties DEF ListsTyped, Objects, base, js
  <1>5. \/ uvQueue' = uvQueue
        \/ /\ uvQueue' = Append(uvQueue, <<o, keys>>) /\ sub[o].who = "js"
           /\ Strong(o) /\ o \notin cleared
    BY DEF Tell
  <1>6. /\ uvQueue' \in Seq(Nat \X SUBSET Keys)
        /\ \/ uvQueue' = uvQueue /\ Events' = Events
           \/ /\ uvQueue' = Append(uvQueue, <<o, keys>>) /\ Events' = Events \cup {<<o, keys>>}
              /\ sub[o].who = "js" /\ Alive(o)
    <2>1. CASE uvQueue' = uvQueue
      BY <2>1 DEF Events, FlowTyped
    <2>2. CASE uvQueue' # uvQueue
      <3>1. <<o, keys>> \in Nat \X SUBSET Keys
        BY <1>4
      <3>2. Alive(o) /\ sub[o].who = "js"
        BY <2>2, <1>5, StrongIsAlive
      <3> QED BY <3>1, <3>2, <2>2, <1>5, Queued DEF FlowTyped
    <2> QED BY <2>1, <2>2
  <1>7. \A e \in Events' : e[1] \in Objects' /\ sub'[e[1]].who = "js"
    BY <1>2, <1>4, <1>6 DEF FlowTyped
  <1>8. faults' \in 0 .. MaxFaults
    BY BoundsAssumption DEF Tell, Fault, FlowTyped
  <1>9. SilentInv'
    <2>1. InTransit'
      <3>1. ASSUME NEW e \in Events', NEW k \in e[2]
            PROVE  e[1] \in cleared \/ k \in asked[sub[e[1]]] \/ <<e[1], k>> \in excused
        <4>1. CASE e \in Events
          BY <3>1, <4>1 DEF SilentInv, InTransit
        <4>2. CASE e = <<o, keys>> /\ Alive(o)
          BY <3>1, <4>2
        <4> QED BY <4>1, <4>2, <1>6
      <3>2. \A h \in held' : /\ sub'[h[1]].who # "js"
                             /\ h[1] \in ndk \cup native \/ \A k \in Keys : <<h[1], k>> \in excused
        BY <1>1, <1>4 DEF SilentInv, InTransit
      <3> QED BY <1>1, <1>4, <3>1, <3>2 DEF SilentInv, InTransit
    <2>2. unwanted' \subseteq excused
      <3>1. CASE unwanted' = unwanted
        BY <3>1 DEF SilentInv, SilentAfterOff
      <3>2. CASE Strong(o) /\ sub[o].who # "js" /\ Call(o, keys)
        <4>1. o \notin cleared
          BY <3>2 DEF OwnersTyped
        <4>2. Alive(o) \/ \A k \in Keys : <<o, k>> \in excused
          <5>1. CASE Held(o)
            BY <4>1, <5>1 DEF Held, SilentInv, InTransit, Alive
          <5>2. CASE ~Held(o)
            BY <3>2, <4>1, <5>2, StrongIsAlive
          <5> QED BY <5>1, <5>2
        <4>3. \A k \in keys : k \in asked[sub[o]] \/ <<o, k>> \in excused
          BY <4>2
        <4> QED BY <3>2, <4>3 DEF Call, SilentInv, SilentAfterOff
      <3> QED BY <3>1, <3>2 DEF Tell, history
    <2> QED BY <1>1, <2>1, <2>2 DEF SilentInv, SilentAfterOff
  <1>10. OwedInv'
    <2>1. SUFFICES ASSUME NEW e \in owed', Due(e[1], e[2]), e \notin dropped'
                   PROVE  Due(e[1], e[2])'
      <3>1. \A e \in owed' : /\ e[2] \in asked'[e[1]]
                             /\ \/ Mute(e[1]) \/ Ignored(e[1], e[2])' \/ e \in dropped'
                                \/ Due(e[1], e[2])
        BY <1>1, <1>2 DEF OwedInv
      <3> QED BY <2>1, <3>1 DEF OwedInv, Mute
    <2>2. PICK p \in Objects : sub[p] = e[1] /\ Alive(p) /\ Coming(p, e[2])
      BY <2>1 DEF Due
    <2>3. e = <<e[1], e[2]>> /\ e[2] \in Keys /\ e \in owed
      BY <1>1 DEF HistoryTyped
    <2>4. CASE \E ev \in Events : ev[1] = p /\ e[2] \in ev[2]
      BY <1>2, <1>4, <1>6, <2>2, <2>4 DEF Due, Coming
    <2>5. CASE p = o /\ e[2] \in keys
      <3>1. Strong(o) /\ o \notin cleared
        BY <2>2, <2>5, OwnersAreStrong DEF Alive
      <3>2. e \in {sub[o]} \X keys
        BY <2>2, <2>3, <2>5
      <3>3. uvQueue' = Append(uvQueue, <<o, keys>>)
        BY <2>1, <3>1, <3>2 DEF Tell, Call
      <3>4. <<o, keys>> \in Events'
        <4>1. <<o, keys>> \in Nat \X SUBSET Keys
          BY <1>4
        <4>2. Len(uvQueue') = Len(uvQueue) + 1 /\ Len(uvQueue) \in Nat
          BY <3>3, <4>1, AppendProperties, LenProperties DEF FlowTyped
        <4> QED BY <1>6, <4>2
      <3>5. <<o, keys>>[1] = o /\ <<o, keys>>[2] = keys
        OBVIOUS
      <3>6. Coming(o, e[2])'
        BY <2>5, <3>4, <3>5 DEF Coming
      <3> QED BY <1>2, <1>4, <2>2, <2>5, <3>6 DEF Due
    <2>6. CASE ~(p = o /\ e[2] \in keys) /\ ~(\E ev \in Events : ev[1] = p /\ e[2] \in ev[2])
      <3>1. Coming(p, e[2])'
        BY <2>2, <2>3, <2>6, <1>4 DEF Coming, StillComing
      <3> QED BY <1>2, <1>4, <2>2, <3>1 DEF Due
    <2> QED BY <2>4, <2>5, <2>6
  <1> QED BY <1>1, <1>2, <1>3, <1>6, <1>7, <1>8, <1>9, <1>10

\* A thread locks the observer it is about to tell (preferences_impl.cpp:470, 478,
\* preferences_observer_stub.h:38).
LEMMA LockKeeps ==
    ASSUME Inv, NEW o \in Objects, NEW keys \in SUBSET Keys, Lock(o, keys),
           \/ o \in notify.data /\ keys = Records(o)
           \/ \E e \in notify.local \cup wire : o = e[1] /\ keys = {e[2]}
    PROVE  Inv'
  <1> USE DEF Inv, TypeInv
  <1>1. /\ UNCHANGED <<sub, base, js, ndk, native, walk, wire, uvQueue, faults, history>>
        /\ held' = held \cup {<<o, keys>>} /\ Strong(o) /\ sub[o].who # "js"
    BY DEF Lock
  <1>2. /\ UNCHANGED <<asked, owed, dropped, ignored, unwanted, excused, notify, announce, changes,
                       dataObserversMap, localObservers, cleared>>
        /\ Events' = Events
    BY <1>1 DEF history, walk, base, js, Events
  <1>3. /\ ListsTyped' /\ OwnersTyped' /\ LoopTyped' /\ Objects' = Objects /\ OwnerInv'
        /\ \A p : Alive(p)' <=> Alive(p)
        /\ \A s, k : Ignored(s, k)' <=> Ignored(s, k)
    BY <1>1, <1>2, SameOwners
  <1>4. FlowTyped' /\ HistoryTyped'
    BY <1>1, <1>2, <1>3 DEF FlowTyped, HistoryTyped
  <1>5. HeldTyped'
    <2>1. Records(o)' = Records(o) /\ \A h \in held : Records(h[1])' = Records(h[1])
      BY <1>2 DEF Records
    <2>2. <<o, keys>>[1] = o /\ <<o, keys>>[2] = keys
      OBVIOUS
    <2> QED BY <1>1, <1>2, <2>1, <2>2 DEF HeldTyped
  <1>6. o \in ndk \cup native \/ \A k \in Keys : <<o, k>> \in excused
    <2>1. CASE Held(o)
      BY <2>1 DEF Held, SilentInv, InTransit
    <2>2. CASE ~Held(o)
      BY <1>1, <2>2 DEF Strong, FlowTyped, OwnersTyped
    <2> QED BY <2>1, <2>2
  <1>7. SilentInv'
    <2>1. \A h \in held' : /\ sub[h[1]].who # "js"
                           /\ h[1] \in ndk \cup native \/ \A k \in Keys : <<h[1], k>> \in excused
      BY <1>1, <1>6 DEF SilentInv, InTransit
    <2> QED BY <1>1, <1>2, <2>1 DEF SilentInv, SilentAfterOff, InTransit
  <1>8. OwedInv'
    <2>1. \A s, k : Due(s, k) => Due(s, k)'
      BY <1>1, <1>2, <1>3 DEF Due, Coming
    <2> QED BY <1>2, <1>3, <2>1 DEF OwedInv, Mute
  <1> QED BY <1>3, <1>4, <1>5, <1>7, <1>8
-----------------------------------------------------------------------------
(* Notification. *)

\* The notifier calls an observer of keys (preferences_impl.cpp:453-473).
LEMMA NotifyDataKeeps ==
    ASSUME Inv, NEW o \in notify.data, NotifyData(o)
    PROVE  Inv'
  <1> USE DEF Inv, TypeInv
  <1> DEFINE keys == Records(o)
  <1>1. /\ o \in Objects /\ o \in DOMAIN dataObserversMap /\ sub[o].mode = "data"
        /\ keys \in SUBSET Keys /\ keys = dataObserversMap[o] \cap notify.keys
    BY DEF FlowTyped, ListsTyped, Records
  <1>2. ASSUME Alive(o), NEW k \in keys
        PROVE  k \in asked[sub[o]] \/ <<o, k>> \in excused
    <2>1. o \in ndk \/ o \in proxy["data"] \/ o \in native
      BY <1>1, <1>2, ElementOfSeq, SubsFields DEF Alive, OwnersTyped, ListsTyped, Objects
    <2> QED BY <1>1, <1>2, <2>1 DEF OwnerInv, JsEntries, NdkEntries, NativeKeys
  <1>3. /\ Tell(o, keys) /\ UNCHANGED <<sub, base, js, ndk, native, announce, changes, wire>>
        /\ notify'.data = notify.data \ {o} /\ notify'.local = notify.local
        /\ notify'.keys = notify.keys
        /\ notify' \in [keys : SUBSET Keys, data : SUBSET Objects,
                        local : SUBSET (Objects \X Keys)]
    BY DEF NotifyData, FlowTyped
  <1>4. StillComing(o, keys)
    BY <1>1, <1>3 DEF StillComing
  <1> HIDE DEF keys
  <1>5. /\ OwnerInv' /\ SilentInv' /\ OwedInv' /\ HistoryTyped'
        /\ ListsTyped' /\ OwnersTyped' /\ LoopTyped'
        /\ uvQueue' \in Seq(Nat \X SUBSET Keys)
        /\ \A e \in Events' : e[1] \in Objects' /\ sub'[e[1]].who = "js"
        /\ faults' \in 0 .. MaxFaults
        /\ held' = held \ {<<o, keys>>}
    BY <1>1, <1>2, <1>3, <1>4, TellKeeps
  <1>6. FlowTyped'
    BY <1>3, <1>5 DEF FlowTyped, Objects, base
  <1>7. HeldTyped'
    <2>1. ASSUME NEW h \in held, h # <<o, keys>>
          PROVE  \/ h[1] \in notify'.data /\ h[2] = Records(h[1])'
                 \/ \E e \in notify'.local \cup wire' : h[1] = e[1] /\ h[2] = {e[2]}
      <3>1. h = <<h[1], h[2]>> /\ Records(h[1])' = Records(h[1])
        BY <1>3 DEF FlowTyped, Records, base
      <3>2. h[1] \in notify.data /\ h[2] = Records(h[1]) => h[1] # o
        BY <2>1, <3>1 DEF keys
      <3> QED BY <1>3, <3>1, <3>2 DEF HeldTyped
    <2> QED BY <1>5, <2>1 DEF HeldTyped
  <1> QED BY <1>5, <1>6, <1>7

\* The notifier calls an observer of all changes (preferences_impl.cpp:475-482).
LEMMA NotifyLocalKeeps ==
    ASSUME Inv, NEW n \in notify.local, NotifyLocal(n[1], n[2])
    PROVE  Inv'
  <1> USE DEF Inv, TypeInv
  <1> DEFINE o == n[1]
             keys == {n[2]}
  <1>1. /\ o \in Objects /\ o \in localObservers /\ sub[o].mode = "local"
        /\ keys \in SUBSET Keys /\ n = <<o, n[2]>>
    BY DEF FlowTyped, ListsTyped
  <1>2. ASSUME Alive(o), NEW k \in keys
        PROVE  k \in asked[sub[o]] \/ <<o, k>> \in excused
    <2>1. o \in native \/ o \in proxy["local"] \ cleared
      BY <1>1, <1>2, ElementOfSeq, SubsFields DEF Alive, OwnersTyped, ListsTyped, Objects
    <2>2. asked[sub[o]] = Keys \/ \A key \in Keys : <<o, key>> \in excused
      BY <1>1, <2>1 DEF OwnerInv, JsEntries, NativeEntries, List
    <2> QED BY <1>1, <2>2
  <1>3. /\ Tell(o, keys) /\ UNCHANGED <<sub, base, js, ndk, native, announce, changes, wire>>
        /\ notify'.data = notify.data /\ notify'.local = notify.local \ {n}
        /\ notify'.keys = notify.keys
        /\ notify' \in [keys : SUBSET Keys, data : SUBSET Objects,
                        local : SUBSET (Objects \X Keys)]
    BY <1>1 DEF NotifyLocal, FlowTyped
  <1>4. StillComing(o, keys)
    BY <1>1, <1>3 DEF StillComing
  <1> HIDE DEF o, keys
  <1>5. /\ OwnerInv' /\ SilentInv' /\ OwedInv' /\ HistoryTyped'
        /\ ListsTyped' /\ OwnersTyped' /\ LoopTyped'
        /\ uvQueue' \in Seq(Nat \X SUBSET Keys)
        /\ \A e \in Events' : e[1] \in Objects' /\ sub'[e[1]].who = "js"
        /\ faults' \in 0 .. MaxFaults
        /\ held' = held \ {<<o, keys>>}
    BY <1>1, <1>2, <1>3, <1>4, TellKeeps
  <1>6. FlowTyped'
    BY <1>3, <1>5 DEF FlowTyped, Objects, base
  <1>7. HeldTyped'
    <2>1. ASSUME NEW h \in held, h # <<o, keys>>
          PROVE  \/ h[1] \in notify'.data /\ h[2] = Records(h[1])'
                 \/ \E e \in notify'.local \cup wire' : h[1] = e[1] /\ h[2] = {e[2]}
      <3>1. h = <<h[1], h[2]>> /\ Records(h[1])' = Records(h[1])
        BY <1>3 DEF FlowTyped, Records, base
      <3>2. ~(h[1] = n[1] /\ h[2] = {n[2]})
        BY <2>1, <3>1 DEF o, keys
      <3> QED BY <1>3, <3>1, <3>2 DEF HeldTyped
    <2> QED BY <1>5, <2>1 DEF HeldTyped
  <1> QED BY <1>5, <1>6, <1>7

\* A change the service has sent: the object may have been withdrawn since.
LEMMA OnChangePreferencesKeeps ==
    ASSUME Inv, NEW w \in wire, OnChangePreferences(w)
    PROVE  Inv'
  <1> USE DEF Inv, TypeInv
  <1> DEFINE o == w[1]
             keys == {w[2]}
  <1>1. /\ o \in Objects /\ sub[o].mode = "multi"
        /\ keys \in SUBSET Keys /\ w = <<o, w[2]>>
    BY DEF FlowTyped
  <1>2. ASSUME Alive(o), NEW k \in keys
        PROVE  k \in asked[sub[o]] \/ <<o, k>> \in excused
    <2>1. o \in native \/ o \in proxy["multi"] \ cleared
      BY <1>1, <1>2, ElementOfSeq, SubsFields DEF Alive, OwnersTyped, ListsTyped, Objects
    <2> QED BY <1>1, <2>1 DEF OwnerInv, JsEntries, SilentInv, InTransit
  <1>3. /\ Tell(o, keys) /\ UNCHANGED <<sub, base, js, ndk, native, notify, announce, changes>>
        /\ wire' = wire \ {w}
    BY DEF OnChangePreferences, walk
  <1>4. StillComing(o, keys)
    BY <1>1, <1>3 DEF StillComing
  <1> HIDE DEF o, keys
  <1>5. /\ OwnerInv' /\ SilentInv' /\ OwedInv' /\ HistoryTyped'
        /\ ListsTyped' /\ OwnersTyped' /\ LoopTyped'
        /\ uvQueue' \in Seq(Nat \X SUBSET Keys)
        /\ \A e \in Events' : e[1] \in Objects' /\ sub'[e[1]].who = "js"
        /\ faults' \in 0 .. MaxFaults
        /\ held' = held \ {<<o, keys>>}
    BY <1>1, <1>2, <1>3, <1>4, TellKeeps
  <1>6. FlowTyped'
    BY <1>3, <1>5 DEF FlowTyped, Objects, base
  <1>7. HeldTyped'
    <2>1. ASSUME NEW h \in held, h # <<o, keys>>
          PROVE  \/ h[1] \in notify'.data /\ h[2] = Records(h[1])'
                 \/ \E e \in notify'.local \cup wire' : h[1] = e[1] /\ h[2] = {e[2]}
      <3>1. h = <<h[1], h[2]>> /\ Records(h[1])' = Records(h[1])
        BY <1>3 DEF FlowTyped, Records, base
      <3>2. ~(h[1] = w[1] /\ h[2] = {w[2]})
        BY <2>1, <3>1 DEF o, keys
      <3> QED BY <1>3, <3>1, <3>2 DEF HeldTyped
    <2> QED BY <1>5, <2>1 DEF HeldTyped
  <1> QED BY <1>5, <1>6, <1>7

\* A notification begins: every subscriber that is owed a call has its observer in the walk
\* (preferences_impl.cpp:445-508).
LEMMA StartNotifyKeeps ==
    ASSUME Inv, NEW keys \in KeySets, StartNotify(keys)
    PROVE  Inv'
  <1> USE DEF Inv, TypeInv
  <1> DEFINE new == {e \in Subs \X keys : e[1].mode # "multi" /\ e[2] \in asked[e[1]]}
  <1>1. /\ UNCHANGED <<sub, base, js, ndk, native, announce, wire, held, uvQueue, faults, asked,
                       ignored, unwanted, excused>>
        /\ notify.data = {} /\ notify.local = {}
        /\ notify' = [keys |-> keys, local |-> localObservers \X keys,
                      data |-> {o \in DOMAIN dataObserversMap : dataObserversMap[o] \cap keys # {}}]
        /\ changes < MaxChanges /\ changes' = changes + 1
        /\ keys \subseteq Keys
    BY DEF StartNotify, Owe, Free, NoNotify, KeySets
  <1>2. /\ ListsTyped' /\ OwnersTyped' /\ LoopTyped' /\ Objects' = Objects /\ OwnerInv'
        /\ \A p : Alive(p)' <=> Alive(p)
        /\ \A s, k : Ignored(s, k)' <=> Ignored(s, k)
    BY <1>1, SameOwners
  <1>3. Events' = Events /\ UNCHANGED <<sub, dataObserversMap, localObservers, cleared, native>>
    BY <1>1 DEF Events, base, js
  <1>4. FlowTyped'
    <2>1. /\ notify' \in [keys : SUBSET Keys, data : SUBSET Objects, local : SUBSET (Objects \X Keys)]
          /\ notify'.data \subseteq DOMAIN dataObserversMap
          /\ notify'.local \subseteq localObservers \X notify'.keys
      BY <1>1 DEF ListsTyped
    <2> QED BY <1>1, <1>2, <1>3, <2>1, BoundsAssumption DEF FlowTyped
  <1>5. owed' = owed \cup new /\ dropped' = dropped \ new
    BY DEF StartNotify, Owe
  <1>6. HistoryTyped' /\ HeldTyped'
    BY <1>1, <1>5 DEF HistoryTyped, HeldTyped
  <1>7. SilentInv'
    BY <1>1, <1>3 DEF SilentInv, SilentAfterOff, InTransit
  <1>8. OwedInv'
    <2>1. ASSUME NEW e \in owed, e \notin new
          PROVE  /\ e[2] \in asked'[e[1]]
                 /\ Mute(e[1]) \/ Ignored(e[1], e[2])' \/ e \in dropped' \/ Due(e[1], e[2])'
      <3>1. Due(e[1], e[2]) => Due(e[1], e[2])'
        <4>1. \A o : Coming(o, e[2]) => Coming(o, e[2])'
          BY <1>1, <1>3 DEF Coming
        <4> QED BY <1>2, <1>3, <4>1 DEF Due
      <3>2. e \in dropped => e \in dropped'
        BY <1>5, <2>1
      <3> QED BY <3>1, <3>2, <1>1, <1>2 DEF OwedInv
    <2>2. ASSUME NEW s \in Subs, NEW k \in keys, s.mode # "multi", k \in asked[s]
          PROVE  Ignored(s, k) \/ Due(s, k)'
      <3>1. CASE s.mode = "local" /\ ~Ignored(s, k)
        <4>1. PICK o \in Objects : sub[o] = s /\ Alive(o) /\ o \in localObservers
          <5>1. CASE s.who = "js"
            BY <2>2, <3>1, <5>1 DEF OwnerInv, JsAsked, JsEntries, OwnersTyped, Alive, List, Modes
          <5>2. CASE s.who = "native"
            BY <2>2, <3>1, <5>2 DEF OwnerInv, NativeEntries, OwnersTyped, Alive, List
          <5> QED BY <2>2, <3>1, <5>1, <5>2, SubsFields
        <4>2. Coming(o, k)'
          BY <1>1, <4>1 DEF Coming
        <4> QED BY <1>2, <1>3, <4>1, <4>2 DEF Due
      <3>2. CASE s.mode = "data" /\ ~Ignored(s, k)
        <4>1. PICK o \in Objects : /\ sub[o] = s /\ Alive(o) /\ o \in DOMAIN dataObserversMap
                                   /\ k \in dataObserversMap[o]
          <5>1. CASE s.who = "js"
            <6>1. PICK o \in proxy["data"] \ cleared : sub[o] = s
              BY <2>2, <3>2, <5>1 DEF OwnerInv, JsAsked
            <6> QED BY <6>1, <2>2, <3>2 DEF OwnerInv, JsEntries, OwnersTyped, Alive, Modes
          <5>2. CASE s.who = "ndk"
            <6>1. PICK o \in ndk \cap DOMAIN dataObserversMap :
                          sub[o] = s /\ k \in dataObserversMap[o]
              BY <2>2, <3>2, <5>2 DEF OwnerInv, NdkEntries
            <6> QED BY <6>1, <5>2 DEF OwnersTyped, Alive
          <5>3. CASE s.who = "native"
            <6>1. PICK o \in native : sub[o] = s
              BY <2>2, <3>2, <5>3 DEF OwnerInv, NativeKeys
            <6> QED BY <6>1, <1>1, <2>2, <3>2, <5>3 DEF OwnerInv, NativeKeys, OwnersTyped, Alive
          <5> QED BY <2>2, <3>2, <5>1, <5>2, <5>3, SubsFields
        <4>2. Coming(o, k)'
          BY <1>1, <1>3, <4>1 DEF Coming
        <4> QED BY <1>2, <1>3, <4>1, <4>2 DEF Due
      <3> QED BY <2>2, <3>1, <3>2, SubsFields DEF Modes
    <2>3. ASSUME NEW e \in Subs \X keys, e[1].mode # "multi", e[2] \in asked[e[1]]
          PROVE  Ignored(e[1], e[2])' \/ Due(e[1], e[2])'
      BY <2>2, <2>3, <1>2
    <2> QED BY <1>1, <1>5, <2>1, <2>3 DEF OwedInv, Mute
  <1> QED BY <1>2, <1>4, <1>6, <1>7, <1>8

\* The service sends what is announced to every stub, those of all who have asked among them.
LEMMA NotifyChangeKeeps ==
    ASSUME Inv, NEW k \in announce, NotifyChange(k)
    PROVE  Inv'
  <1> USE DEF Inv, TypeInv
  <1> DEFINE new == {e \in Subs \X {k} : e[1].mode = "multi" /\ k \in asked[e[1]]}
  <1>1. /\ UNCHANGED <<sub, base, js, ndk, native, notify, changes, held, uvQueue, faults, asked,
                       ignored, unwanted, excused>>
        /\ wire' = wire \cup (multiProcessObservers \X {k})
        /\ announce' \subseteq Keys /\ k \in Keys
    BY DEF NotifyChange, Owe, FlowTyped
  <1>2. /\ ListsTyped' /\ OwnersTyped' /\ LoopTyped' /\ Objects' = Objects /\ OwnerInv'
        /\ \A p : Alive(p)' <=> Alive(p)
        /\ \A s, l : Ignored(s, l)' <=> Ignored(s, l)
    BY <1>1, SameOwners
  <1>3. Events' = Events /\ UNCHANGED <<sub, dataObserversMap, localObservers, cleared, native>>
    BY <1>1 DEF Events, base, js
  <1>4. FlowTyped'
    <2>1. wire' \subseteq Objects \X Keys /\ \A e \in wire' : sub[e[1]].mode = "multi"
      BY <1>1 DEF FlowTyped, ListsTyped
    <2> QED BY <1>1, <1>2, <1>3, <2>1 DEF FlowTyped
  <1>5. owed' = owed \cup new /\ dropped' = dropped \ new
    BY DEF NotifyChange, Owe
  <1>9. HistoryTyped' /\ HeldTyped'
    BY <1>1, <1>3, <1>5 DEF HistoryTyped, HeldTyped, Records
  <1>6. SilentInv'
    <2>1. ASSUME NEW e \in wire', e[1] \in native
          PROVE  e[2] \in asked[sub[e[1]]] \/ e \in excused
      <3>1. CASE e \in wire
        BY <2>1, <3>1 DEF SilentInv, InTransit
      <3>2. CASE e \in multiProcessObservers \X {k}
        <4>1. e[1] \in List(sub[e[1]].mode) /\ e = <<e[1], k>>
          BY <3>2 DEF List, ListsTyped
        <4>2. asked[sub[e[1]]] = Keys \/ \A key \in Keys : <<e[1], key>> \in excused
          BY <2>1, <4>1 DEF OwnerInv, NativeEntries
        <4> QED BY <3>2, <4>1, <4>2, <1>1
      <3> QED BY <3>1, <3>2, <1>1
    <2> QED BY <1>1, <1>3, <2>1 DEF SilentInv, SilentAfterOff, InTransit
  <1>7. OwedInv'
    <2>1. ASSUME NEW e \in owed, e \notin new
          PROVE  /\ e[2] \in asked'[e[1]]
                 /\ Mute(e[1]) \/ Ignored(e[1], e[2])' \/ e \in dropped' \/ Due(e[1], e[2])'
      <3>1. Due(e[1], e[2]) => Due(e[1], e[2])'
        <4>1. \A o : Coming(o, e[2]) => Coming(o, e[2])'
          BY <1>1, <1>3 DEF Coming
        <4> QED BY <1>2, <1>3, <4>1 DEF Due
      <3>2. e \in dropped => e \in dropped'
        BY <1>5, <2>1
      <3> QED BY <3>1, <3>2, <1>1, <1>2 DEF OwedInv
    <2>2. ASSUME NEW s \in Subs, s.mode = "multi", k \in asked[s], ~Mute(s), ~Ignored(s, k)
          PROVE  Due(s, k)'
      <3>1. PICK o \in Objects : sub[o] = s /\ Alive(o) /\ o \in multiProcessObservers
        <4>1. CASE s.who = "js"
          BY <2>2, <4>1 DEF OwnerInv, JsAsked, JsEntries, OwnersTyped, Alive, List, Modes
        <4>2. CASE s.who = "native"
          BY <2>2, <4>2 DEF OwnerInv, NativeEntries, OwnersTyped, Alive, List
        <4> QED BY <2>2, <4>1, <4>2, SubsFields DEF Mute
      <3>2. Coming(o, k)'
        BY <1>1, <3>1 DEF Coming
      <3> QED BY <1>2, <1>3, <3>1, <3>2 DEF Due
    <2>3. ASSUME NEW e \in Subs \X {k}, e[1].mode = "multi", k \in asked[e[1]]
          PROVE  Mute(e[1]) \/ Ignored(e[1], e[2])' \/ e \in dropped' \/ Due(e[1], e[2])'
      BY <2>2, <2>3, <1>2
    <2> QED BY <1>1, <1>5, <2>1, <2>3 DEF OwedInv, Mute
  <1> QED BY <1>2, <1>4, <1>6, <1>7, <1>9

\* The steps that only pass a change on.
LEMMA PassingOnKeeps ==
    ASSUME Inv, NotifyEnd \/ ServiceRefuses \/ \E k \in Keys : OtherProcess(k)
    PROVE  Inv'
  <1> USE DEF Inv, TypeInv
  <1>1. /\ UNCHANGED <<sub, base, js, ndk, native, wire, held, uvQueue, history>>
        /\ announce' \subseteq Keys
        /\ changes' \in 0 .. MaxChanges /\ faults' \in 0 .. MaxFaults
        /\ notify' = notify \/ (notify' = NoNotify /\ notify.data = {} /\ notify.local = {})
    BY BoundsAssumption DEF NotifyEnd, ServiceRefuses, OtherProcess, FlowTyped, Fault, walk
  <1>2. /\ ListsTyped' /\ OwnersTyped' /\ LoopTyped' /\ Objects' = Objects /\ OwnerInv'
        /\ \A p : Alive(p)' <=> Alive(p)
        /\ \A s, l : Ignored(s, l)' <=> Ignored(s, l)
    BY <1>1, SameOwners DEF history
  <1>3. Events' = Events
    BY <1>1 DEF Events
  <1>4. FlowTyped'
    <2>1. /\ notify' \in [keys : SUBSET Keys, data : SUBSET Objects, local : SUBSET (Objects \X Keys)]
          /\ notify'.data \subseteq DOMAIN dataObserversMap
          /\ notify'.local \subseteq localObservers \X notify'.keys
      BY <1>1 DEF FlowTyped, NoNotify
    <2> QED BY <1>1, <1>2, <1>3, <2>1 DEF FlowTyped, base
  <1>5. HistoryTyped' /\ SilentInv' /\ HeldTyped'
    <2>1. HeldTyped'
      BY <1>1 DEF HeldTyped, Records, base
    <2> QED BY <1>1, <1>3, <2>1
            DEF HistoryTyped, SilentInv, SilentAfterOff, InTransit, history, js
  <1>6. OwedInv'
    <2>1. \A o, k : Coming(o, k) => Coming(o, k)'
      BY <1>1, <1>3 DEF Coming, base
    <2>2. \A s, k : Due(s, k) => Due(s, k)'
      BY <1>1, <1>2, <2>1 DEF Due
    <2> QED BY <1>1, <1>2, <2>2 DEF OwedInv, history, Mute
  <1> QED BY <1>2, <1>4, <1>5, <1>6

\* The JS thread runs an event (js_observer.cpp:57-77): a callback cleared since is not called,
\* and nothing is owed to it any more.
LEMMA RunEventKeeps ==
    ASSUME Inv, RunEvent
    PROVE  Inv'
  <1> USE DEF Inv, TypeInv
  <1> DEFINE h == Head(uvQueue)
  <1>1. /\ UNCHANGED <<sub, base, js, ndk, native, walk, wire, held, faults>>
        /\ uvQueue # <<>> /\ uvQueue' = Tail(uvQueue)
        /\ IF h[1] \in cleared THEN UNCHANGED history ELSE Call(h[1], h[2])
    BY DEF RunEvent
  <1>2. /\ uvQueue' \in Seq(Nat \X SUBSET Keys)
        /\ h \in Events /\ Events = Events' \cup {h}
    BY <1>1, Taken DEF FlowTyped
  <1> HIDE DEF h
  <1>3. UNCHANGED <<asked, dropped, ignored, excused>> /\ owed' \subseteq owed
    BY <1>1 DEF Call, history
  <1>4. /\ ListsTyped' /\ OwnersTyped' /\ LoopTyped' /\ Objects' = Objects /\ OwnerInv'
        /\ \A p : Alive(p)' <=> Alive(p)
        /\ \A s, l : Ignored(s, l)' <=> Ignored(s, l)
    BY <1>1, <1>3, SameOwners
  <1>5. FlowTyped'
    BY <1>1, <1>2, <1>4 DEF FlowTyped, base, walk
  <1>6. HistoryTyped' /\ HeldTyped'
    BY <1>1, <1>3 DEF HistoryTyped, HeldTyped, Records, walk, base
  <1>7. SilentInv'
    <2>1. InTransit'
      BY <1>1, <1>2, <1>3 DEF SilentInv, InTransit, js
    <2>2. unwanted' \subseteq excused
      BY <1>1, <1>2 DEF Call, history, SilentInv, SilentAfterOff, InTransit
    <2> QED BY <2>1, <2>2, <1>3 DEF SilentInv, SilentAfterOff
  <1>8. OwedInv'
    <2>1. SUFFICES ASSUME NEW e \in owed', Due(e[1], e[2])
                   PROVE  Due(e[1], e[2])'
      BY <1>3, <1>4 DEF OwedInv, Mute
    <2>2. PICK p \in Objects : sub[p] = e[1] /\ Alive(p) /\ Coming(p, e[2])
      BY <2>1 DEF Due
    <2>3. e = <<e[1], e[2]>>
      BY <1>3 DEF HistoryTyped
    <2>4. ~(h[1] = p /\ e[2] \in h[2])
      BY <1>1, <2>2, <2>3 DEF Alive, Call
    <2>5. Coming(p, e[2])'
      BY <1>1, <1>2, <2>2, <2>4 DEF Coming, base, walk
    <2> QED BY <1>1, <1>4, <2>2, <2>5 DEF Due
  <1> QED BY <1>4, <1>5, <1>6, <1>7, <1>8
-----------------------------------------------------------------------------
(* Calls of JS. *)

\* While no loop is under way, the callbacks of the proxy are the ones that are not cleared.
LEMMA ProxyIsLive ==
    ASSUME Inv, JsFree
    PROVE  \A m \in Modes : \A o \in proxy[m] : o \notin cleared
  BY DEF Inv, OwnerInv, JsCleared, JsFree, NoLoop, Modes

\* on for a callback that is registered already (napi_preferences.cpp:500-511, 625-645).
LEMMA RegisteredAlreadyKeeps ==
    ASSUME Inv, NEW m \in Modes, NEW cb \in Callbacks, NEW keys \in KeySets,
           RegisteredAlready(m, cb, keys)
    PROVE  Inv'
  <1> USE DEF Inv, TypeInv
  <1>1. PICK o \in proxy[m] : sub[o].fn = cb
    BY DEF RegisteredAlready, HasRegisteredObserver
  <1>2. /\ o \in Objects /\ sub[o] = JsSub(m, cb) /\ sub[o] \in Subs /\ sub[o].who = "js"
        /\ sub[o].mode = m /\ o \notin cleared
    BY <1>1, SubsMade, SubsFields, ElementOfSeq, ProxyIsLive
       DEF OwnersTyped, ListsTyped, Objects, RegisteredAlready
  <1>3. /\ UNCHANGED <<sub, base, js, ndk, native, walk, wire, held, uvQueue, faults, owed, dropped,
                       unwanted, excused>>
        /\ ignored' = ignored \cup ({sub[o]} \X (KeysOf(m, keys) \ asked[sub[o]]))
    BY <1>2 DEF RegisteredAlready
  <1>4. /\ asked' = [asked EXCEPT ![sub[o]] = @ \cup KeysOf(m, keys)]
        /\ KeysOf(m, keys) \subseteq Keys /\ excused \subseteq excused'
    BY <1>2, <1>3 DEF RegisteredAlready, Ask, KeysOf, KeySets
  <1>5. /\ \A t \in Subs : asked[t] \subseteq asked'[t] /\ (t # sub[o] => asked'[t] = asked[t])
        /\ \A t \in Subs : asked[t] \subseteq Keys /\ asked'[t] \subseteq Keys
        /\ HistoryTyped'
    BY <1>2, <1>3, <1>4 DEF HistoryTyped
  <1>6. /\ ListsTyped' /\ OwnersTyped' /\ LoopTyped' /\ Objects' = Objects
        /\ \A p : Alive(p)' <=> Alive(p)
    BY <1>3, SameOwners
  <1>7. \A t, k : Ignored(t, k) => Ignored(t, k)'
    BY <1>3 DEF Ignored
  <1>8. \A k \in asked'[sub[o]] : k \in asked[sub[o]] \/ Ignored(sub[o], k)'
    <2>1. ASSUME NEW k \in asked'[sub[o]], k \notin asked[sub[o]]
          PROVE  Ignored(sub[o], k)'
      <3>1. k \in KeysOf(m, keys)
        BY <1>2, <1>4, <2>1 DEF HistoryTyped
      <3>2. <<sub[o], k>> \in ignored' /\ sub' = sub
        BY <1>3, <2>1, <3>1
      <3> QED BY <3>2 DEF Ignored
    <2> QED BY <2>1
  <1>9. UNCHANGED <<sub, proxy, cleared, leaving, dataObserversMap>> /\ Events' = Events
        /\ \A n : List(n)' = List(n)
    BY <1>3 DEF base, js, Events, List
  <1>10. \A p \in Objects : sub[p] \in Subs
    BY ElementOfSeq DEF ListsTyped, Objects
  <1>11. OwnerInv'
    <2>1. JsCleared'
      BY <1>6, <1>9 DEF OwnerInv, JsCleared
    <2>2. JsEntries'
      <3>1. \A n \in {"local", "multi"} : \A p \in proxy[n] \ cleared :
               p \in List(n)' /\ asked'[sub[p]] = Keys
        <4>1. SUFFICES ASSUME NEW n \in {"local", "multi"}, NEW p \in proxy[n] \ cleared
                       PROVE  p \in List(n)' /\ asked'[sub[p]] = Keys
          OBVIOUS
        <4>2. n \in Modes
          BY DEF Modes
        <4>3. p \in Objects /\ sub[p] \in Subs
          BY <1>10, <4>2 DEF OwnersTyped
        <4>4. p \in List(n) /\ asked[sub[p]] = Keys
          BY DEF OwnerInv, JsEntries
        <4> QED BY <1>5, <1>9, <4>3, <4>4
      <3>2. ASSUME NEW p \in proxy["data"]
            PROVE  /\ p \in DOMAIN dataObserversMap
                   /\ \A k \in dataObserversMap[p] : k \in asked'[sub[p]]
                   /\ \A k \in asked'[sub[p]] : k \in dataObserversMap[p] \/ Ignored(sub[p], k)'
        <4>1. p \in Objects /\ sub[p] \in Subs
          BY <1>10 DEF OwnersTyped, Modes
        <4>2. \A k \in asked'[sub[p]] : k \in asked[sub[p]] \/ Ignored(sub[p], k)'
          BY <1>5, <1>8, <1>9, <4>1
        <4>3. \A k \in asked[sub[p]] : k \in dataObserversMap[p] \/ Ignored(sub[p], k)'
          BY <1>7, <1>9 DEF OwnerInv, JsEntries
        <4> QED BY <1>5, <4>1, <4>2, <4>3 DEF OwnerInv, JsEntries
      <3> QED BY <1>9, <3>1, <3>2 DEF JsEntries
    <2>3. JsAsked'
      <3>1. SUFFICES ASSUME NEW t \in Subs, NEW k \in asked'[t], t.who = "js"
                     PROVE  Ignored(t, k)' \/ \E p \in proxy[t.mode] \ cleared : sub[p] = t
        BY <1>9 DEF JsAsked
      <3>2. CASE t = sub[o]
        BY <1>2, <3>2
      <3>3. CASE t # sub[o]
        BY <1>5, <1>7, <3>1, <3>3 DEF OwnerInv, JsAsked
      <3> QED BY <3>2, <3>3
    <2>4. NdkEntries'
      <3>1. \A t \in Subs : t.who = "ndk" => asked'[t] = asked[t]
        BY <1>2, <1>5
      <3> QED BY <1>3, <1>4, <1>5, <1>9, <1>10, <3>1 DEF OwnerInv, NdkEntries, OwnersTyped
    <2>5. NativeEntries'
      <3>1. \A t \in Subs : t.who = "native" => asked'[t] = asked[t]
        BY <1>2, <1>5
      <3>2. UNCHANGED <<native, localObservers, multiProcessObservers>>
        BY <1>3 DEF base
      <3>3. \A p \in native : asked'[sub[p]] = asked[sub[p]]
        BY <1>10, <3>1 DEF OwnersTyped
      <3> QED BY <1>4, <1>9, <3>1, <3>2, <3>3 DEF OwnerInv, NativeEntries, List
    <2>6. NativeKeys'
      <3>1. \A t \in Subs : t.who = "native" => asked'[t] = asked[t]
        BY <1>2, <1>5
      <3>2. \A p \in native : asked'[sub[p]] = asked[sub[p]]
        BY <1>10, <3>1 DEF OwnersTyped
      <3> QED BY <1>3, <1>9, <3>1, <3>2 DEF OwnerInv, NativeKeys
    <2> QED BY <2>1, <2>2, <2>3, <2>4, <2>5, <2>6 DEF OwnerInv
  <1>12. FlowTyped' /\ HeldTyped'
    BY <1>3, <1>6, <1>9 DEF FlowTyped, HeldTyped, Records, base, walk
  <1>13. SilentInv'
    <2>1. \A e \in Events : e[1] \in Objects
      BY DEF FlowTyped
    <2>2. \A e \in wire : e[1] \in Objects
      BY DEF FlowTyped
    <2>3. InTransit'
      BY <1>3, <1>4, <1>5, <1>9, <1>10, <2>1, <2>2 DEF SilentInv, InTransit
    <2> QED BY <1>3, <1>4, <2>3 DEF SilentInv, SilentAfterOff
  <1>14. OwedInv'
    <2>1. \A q, k : Coming(q, k) => Coming(q, k)'
      BY <1>3, <1>9 DEF Coming, walk
    <2>2. \A t, k : Due(t, k) => Due(t, k)'
      BY <1>6, <1>9, <2>1 DEF Due
    <2>3. \A e \in owed : e[1] \in Subs
      BY DEF HistoryTyped
    <2> QED BY <1>3, <1>5, <1>7, <2>2, <2>3 DEF OwedInv, Mute
  <1> QED BY <1>5, <1>6, <1>11, <1>12, <1>13, <1>14

\* A step of the loop that takes only cleared callbacks from the proxy.
LEMMA LoopStepKeeps ==
    ASSUME Inv,
           UNCHANGED <<sub, base, cleared, ndk, native, walk, wire, held, uvQueue, faults, history>>,
           proxy' \in [Modes -> SUBSET Objects],
           \A m \in Modes : proxy'[m] \subseteq proxy[m] /\ proxy[m] \ proxy'[m] \subseteq cleared,
           LoopTyped', JsCleared'
    PROVE  Inv'
  <1> USE DEF Inv, TypeInv
  <1>1. /\ UNCHANGED <<sub, localObservers, multiProcessObservers, dataObserversMap, notify,
                       announce, changes, asked, owed, dropped, ignored, unwanted, excused>>
        /\ Objects' = Objects /\ Events' = Events
        /\ \A n : List(n)' = List(n)
        /\ \A t, k : Ignored(t, k)' <=> Ignored(t, k)
    BY DEF base, walk, history, Objects, Events, List, Ignored
  <1>2. ListsTyped' /\ FlowTyped' /\ HeldTyped' /\ HistoryTyped' /\ SilentInv'
    BY <1>1 DEF ListsTyped, FlowTyped, HeldTyped, Records, HistoryTyped, SilentInv, SilentAfterOff,
                InTransit
  <1>3. OwnersTyped'
    BY <1>1 DEF OwnersTyped
  <1>4. JsEntries'
    BY <1>1 DEF OwnerInv, JsEntries, Modes
  <1>5. JsAsked'
    BY <1>1, SubsFields DEF OwnerInv, JsAsked
  <1>6. NdkEntries' /\ NativeEntries' /\ NativeKeys'
    BY <1>1 DEF OwnerInv, NdkEntries, NativeEntries, NativeKeys, List
  <1>7. OwedInv'
    <2>1. \A o : Alive(o) => Alive(o)'
      BY DEF Alive
    <2>2. \A s, k : Due(s, k) => Due(s, k)'
      BY <1>1, <2>1 DEF Due, Coming
    <2> QED BY <1>1, <2>2 DEF OwedInv, Mute
  <1> QED BY <1>2, <1>3, <1>4, <1>5, <1>6, <1>7 DEF OwnerInv

\* The beginning and the end of a loop (napi_preferences.cpp:571-582, 592-595, 678-688).
LoopStart ==
    \/ Destructor \/ \E m \in Modes : UnRegisteredAllObservers(m)
    \/ \E cbs, keys : keys \in SUBSET Keys /\ UnRegisteredDataObserver(cbs, keys)

\* The three loops begin and end (napi_preferences.cpp:60-65, 571-596, 678-707).
LEMMA LoopKeeps ==
    ASSUME Inv, LoopEnd \/ LoopStart
    PROVE  Inv'
  <1> USE DEF Inv, TypeInv
  <1>1. UNCHANGED <<sub, base, cleared, ndk, native, walk, wire, held, uvQueue, faults, history>>
    BY DEF LoopEnd, LoopStart, Destructor, UnRegisteredAllObservers, UnRegisteredDataObserver
  <1>2. Objects' = Objects /\ sub' = sub /\ cleared' = cleared
    BY <1>1 DEF Objects
  <1>3. CASE LoopStart
    <2>1. proxy' = proxy /\ JsFree
      BY <1>3 DEF LoopStart, Destructor, UnRegisteredAllObservers, UnRegisteredDataObserver
    <2>2. PICK m \in Modes, os \in SUBSET Objects, keys \in SUBSET Keys, d \in BOOLEAN :
             /\ os \subseteq proxy[m]
             /\ leaving' = [mode |-> m, left |-> os, keys |-> keys, dying |-> d]
             /\ m # "data" => os = proxy[m]
      <3>1. CASE \E cbs, keys : keys \in SUBSET Keys /\ UnRegisteredDataObserver(cbs, keys)
        <4>1. PICK cbs, keys : keys \in SUBSET Keys /\ UnRegisteredDataObserver(cbs, keys)
          BY <3>1
        <4>2. /\ {o \in proxy["data"] : sub[o].fn \in cbs} \in SUBSET Objects
              /\ leaving' = [mode |-> "data", left |-> {o \in proxy["data"] : sub[o].fn \in cbs},
                             keys |-> keys, dying |-> FALSE]
          BY <4>1 DEF UnRegisteredDataObserver, DataLoop, OwnersTyped, Modes
        <4> QED BY <4>1, <4>2 DEF Modes
      <3>2. CASE Destructor \/ \E m \in Modes : UnRegisteredAllObservers(m)
        BY <3>2 DEF Destructor, UnRegisteredAllObservers, Modes, OwnersTyped
      <3> QED BY <1>3, <3>1, <3>2 DEF LoopStart
    <2>3. LoopTyped'
      BY <1>2, <2>1, <2>2 DEF LoopTyped
    <2>4. JsCleared'
      BY <1>2, <2>1, <2>2, ProxyIsLive DEF OwnerInv, JsCleared
    <2> QED BY <1>1, <2>1, <2>3, <2>4, LoopStepKeeps DEF OwnersTyped
  <1>4. CASE LoopEnd
    <2>1. /\ leaving.mode \in {"local", "multi"} /\ leaving.left = {} /\ leaving.mode \in Modes
          /\ proxy' = [proxy EXCEPT ![leaving.mode] = {}]
          /\ proxy \in [Modes -> SUBSET Objects]
      BY <1>4 DEF LoopEnd, Modes, OwnersTyped
    <2>2. /\ \A m \in Modes : proxy'[m] = IF m = leaving.mode THEN {} ELSE proxy[m]
          /\ proxy' \in [Modes -> SUBSET Objects]
      BY <2>1
    <2>3. \A m \in Modes : proxy[m] \ proxy'[m] \subseteq cleared
      BY <2>1, <2>2 DEF OwnerInv, JsCleared
    <2>4. \/ leaving' = NoLoop
          \/ /\ leaving.mode = "local"
             /\ leaving' = [mode |-> "multi", left |-> proxy["multi"], keys |-> {}, dying |-> TRUE]
          \/ leaving' = [mode |-> "data", left |-> proxy["data"], keys |-> {}, dying |-> FALSE]
      BY <1>4, <2>1 DEF LoopEnd, LoopTyped, DataLoop
    <2>5. LoopTyped'
      <3>1. leaving' \in [mode : Modes \cup {"none"}, left : SUBSET Objects, keys : SUBSET Keys,
                         dying : BOOLEAN]
        <4>1. proxy["multi"] \in SUBSET Objects /\ proxy["data"] \in SUBSET Objects
          BY <2>1 DEF Modes
        <4>2. CASE leaving' = NoLoop
          BY <4>2 DEF NoLoop
        <4>3. CASE leaving' = [mode |-> "multi", left |-> proxy["multi"], keys |-> {},
                               dying |-> TRUE]
          BY <4>1, <4>3 DEF Modes
        <4>4. CASE leaving' = [mode |-> "data", left |-> proxy["data"], keys |-> {},
                               dying |-> FALSE]
          BY <4>1, <4>4 DEF Modes
        <4> QED BY <2>4, <4>2, <4>3, <4>4
      <3>2. IF leaving'.mode \in Modes THEN leaving'.left \subseteq proxy'[leaving'.mode]
                                       ELSE leaving'.left = {}
        BY <2>1, <2>2, <2>4 DEF NoLoop, Modes
      <3> QED BY <1>2, <3>1, <3>2 DEF LoopTyped
    <2>6. JsCleared'
      <3>1. \A m \in Modes : \A o \in proxy'[m] : o \notin cleared
        BY <2>2 DEF OwnerInv, JsCleared
      <3>2. \A o \in Objects' : sub'[o].who = "js" => o \in cleared' \/ o \in proxy'[sub'[o].mode]
        <4>1. \A o \in Objects : sub[o].who = "js" => sub[o].mode \in Modes
          BY ElementOfSeq, SubsFields DEF ListsTyped, Objects
        <4> QED BY <1>2, <2>2, <2>3, <4>1 DEF OwnerInv, JsCleared
      <3>3. leaving'.mode \in {"local", "multi"} => proxy'[leaving'.mode] \ leaving'.left = {}
        BY <2>2, <2>4 DEF NoLoop, Modes
      <3> QED BY <3>1, <3>2, <3>3, <1>2 DEF JsCleared
    <2> QED BY <1>1, <2>2, <2>3, <2>5, <2>6, LoopStepKeeps
  <1> QED BY <1>3, <1>4
-----------------------------------------------------------------------------
(* Withdrawals. *)

\* What is still owed after a withdrawal is still coming, if the observers that have gone
\* were withdrawn.
LEMMA OwedWithdrawn ==
    ASSUME Inv, NEW S, NEW keys, Withdraw(S, keys), Free \/ UNCHANGED dataObserversMap,
           UNCHANGED <<sub, notify, wire, uvQueue>>,
           \A o \in Objects, k \in Keys :
              Alive(o) /\ ~Alive(o)' /\ k \in asked[sub[o]] =>
                 (sub[o] \in S /\ k \in keys) \/ Ignored(sub[o], k)
    PROVE  OwedInv'
  <1>1. Objects' = Objects /\ Events' = Events /\ dropped' = dropped
    BY SameObjects DEF Events, Withdraw
  <1>2. \A o, k : Coming(o, k) => Coming(o, k)'
    BY <1>1 DEF Coming, Free, NoNotify
  <1>3. SUFFICES ASSUME NEW e \in owed'
                 PROVE  /\ e[2] \in asked'[e[1]]
                        /\ Mute(e[1]) \/ Ignored(e[1], e[2])' \/ e \in dropped' \/ Due(e[1], e[2])'
    BY DEF OwedInv, Mute
  <1>4. /\ e \in owed /\ e[1] \in Subs /\ e[2] \in Keys /\ e[2] \in asked[e[1]]
        /\ ~(e[1] \in S /\ e[2] \in keys)
    BY DEF Withdraw, Inv, TypeInv, HistoryTyped, OwedInv
  <1>5. e[2] \in asked'[e[1]]
    BY <1>4 DEF Withdraw
  <1>6. Ignored(e[1], e[2]) => Ignored(e[1], e[2])'
    BY <1>4, <1>5, Withdrawn
  <1>7. ASSUME Due(e[1], e[2]) PROVE Ignored(e[1], e[2]) \/ Due(e[1], e[2])'
    <2>1. PICK o \in Objects : sub[o] = e[1] /\ Alive(o) /\ Coming(o, e[2])
      BY <1>7 DEF Due
    <2> QED BY <1>1, <1>2, <1>4, <2>1 DEF Due
  <1> QED BY <1>1, <1>4, <1>5, <1>6, <1>7 DEF Inv, OwedInv

\* off of one callback, by itself or in the loop: its own entry may go, or that of a dead
\* observer, never that of another who is alive (napi_preferences.cpp:545-596).
LEMMA CallbackOffKeeps ==
    ASSUME Inv, NEW m \in {"local", "multi"}, NEW o \in proxy[m] \ cleared, Free,
           localObservers' \subseteq localObservers,
           multiProcessObservers' \subseteq multiProcessObservers,
           \A p : Strong(p) /\ p # o =>
                    /\ p \in localObservers => p \in localObservers'
                    /\ p \in multiProcessObservers => p \in multiProcessObservers',
           cleared' = cleared \cup {o}, Withdraw({sub[o]}, Keys),
           proxy' \in [Modes -> SUBSET Objects],
           \A n \in Modes : proxy'[n] \subseteq proxy[n] /\ proxy[n] \ {o} \subseteq proxy'[n],
           LoopTyped', JsCleared', faults' \in 0 .. MaxFaults,
           UNCHANGED <<sub, dataObserversMap, ndk, native, walk, wire, held, uvQueue, unwanted,
                       excused>>
    PROVE  Inv'
  <1> USE DEF Inv, TypeInv
  <1>1. /\ m \in Modes /\ o \in Objects /\ sub[o] \in Subs /\ sub[o].who = "js" /\ sub[o].mode = m
        /\ \A p \in Objects : sub[p] \in Subs
    BY ElementOfSeq DEF OwnersTyped, ListsTyped, Objects, Modes
  <1>2. /\ Objects' = Objects /\ Events' = Events
        /\ \A t \in Subs : \A k \in asked'[t] : Ignored(t, k) => Ignored(t, k)'
    BY Withdrawn DEF Objects, Events
  <1>3. /\ \A t \in Subs : asked'[t] = IF t = sub[o] THEN {} ELSE asked[t]
        /\ HistoryTyped'
    BY DEF HistoryTyped, Withdraw
  <1>4. \A n \in Modes : \A p \in proxy[n] : sub[p] = sub[o] => p = o
    BY <1>1 DEF OwnersTyped
  <1>5. ListsTyped'
    BY <1>2 DEF ListsTyped
  <1>6. OwnersTyped'
    BY <1>1, <1>2 DEF OwnersTyped
  <1>7. FlowTyped' /\ HeldTyped'
    BY <1>2 DEF FlowTyped, HeldTyped, Records, Free, NoNotify, walk
  <1>8. JsEntries'
    <2>1. ASSUME NEW n \in {"local", "multi"}, NEW p \in proxy'[n] \ cleared'
          PROVE  p \in List(n)' /\ asked'[sub[p]] = Keys
      <3>1. n \in Modes /\ p \in proxy[n] \ cleared /\ p # o
        BY DEF Modes
      <3>2. Strong(p) /\ p \in Objects /\ p \in List(n) /\ asked[sub[p]] = Keys
        BY <3>1 DEF Strong, OwnerInv, JsEntries, OwnersTyped
      <3> QED BY <1>1, <1>3, <1>4, <3>1, <3>2 DEF List
    <2>2. ASSUME NEW p \in proxy'["data"]
          PROVE  /\ p \in DOMAIN dataObserversMap
                 /\ \A k \in dataObserversMap[p] : k \in asked'[sub[p]]
                 /\ \A k \in asked'[sub[p]] : k \in dataObserversMap[p] \/ Ignored(sub[p], k)'
      <3>1. p \in proxy["data"] /\ p \in Objects /\ sub[p] \in Subs /\ sub[p] # sub[o]
        BY <1>1 DEF OwnersTyped, Modes
      <3> QED BY <1>2, <1>3, <3>1 DEF OwnerInv, JsEntries
    <2> QED BY <2>1, <2>2 DEF JsEntries
  <1>9. JsAsked'
    <2>1. SUFFICES ASSUME NEW t \in Subs, NEW k \in asked'[t], t.who = "js"
                   PROVE  Ignored(t, k)' \/ \E p \in proxy'[t.mode] \ cleared' : sub[p] = t
      BY DEF JsAsked
    <2>2. t # sub[o] /\ k \in asked[t] /\ t.mode \in Modes
      BY <1>3, <2>1, SubsFields
    <2> QED BY <1>2, <2>1, <2>2 DEF OwnerInv, JsAsked
  <1>10. NdkEntries'
    BY <1>1, <1>3 DEF OwnerInv, NdkEntries, OwnersTyped
  <1>11. NativeEntries'
    <2>1. \A t \in Subs : t.who = "native" => asked'[t] = asked[t]
      BY <1>1, <1>3
    <2>2. \A p \in native : asked'[sub[p]] = asked[sub[p]] /\ Strong(p) /\ p # o
      BY <1>1, <2>1 DEF OwnersTyped, Strong
    <2> QED BY <2>1, <2>2 DEF OwnerInv, NativeEntries, List
  <1>14. NativeKeys'
    <2>1. \A t \in Subs : t.who = "native" => asked'[t] = asked[t]
      BY <1>1, <1>3
    <2>2. \A p \in native : asked'[sub[p]] = asked[sub[p]]
      BY <1>1, <2>1 DEF OwnersTyped
    <2> QED BY <2>1, <2>2 DEF OwnerInv, NativeKeys
  <1>12. SilentInv'
    <2>1. ASSUME NEW e \in Events, NEW k \in e[2]
          PROVE  e[1] \in cleared' \/ k \in asked'[sub[e[1]]] \/ <<e[1], k>> \in excused
      <3>1. e[1] \in Objects /\ sub[e[1]].who = "js"
        BY DEF FlowTyped
      <3>2. CASE sub[e[1]] = sub[o]
        <4>1. e[1] \in cleared \/ e[1] \in proxy[m]
          BY <1>1, <3>1, <3>2 DEF OwnerInv, JsCleared
        <4> QED BY <1>1, <1>4, <3>2, <4>1
      <3>3. CASE sub[e[1]] # sub[o]
        BY <1>1, <1>3, <2>1, <3>1, <3>3 DEF SilentInv, InTransit
      <3> QED BY <3>2, <3>3
    <2>2. ASSUME NEW e \in wire, e[1] \in native
          PROVE  e[2] \in asked'[sub[e[1]]] \/ e \in excused
      <3>1. e[1] \in Objects /\ sub[e[1]] # sub[o]
        BY <1>1, <2>2 DEF OwnersTyped
      <3> QED BY <1>1, <1>3, <2>2, <3>1 DEF SilentInv, InTransit
    <2> QED BY <1>2, <2>1, <2>2 DEF SilentInv, SilentAfterOff, InTransit
  <1>13. OwedInv'
    <2>1. \A p : Alive(p) /\ ~Alive(p)' => p = o
      BY DEF Alive
    <2> QED BY <2>1, OwedWithdrawn DEF walk
  <1> QED BY <1>3, <1>5, <1>6, <1>7, <1>8, <1>9, <1>10, <1>11, <1>12, <1>13, <1>14 DEF OwnerInv

\* off('change', callback) and off('multiProcessChange', callback).
LEMMA UnRegisteredObserverKeeps ==
    ASSUME Inv, NEW m \in Modes, NEW cb \in Callbacks, UnRegisteredObserver(m, cb)
    PROVE  Inv'
  <1> USE DEF Inv, TypeInv
  <1>1. PICK o \in proxy[m] : /\ sub[o].fn = cb /\ TakeEntry(m, o)
                              /\ cleared' = cleared \cup {o}
                              /\ proxy' = [proxy EXCEPT ![m] = @ \ {o}]
    BY DEF UnRegisteredObserver
  <1>2. /\ m \in {"local", "multi"} /\ Free /\ JsFree
        /\ UNCHANGED <<sub, dataObserversMap, leaving, ndk, native, walk, wire, held, uvQueue, faults,
                       unwanted, excused>>
        /\ Withdraw({JsSub(m, cb)}, Keys)
    BY DEF UnRegisteredObserver, Modes
  <1>3. o \notin cleared /\ sub[o] = JsSub(m, cb)
    BY <1>1, <1>2, ProxyIsLive, SubsMade, SubsFields, ElementOfSeq
       DEF OwnersTyped, ListsTyped, Objects
  <1>4. /\ proxy' \in [Modes -> SUBSET Objects]
        /\ \A n \in Modes : proxy'[n] \subseteq proxy[n] /\ proxy[n] \ {o} \subseteq proxy'[n]
        /\ o \notin proxy'[m]
    BY <1>1 DEF OwnersTyped
  <1>5. leaving' = NoLoop /\ Objects' = Objects
    BY <1>2 DEF JsFree, Objects
  <1>6. LoopTyped'
    BY <1>5 DEF LoopTyped, NoLoop
  <1>7. JsCleared'
    <2>1. \A n \in Modes : \A p \in proxy'[n] : p \notin cleared'
      BY <1>1, <1>2, <1>4, ProxyIsLive DEF OwnersTyped
    <2>2. \A p \in Objects : sub[p].who = "js" => p \in cleared' \/ p \in proxy'[sub[p].mode]
      <3>1. \A p \in Objects : sub[p].who = "js" => sub[p].mode \in Modes
        BY ElementOfSeq, SubsFields DEF ListsTyped, Objects
      <3>2. \A p \in Objects : sub[p].who = "js" => p \in cleared \/ p \in proxy[sub[p].mode]
        BY DEF OwnerInv, JsCleared
      <3>3. cleared' = cleared \cup {o}
        BY <1>1
      <3> QED BY <1>4, <3>1, <3>2, <3>3
    <2>3. sub' = sub /\ leaving'.mode = "none"
      BY <1>2, <1>5 DEF NoLoop
    <2> QED BY <1>5, <2>1, <2>2, <2>3 DEF JsCleared
  <1>8. faults' \in 0 .. MaxFaults
    BY <1>2 DEF FlowTyped
  <1> QED BY <1>1, <1>2, <1>3, <1>4, <1>6, <1>7, <1>8, TakeEntryIsSafe, CallbackOffKeeps

\* One turn of the loop.
LEMMA LoopTurnKeeps ==
    ASSUME Inv, NEW o \in leaving.left, LoopTurn(o)
    PROVE  Inv'
  <1> USE DEF Inv, TypeInv
  <1>1. /\ leaving.mode \in {"local", "multi"} /\ leaving.mode \in Modes
        /\ o \in proxy[leaving.mode] \ cleared
    BY DEF LoopTurn, LoopTyped, Modes, OwnerInv, JsCleared
  <1>2. /\ Free /\ cleared' = cleared \cup {o} /\ Withdraw({sub[o]}, Keys)
        /\ leaving' = [leaving EXCEPT !.left = @ \ {o}]
        /\ UNCHANGED <<sub, dataObserversMap, proxy, ndk, native, walk, wire, held, uvQueue, unwanted,
                       excused>>
    BY DEF LoopTurn
  <1>3. /\ localObservers' \subseteq localObservers
        /\ multiProcessObservers' \subseteq multiProcessObservers
        /\ \A p : Strong(p) /\ p # o =>
                 /\ p \in localObservers => p \in localObservers'
                 /\ p \in multiProcessObservers => p \in multiProcessObservers'
    <2>1. TakeEntry(leaving.mode, o) \/ UNCHANGED <<localObservers, multiProcessObservers>>
      BY DEF LoopTurn
    <2> QED BY <2>1, TakeEntryIsSafe
  <1>4. faults' \in 0 .. MaxFaults
    BY BoundsAssumption DEF LoopTurn, FlowTyped, Fault
  <1>5. Objects' = Objects
    BY <1>2 DEF Objects
  <1>6. /\ leaving'.mode = leaving.mode /\ leaving'.left = leaving.left \ {o}
        /\ leaving' \in [mode : Modes \cup {"none"}, left : SUBSET Objects, keys : SUBSET Keys,
                         dying : BOOLEAN]
    BY <1>2 DEF LoopTyped
  <1>7. LoopTyped'
    BY <1>1, <1>2, <1>5, <1>6 DEF LoopTyped
  <1>8. JsCleared'
    <2>1. \A n \in Modes : o \in proxy[n] => n = leaving.mode
      BY <1>1 DEF OwnersTyped
    <2> QED BY <1>1, <1>2, <1>5, <1>6, <2>1 DEF OwnerInv, JsCleared
  <1>9. proxy' \in [Modes -> SUBSET Objects]
    BY <1>2 DEF OwnersTyped
  <1> QED BY <1>1, <1>2, <1>3, <1>4, <1>7, <1>8, <1>9, CallbackOffKeeps

\* The keys that off('dataChange') leaves to an entry: those not withdrawn.
LEMMA KeysLeftAre ==
    ASSUME Inv, NEW o \in DOMAIN dataObserversMap, NEW keys \in SUBSET Keys
    PROVE  KeysLeft(o, keys) = dataObserversMap[o] \ (IF keys = {} THEN Keys ELSE keys)
  <1>1. dataObserversMap[o] \subseteq Keys
    BY DEF Inv, TypeInv, ListsTyped
  <1> QED BY <1>1 DEF KeysLeft

\* One turn of off('dataChange') and of the end of the destructor (napi_preferences.cpp:688-707):
\* a callback goes when no key is left, and what is queued for the keys withdrawn is excused.
LEMMA DataTurnKeeps ==
    ASSUME Inv, NEW o \in leaving.left, DataTurn(o)
    PROVE  Inv'
  <1> USE DEF Inv, TypeInv
  <1> DEFINE keys == leaving.keys
             os == {o}
             W == IF keys = {} THEN Keys ELSE keys
             gone == {p \in os : KeysLeft(p, keys) = {}}
             S == {sub[o]}
  <1>1. /\ Free /\ dataObserversMap' = UnRegisterDataObserver(os, keys)
        /\ cleared' = cleared \cup gone
        /\ proxy' = [proxy EXCEPT !["data"] = @ \ gone]
        /\ Withdraw(S, W)
        /\ excused' = excused \cup
              {e \in (os \ gone) \X W : \E ev \in Events : ev[1] = e[1] /\ e[2] \in ev[2]}
        /\ UNCHANGED <<sub, localObservers, multiProcessObservers, ndk, native, walk, wire, held,
                       uvQueue, faults, unwanted>>
        /\ leaving.mode = "data" /\ leaving' = DataLoop(leaving.left \ {o}, keys)
        /\ keys \in SUBSET Keys /\ os \in SUBSET proxy["data"]
    BY DEF DataTurn, LoopTyped, Modes
  <1>2. /\ Objects' = Objects /\ Events' = Events
        /\ excused \subseteq excused'
        /\ \A t \in Subs : \A k \in asked'[t] : Ignored(t, k) => Ignored(t, k)'
    BY <1>1, SameObjects, Withdrawn DEF Events
  <1>3. /\ \A p \in Objects : sub[p] \in Subs
        /\ \A n \in Modes : \A p \in proxy[n] : p \in Objects /\ sub[p].who = "js" /\ sub[p].mode = n
        /\ \A p \in os : p \in proxy["data"] /\ p \in Objects /\ p \in DOMAIN dataObserversMap
        /\ "data" \in Modes
    BY <1>1, ElementOfSeq DEF OwnersTyped, ListsTyped, Objects, Modes, OwnerInv, JsEntries
  <1>4. /\ \A p \in os : KeysLeft(p, keys) = dataObserversMap[p] \ W
        /\ gone \subseteq os
    BY <1>1, <1>3, KeysLeftAre
  <1>5. \A n \in Modes : \A p \in proxy[n] : p \notin cleared
    BY <1>1 DEF OwnerInv, JsCleared, Modes
  <1>6. \A p \in proxy["data"] : sub[p] \in S => p \in os
    BY <1>3 DEF OwnersTyped
  <1>7. /\ \A s \in S : s \in Subs /\ s.who = "js" /\ s.mode = "data"
        /\ \A p \in os : sub[p] \in S
    BY <1>3
  <1>8. /\ DOMAIN dataObserversMap' \subseteq DOMAIN dataObserversMap
        /\ dataObserversMap' \in [DOMAIN dataObserversMap' -> SUBSET Keys]
        /\ \A p \in DOMAIN dataObserversMap \ os :
              p \in DOMAIN dataObserversMap' /\ dataObserversMap'[p] = dataObserversMap[p]
        /\ \A p \in os \ gone :
              p \in DOMAIN dataObserversMap' /\ dataObserversMap'[p] = dataObserversMap[p] \ W
        /\ \A p \in gone : p \notin DOMAIN dataObserversMap'
    <2>1. \A p \in os : p \in gone <=> KeysLeft(p, keys) = {}
      OBVIOUS
    <2> HIDE DEF keys, os, W, gone
    <2>2. /\ DOMAIN dataObserversMap' \subseteq DOMAIN dataObserversMap
          /\ dataObserversMap' \in [DOMAIN dataObserversMap' -> SUBSET Keys]
          /\ \A p \in DOMAIN dataObserversMap \ os :
                p \in DOMAIN dataObserversMap' /\ dataObserversMap'[p] = dataObserversMap[p]
          /\ \A p \in DOMAIN dataObserversMap \cap os :
                /\ KeysLeft(p, keys) # {} =>
                      p \in DOMAIN dataObserversMap' /\ dataObserversMap'[p] = KeysLeft(p, keys)
                /\ KeysLeft(p, keys) = {} => p \notin DOMAIN dataObserversMap'
      BY <1>1, DataEntries DEF ListsTyped
    <2> QED BY <1>3, <1>4, <2>1, <2>2
  <1>9. /\ \A t \in Subs : asked'[t] = IF t \in S THEN asked[t] \ W ELSE asked[t]
        /\ HistoryTyped'
    BY <1>1 DEF HistoryTyped, Withdraw
  <1>10. /\ \A n \in Modes : proxy'[n] = IF n = "data" THEN proxy[n] \ gone ELSE proxy[n]
         /\ proxy' \in [Modes -> SUBSET Objects]
    BY <1>1, <1>3 DEF OwnersTyped
  <1> HIDE DEF keys, os, W, gone, S
  <1>11. ListsTyped'
    BY <1>1, <1>2, <1>8 DEF ListsTyped
  <1>12. OwnersTyped'
    BY <1>1, <1>2, <1>3, <1>4, <1>10 DEF OwnersTyped
  <1>13. LoopTyped'
    <2>1. leaving.left \ {o} \subseteq proxy'["data"] /\ leaving.left \ {o} \in SUBSET Objects
      BY <1>1, <1>3, <1>4, <1>10 DEF LoopTyped, os
    <2>2. CASE leaving' = NoLoop
      BY <2>2 DEF LoopTyped, NoLoop, Modes
    <2>3. CASE leaving' = [mode |-> "data", left |-> leaving.left \ {o}, keys |-> keys,
                           dying |-> FALSE]
      <3>1. keys \in SUBSET Keys /\ leaving'.mode = "data" /\ leaving'.left \subseteq proxy'["data"]
        <4>1. leaving'.mode = "data" /\ leaving'.left = leaving.left \ {o}
          BY <2>3
        <4> QED BY <1>1, <2>1, <4>1, Zenon
      <3>2. leaving' \in [mode : Modes \cup {"none"}, left : SUBSET Objects, keys : SUBSET Keys,
                         dying : BOOLEAN]
        BY <1>3, <2>1, <2>3, <3>1, SMTT(30)
      <3> QED BY <1>2, <1>3, <3>1, <3>2 DEF LoopTyped
    <2> QED BY <1>1, <2>2, <2>3 DEF DataLoop
  <1>14. FlowTyped' /\ HeldTyped'
    BY <1>1, <1>2 DEF FlowTyped, HeldTyped, Records, Free, NoNotify, walk
  <1>15. JsCleared'
    <2>1. ASSUME NEW p \in Objects, sub[p].who = "js"
          PROVE  p \in cleared' \/ p \in proxy'[sub[p].mode]
      <3>1. sub[p].mode \in Modes
        BY <1>3, <2>1, SubsFields DEF Modes
      <3>2. p \in cleared \/ p \in proxy[sub[p].mode]
        BY <2>1 DEF OwnerInv, JsCleared
      <3> QED BY <1>1, <1>10, <3>1, <3>2
    <2>2. \A n \in Modes : \A p \in proxy'[n] : p \notin cleared'
      BY <1>1, <1>3, <1>4, <1>5, <1>10
    <2>3. leaving'.mode \notin {"local", "multi"}
      BY <1>1 DEF NoLoop, DataLoop
    <2> QED BY <1>1, <1>2, <2>1, <2>2, <2>3 DEF JsCleared
  <1>16. JsEntries'
    <2>1. ASSUME NEW n \in {"local", "multi"}, NEW p \in proxy'[n] \ cleared'
          PROVE  p \in List(n)' /\ asked'[sub[p]] = Keys
      <3>1. n \in Modes /\ p \in proxy[n] \ cleared
        BY <1>1, <1>10 DEF Modes
      <3>2. p \in List(n) /\ asked[sub[p]] = Keys /\ sub[p] \in Subs /\ sub[p] \notin S
        BY <1>3, <1>7, <3>1 DEF OwnerInv, JsEntries
      <3> QED BY <1>1, <1>9, <3>2 DEF List
    <2>2. ASSUME NEW p \in proxy'["data"]
          PROVE  /\ p \in DOMAIN dataObserversMap'
                 /\ \A k \in dataObserversMap'[p] : k \in asked'[sub[p]]
                 /\ \A k \in asked'[sub[p]] : k \in dataObserversMap'[p] \/ Ignored(sub[p], k)'
      <3>1. p \in proxy["data"] \ gone /\ sub[p] \in Subs
        BY <1>3, <1>10
      <3>2. /\ p \in DOMAIN dataObserversMap
            /\ \A k \in dataObserversMap[p] : k \in asked[sub[p]]
            /\ \A k \in asked[sub[p]] : k \in dataObserversMap[p] \/ Ignored(sub[p], k)
        BY <1>1, <3>1 DEF OwnerInv, JsEntries
      <3>5. \A k \in asked'[sub[p]] : Ignored(sub[p], k) => Ignored(sub[p], k)'
        <4>1. sub' = sub
          BY <1>1
        <4> QED BY <1>2, <3>1, <4>1 DEF Ignored
      <3>3. CASE p \in os
        <4>1. asked'[sub[p]] = asked[sub[p]] \ W
          BY <1>7, <1>9, <3>1, <3>3
        <4>2. p \in DOMAIN dataObserversMap' /\ dataObserversMap'[p] = dataObserversMap[p] \ W
          BY <1>8, <3>1, <3>3
        <4> QED BY <3>2, <3>5, <4>1, <4>2, ZenonT(40)
      <3>4. CASE p \notin os
        BY <1>6, <1>8, <1>9, <3>1, <3>2, <3>4, <3>5
      <3> QED BY <3>3, <3>4
    <2> QED BY <1>1, <2>1, <2>2 DEF JsEntries
  <1>17. JsAsked'
    <2>1. SUFFICES ASSUME NEW t \in Subs, NEW k \in asked'[t], t.who = "js", ~Ignored(t, k)'
                   PROVE  \E p \in proxy'[t.mode] \ cleared' : sub[p] = t
      BY <1>1 DEF JsAsked
    <2>2. t.mode \in Modes /\ k \in asked[t] /\ ~Ignored(t, k) /\ (t \in S => k \notin W)
      BY <1>2, <1>9, <2>1, SubsFields
    <2>3. PICK p \in proxy[t.mode] \ cleared : sub[p] = t
      BY <2>1, <2>2 DEF OwnerInv, JsAsked
    <2>4. p \notin gone
      <3>1. SUFFICES ASSUME p \in gone PROVE FALSE
        OBVIOUS
      <3>2. p \in os /\ t \in S /\ dataObserversMap[p] \ W = {}
        BY <1>4, <1>7, <2>3, <3>1 DEF gone
      <3>3. k \in dataObserversMap[p]
        BY <1>3, <2>2, <2>3, <3>2 DEF OwnerInv, JsEntries
      <3> QED BY <2>2, <3>2, <3>3
    <2> QED BY <1>1, <1>10, <2>2, <2>3, <2>4
  <1>18. NdkEntries'
    <2>1. \A t \in Subs : t.who = "ndk" => asked'[t] = asked[t]
      BY <1>7, <1>9
    <2>2. \A p \in ndk : p \in Objects /\ sub[p].who = "ndk" /\ p \notin os
      BY <1>3 DEF OwnersTyped
    <2>3. \A p \in ndk : /\ p \in DOMAIN dataObserversMap' <=> p \in DOMAIN dataObserversMap
                         /\ p \in DOMAIN dataObserversMap => dataObserversMap'[p] = dataObserversMap[p]
                         /\ asked'[sub[p]] = asked[sub[p]]
      BY <1>3, <1>8, <2>1, <2>2
    <2> QED BY <1>1, <1>2, <2>1, <2>3 DEF OwnerInv, NdkEntries
  <1>19. NativeEntries'
    <2>1. \A t \in Subs : t.who = "native" => asked'[t] = asked[t]
      BY <1>7, <1>9
    <2>2. \A p \in native : asked'[sub[p]] = asked[sub[p]]
      BY <1>3, <2>1 DEF OwnersTyped
    <2> QED BY <1>1, <1>2, <2>1, <2>2 DEF OwnerInv, NativeEntries, List
  <1>22. NativeKeys'
    <2>1. \A t \in Subs : t.who = "native" => asked'[t] = asked[t]
      BY <1>7, <1>9
    <2>2. \A p \in native : asked'[sub[p]] = asked[sub[p]] /\ p \notin os
      BY <1>3, <2>1 DEF OwnersTyped
    <2>3. \A p \in native : /\ p \in DOMAIN dataObserversMap' <=> p \in DOMAIN dataObserversMap
                            /\ p \in DOMAIN dataObserversMap =>
                                  dataObserversMap'[p] = dataObserversMap[p]
      BY <1>8, <2>2
    <2> QED BY <1>1, <2>1, <2>2, <2>3 DEF OwnerInv, NativeKeys
  <1>20. SilentInv'
    <2>1. ASSUME NEW e \in Events, NEW k \in e[2]
          PROVE  e[1] \in cleared' \/ k \in asked'[sub[e[1]]] \/ <<e[1], k>> \in excused'
      <3>1. /\ e[1] \in Objects /\ sub[e[1]].who = "js" /\ sub[e[1]] \in Subs
            /\ e[1] \in cleared \/ k \in asked[sub[e[1]]] \/ <<e[1], k>> \in excused
        BY <1>3 DEF FlowTyped, SilentInv, InTransit
      <3>2. SUFFICES ASSUME e[1] \notin cleared', sub[e[1]] \in S, k \in W
                     PROVE  <<e[1], k>> \in excused'
        BY <1>1, <1>2, <1>9, <3>1
      <3>3. e[1] \in proxy["data"]
        BY <1>1, <1>7, <3>1, <3>2 DEF OwnerInv, JsCleared
      <3>4. e[1] \in os \ gone
        BY <1>1, <1>6, <3>2, <3>3
      <3> QED BY <1>1, <3>2, <3>4
    <2>2. ASSUME NEW e \in wire, e[1] \in native
          PROVE  e[2] \in asked'[sub[e[1]]] \/ e \in excused'
      <3>1. e[1] \in Objects /\ sub[e[1]] \in Subs /\ sub[e[1]] \notin S
        BY <1>3, <1>7, <2>2 DEF OwnersTyped
      <3> QED BY <1>2, <1>9, <2>2, <3>1 DEF SilentInv, InTransit
    <2> QED BY <1>1, <1>2, <2>1, <2>2 DEF SilentInv, SilentAfterOff, InTransit
  <1>21. OwedInv'
    <2>1. ASSUME NEW p \in Objects, NEW k \in Keys, Alive(p), ~Alive(p)', k \in asked[sub[p]]
          PROVE  (sub[p] \in S /\ k \in W) \/ Ignored(sub[p], k)
      <3>1. p \in gone
        BY <1>1, <1>10, <2>1 DEF Alive
      <3>2. p \in os /\ dataObserversMap[p] \ W = {}
        BY <1>4, <3>1 DEF gone
      <3>3. k \in dataObserversMap[p] \/ Ignored(sub[p], k)
        BY <1>1, <2>1, <3>2 DEF OwnerInv, JsEntries
      <3> QED BY <1>7, <3>2, <3>3
    <2> QED BY <1>1, <1>2, <2>1, OwedWithdrawn DEF walk
  <1> QED BY <1>9, <1>11, <1>12, <1>13, <1>14, <1>15, <1>16, <1>17, <1>18, <1>19, <1>20, <1>21, <1>22
          DEF OwnerInv

\* A withdrawal of the NDK or of a caller of the inner API leaves JS alone.
LEMMA OthersOffKeeps ==
    ASSUME Inv, NEW S, NEW keys, Withdraw(S, keys), \A s \in S : s.who # "js",
           UNCHANGED <<sub, js, walk, wire, held, uvQueue, faults, unwanted>>,
           Free \/ UNCHANGED base, excused \subseteq excused',
           localObservers' \subseteq localObservers,
           multiProcessObservers' \subseteq multiProcessObservers,
           \A p \in Objects : Strong(p) /\ sub[p].who = "js" =>
                                /\ p \in localObservers => p \in localObservers'
                                /\ p \in multiProcessObservers => p \in multiProcessObservers',
           \A p \in proxy["data"] :
              p \in DOMAIN dataObserversMap' /\ dataObserversMap'[p] = dataObserversMap[p],
           ndk' \subseteq ndk, native' \subseteq native, ListsTyped', NdkEntries', NativeEntries',
           NativeKeys',
           \A h \in held : h[1] \in (ndk \ ndk') \cup (native \ native') =>
                             \A k \in Keys : <<h[1], k>> \in excused',
           \A e \in wire : e[1] \in native' => e[2] \in asked'[sub[e[1]]] \/ e \in excused',
           \A p \in (ndk \ ndk') \cup (native \ native') : sub[p] \in S /\ keys = Keys
    PROVE  Inv'
  <1> USE DEF Inv, TypeInv
  <1>1. /\ Objects' = Objects /\ Events' = Events
        /\ \A t \in Subs : \A k \in asked'[t] : Ignored(t, k) => Ignored(t, k)'
        /\ \A p \in Objects : sub[p] \in Subs
    BY SameObjects, Withdrawn, ElementOfSeq DEF Events, ListsTyped, Objects
  <1>2. UNCHANGED <<sub, proxy, cleared, leaving, notify, announce, changes>>
    BY DEF js, walk
  <1>3. /\ \A t \in Subs : t.who = "js" => asked'[t] = asked[t]
        /\ HistoryTyped'
    BY DEF Withdraw, HistoryTyped
  <1>4. OwnersTyped' /\ LoopTyped'
    BY <1>1, <1>2 DEF OwnersTyped, LoopTyped
  <1>5. FlowTyped' /\ HeldTyped'
    <2>1. Free => notify.data = {} /\ notify.local = {}
      BY DEF Free, NoNotify
    <2>2. HeldTyped'
      BY <1>2, <2>1 DEF HeldTyped, Records, base
    <2> QED BY <1>1, <1>2, <2>1, <2>2 DEF FlowTyped, base
  <1>6. JsCleared'
    BY <1>1, <1>2 DEF OwnerInv, JsCleared
  <1>7. JsEntries'
    <2>1. ASSUME NEW n \in {"local", "multi"}, NEW p \in proxy[n] \ cleared
          PROVE  p \in List(n)' /\ asked'[sub[p]] = Keys
      <3>1. /\ n \in Modes /\ p \in Objects /\ sub[p].who = "js" /\ Strong(p)
            /\ p \in List(n) /\ asked[sub[p]] = Keys
        BY DEF Modes, OwnersTyped, Strong, OwnerInv, JsEntries
      <3> QED BY <1>1, <1>3, <3>1 DEF List
    <2>2. ASSUME NEW p \in proxy["data"]
          PROVE  /\ p \in DOMAIN dataObserversMap'
                 /\ \A k \in dataObserversMap'[p] : k \in asked'[sub[p]]
                 /\ \A k \in asked'[sub[p]] : k \in dataObserversMap'[p] \/ Ignored(sub[p], k)'
      <3>1. asked'[sub[p]] = asked[sub[p]]
        BY <1>1, <1>3 DEF OwnersTyped, Modes
      <3>2. sub[p] \in Subs
        BY <1>1 DEF OwnersTyped, Modes
      <3> QED BY <1>1, <1>2, <3>1, <3>2 DEF OwnerInv, JsEntries
    <2> QED BY <1>2, <2>1, <2>2 DEF JsEntries
  <1>8. JsAsked'
    BY <1>1, <1>2, <1>3 DEF OwnerInv, JsAsked
  <1>9. SilentInv'
    <2>1. ASSUME NEW e \in Events, NEW k \in e[2]
          PROVE  e[1] \in cleared \/ k \in asked'[sub[e[1]]] \/ <<e[1], k>> \in excused'
      BY <1>1, <1>3 DEF FlowTyped, SilentInv, InTransit
    <2>2. \A h \in held : /\ sub[h[1]].who # "js"
                          /\ h[1] \in ndk' \cup native' \/ \A k \in Keys : <<h[1], k>> \in excused'
      BY DEF SilentInv, InTransit
    <2> QED BY <1>1, <1>2, <2>1, <2>2 DEF SilentInv, SilentAfterOff, InTransit
  <1>10. OwedInv'
    <2>1. \A p : Alive(p) /\ ~Alive(p)' => p \in (ndk \ ndk') \cup (native \ native')
      BY <1>2 DEF Alive
    <2>2. Free \/ UNCHANGED dataObserversMap
      BY DEF base
    <2> QED BY <1>2, <2>1, <2>2, OwedWithdrawn
  <1> QED BY <1>3, <1>4, <1>5, <1>6, <1>7, <1>8, <1>9, <1>10 DEF OwnerInv

\* OH_Preferences_UnregisterDataObserver (oh_preferences.cpp:698-721): the objects the loop
\* does not reach are excused.
LEMMA NdkUnregisterDataKeeps ==
    ASSUME Inv, NEW f \in NdkObservers, NEW keys \in SUBSET Keys, NdkUnregisterDataObserver(f, keys)
    PROVE  Inv'
  <1> USE DEF Inv, TypeInv
  <1> DEFINE s == NdkSub("data", f)
             match == {o \in ndk : sub[o].fn = f}
             skipped == {o \in match : \E p \in match : o < p /\ KeysLeft(p, keys) # {}}
             os == match \ skipped
             W == IF keys = {} THEN Keys ELSE keys
  <1>1. /\ Free /\ dataObserversMap' = UnRegisterDataObserver(os, keys)
        /\ ndk' = IF keys = {} THEN ndk \ match ELSE ndk
        /\ Withdraw({s}, W)
        /\ excused' = excused \cup skipped \X W
        /\ UNCHANGED <<sub, localObservers, multiProcessObservers, js, native, walk, wire, held,
                       uvQueue, faults, unwanted>>
    BY DEF NdkUnregisterDataObserver
  <1>2. /\ skipped \subseteq match /\ os \subseteq match /\ match \subseteq ndk
        /\ \A p \in match : p \in os \/ p \in skipped
        /\ keys = {} => W = Keys
    OBVIOUS
  <1>3. /\ s \in Subs /\ s.who = "ndk" /\ s.mode = "data"
        /\ \A p \in ndk : /\ p \in Objects /\ sub[p] \in Subs /\ sub[p].who = "ndk"
                          /\ sub[p] = s <=> p \in match
    BY SubsMade, SubsFields, ElementOfSeq DEF OwnersTyped, ListsTyped, Objects
  <1>4. /\ DOMAIN dataObserversMap' \subseteq DOMAIN dataObserversMap
        /\ dataObserversMap' \in [DOMAIN dataObserversMap' -> SUBSET Keys]
        /\ \A p \in DOMAIN dataObserversMap \ os :
              p \in DOMAIN dataObserversMap' /\ dataObserversMap'[p] = dataObserversMap[p]
        /\ \A p \in DOMAIN dataObserversMap \cap os :
              /\ KeysLeft(p, keys) # {} =>
                    p \in DOMAIN dataObserversMap' /\ dataObserversMap'[p] = KeysLeft(p, keys)
              /\ KeysLeft(p, keys) = {} => p \notin DOMAIN dataObserversMap'
    BY <1>1, DataEntries DEF ListsTyped
  <1>5. \A p \in DOMAIN dataObserversMap : KeysLeft(p, keys) = dataObserversMap[p] \ W
    BY KeysLeftAre
  <1>6. \A t \in Subs : asked'[t] = IF t = s THEN asked[t] \ W ELSE asked[t]
    BY <1>1 DEF Withdraw
  <1> HIDE DEF s, match, skipped, os, W
  <1>7. ListsTyped'
    BY <1>1, <1>4 DEF ListsTyped, Objects
  <1>8. NdkEntries'
    <2>1. ASSUME NEW p \in ndk' \cap DOMAIN dataObserversMap', NEW k \in dataObserversMap'[p]
          PROVE  k \in asked'[sub[p]] \/ <<p, k>> \in excused'
      <3>1. p \in ndk /\ p \in DOMAIN dataObserversMap
        BY <1>1, <1>4
      <3>2. CASE p \in os
        <4>1. k \in dataObserversMap[p] /\ k \notin W
          BY <1>4, <1>5, <2>1, <3>1, <3>2
        <4> QED BY <1>1, <1>3, <1>6, <3>1, <4>1 DEF OwnerInv, NdkEntries
      <3>3. CASE p \notin os
        <4>1. k \in dataObserversMap[p]
          BY <1>4, <2>1, <3>1, <3>3
        <4>2. k \in asked[sub[p]] \/ <<p, k>> \in excused
          BY <3>1, <4>1 DEF OwnerInv, NdkEntries
        <4>3. sub[p] = s => p \in skipped
          BY <1>2, <1>3, <3>1, <3>3
        <4> QED BY <1>1, <1>3, <1>6, <3>1, <4>2, <4>3
      <3> QED BY <3>2, <3>3
    <2>2. ASSUME NEW t \in Subs, NEW k \in asked'[t], t.who = "ndk", t.mode = "data"
          PROVE  \E p \in ndk' \cap DOMAIN dataObserversMap' : sub[p] = t /\ k \in dataObserversMap'[p]
      <3>1. k \in asked[t] /\ (t = s => k \notin W)
        BY <1>6, <2>2
      <3>2. PICK p \in ndk \cap DOMAIN dataObserversMap : sub[p] = t /\ k \in dataObserversMap[p]
        BY <2>2, <3>1 DEF OwnerInv, NdkEntries
      <3>3. CASE t = s
        <4>1. k \in Keys
          BY <3>1 DEF HistoryTyped
        <4>2. ndk' = ndk
          BY <1>1, <1>2, <3>1, <3>3, <4>1
        <4>3. k \in KeysLeft(p, keys)
          BY <1>5, <3>1, <3>2, <3>3
        <4> QED BY <1>4, <3>2, <4>2, <4>3
      <3>4. CASE t # s
        <4>1. p \notin match /\ p \notin os
          BY <1>2, <1>3, <3>2, <3>4
        <4> QED BY <1>1, <1>4, <3>2, <4>1
      <3> QED BY <3>3, <3>4
    <2> QED BY <1>1, <2>1, <2>2 DEF NdkEntries
  <1>9. NativeEntries'
    <2>1. \A t \in Subs : t.who = "native" => asked'[t] = asked[t]
      BY <1>3, <1>6
    <2>2. \A p \in native : asked'[sub[p]] = asked[sub[p]]
      BY <2>1, ElementOfSeq DEF OwnersTyped, ListsTyped, Objects
    <2> QED BY <1>1, <2>1, <2>2 DEF OwnerInv, NativeEntries, List
  <1>10. ASSUME NEW e \in wire, e[1] \in native
         PROVE  e[2] \in asked'[sub[e[1]]] \/ e \in excused'
    <2>1. sub[e[1]] \in Subs /\ sub[e[1]] # s
      BY <1>3, <1>10, ElementOfSeq DEF OwnersTyped, ListsTyped, Objects
    <2> QED BY <1>1, <1>6, <1>10, <2>1 DEF SilentInv, InTransit
  <1>11. \A p \in proxy["data"] :
            p \in DOMAIN dataObserversMap' /\ dataObserversMap'[p] = dataObserversMap[p]
    <2>1. ASSUME NEW p \in proxy["data"] PROVE p \notin os /\ p \in DOMAIN dataObserversMap
      <3>1. sub[p].who = "js" /\ p \in DOMAIN dataObserversMap
        BY DEF OwnersTyped, Modes, OwnerInv, JsEntries
      <3> QED BY <1>2, <1>3, <3>1
    <2> QED BY <1>4, <2>1
  <1>13. NativeKeys'
    <2>1. ASSUME NEW p \in native, sub[p].mode = "data"
          PROVE  /\ asked'[sub[p]] = asked[sub[p]]
                 /\ p \in DOMAIN dataObserversMap' <=> p \in DOMAIN dataObserversMap
                 /\ p \in DOMAIN dataObserversMap => dataObserversMap'[p] = dataObserversMap[p]
      <3>1. sub[p] \in Subs /\ sub[p] # s /\ sub[p].who = "native"
        BY <1>3, ElementOfSeq DEF OwnersTyped, ListsTyped, Objects
      <3>2. p \notin os
        BY <1>2, <1>3, <3>1
      <3> QED BY <1>4, <1>6, <3>1, <3>2
    <2>2. \A t \in Subs : t.who = "native" => asked'[t] = asked[t]
      BY <1>3, <1>6
    <2> QED BY <1>1, <2>1, <2>2 DEF OwnerInv, NativeKeys
  <1>14. \A h \in held : h[1] \notin ndk
    BY <1>1, <1>3 DEF HeldTyped, FlowTyped, OwnersTyped, Free, NoNotify
  <1>12. /\ ndk' \subseteq ndk /\ native' = native /\ excused \subseteq excused'
         /\ localObservers' = localObservers /\ multiProcessObservers' = multiProcessObservers
         /\ \A p \in ndk \ ndk' : sub[p] = s /\ W = Keys
    BY <1>1, <1>2, <1>3
  <1> QED BY <1>1, <1>3, <1>7, <1>8, <1>9, <1>10, <1>11, <1>12, <1>13, <1>14, OthersOffKeeps

\* The unregistration of a multi-process observer (oh_preferences.cpp:723-732), and
\* OH_Preferences_Close (oh_preferences.cpp:155-178).
LEMMA NdkOffKeeps ==
    ASSUME Inv, NdkClose \/ \E f \in NdkObservers : NdkUnregisterMultiProcessDataObserver(f)
    PROVE  Inv'
  <1> USE DEF Inv, TypeInv
  <1>1. \A p \in native : sub[p] \in Subs /\ sub[p].who = "native"
    BY ElementOfSeq DEF OwnersTyped, ListsTyped, Objects
  <1>2. \A p \in ndk : p \in Objects /\ sub[p] \in Subs /\ sub[p].who = "ndk" /\ sub[p].mode = "data"
    BY ElementOfSeq DEF OwnersTyped, ListsTyped, Objects
  <1>3. \A p \in proxy["data"] : p \in DOMAIN dataObserversMap
    BY DEF OwnerInv, JsEntries
  <1>4. CASE NdkClose
    <2> DEFINE S == {s \in Subs : s.who = "ndk" /\ s.mode = "data"}
    <2>1. /\ ndk' = {} /\ Withdraw(S, Keys)
          /\ excused' = excused \cup {e \in ndk \X Keys : Held(e[1])}
          /\ UNCHANGED <<sub, base, js, native, walk, wire, held, uvQueue, faults, unwanted>>
      BY <1>4 DEF NdkClose
    <2>2. \A t \in Subs : asked'[t] = IF t \in S THEN {} ELSE asked[t]
      BY <2>1 DEF Withdraw, HistoryTyped
    <2>3. ListsTyped'
      BY <2>1 DEF ListsTyped, Objects, base
    <2>4. NdkEntries'
      BY <2>1, <2>2 DEF NdkEntries
    <2>5. NativeEntries'
      BY <1>1, <2>1, <2>2 DEF OwnerInv, NativeEntries, List, base
    <2>6. \A e \in wire : e[1] \in native' => e[2] \in asked'[sub[e[1]]] \/ e \in excused'
      BY <1>1, <2>1, <2>2 DEF SilentInv, InTransit
    <2>7. \A p \in ndk : sub[p] \in S
      BY <1>2
    <2>8. \A s \in S : s.who # "js"
      OBVIOUS
    <2>9. UNCHANGED <<localObservers, multiProcessObservers, dataObserversMap>>
      BY <2>1 DEF base
    <2>10. NativeKeys'
      BY <1>1, <2>1, <2>2, <2>9 DEF OwnerInv, NativeKeys
    <2>11. \A h \in held : h[1] \in ndk => \A k \in Keys : <<h[1], k>> \in excused'
      BY <2>1 DEF Held
    <2>12. excused \subseteq excused'
      BY <2>1
    <2> HIDE DEF S
    <2> QED BY <1>3, <2>1, <2>3, <2>4, <2>5, <2>6, <2>7, <2>8, <2>9, <2>10, <2>11, <2>12, OthersOffKeeps
  <1>5. ASSUME NEW f \in NdkObservers, NdkUnregisterMultiProcessDataObserver(f)
        PROVE  Inv'
    <2> DEFINE s == NdkSub("multi", f)
    <2>1. /\ Free /\ Withdraw({s}, Keys)
          /\ multiProcessObservers' = UnRegisterObserver(multiProcessObservers, Fresh)
          /\ UNCHANGED <<sub, localObservers, dataObserversMap, js, ndk, native, walk, wire, held,
                         uvQueue, faults, unwanted, excused>>
      BY <1>5 DEF NdkUnregisterMultiProcessDataObserver
    <2>2. s \in Subs /\ s.who = "ndk" /\ s.mode = "multi"
      BY SubsMade
    <2>3. /\ multiProcessObservers' \subseteq multiProcessObservers
          /\ \A p \in Objects : Strong(p) /\ p \in multiProcessObservers => p \in multiProcessObservers'
      <3>1. Fresh \notin Objects
        BY LenProperties DEF Fresh, Objects, ListsTyped
      <3> QED BY <2>1, <3>1, EntryIsDeadOrOwn
    <2>4. \A t \in Subs : asked'[t] = IF t = s THEN {} ELSE asked[t]
      BY <2>1 DEF Withdraw, HistoryTyped
    <2> HIDE DEF s
    <2>5. ListsTyped'
      BY <2>1, <2>3 DEF ListsTyped, Objects
    <2>6. NdkEntries'
      BY <1>2, <2>1, <2>2, <2>4 DEF OwnerInv, NdkEntries
    <2>7. NativeEntries'
      <3>1. \A t \in Subs : t.who = "native" => asked'[t] = asked[t]
        BY <2>2, <2>4
      <3>2. \A p \in native : p \in Objects /\ Strong(p) /\ asked'[sub[p]] = asked[sub[p]]
        BY <1>1, <3>1 DEF OwnersTyped, Strong
      <3> QED BY <2>1, <2>3, <3>1, <3>2 DEF OwnerInv, NativeEntries, List
    <2>8. \A e \in wire : e[1] \in native' => e[2] \in asked'[sub[e[1]]] \/ e \in excused'
      BY <1>1, <2>1, <2>2, <2>4 DEF SilentInv, InTransit
    <2>9. NativeKeys'
      BY <1>1, <2>1, <2>2, <2>4 DEF OwnerInv, NativeKeys
    <2> QED BY <1>3, <2>1, <2>2, <2>3, <2>5, <2>6, <2>7, <2>8, <2>9, OthersOffKeeps
  <1> QED BY <1>4, <1>5

\* A caller of the inner API withdraws its observer, or lets it go.
LEMMA NativeOffKeeps ==
    ASSUME Inv, NEW o \in native, Unsubscribe(o) \/ Release(o)
    PROVE  Inv'
  <1> USE DEF Inv, TypeInv
  <1>1. /\ \A p \in native : /\ p \in Objects /\ sub[p] \in Subs /\ sub[p].who = "native"
                             /\ sub[p].mode \in Modes
                             /\ sub[p].mode = sub[o].mode => p = o
        /\ \A p \in ndk : sub[p] \in Subs /\ sub[p].who = "ndk"
        /\ \A p \in proxy["data"] : p \in DOMAIN dataObserversMap
    BY ElementOfSeq, SubsFields DEF OwnersTyped, ListsTyped, Objects, OwnerInv, JsEntries
  <1>2. /\ Withdraw({sub[o]}, Keys)
        /\ UNCHANGED <<sub, dataObserversMap, js, ndk, walk, wire, held, uvQueue, faults, unwanted>>
    BY DEF Unsubscribe, Release, base
  <1>3. \A t \in Subs : asked'[t] = IF t = sub[o] THEN {} ELSE asked[t]
    BY <1>2 DEF Withdraw, HistoryTyped
  <1>4. NdkEntries' \/ ~(excused \subseteq excused')
    BY <1>1, <1>2, <1>3 DEF OwnerInv, NdkEntries
  <1>5. CASE Unsubscribe(o)
    <2> DEFINE list == IF sub[o].mode = "local" THEN localObservers ELSE multiProcessObservers
    <2>1. /\ Free /\ TakeEntry(sub[o].mode, o) /\ native' = native
          /\ sub[o].mode \in {"local", "multi"}
          /\ excused' = excused \cup
                {e \in {o} \X Keys : e \in wire \/ (o \in list /\ o \notin Entry(list, o))}
      BY <1>1, <1>5 DEF Unsubscribe, Modes
    <2>2. /\ localObservers' \subseteq localObservers
          /\ multiProcessObservers' \subseteq multiProcessObservers
          /\ \A p : Strong(p) /\ p # o =>
                /\ p \in localObservers => p \in localObservers'
                /\ p \in multiProcessObservers => p \in multiProcessObservers'
      BY <2>1, TakeEntryIsSafe
    <2>3. o \in List(sub[o].mode)' => o \in list /\ o \notin Entry(list, o)
      BY <1>1, <1>2, <2>1 DEF TakeEntry, UnRegisterObserver, List
    <2>4. excused \subseteq excused'
      BY <2>1
    <2>5. ListsTyped'
      BY <1>2, <2>2 DEF ListsTyped, Objects
    <2>6. NativeEntries'
      <3>1. ASSUME NEW p \in native, p \in List(sub[p].mode)'
            PROVE  asked'[sub[p]] = Keys \/ \A k \in Keys : <<p, k>> \in excused'
        <4>1. CASE p = o
          BY <2>1, <2>3, <3>1, <4>1
        <4>2. CASE p # o
          <5>1. sub[p] # sub[o] /\ p \in List(sub[p].mode)
            BY <1>1, <1>2, <2>2, <3>1, <4>2 DEF List
          <5> QED BY <1>1, <1>3, <2>4, <5>1 DEF OwnerInv, NativeEntries
        <4> QED BY <4>1, <4>2
      <3>2. ASSUME NEW t \in Subs, t.who = "native", t.mode # "data", asked'[t] # {}
            PROVE  \E p \in native : sub[p] = t /\ p \in List(t.mode)'
        <4>1. t # sub[o] /\ asked[t] # {}
          BY <1>3, <3>2
        <4>2. PICK p \in native : sub[p] = t /\ p \in List(t.mode)
          BY <3>2, <4>1 DEF OwnerInv, NativeEntries
        <4> QED BY <2>2, <4>1, <4>2, OwnersAreStrong DEF List
      <3> QED BY <1>2, <2>1, <3>1, <3>2 DEF NativeEntries
    <2>7. ASSUME NEW e \in wire, e[1] \in native'
          PROVE  e[2] \in asked'[sub[e[1]]] \/ e \in excused'
      <3>1. CASE e[1] = o
        BY <2>1, <3>1 DEF FlowTyped
      <3>2. CASE e[1] # o
        BY <1>1, <1>3, <2>1, <2>4, <2>7, <3>2 DEF SilentInv, InTransit
      <3> QED BY <3>1, <3>2
    <2>8. \A p \in Objects : sub[p].who = "js" => p # o
      BY <1>1
    <2>9. \A s \in {sub[o]} : s.who # "js"
      BY <1>1
    <2>10. NativeKeys'
      <3>1. \A t \in Subs : t.mode = "data" => asked'[t] = asked[t]
        BY <1>3, <2>1
      <3> QED BY <1>1, <1>2, <2>1, <3>1 DEF OwnerInv, NativeKeys
    <2> QED BY <1>1, <1>2, <1>4, <2>1, <2>2, <2>4, <2>5, <2>6, <2>7, <2>8, <2>9, <2>10,
               OthersOffKeeps
  <1>6. CASE Release(o)
    <2>1. /\ native' = native \ {o} /\ UNCHANGED base
          /\ excused' = excused \cup {e \in {o} \X Keys : Held(o)}
      BY <1>6 DEF Release
    <2>2. ListsTyped'
      BY <1>2, <2>1 DEF ListsTyped, Objects, base
    <2>3. NativeEntries'
      <3>1. \A p \in native \ {o} : asked'[sub[p]] = asked[sub[p]]
        BY <1>1, <1>3
      <3>2. UNCHANGED <<localObservers, multiProcessObservers>>
        BY <2>1 DEF base
      <3>3. \A t \in Subs : asked'[t] # {} => t # sub[o] /\ asked[t] # {}
        BY <1>3
      <3> QED BY <1>2, <2>1, <3>1, <3>2, <3>3 DEF OwnerInv, NativeEntries, List
    <2>4. \A e \in wire : e[1] \in native' => e[2] \in asked'[sub[e[1]]] \/ e \in excused'
      BY <1>1, <1>3, <2>1 DEF SilentInv, InTransit
    <2>5. \A s \in {sub[o]} : s.who # "js"
      BY <1>1
    <2>6. UNCHANGED <<localObservers, multiProcessObservers>>
      BY <2>1 DEF base
    <2>7. NativeKeys'
      <3>1. \A p \in native \ {o} : asked'[sub[p]] = asked[sub[p]]
        BY <1>1, <1>3
      <3>2. \A t \in Subs : asked'[t] # {} => t # sub[o] /\ asked[t] # {}
        BY <1>3
      <3> QED BY <1>2, <2>1, <3>1, <3>2 DEF OwnerInv, NativeKeys
    <2>8. \A h \in held : h[1] = o => \A k \in Keys : <<h[1], k>> \in excused'
      BY <2>1 DEF Held
    <2>9. excused \subseteq excused' /\ native \ native' \subseteq {o}
      BY <2>1
    <2> QED BY <1>1, <1>2, <1>4, <2>1, <2>2, <2>3, <2>4, <2>5, <2>6, <2>7, <2>8, <2>9,
               OthersOffKeeps
  <1> QED BY <1>5, <1>6

\* A caller of the inner API adds keys (preferences_base.cpp:248-262).
LEMMA SubscribeMoreKeeps ==
    ASSUME Inv, NEW o \in native, NEW keys \in SUBSET Keys, SubscribeMore(o, keys)
    PROVE  Inv'
  <1> USE DEF Inv, TypeInv
  <1>1. /\ Free /\ sub[o].mode = "data" /\ Ask(sub[o], keys)
        /\ dataObserversMap' = RegisterDataObserver(o, keys)
        /\ UNCHANGED <<sub, localObservers, multiProcessObservers, js, ndk, native, walk, wire, held,
                       uvQueue, faults, owed, dropped, ignored, unwanted, excused>>
    BY DEF SubscribeMore
  <1>2. /\ DOMAIN dataObserversMap' = DOMAIN dataObserversMap \cup {o}
        /\ dataObserversMap' \in [DOMAIN dataObserversMap' -> SUBSET Keys]
        /\ \A p \in DOMAIN dataObserversMap : p # o => dataObserversMap'[p] = dataObserversMap[p]
        /\ o \notin DOMAIN dataObserversMap => dataObserversMap'[o] = keys
        /\ o \in DOMAIN dataObserversMap =>
              dataObserversMap'[o] = dataObserversMap[o] \cup keys
    BY <1>1, DataAdded DEF ListsTyped
  <1>3. UNCHANGED <<proxy, cleared, leaving, notify, announce, changes>>
        /\ Objects' = Objects /\ Events' = Events
    BY <1>1, SameObjects DEF js, walk, Events
  <1>4. /\ \A p \in native : /\ p \in Objects /\ sub[p] \in Subs /\ sub[p].who = "native"
                             /\ sub[p].mode = sub[o].mode => p = o
        /\ \A p \in ndk : sub[p] \in Subs /\ sub[p].who = "ndk"
        /\ \A m \in Modes : \A p \in proxy[m] : sub[p] \in Subs /\ sub[p].who = "js"
    BY ElementOfSeq DEF OwnersTyped, ListsTyped, Objects
  <1>5. /\ \A t \in Subs : asked'[t] = IF t = sub[o] THEN asked[t] \cup keys ELSE asked[t]
        /\ HistoryTyped'
    BY <1>1, <1>4 DEF Ask, HistoryTyped
  <1>6. ListsTyped' /\ OwnersTyped' /\ LoopTyped'
    <2>1. ListsTyped'
      BY <1>1, <1>2, <1>3, <1>4 DEF ListsTyped
    <2> QED BY <1>1, <1>3, <2>1 DEF OwnersTyped, LoopTyped
  <1>7. FlowTyped' /\ HeldTyped'
    <2>1. notify.data = {} /\ notify.local = {}
      BY <1>1 DEF Free, NoNotify
    <2> QED BY <1>1, <1>3, <2>1 DEF FlowTyped, HeldTyped
  <1>8. JsCleared' /\ JsEntries' /\ JsAsked'
    <2>1. \A t \in Subs : t.who = "js" => asked'[t] = asked[t]
      BY <1>4, <1>5
    <2>2. JsCleared' /\ JsAsked'
      BY <1>1, <1>3, <2>1 DEF OwnerInv, JsCleared, JsAsked, Ignored
    <2>3. \A p \in proxy["data"] : p # o
      BY <1>4 DEF Modes
    <2>4. \A p \in proxy["data"] : /\ p \in DOMAIN dataObserversMap
                                  /\ dataObserversMap'[p] = dataObserversMap[p]
                                  /\ asked'[sub[p]] = asked[sub[p]]
      BY <1>2, <1>4, <2>1, <2>3 DEF OwnerInv, JsEntries, Modes
    <2>5. \A m \in {"local", "multi"} : \A p \in proxy[m] : asked'[sub[p]] = asked[sub[p]]
      BY <1>4, <2>1 DEF Modes
    <2>6. JsEntries'
      BY <1>1, <1>2, <1>3, <2>4, <2>5 DEF OwnerInv, JsEntries, List, Ignored
    <2> QED BY <2>2, <2>6
  <1>9. NdkEntries'
    <2>1. /\ \A t \in Subs : t.who = "ndk" => asked'[t] = asked[t]
          /\ o \notin ndk
      BY <1>4, <1>5
    <2>2. \A p \in ndk : /\ p \in DOMAIN dataObserversMap' <=> p \in DOMAIN dataObserversMap
                         /\ p \in DOMAIN dataObserversMap => dataObserversMap'[p] = dataObserversMap[p]
                         /\ asked'[sub[p]] = asked[sub[p]]
      BY <1>2, <1>4, <2>1
    <2>3. ASSUME NEW t \in Subs, NEW k \in asked'[t], t.who = "ndk", t.mode = "data"
          PROVE  \E p \in ndk \cap DOMAIN dataObserversMap' : sub[p] = t /\ k \in dataObserversMap'[p]
      <3>1. PICK p \in ndk \cap DOMAIN dataObserversMap : sub[p] = t /\ k \in dataObserversMap[p]
        BY <2>1, <2>3 DEF OwnerInv, NdkEntries
      <3> QED BY <2>2, <3>1
    <2>4. \A p \in ndk \cap DOMAIN dataObserversMap' : \A k \in dataObserversMap'[p] :
             k \in asked'[sub[p]] \/ <<p, k>> \in excused
      BY <2>2 DEF OwnerInv, NdkEntries
    <2> QED BY <1>1, <2>3, <2>4 DEF NdkEntries
  <1>10. NativeEntries'
    <2>1. \A p \in native : p \in List(sub[p].mode) => p # o
      BY <1>1, <1>4 DEF List, ListsTyped
    <2>2. \A t \in Subs : t.mode # "data" => asked'[t] = asked[t]
      BY <1>1, <1>5
    <2>3. \A p \in native : p # o => asked'[sub[p]] = asked[sub[p]]
      BY <1>4, <1>5
    <2> QED BY <1>1, <2>1, <2>2, <2>3 DEF OwnerInv, NativeEntries, List
  <1>11. NativeKeys'
    <2>1. ASSUME NEW p \in native, sub[p].mode = "data", NEW k \in Keys
          PROVE  k \in asked'[sub[p]] <=> p \in DOMAIN dataObserversMap' /\ k \in dataObserversMap'[p]
      <3>1. p = o /\ asked'[sub[p]] = asked[sub[p]] \cup keys
        BY <1>1, <1>4, <1>5, <2>1
      <3>2. k \in asked[sub[p]] <=> p \in DOMAIN dataObserversMap /\ k \in dataObserversMap[p]
        BY <2>1 DEF OwnerInv, NativeKeys
      <3> QED BY <1>2, <3>1, <3>2
    <2>2. ASSUME NEW t \in Subs, t.who = "native", t.mode = "data", asked'[t] # {}
          PROVE  \E p \in native : sub[p] = t
      <3>1. CASE t = sub[o]
        BY <3>1
      <3>2. CASE t # sub[o]
        BY <1>5, <2>2, <3>2 DEF OwnerInv, NativeKeys
      <3> QED BY <3>1, <3>2
    <2> QED BY <1>1, <2>1, <2>2 DEF NativeKeys
  <1>12. \A t \in Subs : asked[t] \subseteq asked'[t]
    BY <1>5
  <1>13. SilentInv'
    <2>1. \A e \in Events : sub[e[1]] \in Subs
      BY ElementOfSeq DEF FlowTyped, ListsTyped, Objects
    <2>2. \A e \in wire : sub[e[1]] \in Subs
      BY ElementOfSeq DEF FlowTyped, ListsTyped, Objects
    <2> QED BY <1>1, <1>3, <1>12, <2>1, <2>2 DEF SilentInv, SilentAfterOff, InTransit
  <1>14. OwedInv'
    <2>1. \A p : Alive(p)' <=> Alive(p)
      BY <1>1, <1>3 DEF Alive
    <2>2. \A p, k : Coming(p, k) => Coming(p, k)'
      BY <1>1, <1>3 DEF Coming, Free, NoNotify
    <2>3. \A s, k : Due(s, k) => Due(s, k)'
      BY <1>1, <1>3, <2>1, <2>2 DEF Due
    <2>4. \A e \in owed : e[1] \in Subs
      BY DEF HistoryTyped
    <2> QED BY <1>1, <1>12, <2>3, <2>4 DEF OwedInv, Mute, Ignored
  <1> QED BY <1>5, <1>6, <1>7, <1>8, <1>9, <1>10, <1>11, <1>13, <1>14 DEF OwnerInv

\* A caller of the inner API withdraws keys (preferences_base.cpp:195-221).
LEMMA UnsubscribeKeysKeeps ==
    ASSUME Inv, NEW o \in native, NEW keys \in SUBSET Keys, UnsubscribeKeys(o, keys)
    PROVE  Inv'
  <1> USE DEF Inv, TypeInv
  <1> DEFINE W == IF keys = {} THEN Keys ELSE keys
             os == {o}
  <1>1. /\ Free /\ o \in DOMAIN dataObserversMap
        /\ dataObserversMap' = UnRegisterDataObserver(os, keys)
        /\ Withdraw({sub[o]}, W)
        /\ UNCHANGED <<sub, localObservers, multiProcessObservers, js, ndk, native, walk, wire, held,
                       uvQueue, faults, unwanted, excused>>
    BY DEF UnsubscribeKeys
  <1>2. KeysLeft(o, keys) = dataObserversMap[o] \ W
    BY <1>1, KeysLeftAre
  <1>3. /\ \A p \in native : /\ p \in Objects /\ sub[p] \in Subs /\ sub[p].who = "native"
                             /\ sub[p].mode = sub[o].mode => p = o
        /\ \A p \in ndk : sub[p] \in Subs /\ sub[p].who = "ndk"
        /\ \A p \in proxy["data"] : p \in DOMAIN dataObserversMap /\ sub[p].who = "js"
        /\ sub[o].mode = "data"
    BY <1>1, ElementOfSeq DEF OwnersTyped, ListsTyped, Objects, OwnerInv, JsEntries, Modes
  <1>4. /\ DOMAIN dataObserversMap' \subseteq DOMAIN dataObserversMap
        /\ dataObserversMap' \in [DOMAIN dataObserversMap' -> SUBSET Keys]
        /\ \A p \in DOMAIN dataObserversMap \ os :
              p \in DOMAIN dataObserversMap' /\ dataObserversMap'[p] = dataObserversMap[p]
        /\ \A p \in DOMAIN dataObserversMap \cap os :
              /\ KeysLeft(p, keys) # {} =>
                    p \in DOMAIN dataObserversMap' /\ dataObserversMap'[p] = KeysLeft(p, keys)
              /\ KeysLeft(p, keys) = {} => p \notin DOMAIN dataObserversMap'
    <2> HIDE DEF W, os
    <2>1. dataObserversMap' = UnRegisterDataObserver(os, keys)
      BY <1>1
    <2> QED BY <2>1, DataEntries DEF ListsTyped
  <1>5. \A t \in Subs : asked'[t] = IF t = sub[o] THEN asked[t] \ W ELSE asked[t]
    BY <1>1 DEF Withdraw
  <1> HIDE DEF W
  <1>6. ListsTyped'
    BY <1>1, <1>4 DEF ListsTyped, Objects
  <1>7. NdkEntries'
    <2>1. \A p \in ndk \cap DOMAIN dataObserversMap :
             /\ p \in DOMAIN dataObserversMap' /\ dataObserversMap'[p] = dataObserversMap[p]
             /\ asked'[sub[p]] = asked[sub[p]]
      BY <1>3, <1>4, <1>5
    <2>2. \A t \in Subs : t.who = "ndk" => asked'[t] = asked[t]
      BY <1>3, <1>5
    <2>3. \A p \in DOMAIN dataObserversMap' : p \in DOMAIN dataObserversMap
      BY <1>4
    <2>4. \A p \in ndk \cap DOMAIN dataObserversMap' : \A k \in dataObserversMap'[p] :
             k \in asked'[sub[p]] \/ <<p, k>> \in excused
      BY <2>1, <2>3 DEF OwnerInv, NdkEntries
    <2>5. ASSUME NEW t \in Subs, NEW k \in asked'[t], t.who = "ndk", t.mode = "data"
          PROVE  \E p \in ndk \cap DOMAIN dataObserversMap' : sub[p] = t /\ k \in dataObserversMap'[p]
      <3>1. PICK p \in ndk \cap DOMAIN dataObserversMap : sub[p] = t /\ k \in dataObserversMap[p]
        BY <2>2, <2>5 DEF OwnerInv, NdkEntries
      <3> QED BY <2>1, <3>1
    <2> QED BY <1>1, <2>4, <2>5 DEF NdkEntries
  <1>8. NativeEntries'
    <2>1. \A p \in native : p \in List(sub[p].mode) => p # o
      BY <1>3 DEF List, ListsTyped
    <2>2. \A t \in Subs : t.mode # "data" => asked'[t] = asked[t]
      BY <1>3, <1>5
    <2>3. \A p \in native : p # o => asked'[sub[p]] = asked[sub[p]]
      BY <1>3, <1>5
    <2> QED BY <1>1, <2>1, <2>2, <2>3 DEF OwnerInv, NativeEntries, List
  <1>9. NativeKeys'
    <2>1. ASSUME NEW p \in native, sub[p].mode = "data", NEW k \in Keys
          PROVE  k \in asked'[sub[p]] <=> p \in DOMAIN dataObserversMap' /\ k \in dataObserversMap'[p]
      <3>1. p = o /\ asked'[sub[p]] = asked[sub[p]] \ W
        BY <1>3, <1>5, <2>1
      <3>2. k \in asked[sub[p]] <=> k \in dataObserversMap[p]
        BY <1>1, <2>1, <3>1 DEF OwnerInv, NativeKeys
      <3>3. o \in DOMAIN dataObserversMap' /\ k \in dataObserversMap'[o] <=> k \in KeysLeft(o, keys)
        BY <1>1, <1>4
      <3> QED BY <1>2, <3>1, <3>2, <3>3
    <2>2. \A t \in Subs : asked'[t] # {} => asked[t] # {}
      BY <1>5
    <2> QED BY <1>1, <2>1, <2>2 DEF OwnerInv, NativeKeys
  <1>10. \A e \in wire : e[1] \in native => e[2] \in asked'[sub[e[1]]] \/ e \in excused
    <2>1. \A e \in wire : e[1] # o
      BY <1>3 DEF FlowTyped
    <2> QED BY <1>3, <1>5, <2>1 DEF SilentInv, InTransit
  <1>11. /\ \A p \in proxy["data"] :
                p \in DOMAIN dataObserversMap' /\ dataObserversMap'[p] = dataObserversMap[p]
         /\ \A s \in {sub[o]} : s.who # "js"
    BY <1>3, <1>4
  <1>12. /\ ndk' = ndk /\ native' = native /\ excused' = excused
         /\ localObservers' = localObservers /\ multiProcessObservers' = multiProcessObservers
    BY <1>1
  <1> DEFINE S == {sub[o]}
  <1>13. Withdraw(S, W) /\ \A s \in S : s.who # "js"
    BY <1>1, <1>11
  <1> HIDE DEF S
  <1>14. Free /\ UNCHANGED <<sub, js, walk, wire, held, uvQueue, faults, unwanted>>
    BY <1>1
  <1> QED BY <1>6, <1>7, <1>8, <1>9, <1>10, <1>11, <1>12, <1>13, <1>14, OthersOffKeeps
-----------------------------------------------------------------------------
(* The theorems. *)

\* A new instance has no observers.
LEMMA InitInv == Init => Inv
  <1> SUFFICES ASSUME Init PROVE Inv
    OBVIOUS
  <1>1. Objects = {} /\ Events = {} /\ sub \in Seq(Subs) /\ Len(sub) = 0
    BY EmptySeq DEF Init, Objects, Events
  <1>2. ListsTyped /\ OwnersTyped /\ LoopTyped
    BY <1>1, BoundsAssumption DEF Init, ListsTyped, OwnersTyped, LoopTyped, NoLoop, Modes
  <1>3. FlowTyped /\ HeldTyped /\ HistoryTyped
    <2>1. uvQueue \in Seq(Nat \X SUBSET Keys)
      BY EmptySeq DEF Init
    <2> QED BY <1>1, <2>1, BoundsAssumption DEF Init, FlowTyped, HeldTyped, HistoryTyped, NoNotify
  <1>4. OwnerInv
    BY <1>1 DEF Init, OwnerInv, JsCleared, JsEntries, JsAsked, NdkEntries, NativeEntries,
                NativeKeys, Modes, NoLoop, List
  <1>5. SilentInv /\ OwedInv
    BY <1>1 DEF Init, SilentInv, SilentAfterOff, InTransit, OwedInv
  <1> QED BY <1>2, <1>3, <1>4, <1>5 DEF Inv, TypeInv

\* Every call, notification and event keeps the invariant.
LEMMA NextInv == Inv /\ [Next]_vars => Inv'
  <1> SUFFICES ASSUME Inv, [Next]_vars PROVE Inv'
    OBVIOUS
  <1>1. CASE JsCall
    BY <1>1, RegistrationKeeps, RegisteredAlreadyKeeps, UnRegisteredObserverKeeps, LoopKeeps,
       LoopTurnKeeps, DataTurnKeeps
       DEF JsCall, LoopStart
  <1>2. CASE NdkCall
    BY <1>2, RegistrationKeeps, NdkUnregisterDataKeeps, NdkOffKeeps DEF NdkCall
  <1>3. CASE NativeCall
    BY <1>3, RegistrationKeeps, SubscribeMoreKeeps, UnsubscribeKeysKeeps, NativeOffKeeps
       DEF NativeCall
  <1>4. CASE Notify
    <2>1. ASSUME NEW o \in notify.data, Lock(o, Records(o)) PROVE Inv'
      <3>1. o \in Objects /\ Records(o) \in SUBSET Keys
        BY DEF Inv, TypeInv, FlowTyped, ListsTyped, Records
      <3> QED BY <2>1, <3>1, LockKeeps
    <2>2. ASSUME NEW e \in notify.local \cup wire, Lock(e[1], {e[2]}) PROVE Inv'
      <3>1. e[1] \in Objects /\ {e[2]} \in SUBSET Keys
        BY DEF Inv, TypeInv, FlowTyped
      <3> QED BY <2>2, <3>1, LockKeeps
    <2> QED BY <1>4, <2>1, <2>2, StartNotifyKeeps, NotifyDataKeeps, NotifyLocalKeeps,
               PassingOnKeeps, NotifyChangeKeeps, OnChangePreferencesKeeps
            DEF Notify
  <1>5. CASE ServiceRefuses
    BY <1>5, PassingOnKeeps
  <1>6. CASE RunEvent
    BY <1>6, RunEventKeeps
  <1>7. CASE UNCHANGED vars
    <2>1. UNCHANGED <<sub, base, js, ndk, native, walk, wire, held, uvQueue, faults, history>>
      BY <1>7 DEF vars
    <2>2. /\ ListsTyped' /\ OwnersTyped' /\ LoopTyped' /\ Objects' = Objects /\ OwnerInv'
          /\ \A o : Alive(o)' <=> Alive(o)
          /\ \A s, k : Ignored(s, k)' <=> Ignored(s, k)
      BY <2>1, SameOwners DEF history
    <2>3. Events' = Events
      BY <2>1 DEF Events
    <2>4. FlowTyped' /\ HeldTyped' /\ HistoryTyped' /\ SilentInv'
      BY <2>1, <2>2, <2>3
         DEF Inv, TypeInv, FlowTyped, HeldTyped, Records, HistoryTyped, SilentInv, SilentAfterOff, InTransit,
             base, js, walk, history
    <2>5. \A s, k : Due(s, k) => Due(s, k)'
      BY <2>1, <2>2, <2>3 DEF Due, Coming, base, walk
    <2>6. OwedInv'
      BY <2>1, <2>2, <2>5 DEF Inv, OwedInv, history, Mute
    <2> QED BY <2>2, <2>4, <2>6 DEF Inv, TypeInv
  <1> QED BY <1>1, <1>2, <1>3, <1>4, <1>5, <1>6, <1>7 DEF Next

\* The invariant holds for every behaviour of the calls, notifications and events.
LEMMA InvHolds == Spec => []Inv
  BY InitInv, NextInv, PTL DEF Spec

\* Type correctness: the three lists of PreferencesBase hold objects of their mode, every owner
\* its own, and a proxy has one observer per callback and mode (preferences_base.cpp:164-302,
\* napi_preferences.cpp:478-543).
THEOREM TypeCorrect == Spec => []TypeOK
  <1>1. Inv => TypeOK
    BY DEF Inv, TypeInv, ListsTyped, OwnersTyped, LoopTyped, FlowTyped, TypeOK
  <1> QED BY <1>1, InvHolds, PTL

\* Nobody else's off, release, close or failed call takes away a subscription: whoever has
\* asked for a key and not withdrawn it has a live observer with an entry for it, the
\* multi-process observers of the NDK (Mute) and the keys of a second on with the same callback
\* (ignored) left out (preferences_base.cpp:269-302, napi_preferences.cpp:571-596).
THEOREM AskedIsRegisteredHolds == Spec => []AskedIsRegistered
  <1>1. ASSUME Inv PROVE AskedIsRegistered
    <2> USE <1>1 DEF Inv, TypeInv
    <2>1. SUFFICES ASSUME NEW s \in Subs, NEW k \in asked[s], ~Mute(s), ~Ignored(s, k)
                   PROVE  \E o \in Objects : /\ sub[o] = s /\ Strong(o) /\ o \notin cleared
                                              /\ Registered(o, k)
      BY DEF AskedIsRegistered, Ignored
    <2>2. CASE s.who = "js"
      <3>1. s.mode \in Modes
        BY <2>2, SubsFields DEF Modes
      <3>2. PICK o \in proxy[s.mode] \ cleared : sub[o] = s
        BY <2>1, <2>2 DEF OwnerInv, JsAsked
      <3>3. o \in Objects /\ Strong(o)
        BY <3>1, <3>2 DEF OwnersTyped, Strong
      <3>4. Registered(o, k)
        <4>1. CASE s.mode = "data"
          BY <2>1, <3>2, <4>1 DEF Registered, OwnerInv, JsEntries
        <4>2. CASE s.mode # "data"
          BY <3>1, <3>2, <4>2 DEF Registered, OwnerInv, JsEntries, List, Modes
        <4> QED BY <4>1, <4>2
      <3> QED BY <3>2, <3>3, <3>4
    <2>3. CASE s.who = "ndk"
      <3>1. s.mode = "data"
        BY <2>1, <2>3, SubsFields DEF Mute
      <3>2. PICK o \in ndk \cap DOMAIN dataObserversMap : sub[o] = s /\ k \in dataObserversMap[o]
        BY <2>1, <2>3, <3>1 DEF OwnerInv, NdkEntries
      <3> QED BY <2>3, <3>2 DEF OwnersTyped, Strong, Registered
    <2>5. CASE s.who = "native" /\ s.mode = "data"
      <3>1. PICK o \in native : sub[o] = s
        BY <2>1, <2>5 DEF OwnerInv, NativeKeys
      <3>2. k \in Keys
        BY <2>1 DEF HistoryTyped
      <3>3. o \in DOMAIN dataObserversMap /\ k \in dataObserversMap[o]
        BY <2>1, <2>5, <3>1, <3>2 DEF OwnerInv, NativeKeys
      <3>4. o \in Objects /\ o \notin cleared /\ Strong(o)
        BY <2>5, <3>1 DEF OwnersTyped, Strong
      <3> QED BY <3>1, <3>3, <3>4 DEF Registered
    <2>4. CASE s.who = "native" /\ s.mode # "data"
      <3>1. PICK o \in native : sub[o] = s /\ o \in List(s.mode)
        BY <2>1, <2>4 DEF OwnerInv, NativeEntries
      <3> QED BY <2>4, <3>1 DEF OwnersTyped, Strong, Registered, List
    <2> QED BY <2>2, <2>3, <2>4, <2>5, SubsFields
  <1> QED BY <1>1, InvHolds, PTL

\* After off, unregister, unsubscribe, close or release the function is not called about the
\* keys withdrawn, whatever the notifier, the service or the JS queue was busy with, except for
\* the pairs of excused: those DataTurn, NdkUnregisterDataObserver, NdkClose, Unsubscribe and
\* Release put there (js_observer.cpp:57-77).
THEOREM SilentAfterOffHolds == Spec => []SilentAfterOff
  <1>1. Inv => SilentAfterOff
    BY DEF Inv, SilentInv
  <1> QED BY <1>1, InvHolds, PTL

\* When nothing is under way, everyone has been called about every key that changed while it
\* was subscribed, except the multi-process observers of the NDK (Mute), the keys of a second
\* on with the same callback (ignored) and the changes whose event the JS queue has refused
\* (dropped) (preferences_impl.cpp:445-508).
THEOREM HeardWhenQuietHolds == Spec => []HeardWhenQuiet
  <1>1. ASSUME Inv PROVE HeardWhenQuiet
    <2>1. SUFFICES ASSUME Free, wire = {}, uvQueue = <<>>, NEW e \in owed
                   PROVE  Mute(e[1]) \/ e \in ignored \/ e \in dropped
      BY DEF HeardWhenQuiet
    <2>2. Events = {}
      BY <2>1 DEF Events
    <2>3. ~Due(e[1], e[2])
      BY <2>1, <2>2 DEF Due, Coming, Free, NoNotify
    <2>4. e = <<e[1], e[2]>>
      BY <1>1 DEF Inv, TypeInv, HistoryTyped
    <2> QED BY <1>1, <2>3, <2>4 DEF Inv, OwedInv, Ignored
  <1> QED BY <1>1, InvHolds, PTL
=============================================================================
