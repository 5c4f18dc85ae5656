------------------------------ MODULE Observers ------------------------------
(***************************************************************************)
(* Who is told of a change.  One Preferences instance keeps weak pointers   *)
(* to its observers in three lists (preferences_base.cpp); the observers    *)
(* themselves belong to a JS proxy (napi_preferences.cpp), to an NDK handle *)
(* (oh_preferences.cpp) or to a caller of the inner API.  The notifier      *)
(* walks the lists with observerMutex_ shared; a JS observer forwards each  *)
(* change to the JS thread's event queue, the others are called at once.    *)
(* Changes of other processes arrive through the data observer service.     *)
(*                                                                          *)
(* An observer object is the number of its creation; sub[o] says whose it   *)
(* is, what it is registered for and which function it calls.  Every list   *)
(* is written with push_back of the newest object, so that its order is     *)
(* that of the numbers, and a set stands for it.                            *)
(***************************************************************************)
EXTENDS Naturals, Sequences

CONSTANTS Keys,         \* keys of the preferences
          Callbacks,    \* JS functions
          NdkObservers, \* pairs of an OH_PreferencesDataObserver and a context
          Mixes,        \* sets of subscriptions that occur together
          MaxObs,       \* observer objects ever created
          MaxChanges,   \* notifications
          MaxFaults     \* failures of the observer service and of the event queue

ASSUME BoundsAssumption == MaxObs \in Nat /\ MaxChanges \in Nat /\ MaxFaults \in Nat

VARIABLES mix,                    \* the subscriptions of this behaviour
          sub,                    \* the objects created
          localObservers,         \* PreferencesBase: objects
          multiProcessObservers,
          dataObserversMap,       \* object -> keys
          proxy,                  \* PreferencesProxy: mode -> objects
          cleared,                \* JS objects whose callback_ is null
          leaving,                \* the loop of UnRegisteredAllObservers, or of
                                  \* UnRegisteredDataObserver with its keys
          ndk,                    \* OH_PreferencesImpl::dataObservers_
          native,                 \* objects an inner API caller keeps alive
          notify,                 \* the notifier inside its loops
          announce,               \* keys whose NotifyChange is not called yet
          wire,                   \* <<object, key>> sent by the service
          held,                   \* <<object, keys>>: locked, OnChange is not called yet
          uvQueue,                \* events of the JS thread: <<object, keys>>
          changes, faults,
          \* History.
          asked,                  \* subscription -> keys it has asked for
          owed,                   \* <<subscription, key>>: told of nothing since
          dropped,                \* <<subscription, key>>: the event was refused
          ignored,                \* <<subscription, key>> a second on has not registered
          unwanted,               \* <<object, key>> told without being asked for
          excused                 \* <<object, key>> the code goes on telling

base == <<localObservers, multiProcessObservers, dataObserversMap>>
js == <<proxy, cleared, leaving>>
walk == <<notify, announce, changes>>
history == <<asked, owed, dropped, ignored, unwanted, excused>>
vars == <<mix, sub, base, js, ndk, native, walk, wire, held, uvQueue, faults, history>>

Modes == {"local", "multi", "data"}
NoNotify == [keys |-> {}, data |-> {}, local |-> {}]
NoLoop == [mode |-> "none", left |-> {}, keys |-> {}, dying |-> FALSE]

Subs == [who : {"js"}, mode : Modes, fn : Callbacks]
        \cup [who : {"ndk"}, mode : {"multi", "data"}, fn : NdkObservers]
        \cup [who : {"native"}, mode : Modes, fn : {"OnChange"}]

Objects == 1 .. Len(sub)
Fresh == Len(sub) + 1
Events == {uvQueue[i] : i \in DOMAIN uvQueue}

Init ==
    /\ mix \in Mixes
    /\ sub = <<>>
    /\ localObservers = {} /\ multiProcessObservers = {}
    /\ dataObserversMap = [o \in {} |-> {}]
    /\ proxy = [m \in Modes |-> {}] /\ cleared = {} /\ leaving = NoLoop
    /\ ndk = {} /\ native = {}
    /\ notify = NoNotify /\ announce = {} /\ wire = {} /\ held = {} /\ uvQueue = <<>>
    /\ changes = 0 /\ faults = 0
    /\ asked = [s \in Subs |-> {}] /\ owed = {} /\ dropped = {} /\ ignored = {}
    /\ unwanted = {} /\ excused = {}

\* A thread that tells of a change has locked its weak_ptr to o.
Held(o) == \E h \in held : h[1] = o

\* The owners of a shared_ptr: a weak_ptr to any other object has expired.  An
\* event of the JS thread owns its observer.
Strong(o) ==
    \/ \E m \in Modes : o \in proxy[m]
    \/ o \in ndk \cup native
    \/ \E e \in Events : e[1] = o
    \/ Held(o)

\* observerMutex_ is free for a writer.
Free == notify = NoNotify

\* The JS thread is not in the middle of a loop.
JsFree == leaving = NoLoop

-----------------------------------------------------------------------------
(* PreferencesBase. *)

\* The first of a list of objects.
First(list) == {e \in list : \A d \in list : e <= d}

\* UnRegisterObserver: the first entry that has expired or is the one asked for.
Entry(list, o) == First({e \in list : ~Strong(e) \/ e = o})

\* Mutant: takes the first entry without comparing it.
UnRegisterFirst(list, o) == list \ First(list)

UnRegisterObserver(list, o) == list \ Entry(list, o)

\* UnRegisterDataObserver: no keys means all of them.
KeysLeft(o, keys) ==
    IF keys = {} \/ o \notin DOMAIN dataObserversMap THEN {}
    ELSE dataObserversMap[o] \ keys

UnRegisterDataObserver(os, keys) ==
    [o \in {e \in DOMAIN dataObserversMap : e \in os => KeysLeft(e, keys) # {}} |->
        IF o \in os THEN KeysLeft(o, keys) ELSE dataObserversMap[o]]

\* RegisterDataObserver: a new entry, which may have no keys, or more keys for one that
\* is there.
RegisterDataObserver(o, keys) ==
    [p \in DOMAIN dataObserversMap \cup {o} |->
        CASE p # o -> dataObserversMap[p]
          [] p = o /\ o \in DOMAIN dataObserversMap -> dataObserversMap[o] \cup keys
          [] OTHER -> keys]

Create(s) ==
    /\ s \in mix
    /\ Fresh <= MaxObs
    /\ sub' = Append(sub, s)

Ask(s, keys) == asked' = [asked EXCEPT ![s] = @ \cup keys]

\* S and keys are unsubscribed: nothing more is owed.
Withdraw(S, keys) ==
    /\ asked' = [s \in Subs |-> IF s \in S THEN asked[s] \ keys ELSE asked[s]]
    /\ owed' = {e \in owed : ~(e[1] \in S /\ e[2] \in keys)}
    /\ ignored' = {e \in ignored : ~(e[1] \in S /\ e[2] \in keys)}
    /\ UNCHANGED dropped

\* UnRegisterObserver of o, in the list of mode m.
TakeEntry(m, o) ==
    /\ localObservers' = IF m = "local" THEN UnRegisterObserver(localObservers, o)
                                        ELSE localObservers
    /\ multiProcessObservers' = IF m = "multi"
                                THEN UnRegisterObserver(multiProcessObservers, o)
                                ELSE multiProcessObservers

\* RegisterObserver, or RegisterDataObserver, of a new object.
AddEntry(s, keys) ==
    /\ localObservers' = localObservers \cup {o \in {Fresh} : s.mode = "local"}
    /\ multiProcessObservers' = multiProcessObservers \cup {o \in {Fresh} : s.mode = "multi"}
    /\ dataObserversMap' = IF s.mode = "data" THEN RegisterDataObserver(Fresh, keys)
                           ELSE dataObserversMap

Fault == faults < MaxFaults /\ faults' = faults + 1

\* The service refuses to register or unregister a stub and the call fails with
\* nothing changed: on and off throw, and the callback stays.
ServiceRefuses ==
    /\ Free /\ \E s \in Subs : s.mode = "multi" /\ s \in mix
    /\ Fault
    /\ UNCHANGED <<sub, base, js, ndk, native, walk, wire, held, uvQueue,
                   history>>

-----------------------------------------------------------------------------
(* The JS proxy: on, off and the destructor, all on the JS thread. *)

JsSub(m, cb) == [who |-> "js", mode |-> m, fn |-> cb]

\* Mutant: looks among the callbacks of another mode.
HasRegisteredLocal(m, cb) == \E o \in proxy["local"] : sub[o].fn = cb

HasRegisteredObserver(m, cb) == \E o \in proxy[m] : sub[o].fn = cb
KeysOf(m, keys) == IF m = "data" THEN keys ELSE Keys

RegisteredObserver(m, cb, keys) ==
    /\ JsFree /\ Free
    /\ ~HasRegisteredObserver(m, cb)
    /\ Create(JsSub(m, cb)) /\ AddEntry(JsSub(m, cb), keys)
    /\ proxy' = [proxy EXCEPT ![m] = @ \cup {Fresh}]
    /\ Ask(JsSub(m, cb), KeysOf(m, keys))
    /\ UNCHANGED <<cleared, leaving, ndk, native, walk, wire, held, uvQueue, faults, owed,
                   dropped, ignored, unwanted, excused>>

\* on succeeds at once when the callback is registered already: new keys of a
\* second dataChange subscription are ignored.
RegisteredAlready(m, cb, keys) ==
    /\ JsFree
    /\ HasRegisteredObserver(m, cb)
    /\ ignored' = ignored \cup ({JsSub(m, cb)} \X (KeysOf(m, keys) \ asked[JsSub(m, cb)]))
    /\ Ask(JsSub(m, cb), KeysOf(m, keys))
    /\ UNCHANGED <<sub, base, js, ndk, native, walk, wire, held, uvQueue, faults, owed, dropped,
                   unwanted, excused>>

\* off(mode, callback).  The native entry goes first, then the callback.
UnRegisteredObserver(m, cb) ==
    /\ JsFree /\ Free /\ m # "data"
    /\ \E o \in proxy[m] :
         /\ sub[o].fn = cb
         /\ TakeEntry(m, o)
         /\ cleared' = cleared \cup {o}
         /\ proxy' = [proxy EXCEPT ![m] = @ \ {o}]
    /\ Withdraw({JsSub(m, cb)}, Keys)
    /\ UNCHANGED <<sub, dataObserversMap, leaving, ndk, native, walk, wire, held, uvQueue,
                   faults, unwanted, excused>>

\* off(mode): a loop over the observers, which takes and gives back observerMutex_
\* for each of them.
UnRegisteredAllObservers(m) ==
    /\ JsFree
    /\ m # "data" /\ proxy[m] # {}
    /\ leaving' = [mode |-> m, left |-> proxy[m], keys |-> {}, dying |-> FALSE]
    /\ UNCHANGED <<sub, base, proxy, cleared, ndk, native, walk, wire, held, uvQueue, faults,
                   history>>

\* ~PreferencesProxy, when the garbage collector takes the JS object: the loop for
\* each mode in turn.
Destructor ==
    /\ JsFree
    /\ \E m \in Modes : proxy[m] # {}
    /\ leaving' = [mode |-> "local", left |-> proxy["local"], keys |-> {}, dying |-> TRUE]
    /\ UNCHANGED <<sub, base, proxy, cleared, ndk, native, walk, wire, held, uvQueue, faults,
                   history>>

\* One turn of the loop.  The callback is cleared whatever the service answers; an
\* entry it fails to unregister stays in the list.
LoopTurn(o) ==
    /\ leaving.mode # "data" /\ Free
    /\ o \in First(leaving.left)
    /\ \/ TakeEntry(leaving.mode, o) /\ UNCHANGED faults
       \/ /\ leaving.mode = "multi" /\ Fault
          /\ UNCHANGED <<localObservers, multiProcessObservers>>
    /\ cleared' = cleared \cup {o}
    /\ leaving' = [leaving EXCEPT !.left = @ \ {o}]
    /\ Withdraw({sub[o]}, Keys)
    /\ UNCHANGED <<sub, dataObserversMap, proxy, ndk, native, walk, wire, held, uvQueue, unwanted,
                   excused>>

\* The loop of UnRegisteredDataObserver, which is over when no observer is left.
DataLoop(os, keys) ==
    IF os = {} THEN NoLoop
    ELSE [mode |-> "data", left |-> os, keys |-> keys, dying |-> FALSE]

\* The list is cleared after the loop.
LoopEnd ==
    /\ leaving.mode \in {"local", "multi"} /\ leaving.left = {}
    /\ proxy' = [proxy EXCEPT ![leaving.mode] = {}]
    /\ leaving' = CASE ~leaving.dying -> NoLoop
                    [] leaving.dying /\ leaving.mode = "local" ->
                         [mode |-> "multi", left |-> proxy["multi"], keys |-> {}, dying |-> TRUE]
                    [] leaving.dying /\ leaving.mode = "multi" ->
                         DataLoop(proxy["data"], {})
    /\ UNCHANGED <<sub, base, cleared, ndk, native, walk, wire, held, uvQueue, faults, history>>

\* off('dataChange', keys, callback), or with all callbacks: a loop as well.
UnRegisteredDataObserver(cbs, keys) ==
    LET os == {o \in proxy["data"] : sub[o].fn \in cbs}
    IN /\ JsFree /\ os # {}
       /\ leaving' = DataLoop(os, keys)
       /\ UNCHANGED <<sub, base, proxy, cleared, ndk, native, walk, wire, held, uvQueue, faults,
                      history>>

\* One turn of it: o leaves the keys, or all its keys.  A callback with keys left stays: an
\* event about the withdrawn keys that is queued already will still call it.
DataTurn(o) ==
    LET keys == leaving.keys
        gone == {p \in {o} : KeysLeft(p, keys) = {}}
        withdrawn == IF keys = {} THEN Keys ELSE keys
    IN /\ leaving.mode = "data" /\ Free
       /\ o \in First(leaving.left)
       /\ dataObserversMap' = UnRegisterDataObserver({o}, keys)
       /\ cleared' = cleared \cup gone
       /\ proxy' = [proxy EXCEPT !["data"] = @ \ gone]
       /\ leaving' = DataLoop(leaving.left \ {o}, keys)
       /\ Withdraw({sub[o]}, withdrawn)
       /\ excused' = excused \cup
            {e \in ({o} \ gone) \X withdrawn :
               \E event \in Events : event[1] = e[1] /\ e[2] \in event[2]}
       /\ UNCHANGED <<sub, localObservers, multiProcessObservers, ndk, native, walk,
                      wire, held, uvQueue, faults, unwanted>>

-----------------------------------------------------------------------------
(* The NDK handle. *)

NdkSub(m, f) == [who |-> "ndk", mode |-> m, fn |-> f]

\* A new object for every call, also for an observer registered already.
NdkRegisterDataObserver(f, keys) ==
    /\ Free
    /\ Create(NdkSub("data", f)) /\ AddEntry(NdkSub("data", f), keys)
    /\ ndk' = ndk \cup {Fresh}
    /\ Ask(NdkSub("data", f), keys)
    /\ UNCHANGED <<js, native, walk, wire, held, uvQueue, faults, owed, dropped, ignored,
                   unwanted, excused>>

\* The loop runs from the last object back and ends at the first one that has
\* keys left; objects are let go only when no keys are named.
NdkUnregisterDataObserver(f, keys) ==
    LET match == {o \in ndk : sub[o].fn = f}
        skipped == {o \in match : \E p \in match : o < p /\ KeysLeft(p, keys) # {}}
        withdrawn == IF keys = {} THEN Keys ELSE keys
    IN /\ Free /\ match # {}
       /\ dataObserversMap' = UnRegisterDataObserver(match \ skipped, keys)
       /\ ndk' = IF keys = {} THEN ndk \ match ELSE ndk
       /\ Withdraw({NdkSub("data", f)}, withdrawn)
       /\ excused' = excused \cup skipped \X withdrawn
       /\ UNCHANGED <<sub, localObservers, multiProcessObservers, js, native, walk, wire, held,
                      uvQueue, faults, unwanted>>

\* The only shared_ptr to the observer is gone when the call returns.
NdkRegisterMultiProcessDataObserver(f) ==
    /\ Free
    /\ Create(NdkSub("multi", f)) /\ AddEntry(NdkSub("multi", f), Keys)
    /\ Ask(NdkSub("multi", f), Keys)
    /\ UNCHANGED <<js, ndk, native, walk, wire, held, uvQueue, faults, owed, dropped, ignored,
                   unwanted, excused>>

\* A new object stands for the observer, so only a dead entry is found.
NdkUnregisterMultiProcessDataObserver(f) ==
    /\ Free /\ asked[NdkSub("multi", f)] # {}
    /\ multiProcessObservers' = UnRegisterObserver(multiProcessObservers, Fresh)
    /\ Withdraw({NdkSub("multi", f)}, Keys)
    /\ UNCHANGED <<sub, localObservers, dataObserversMap, js, ndk, native, walk, wire, held,
                   uvQueue, faults, unwanted, excused>>

\* OH_Preferences_Close deletes the handle and its observers; their entries stay.  It
\* takes no lock: one that the notifier has locked is still called.
NdkClose ==
    /\ ndk # {}
    /\ ndk' = {}
    /\ Withdraw({s \in Subs : s.who = "ndk" /\ s.mode = "data"}, Keys)
    /\ excused' = excused \cup {e \in ndk \X Keys : Held(e[1])}
    /\ UNCHANGED <<sub, base, js, native, walk, wire, held, uvQueue, faults, unwanted>>

-----------------------------------------------------------------------------
(* A caller of the inner API, with one observer of each mode. *)

NativeSub(m) == [who |-> "native", mode |-> m, fn |-> "OnChange"]
Own(m) == {o \in native : sub[o].mode = m}

Subscribe(m, keys) ==
    /\ Free
    /\ Own(m) = {}
    /\ Create(NativeSub(m)) /\ AddEntry(NativeSub(m), keys)
    /\ native' = native \cup {Fresh}
    /\ Ask(NativeSub(m), KeysOf(m, keys))
    /\ UNCHANGED <<js, ndk, walk, wire, held, uvQueue, faults, owed, dropped, ignored,
                   unwanted, excused>>

\* RegisterDataObserver of the same observer again, or after it has withdrawn all its keys.
SubscribeMore(o, keys) ==
    /\ Free
    /\ sub[o].mode = "data"
    /\ dataObserversMap' = RegisterDataObserver(o, keys)
    /\ Ask(sub[o], keys)
    /\ UNCHANGED <<sub, localObservers, multiProcessObservers, js, ndk, native, walk, wire, held,
                   uvQueue, faults, owed, dropped, ignored, unwanted, excused>>

\* An entry hidden by a dead one stays and is still called; so is a stub the
\* service has sent a change to.
Unsubscribe(o) ==
    LET list == IF sub[o].mode = "local" THEN localObservers ELSE multiProcessObservers
    IN /\ Free
       /\ sub[o].mode # "data" /\ asked[sub[o]] # {}
       /\ TakeEntry(sub[o].mode, o)
       /\ Withdraw({sub[o]}, Keys)
       /\ excused' = excused \cup
            {e \in {o} \X Keys : e \in wire \/ (o \in list /\ o \notin Entry(list, o))}
       /\ UNCHANGED <<sub, dataObserversMap, js, ndk, native, walk, wire, held, uvQueue, faults,
                      unwanted>>

UnsubscribeKeys(o, keys) ==
    /\ Free
    /\ o \in DOMAIN dataObserversMap
    /\ dataObserversMap' = UnRegisterDataObserver({o}, keys)
    /\ Withdraw({sub[o]}, IF keys = {} THEN Keys ELSE keys)
    /\ UNCHANGED <<sub, localObservers, multiProcessObservers, js, ndk, native, walk, wire, held,
                   uvQueue, faults, unwanted, excused>>

\* The caller lets its observer go without unsubscribing it, or after: a thread that has
\* locked it still calls it.
Release(o) ==
    /\ native' = native \ {o}
    /\ Withdraw({sub[o]}, Keys)
    /\ excused' = excused \cup {e \in {o} \X Keys : Held(o)}
    /\ UNCHANGED <<sub, base, js, ndk, walk, wire, held, uvQueue, faults, unwanted>>

-----------------------------------------------------------------------------
(* Notification. *)

\* The function of o is called, with keys.
Call(o, keys) ==
    /\ unwanted' = unwanted \cup {<<o, k>> : k \in keys \ asked[sub[o]]}
    /\ owed' = owed \ ({sub[o]} \X keys)
    /\ UNCHANGED <<asked, dropped, ignored, excused>>

\* A thread about to tell o of keys has locked the weak_ptr; OnChange follows in Tell.  For
\* an observer of JS, whose OnChange only queues an event, the two are one step.
Lock(o, keys) ==
    /\ sub[o].who # "js"
    /\ Strong(o) /\ <<o, keys>> \notin held
    /\ held' = held \cup {<<o, keys>>}
    /\ UNCHANGED <<sub, base, js, ndk, native, walk, wire, uvQueue, faults, history>>

\* OnChange of o with keys: nothing if the weak_ptr has expired or the callback is cleared,
\* an event for the JS thread, or the call.  An event the queue refuses is lost.
Tell(o, keys) ==
    /\ held' = held \ {<<o, keys>>}
    /\ \/ /\ ~Strong(o) \/ o \in cleared
          /\ UNCHANGED <<uvQueue, faults, history>>
       \/ /\ Strong(o) /\ o \notin cleared
          /\ sub[o].who = "js"
          /\ uvQueue' = Append(uvQueue, <<o, keys>>)
          /\ UNCHANGED <<faults, history>>
       \/ /\ Strong(o) /\ o \notin cleared
          /\ sub[o].who = "js"
          /\ Fault
          /\ dropped' = dropped \cup ({sub[o]} \X keys)
          /\ UNCHANGED <<uvQueue, asked, owed, ignored, unwanted, excused>>
       \/ /\ Strong(o) /\ sub[o].who # "js"
          /\ Call(o, keys)
          /\ UNCHANGED <<uvQueue, faults>>

\* Subscribers are owed a call: what they missed before is no excuse.
Owe(new) ==
    /\ owed' = owed \cup new
    /\ dropped' = dropped \ new
    /\ UNCHANGED <<asked, ignored, unwanted, excused>>

\* A flush or a write of the database has changed keys.
StartNotify(keys) ==
    /\ Free /\ changes < MaxChanges
    /\ changes' = changes + 1
    /\ notify' = [keys |-> keys, local |-> localObservers \X keys,
                  data |-> {o \in DOMAIN dataObserversMap :
                              dataObserversMap[o] \cap keys # {}}]
    /\ Owe({e \in Subs \X keys : e[1].mode # "multi" /\ e[2] \in asked[e[1]]})
    /\ UNCHANGED <<sub, base, js, ndk, native, announce, wire, held, uvQueue, faults>>

\* The notifier tells one observer at a time (the service has the multi-process ones).
Turn(o, keys) == \A h \in held : sub[h[1]].mode = "multi" \/ h = <<o, keys>>

\* The keys an observer of keys is told of.
Records(o) == dataObserversMap[o] \cap notify.keys

NotifyData(o) ==
    /\ Turn(o, Records(o))
    /\ Tell(o, Records(o))
    /\ notify' = [notify EXCEPT !.data = @ \ {o}]
    /\ UNCHANGED <<sub, base, js, ndk, native, announce, changes, wire>>

\* After the data observers, the local ones in their order: each is told key by key.
LocalTurn(o, k) ==
    /\ notify.data = {} /\ \A e \in notify.local : o <= e[1]
    /\ Turn(o, {k})

\* Mutant: an observer is told of one of the keys.
NotifyLocalOneKey(o, k) ==
    /\ LocalTurn(o, k)
    /\ Tell(o, {k})
    /\ notify' = [notify EXCEPT !.local = {e \in @ : e[1] # o}]
    /\ UNCHANGED <<sub, base, js, ndk, native, announce, changes, wire>>

NotifyLocal(o, k) ==
    /\ LocalTurn(o, k)
    /\ Tell(o, {k})
    /\ notify' = [notify EXCEPT !.local = @ \ {<<o, k>>}]
    /\ UNCHANGED <<sub, base, js, ndk, native, announce, changes, wire>>

NotifyEnd ==
    /\ notify # NoNotify /\ notify.data = {} /\ notify.local = {}
    /\ notify' = NoNotify
    /\ announce' = announce \cup notify.keys
    /\ UNCHANGED <<sub, base, js, ndk, native, changes, wire, held, uvQueue, faults, history>>

\* Another process announces a change of k.
OtherProcess(k) ==
    /\ changes < MaxChanges /\ changes' = changes + 1
    /\ announce' = announce \cup {k}
    /\ UNCHANGED <<sub, base, js, ndk, native, notify, wire, held, uvQueue,
                   faults, history>>

\* The service sends a change to every stub registered at that time.
NotifyChange(k) ==
    /\ announce' = announce \ {k}
    /\ wire' = wire \cup (multiProcessObservers \X {k})
    /\ Owe({e \in Subs \X {k} : e[1].mode = "multi" /\ k \in asked[e[1]]})
    /\ UNCHANGED <<sub, base, js, ndk, native, notify, changes, held, uvQueue, faults>>

\* OnChangePreferences, on a thread of the IPC pool, without observerMutex_.
OnChangePreferences(e) ==
    /\ Tell(e[1], {e[2]})
    /\ wire' = wire \ {e}
    /\ UNCHANGED <<sub, base, js, ndk, native, walk>>

\* Mutant: an event calls the function it was queued for.
RunEventUnchecked ==
    /\ JsFree /\ uvQueue # <<>>
    /\ uvQueue' = Tail(uvQueue)
    /\ Call(Head(uvQueue)[1], Head(uvQueue)[2])
    /\ UNCHANGED <<sub, base, js, ndk, native, walk, wire, held, faults>>

\* The JS thread runs an event: the callback may have been cleared since.
RunEvent ==
    /\ JsFree /\ uvQueue # <<>>
    /\ uvQueue' = Tail(uvQueue)
    /\ LET e == Head(uvQueue)
       IN IF e[1] \in cleared THEN UNCHANGED history ELSE Call(e[1], e[2])
    /\ UNCHANGED <<sub, base, js, ndk, native, walk, wire, held, faults>>

KeySets == (SUBSET Keys) \ {{}}

JsCall ==
    \/ \E m \in Modes, cb \in Callbacks, keys \in KeySets :
         /\ m # "data" => keys = Keys
         /\ RegisteredObserver(m, cb, keys) \/ RegisteredAlready(m, cb, keys)
    \/ \E m \in Modes, cb \in Callbacks : UnRegisteredObserver(m, cb)
    \/ \E m \in Modes : UnRegisteredAllObservers(m)
    \/ \E cbs \in {{cb} : cb \in Callbacks} \cup {Callbacks}, keys \in SUBSET Keys :
         UnRegisteredDataObserver(cbs, keys)
    \/ Destructor
    \/ \E o \in leaving.left : LoopTurn(o) \/ DataTurn(o)
    \/ LoopEnd

NdkCall ==
    \/ \E f \in NdkObservers, keys \in SUBSET Keys : NdkRegisterDataObserver(f, keys)
    \/ \E f \in NdkObservers, keys \in SUBSET Keys : NdkUnregisterDataObserver(f, keys)
    \/ \E f \in NdkObservers : NdkRegisterMultiProcessDataObserver(f)
    \/ \E f \in NdkObservers : NdkUnregisterMultiProcessDataObserver(f)
    \/ NdkClose

NativeCall ==
    \/ \E m \in Modes, keys \in SUBSET Keys :
         (m # "data" => keys = Keys) /\ Subscribe(m, keys)
    \/ \E o \in native, keys \in SUBSET Keys : SubscribeMore(o, keys) \/ UnsubscribeKeys(o, keys)
    \/ \E o \in native : Unsubscribe(o) \/ Release(o)

Notify ==
    \/ \E keys \in KeySets : StartNotify(keys)
    \/ \E o \in notify.data : NotifyData(o)
    \/ \E o \in notify.data : Turn(o, Records(o)) /\ Lock(o, Records(o))
    \/ \E e \in notify.local : NotifyLocal(e[1], e[2])
    \/ \E e \in notify.local : LocalTurn(e[1], e[2]) /\ Lock(e[1], {e[2]})
    \/ NotifyEnd
    \/ \E k \in Keys : OtherProcess(k)
    \/ \E k \in announce : NotifyChange(k)
    \/ \E e \in wire : Lock(e[1], {e[2]}) \/ OnChangePreferences(e)

Next ==
    /\ ServiceRefuses \/ JsCall \/ NdkCall \/ NativeCall \/ Notify \/ RunEvent
    /\ UNCHANGED mix

Spec == Init /\ [][Next]_vars

-----------------------------------------------------------------------------
(* Properties. *)

Registered(o, k) ==
    \/ o \in localObservers \cup multiProcessObservers
    \/ o \in DOMAIN dataObserversMap /\ k \in dataObserversMap[o]

\* Objects that do nothing when told of a change: an NDK multi-process observer
\* has died by the time its registration returns.
Mute(s) == s.who = "ndk" /\ s.mode = "multi"

\* Every list holds objects of its mode, with keys or without them, and every owner its own;
\* a proxy has one observer per callback and mode, and its loop runs over what it has.
TypeOK ==
    /\ sub \in Seq(Subs) /\ Len(sub) <= MaxObs
    /\ \A o \in localObservers : o \in Objects /\ sub[o].mode = "local"
    /\ \A o \in multiProcessObservers : o \in Objects /\ sub[o].mode = "multi"
    /\ \A o \in DOMAIN dataObserversMap :
         o \in Objects /\ sub[o].mode = "data" /\ dataObserversMap[o] \in SUBSET Keys
    /\ \A m \in Modes :
         /\ \A o \in proxy[m] : o \in Objects /\ sub[o].who = "js" /\ sub[o].mode = m
         /\ \A o, p \in proxy[m] : sub[o].fn = sub[p].fn => o = p
    /\ cleared \subseteq Objects
    /\ leaving.mode \in Modes \cup {"none"} /\ leaving.dying \in BOOLEAN
    /\ IF leaving.mode \in Modes THEN leaving.left \subseteq proxy[leaving.mode]
                                 ELSE leaving.left = {}
    /\ \A o \in ndk : o \in Objects /\ sub[o].who = "ndk" /\ sub[o].mode = "data"
    /\ \A o \in native : o \in Objects /\ sub[o].who = "native"
    /\ wire \subseteq Objects \X Keys /\ held \subseteq Objects \X SUBSET Keys
    /\ changes \in 0..MaxChanges /\ faults \in 0..MaxFaults

\* What a subscriber has asked for and not withdrawn is registered, with its
\* observer alive: no other subscriber's off or release, and no failure of the
\* service, ever removes it (preferences_base.cpp:269-302, napi_preferences.cpp:571-596).
\* Left out are the multi-process observers of the NDK (Mute) and the keys of a second on
\* with the same callback (ignored), which the code does not register.
AskedIsRegistered ==
    \A s \in Subs : \A k \in asked[s] :
        \/ Mute(s) \/ <<s, k>> \in ignored
        \/ \E o \in Objects : sub[o] = s /\ Strong(o) /\ o \notin cleared
                              /\ Registered(o, k)

\* Once off, unregister, unsubscribe, close or release has returned, the function is not
\* called about the keys withdrawn, also not by a change the notifier, the service or
\* the JS queue was already busy with (js_observer.cpp:57-77).  The cases the code leaves
\* open are the pairs of excused: an event queued for a callback that keeps other keys
\* (DataTurn), registrations the NDK's loop does not reach, a native observer whose entry is
\* hidden by a dead one or that the service has sent the change to (Unsubscribe), and an
\* observer that a thread had locked when its owner let it go (NdkClose, Release).
SilentAfterOff == unwanted \subseteq excused

\* When nothing is under way any more, every subscriber has been called, since the last
\* change of each key it has asked for, about that key (preferences_impl.cpp:445-508,
\* preferences_enhance_impl.cpp:277-311).  The exceptions: the multi-process observers of
\* the NDK (Mute), the keys of a second on with the same callback (ignored), and a change
\* whose event the JS queue refused (dropped).
HeardWhenQuiet ==
    (Free /\ announce = {} /\ wire = {} /\ uvQueue = <<>>) =>
        \A e \in owed : Mute(e[1]) \/ e \in ignored \/ e \in dropped
=============================================================================
