# Formal models of the mobil2 core

mobil2 is a C++20 framework for a mobile role-playing game: a core library
(pools, events, logging, singletons), a network library, an entity library and
a platform layer for Android.  This directory holds TLA+ modules of the parts
whose code is in the repository, the TLC configurations that check them, and
proofs of the most important results.  Line numbers refer to the files under
`src/`.

Much of the repository is declarations: every library is headers with some
inline functions, and the only `.cpp` file is the Android platform.  What has no
body is not modelled, except where a modelled part cannot be used without it
(`unsubscribe`, `processQueue` and `clear` of `EventManager`), and then with
every liberty its comment leaves.

## Inventory

| Component | State | Operations with a body | Hard behaviour |
|---|---|---|---|
| `ObjectPool<T>` (`memory_pool.hpp` 15-89) | free list, mutex, maxSize; the objects out in `shared_ptr`s | constructor, `acquire`, deleter, `release`, `clear`, `size`, destructor | several threads; the deleter runs wherever the last handle dies, also under the lock; exceptions out of `new`, `reset`, the control block; handles outliving the pool |
| `MemoryPool`, `StackAllocator` (91-157) | blocks, offsets | none but getters | - |
| `EventManager` (`event_system.hpp` 28-99) | handlers per type, next id, queue, two mutexes | `subscribe`, `publish`, `queueEvent` | several threads; handlers call back into the manager and throw; the list changes between copy and call |
| predefined events (101-197) | data | constructors | - |
| `Singleton`, `LazySingleton` (`singleton.hpp`) | instance, once flag | `getInstance`, `isInitialized`, `destroy` | threads; `destroy` does not reset the flag; a constructor that throws |
| `Logger` (`logger.hpp` 79-164) | sinks, level, mutex | the six level templates, `setLevel`, `getLevel`, `format` | the level is a plain member read and written by all threads |
| `types.hpp` | - | `Result`, `VoidResult` | - |
| `PacketBuffer` (`packet.hpp` 66-174) | bytes, read position | all | short reads, fixed and variable texts, 16-bit lengths, misaligned readers |
| packets (15-22, 181-257) | fields | constructors, `ChatPacket::serialize`, `deserialize` | packets that break off; a size nobody sets |
| `Session`, `SessionManager` (`session.hpp`) | socket, state, ids, buffers, queue | accessors, `sendPacket<T>`, `broadcast<T>` (forwarders) | plain members next to atomics |
| `Entity` (`entity.hpp` 35-113) | position, flags, components by `hash_code` | accessors, the four component templates | a component replaced while pointers to it are in use |
| `EntityFactory`, `EntityManager` | entities | none | - |
| `Character`, `PlayerCharacter`, `Monster` (`character.hpp`) | stats, skills, affects, counters | accessors, three counters, `isExpired` | counters that wrap |
| `Item`, `ItemProto`, `ItemManager` (`item.hpp`) | item fields, fixed arrays | bounds-checked accessors | - |
| `AndroidPlatform` (`android_platform.cpp` 15-194) | `JavaVM*`, activity reference | all | called from game threads, initialized from the Java thread; JNI references, attachment, exceptions |
| `PlatformFactory`, `getPlatform` (196-232) | global instance | all | creation, use and destruction without a lock |

Interactions.  Application code holds `ObjectPool` handles in any thread; the
pool calls back into `T` (`reset`, `cleanup`, destructor) under its lock, and
`T` may hold handles on the same pool.  `EventManager::publish` calls handlers,
which call `EventManager`.  A packet's `serialize` drives a `PacketBuffer`; the other
packets go to the session as the bytes they are in memory (`sendPacket<T>`), and the
session's receiving end picks a handler by the packet id.  The game
reaches the platform through `getPlatform()`; the Java activity creates it
through `nativeInitPlatform`, which logs through `getGlobalLogger()`.

What makes each part correct:

* **ObjectPool**: an object has one place at a time and is not lost; the lock is
  always given up and never waited for by its own holder; the list stays within
  its bounds and memory within demand; an object handed out carries no old data.
* **EventManager**: ids identify subscriptions; a publish calls the handlers of
  one moment, each once and in order; no handler runs under a lock.
* **PacketBuffer, packets**: what is read is what was written; a reader stays
  aligned; a failed read of a number, a fixed text or bytes leaves the position (that of a
  variable text has consumed the two bytes of its length); a broken packet shows right what
  arrived in full, and a broken chat no part of a text.  (A raw struct cut inside a member
  gives that member's bytes to later ones.)
* **LazySingleton, platform**: whoever gets an instance gets a live, initialized
  one, and the same as everybody else; local references are given back.
* **Session, Logger, player and item members**: what one thread stores in a member
  without a lock is seen by the others no later than atomics and hand-overs between the
  threads promise, and nothing ordered is lost or mixed up.
* **Entity components**: a component found under a type has that type, and a
  pointer in use is not to a destroyed component.

`PROJECT.json` lists every hazard at its line with the properties that guard it.

## Modules

| Module | Models | Checked by | Proofs |
|---|---|---|---|
| `ObjectLease` | what the pool promises callers | refined by `ObjectPool` | |
| `ObjectPool` | `ObjectPool<T>` and its callers | `pool_base`, `pool_faults`, `pool_nested` | `ObjectPoolProofs` |
| `MCObjectPool` | the same with a history variable | `pool_base` | `ObjectPoolProofs` |
| `EventBus` | what the event manager promises callers | refined by `EventManager` | |
| `EventManager` | `EventManager` and its handlers | `events` | `EventManagerProofs` |
| `Wire` | the encodings of `PacketBuffer` as operators | through the two below | `PacketBufferProofs` |
| `PacketBuffer` | a buffer written and read in any interleaving | `packet` (`MCPacketBuffer`) | `PacketBufferProofs` |
| `Packets` | the four packets from sender to handler | `packets`, `packets_size` (`MCPackets`) | `PacketsProofs` |
| `LazySingleton` | `LazySingleton<T>` and its callers | `singleton` (`MCLazySingleton`) | `LazySingletonProofs` |
| `Entity` | the components of an `Entity` and the pointers callers have | `entity` (`MCEntity`) | `EntityProofs` |
| `PlainMembers` | members read and written without a lock | through the four below | `UnlockedProofs` |
| `Session` | a session's player id next to its atomic state | `unlocked` (`MCUnlocked`) | `UnlockedProofs` |
| `Logger` | the level test of the logging templates | `unlocked` | `UnlockedProofs` |
| `PlayerCharacter` | the counters of a player | `unlocked` | `UnlockedProofs` |
| `Item` | the sockets and attributes of an item | `unlocked` | `UnlockedProofs` |
| `Platform` | the Android platform, its factory and its JNI calls | `platform` (`MCPlatform`), `platform_race` | `PlatformProofs` |

### ObjectPool

`pool` is `m_pool` with `back()` last; `mutex` is the holder of `m_mutex`; `held[o]`
is the set of holders of a `shared_ptr` on object `o`, which are threads or, for
handles kept as data members, other objects; `hand[t]` is the raw pointer in a
local variable of `acquire`, `release` or the deleter; `heap` are the objects
allocated; `dirty` those with data of an earlier user; `alive` says that the
pool is not destroyed.

A call is split where the code tests something and acts on it later: `acquire` is
`AcquireEnter` (lock, `empty()`), `AcquirePop` or `AcquireNew`, `AcquireReset`,
`AcquireWrap` (shared_ptr, unlock); `release` is `ReleaseEnter` (lock, size against
`maxSize`), then `ReleasePush` or `ReleaseDelete`.  Every exit goes through `Leaves`, which
is what `lock_guard` does.  The exceptions are actions of their own: `AcquireNoMemory` (a
full heap, or a constructor of T that throws), `AcquireResetThrows`, and
`AcquireNoControlBlock`, where `shared_ptr`'s constructor calls the deleter while `acquire`
still holds the lock. A thread that locks the mutex it holds, or that of a destroyed pool,
has undefined behaviour in C++; in the model it stops there (`ReleaseEnter` stays disabled),
and nothing is claimed about what it does next.  `SelfLocked` are the threads that wait so
for themselves; `SelfLockHasCause` says which steps can put one there.

What wipes an object (`reset`, `cleanup`, its destructor) also destroys the
handles it holds.  `LastMembers` are the objects whose last handle goes with it;
for each of them the deleter runs in the same thread, under the lock
(`WipeReenters`, and in `clear` and the destructor `NestedRelease`).

What can go wrong is chosen by the constant `Faults`, so that each property is
checked, and each theorem stated, with exactly the assumptions it needs.
`reset` is taken to overwrite every member, as its use in line 45 suggests.

### EventManager

`handlers`, `nextId`, `queue` and `mutex` are the members; the ids stand for the handler
objects, which are told apart by nothing else.  `stack[t]` holds the `publish` calls a
thread is in, innermost first, because a handler may publish: each has its event type, the
copied handlers still to call (`handlersCopy`) and the events a `processQueue` still has to
publish after it.  `drawn[t]` is the id a `subscribe` has drawn and not stored yet.  The
critical sections of `m_mutex` that have several statements are several actions; those of
`m_queueMutex` are single statements and so single actions.  `subscribe` and `publish` can fail inside: the
handler cannot be stored (`SubscribeThrows`, the id drawn is used up), or a handler cannot
be copied (`PublishCopyThrows`, which leaves the call as a throwing handler does).  Copying
a `std::function` runs the copy constructors of what it captured while `m_mutex` is held;
they may throw, but are taken not to use the manager: one that did would wait for its own
thread.  A handler ends with `HandlerReturns` or `HandlerThrows`.  One bound, `MaxEvents`,
counts the `publish` calls under way, the events in the batches of `processQueue` and those
in the queue: it is tested where an event is added.

`unsubscribe`, `clear` and `processQueue` have no bodies in the repository.  The
first two are modelled as one locked step; `processQueue` takes any first part of
the queue and publishes it event by event, and goes on or not after a handler
that throws.

### Wire, PacketBuffer, Packets

`Wire` translates each write and read function to an operator on a buffer value
`[data, pos]`; the reads return the value and the buffer after it.  The number of
values of a byte is the constant `B`: the operators depend on it only through
arithmetic (`Place[i]` is what the i-th byte counts, `Width(n)` the number of values of
`n` bytes), so a byte of three values shows TLC the edges of every
width.  Signed integers are the unsigned one of the same bytes, `Signed` of it.  In
`readString` the fixed-length case searches the memory for a zero; `NoZero` stands for a
search that leaves the field.  A text of length 0, or 0 bytes, with nothing left to read passes
the test of the size, and the code then takes `&m_data[m_readPos]` of an element that is not there
(`NoElement`; lines 152 and 160).  That is undefined: builds that check indices stop, others go on
with no bytes, which is the value the operators give.

`PacketBuffer` is a writer and a reader on one buffer, with over-reads, `reset` and `clear`
at any point.  A read for which there is no element (`Outside`) may stop the program instead
of going on (`ReadStops`, `status`); `StopsAtNothing` says where a reader that keeps to the
types of the writer can meet that.  A text that does not fit its 16-bit length is written
with all its bytes and the length cut (`TooLong`): it does not arrive, and what follows it
up to the next `clear` is `Lost`; the properties exempt exactly that and nothing before it.
`Encodings[i]` are the bytes of the fields from the i-th on.

`Packets` is one packet on its way: constructed, filled in (or not), sent, delivered
whole or broken off after any byte, read.  `Struct` lists the members of each struct in
declaration order, `Memory` lays them out one after the other under `#pragma pack(1)`, and
`End` says where each of them ends.  The three trivially
copyable structs are sent as they lie in memory, as `sendPacket<T>` does; only `ChatPacket`
has a `serialize`.  Members that a constructor leaves alone hold `Leftover` bytes.  The
receiver picks the handler by the first byte.  The handlers themselves are in no file of the
repository: `Handle` takes the members one by one out of a `PacketBuffer`, in the order
of the struct.  The connection (`Cut`) is an assumption about the outside.

### Members without a lock

`Session`, `Logger`, `PlayerCharacter` and `Item` read and write plain members through
inline functions, in threads that nothing orders.  In C++ that is a data race once it
happens; `PlainMembers` says what builds make of it.  `stores[m]` is the history of a member
and `view[t][m]` the oldest entry that thread `t` may still read: a load takes any entry
from there on and moves the view, a store appends.  Only two things move a view otherwise:
`Acquire`, when a thread reads an atomic that another wrote, and `HandOver`, when code outside
(a lock, a queue, a join) orders one thread after another.  Calls into code that is not in the
repository order nothing.  `raced` is the set of the members with an access that was not ordered
after all earlier stores to it; properties about sums and pairs are about the other members.

* `Session`: a store to the atomic `m_state` takes the writer's view along, a load joins it.
  `setId`, `seenId` and `gotId` are history variables for `LoginSeen`.
* `Logger`: the templates test `m_minLevel` (`Passes`), format, and write without testing
  again; formatting may log and may throw.  Neither `setLevel()` nor the test synchronises, so
  a thread learns of a level only by `LoggerHandOver`.  `ordered` are the threads that are
  ordered after the last `setLevel()`; of these `allowance` counts the messages below the new
  level that they were formatting when they came to know of it and may still log.  Of the
  other threads nothing is claimed.
* `PlayerCharacter`: an addition is a load and a store, with the sum cut to the width of
  the counter.  A getter that races is no reason for an addition to be lost, so it is not noted.
* `Item`: three arrays that lie one behind the other (`Cell`), the bounds checks, and
  `setAttribute` as two stores in either order.

The initial values (0, level Info = 2) are what the constructors are expected to set; their
bodies are not in the repository.  The objects have nothing in common, so each
behaviour of `MCUnlocked` is about one of them (`object`).

### LazySingleton

`initFlag` and `instance` are the two static members; `got[t]` is the reference a
thread has from `getInstance`.  `CallOnce` is the once flag of the library: unset,
being run (the others wait), or done, and unset again when the constructor
throws (`BuildThrows`).  `Deref` is the return statement; with a null pointer it is
undefined, and the model stops the thread there.  `Destroy` happens only while no thread
is in `getInstance` or uses the object, since anything else is an error of the caller.
After it the flag is still set: `HasInstance` fails, and `singleton` checks it up to
the first `destroy` (`HasFirstInstance`).

### Entity

`components` is `m_components`, `class[c]` the class of each object that exists, `making` the
nested calls of `addComponent` that are running a constructor, and `held[T]` the pointers of
type `T*` that callers have been given.  `addComponent` is `Make` (the constructor starts), then
`MakeThrows` or `AddComponent` (assignment to the map, deletion of what was there, return);
between the two the constructor may do anything to the same entity.  That hash codes of
different classes differ is an assumption (`EntityAssumption`).

### Platform

`g` is `g_androidPlatform`, `live` the objects allocated, `vm` and `activity` the members
of each, `refs` the global references that exist.  `create()`, `getPlatform()` and
`initialize()` are split at each access to a shared pointer: nothing in the code
synchronises the Java thread with the game threads.  (Formally these are data races;
the model has each access atomic, the least that a build does.)

A call is one of four kinds (`Kinds`): with a plain result, with a string, `openURL`, which
passes a string, and `getScreenSize`, which makes two static calls and needs no activity.
`locals[t]` are the JNI local references of the thread.  A Java method may throw;
of the JNI calls that the code then makes only `DeleteLocalRef` is defined, so the thread
goes on to that one and stops at any other (`MayCallJava`).  The environment is external:
`GetEnv` may find the thread attached or not, attaching may fail, and the class and its
methods are taken to exist.

## Runs

| Run | Question | Bounds |
|---|---|---|
| `pool_base` | Does the pool keep its promises when nothing fails but memory? | 2 threads, 3 objects, sizes 1 and 2 |
| `pool_faults` | What is left under every fault at once, and when does a thread wait for itself? | 2 threads, 3 objects, sizes 2 and 1 |
| `pool_nested` (violation) | Does a dropped object always come back? | 1 thread, 3 objects |
| `events` | Is the manager an event bus, without locks in handlers? | 2 threads, 2 types, 3 subscriptions, 3 events published or waiting |
| `packet` | Do fields arrive in any interleaving of writes and reads, and where can a reader leave the data? | `B` = 3, 3 fields, field lengths 1, 3 and variable, texts up to 10 bytes |
| `packets` | Does every packet reach its handler as it was sent, and what does a broken one show? | `B` = 128, the four structs, cut at every byte |
| `packets_size` (violation) | Is `header.size` the size of the packet? | `B` = 128 |
| `platform` | Is what game threads use there, shared and initialized? | 2 game threads, the Java thread, 3 objects, 2 activities |
| `platform_race` (violation) | Is the global instance the only one? | 1 game thread, the Java thread, 2 objects |
| `singleton` | Does everybody get the one object? | 4 threads, 2 objects |
| `entity` | Do components have one owner and their class, and pointers last? | 3 classes, 5 objects, constructors nested 3 deep |
| `unlocked` | What can be relied on where threads share members without a lock? | 2 threads, 4 stores, 3 levels, 2 nested messages, 16 bits as 3 values, 1 socket, 2 attributes |

Why the bounds are enough.  Pool: two threads give every race for the lock and
every hand-over between threads; three objects fill a list of size 2 and leave
one to be deleted, exhaust memory, and give a chain of a wiped object, its member
and the member's member.  `initialSize` above `maxSize` is the case in which the
list is over its limit from the start.  Events: two subscribers race, a third
subscription changes a list being copied or called; three events are a handler that
publishes from a handler, a batch that goes on, or is lost, after an event of another type,
and an event queued again from its own handler while another waits.
Buffers: three fields put every kind of field before and after every other; the texts are
empty, hold a zero byte, fill a field, exceed it, and with 10 bytes exceed a length prefix
of two three-valued bytes.
Packets: ids go up to 114, so a byte has 128 values, with which four bytes still fit the
integers of TLC; the values assigned use one, two and four
bytes and the sign bit, the texts are empty, hold a zero, fill `password`, `username` and
`message` or exceed them.
Platform: two game threads race with each other and with the Java thread; three objects
are as many as three threads can make at once; the second activity replaces the first.
Game threads, objects and activities are interchangeable, and no property tells them
apart, so `platform` uses symmetry; `MCPlatform` adds a history variable that says whether
two threads have met in `create()`, the condition under which `OnePlatform` and
`ActivityReachesAll` claim nothing and `platform_race` finds two instances.
Singleton: of four threads one builds and throws, another builds, and two wait; a
second object shows a rebuild.
Entity: two classes interfere and a third shows that it is left alone; a class nested in
itself and another needs depth 3; five objects are those in the map and under construction
with one to spare, while deleted ones are still pointed to.
Unlocked members: the second thread is every other thread, since a view only compares
with the stores; with four stores a thread can miss two and catch up by an atomic between
them.  Counters of 3 and 9 values wrap within the run, each at its own width: with additions
of 7, of which two pass 9, `playTime` wraps too.  Threads are interchangeable (`Same`).  Three indices
are inside all arrays, inside the longer ones, and beyond all; the arrays are shorter than
in the program (1 and 2 elements for 3 and 7), but lie in its order, so that an index one too
far falls into the next array or into the member behind them.

The violation runs show where a comment in the code says more than the code
does; each is quoted in `PROJECT.json` under `findings`.

### Fairness

`ObjectPool!FairSpec` and `EventManager!FairSpec` are weakly fair to the steps of a
thread inside a call, because a running thread keeps running; nothing forces a
thread to make a call, to use an object, or a handler to return.  No strong
fairness is assumed for locking, since `std::mutex` promises none: so
`ReturnGetsThrough` says only that a thread in `release` is kept out solely by
others that keep taking the lock, and `MutexFreed` that every holder gives the lock up.
`pool_nested` has one thread, which the free lock would serve at once; it
waits for ever all the same, for itself.

Deadlock is checked in every passing run but four, in which threads stop where the
code is undefined: `pool_faults` at a mutex its own thread holds or that is gone,
`packet` at a read outside of the data, `platform` at a JNI call with an exception
pending, `singleton` at the null pointer after `destroy()`.

## Proofs

`ObjectPoolProofs` proves, for any sets of threads and objects, any sizes, any
combination of `reset` and `cleanup`, and the faults named:

| Theorem | States | Assumes beyond `PoolAssumption` |
|---|---|---|
| `TypeCorrect` | `[]TypeOK` | nothing |
| `UniqueOwnership` | `[]UniqueOwner` | nothing: all faults may occur |
| `PoolImplementsLease` | the pool implements `ObjectLease` | nothing |
| `SelfLockOnlyByDeleter` | `SelfLockHasCause` | nothing: all faults may occur |
| `HandoutIsFresh` | `FreshHandout` | T has a `cleanup`, or a `reset` that every call has arguments for |
| `NothingLeaks` | `[]NoLeak` | `reset` does not throw |
| `HoldsWhatWasNeeded` | `[]DemandBound` | `reset` does not throw |

The argument.  `UniqueOwner` is not inductive: that `AcquirePop` may take `back()`
and that `ReleasePush` does not put an object on the list twice depend on what the
thread saw earlier.  The inductive invariant `IInv` adds: only the holder of the
lock is between lock and unlock (`LockInv`), so what it saw of the list is still true
(`ListInv`); a thread has exactly one object in hand on its way out or back and none
otherwise (`HandInv`); objects that hold handles exist (`MembersAlive`), which is what
makes deleting an object safe for those it points to.  `NextIInv` has one step per
action.  The refinement maps `AcquireWrap` to `Lease`, copies and drops to `Share` and
`Return`, and every wiping or deletion, nested or not, to `Reclaim`; everything else
stutters.  `SelfLockOnlyByDeleter` is about steps: by `LockInv` a thread that drops a handle outside
the pool does not hold the lock, so only a step in which the pool runs the deleter under its lock
(`WipeReenters`, the failed control block, `clear`) can make a thread wait for itself.
`HandoutIsFresh` and `NothingLeaks` each add one invariant to `IInv` that is
inductive only under their assumption (`CleanInv`, `NoLeak` itself).
`HoldsWhatWasNeeded` is about `MCObjectPool`, whose `peak` is a history variable.  Only
`AcquireNew` adds to the heap, and it finds the list empty (`AllocatesWhenEmpty`, inductive
with the lock); with `NoLeak` the heap is then just the objects in use, which `peak` counts.
That the assumptions are needed shows in `pool_nested` and in `pool_faults`, which
checks only what holds without them.

`LazySingletonProofs` proves `[]TypeOK` (which says that one thread at most builds) and
`[]ReferencesLive`, for any threads and objects, from an invariant on the once flag: it is
"running" while a thread is in the lambda and "done" while one is behind `call_once`.  That
a thread behind `call_once` finds an object until the first `destroy`
(`FirstLifeHasInstance`) needs one more: a flag that is done then has its object.

`EntityProofs` proves `[]TypeOK`, `[]OneOwner`, `[]CastIsRight`, `DanglesByOwnClass` and
`HandsOutStored`, for any
classes, objects and depth, from `EntityAssumption` (hash codes differ).  `OneOwner` and
`CastIsRight` are inductive together: that an assignment deletes nothing but the component
of its own class follows from the one owner and the keys.  `DanglesByOwnClass` needs
`HeldInv` besides: no caller points to an object that is still being made.

`EventManagerProofs` proves, for any threads, types and bounds, `[]TypeOK`, `[]IdsIdentify`,
`[]NoLockInHandler` and that `EventManager` implements `EventBus` (`ManagerImplementsBus`).
`IdsIdentify` is not inductive: that `SubscribeAdd` appends the largest id yet depends on the
id drawn before.  `IInv` adds: the holder of the lock is the thread between lock and unlock
(`LockInv`); an id drawn and not stored is above all in the lists (`DrawnInv`), which needs the
lock; what has been copied is the beginning of the list (`CopyInv`), which needs it too; a
batch that goes on has an event (`BatchInv`).  Two facts about sequences carry the
rest: what a stack is when a frame is put on it (`ConsFacts`), and that taking an element
out of an ascending list leaves an ascending list of the same elements (`RemoveFacts`).
In the refinement a `publish` happens when it unlocks: `CopyInv` makes the copy equal to the
list at that moment; a copy that fails has not published, and what is left of its calls is that of
a handler that threw.  A `subscribe` happens when it appends, so an id drawn and not
stored is not issued yet; one that fails is the `SubscribeFails` of the bus, which issues the id and
subscribes nothing.  A thread that copies or is between two events of a batch shows
only the calls around it (`Shown`), so locking, copying and taking a batch are
stutters.  The other steps have a lemma each, except `unsubscribe` and `clear`, which are
the same in both modules.

`PlatformProofs` proves `[]TypeOK`, `[]InUseIsValid` and `[]LocalsReturned` for any game threads,
platform objects and activities, and, for `MCPlatform`, `[]OnePlatform` and `[]ActivityReachesAll`.
`IInv` adds to the types where each thread can be (`PlacesInv`), that whoever is behind the test
in `create()` holds an object that exists (`PointerInv`), how far `nativeInitPlatform()` has come
with the references (`ActivityInv`), and which local references a thread has at each place of a
call (`CallInv`, `LocalsInv`): the last is what makes the deletion on every way out
enough.  `AloneInv` says what the absence of the race in `create()` gives: one thread at most
is making the platform, and then there is none yet.

`UnlockedProofs` is about the four classes whose members threads share without a lock: each
class by itself (`LoginSeen`, `CountersAdd`, `ItemKeeps`) and all as `MCUnlocked` puts them
together (`[]TypeOK`, `[]LevelHolds`, and the same again), for any threads, stores, widths, numbers
of sockets and attributes, and depth of nested messages.  The three lemmas on `PlainMembers`, what
a load, a store and an acquire do to the views, serve all four.

* `LoginSeen` (`SessionInv`): a thread's view of the player id is at least what it set itself
  and what came with the states it read, and the state carries at least the last id
  of the thread that set it.
* `CountersAdd`, `ItemKeeps` (`PlayerInv`, `ItemInv`): as long as nothing has raced, the thread
  that is in the middle of an operation has read, or has written, the newest store.
  The sum of a counter is taken modulo its width at every addition and in `CountersAdd`
  once, which is the same by two lemmas on `%`.  For `ItemKeeps` no two slots may be the
  same cell: the attempt to prove this showed that two cases of `Cell` overlapped, where TLC
  took the first; they are disjoint now.
* `LevelHolds` (`LoggerInv`): an ordered thread can read nothing but the newest level, so a test
  lets no further message below it through, and its allowance covers those it is formatting.

`PacketBufferProofs` proves, for any number `B` of byte values from 2 on (`WireAssumption`)
and any sets of numbers, texts and lengths that fit their types (`FieldAssumption`):

| Theorem | States |
|---|---|
| `PositionStaysInside` | `[]TypeOK`: `m_readPos` never passes the end of the data |
| `ReadBack` | where a field's encoding lies, the read of the same type gives the field back and moves on by the encoding |
| `FieldsComeBack` | `[]FieldsArrive` |
| `ReaderStaysAligned` | `[]Aligned` |
| `OnlyNothingStops` | `[]StopsAtNothing`: a read outside of the data only where nothing but empty texts and empty runs of bytes is left |

It begins with lemmas about `Wire`, which need only `WireAssumption`: the bytes of a number are
the digits whose sum with their places is the number, the sign comes back after the cast, a text
padded with zeros ends at the first of them.  `FieldsArrive` is not inductive, since it says nothing of bytes that
have not been read.  `IInv` adds `Layout`: places that cut the data into the encodings of the
fields, one after the other, with `m_readPos` on the place of the next field unless a text too
long was read over.  A write adds a place, a read goes on to the next one, by `ReadBack`.  No step
needs an induction: the first zero of a text is a least element, which the library's
theorem on well-founded sets gives, and that `Encodings`, a recursive function, has the value the
layout says follows because two solutions of its equation cannot differ at a
largest index.

`PacketsProofs` proves, for any number of byte values that holds the packet ids (115, from
`PacketsAssumption`), any values and texts callers assign and any bytes uninitialized memory
is made of:

| Theorem | States |
|---|---|
| `PacketsTyped` | `[]PacketTypeOK` |
| `WholeArrives` | `[]WholePacketArrives` |
| `CutShowsPrefix` | `[]CutPacketShowsPrefix` |

The properties speak of packets that have been read; the inductive invariant
(`PacketsInv`) adds what makes the read come out right.  `Filled`: every member has a value of its
width, a garbage one too, and the id is that of the struct or, for a chat, a chat's or 0.
`OnTheWire`: before it is sent there are no bytes; once sent, each member lies in them where `End`
says, all of it and nothing between (`Laid`); in what a broken connection leaves, the members that end
there still do (`Broken`).  `FirstByte` and `HandlerIs` then show that only the handler of the packet's
own struct, or the default one, can be picked.  The rest is about one struct, taken as a
sequence of members with what `Shape` says of all four: by induction over its members,
`Memory` and `serialize()` lay them one after the other (`MembersLie`), the reads stay inside the
bytes (`ReadingWithin`) and, as long as members are all there, start where these lie
(`ReadingBack`).  What the failed reads of a `ChatPacket` make of the bytes left to them
is the one argument by position (`ChatBroken`): wherever the
packet broke off, too few are left for the size, the sender or the text that is missing.
The induction is over a set of numbers, as a least one outside of it (`Induct`), and the
recursive functions `Memory`, `ReadRaw` and `End` are defined by equations that are
shown to have a solution first (`IterationExists`).
The module extends `PacketBufferProofs` for the lemmas about `Wire`; neither the state of
`PacketBuffer` nor `FieldAssumption` plays a part in it.

Model-checked only: the liveness properties, `MutexFreed` of both modules and
`ReturnGetsThrough`, which need fairness and `ENABLED` and are beyond TLAPS, and what the
three violation runs refute.  Every invariant and every action property of a passing
run is also a theorem.

## Not modelled

Parts without a body (see the inventory); printing and formatting; `PacketBuffer`'s
memory growth; exceptions out of the pool's deleter, which end the program.
Of `Session`, `Logger`, `Character` and `Item` the accessors of single members that no
other member goes with, and everything only declared: `log()` and the sinks,
`receivePackets()` and `processPacket()`, the game rules.  The `_LOC` macros of the logger
(179-186) call the private `format()` and do not compile in any other class.
What a handler of `processQueue` learns of an event's type: only a base class pointer is
stored, and the body is missing.
Captures of handlers whose copy constructors use the event manager; when a level set by
one thread reaches another that nothing orders after it.
`destroy()` of the singleton or the platform while another thread is using it, which the code
does not prevent and callers must; threads
that end while attached to the VM; Java methods that return null without throwing.
`getPlatformInfo()` and the constant paths, which read the system and change nothing.
An object of type T without both `reset` and `cleanup` comes back from the pool with the
data of its earlier user; the runs and the theorem about `FreshHandout` leave it out.

The class `AndroidPlatform` cannot be compiled as it stands: `callJavaMethod`
declares a variable of type `void` when instantiated for `vibrate` (line 171).
`Platform` follows the evident intent there and the code everywhere else.
The listings in `MOBILE_ADAPTATION_GUIDE.md` are proposals without source files,
and `METIN2_FILE_STRUCTURE.md` describes another program.

## Plan

In order of importance; all are done.

1. `ObjectPool` with `ObjectLease`.
2. `EventManager` with `EventBus`.
3. `Wire`, `PacketBuffer`, `Packets`.
4. `Platform`: the factory and the JNI calls.
5. `LazySingleton`.
6. `Entity`.
7. `PlainMembers` with `Session`, `Logger`, `PlayerCharacter`, `Item`.
8. `EventManagerProofs`.
9. `PlatformProofs`.
10. `HasFirstInstance` and `DemandBound`, with their history variables, and `HandsOutStored`.
11. `UnlockedProofs`: `LoginSeen`, `CountersAdd`, `ItemKeeps` and `LevelHolds`.
12. `PacketBufferProofs`, with the lemmas about `Wire`.
13. `PacketsProofs`: the four structs, member by member, from the same lemmas.
