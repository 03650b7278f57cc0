# A verification of pNVSE in TLA+

pNVSE is a fork of xNVSE, the script extender of *Fallout: New Vegas*: a DLL
that is injected into the game, patches its machine code, extends its script
language (arrays, strings, expressions, functions, lambdas, event handlers) and
loads further plugins, which it gives messages, events and a place to save
their data in.  This directory holds TLA+ modules of the parts of it that keep
state over time or compute what scripts mean, the TLC configurations that check
them on small instances, and proofs, checked by TLAPS, about arrays and what a
save keeps of them, ID maps, calls and lambdas, strings, frames, events and
plugins.

Paths are relative to `src/nvse/nvse/` unless they begin with `src/`.

1. [The system](#1-the-system)
2. [The modules](#2-the-modules)
3. [The runs](#3-the-runs)
4. [Disagreements found](#4-disagreements-found)
5. [What is proved](#5-what-is-proved)
6. [What is not modelled](#6-what-is-not-modelled)
7. [Plan](#7-plan)

---------------------------------------------------------------------------

## 1. The system

### Components, their state and their operations

| Component | State | Operations | What makes it correct |
|---|---|---|---|
| **Script arrays** `ArrayVar.cpp` | map ID -> array; per array its owner mod and `m_refs`, one mod index per reference; the elements, which may refer to arrays | create, store in a variable, an element or a self-owning element, erase, `Clean` once per frame, save, load | an array lives exactly as long as something refers to it; an ID never comes to mean another array; `Clean` ends |
| **ID maps** `VarMap.h` | used, temporary and available IDs; the variables; a one-entry cache; a lock | `GetUnusedID`, `Insert`, `Get`, `Delete`, `MarkTemporary`, `Reset` | `Get` answers what the map holds; no ID is lost, nor given twice by calls that do not overlap |
| **String variables** `StringVar.cpp` | a `VarMap`, and a cache of function results whose strings must stay | as above, assign and return a string | as above; a cached result is not deleted while it is cached |
| **Plugin manager** `PluginManager.cpp` | the plugins loaded, the handle of the one loading, lists of listeners per sender | query, load, hand out handles, register a listener, dispatch a message | a handle names its plugin; a message reaches those who asked for it, once, and only code that is loaded |
| **Event manager** `EventManager.cpp/.h` | per event an ordered multimap of handlers; a list of removals; two lists of deferred events; a mask of events in use; a lock | set, remove, dispatch (classic and raw), defer, `Tick`, flush on load | nothing refers to an erased handler; each dispatch calls whom it owes, in order of priority |
| **Cosave** `Serialization.cpp` | buffer, position, count of bytes; open plugin and chunk headers; callbacks per handle; the `.nvse` file | save; preload and load; records: open, write, next, read, peek, skip | a plugin reads back what it wrote, whoever else is there; everyone is told of a load |
| **Core records, load hooks** `Core_Serialization.cpp`, `Hooks_SaveLoad.cpp` | the mod lists of the file and of the game | reset and read arrays, strings, mods; translate form IDs | no state of one game survives into another |
| **Frame, delayed calls** `Hooks_Gameplay.cpp`, `Commands_Script.cpp` | six lists of calls to make later, each with a lock | schedule, run, cancel, clear on load | each call is made as often as was asked; a callback may change the lists |
| **Function scripts** `FunctionScripts.cpp` | per thread a stack of contexts and a depth | call, pass arguments, return | calls nest; depth returns to zero |
| **Lambdas** `LambdaManager.cpp` | lambdas by position; saved variable lists with counts of lambdas | create, save and unsave variables, parent deleted, erase unused | a variable list lives as long as a lambda that uses it |
| **Loops** `Loops.cpp`, `Hooks_Script.cpp` | a stack of loops per thread; while compiling a stack of loop starts | begin, next, break, end | jumps go where the text does, whatever is called between; a body may change what is iterated |
| **Inventory references** `InventoryReference.cpp` | temporary references, deferred actions | make, validate, defer, perform | an action is done to the item that was meant |
| **Token cache, cached scripts** `ScriptTokenCache.cpp`, `CachedScripts.cpp` | tokens by script offset, per thread; compiled files | get, clear | no token is used after it was cleared |
| **Expressions** `ScriptUtils.cpp`, `ScriptTokens.cpp` | stacks of operators and of operands; a rule remembered per operator | parse, annotate with jumps, evaluate | a text is accepted if it reads as an expression, and does what it reads as |
| **Commands** `CommandTable.cpp`, `Commands_*.cpp` | none of their own | several hundred | each its own |
| **Containers, pools** `containers.h`, `MemoryPool.cpp`, ... | vectors, maps, sets, stacks, pools | | sequential data structures |
| **Game classes** `Game*.h`, `NiNodes.h` | the game's | | layouts |
| **Hooks** `Hooks_*.cpp`, `SafeWrite.cpp` | patches | | lead into the components above |
| **Thread-local data** `ThreadLocal.cpp` | a block per thread | get, free at exit | |
| **Common library** `src/common` | streams, FIFO, pools, locks, threads | | general utilities, hardly used |
| **Loaders** `src/nvse/nvse_loader`, `steam_loader`, `loader_common` | none | start the game, inject | |
| **Algohol** `src/nvse/Algohol` | none | vectors, quaternions | arithmetic |
| **pNVSE plugin** `src/nvse_plugin_example` | instances of game objects, kits, auxiliary variables, timed calls, one record in the cosave | commands, hooks, save and load | its record is read as it was written; instances live as long as references to them |

### How they interact

* The **main thread** runs the game.  Once per frame `Hooks_Gameplay.cpp`
  (586-617) sends a `MainGameLoop` message, clears inventory references, calls
  `EventManager::Tick`, `g_ArrayMap.Clean`, `g_StringMap.Clean`,
  `LambdaManager::EraseUnusedSavedVariableLists`, and then makes the delayed
  calls.  Scripts run in between and inside: from event handlers, from delayed
  calls, from functions called by scripts.
* **Other threads** of the game may run scripts too.  Events they dispatch are
  deferred to `Tick`; the maps, the lists of delayed calls, the lambdas and the
  event manager have locks, which not every access takes.
* A **save** calls each plugin's callback in the order of handles; a **load** is
  made of two passes over the file, before and after the game has loaded its
  own, with each pass calling the plugins in the order of the file and then
  those without data.
* **Callbacks** are everywhere: a destructor of an array calls back into the map
  it is being erased from; a handler of an event or of a message may register,
  remove or dispatch; a script called late may schedule.

### What is hard

Reentrance (destructors, handlers and delayed calls that change the structure
their caller is iterating), what is deferred and outlives what it refers to,
reads outside locks, plugins that are there when the game is saved and not when
it is loaded, files cut short, and one failure among many plugins.
`PROJECT.json` lists these hazards one by one, at their lines.

---------------------------------------------------------------------------

## 2. The modules

| Module | Models | Is used by |
|---|---|---|
| `RefHeap` | what arrays promise: objects, slots that point at them, freed only when unpointed | `ArrayVarMap` implements it |
| `ArrayVarMap` | script arrays, their reference counts and IDs, `Clean` | `ArrayPersistence` |
| `ArrayPersistence` | saving and loading of arrays with mods removed in between; extends `ArrayVarMap` | `MCArrayPersistence` |
| `VarMap` | the ID map with its cache and its lock, by threads | `MCVarMap` |
| `StringVars` | string variables: results of commands, arguments, assignment, save and load | `MCStringVars` |
| `Expressions` | the parser of expressions, the short circuits, the evaluator and its cache of rules | `MCExpressions` |
| `ScriptLoops` | the checks and jumps of loops, compiled and run | `MCScriptLoops` |
| `ScriptCalls` | calls of functions and lambdas and the variable lists they run on | `MCScriptCalls` |
| `MainLoop` | a frame, the six lists of delayed calls, a second thread, two kinds of lock | `MCMainLoop` |
| `EventManager` | event handlers, dispatch, deferral, `Tick` | `MCEventManager` |
| `PluginManager` | installing plugins, handles, listeners, messages | `MCPluginManager` |
| `Cosave` | saving and loading of plugins' records | `MCCosave` |
| `InstanceRecords` | what the pNVSE plugin writes of its instances and reads back | `MCInstanceRecords` |
| `Sublists` | what a loop that picks some elements of a list gives | `EventManager`, `ArrayPersistence` |
| `DataLemmas` | lemmas on least and greatest elements, on removing from a vector, on what a loop picks | the proofs |
| `ArrayProofs` | the theorems about `ArrayVarMap` and `ArrayPersistence` | |
| `ThreadProofs` | the theorems about `MainLoop` and `VarMap`, which threads share | |
| `StringVarsProofs`, `ScriptCallsProofs`, `EventManagerProofs`, `PluginManagerProofs`, `CosaveProofs` | the theorems about the module they are named after | |

Each `MC` module only defines values for constants (`MCExpressions` and
`MCScriptLoops` enumerate the texts).  The definitions called
`Mutant...` stand beside the definition they spoil in one plausible way, and are
used by no specification; they show that each property can fail.

### ArrayVarMap

* **State.** `vars` (the keys of `VarMap::vars`), `owner`, `refs` (`m_refs`),
  the three pools of IDs; `word[s]`, the 32 bits of each place that can hold an
  array ID (a script variable, an element `<<b, k>>`, a self-owning element such
  as an event filter or an argument of a delayed call), and `numeric`, the
  elements whose type says that the word is half a number.  `cleaning` and
  `dying` are the program counter of `Clean` and `Delete`.
* **Actions.** `Create`, `AssignVar` (`let v := a`, arguments, iterators),
  `ClearVar` (`CleanUpNVSEVars`), `SetArray`, `SetNumber`, `EraseElement`,
  `HoldArg` and `DropArg` (`SelfOwningArrayElement`).  Every one calls
  `Dropped` and `Taken`, which are `RemoveReference` and `AddReference` as
  functions of a record of counts, so that an operation that makes several calls
  is one action.  `Clean` is not atomic: `DeleteBegin` unlinks the greatest
  queued array, `DestroyElement` runs element destructors in any order (the
  containers differ in it), `DeleteEnd` returns the ID.
* **Mod indices.** `AddReference` appends the index of the mod that refers,
  `RemoveReference` removes the last entry that is equal.  Elements are added in
  the name of their container's owner and removed in the name of their content's
  owner.  The model keeps both, which is what makes counts inexact.
* **Left out.** The cache (in `VarMap`), element values other than arrays and
  the low word of numbers, copying of arrays (a sequence of `Create` and
  `SetArray`).

### ArrayPersistence

`ArrayVarMap` with a file.  `SaveBegin` runs `Clean` to its end, `SaveWrite`
writes a `Record` of every array that is referred to, `PreLoad` resets the map
and may take mods away, and `ReadArray` reads the records one by one in any
order, as the hash table they were written from gives them: it drops the
references of mods that are gone, gives the array to another mod or discards it,
and makes the IDs between two records available.  Mods are named by their file,
so that the renumbering of mod indices is the identity, and what is left of it
is who is gone.

### VarMap

A step is a critical section, or one access to shared memory where no lock is
taken: `Get` is `CompareID`, `ReadCached`, `LookUp`, `FillID`, `FillVar`,
`Return`.  Variables are numbered as they are made, so that a destroyed variable
differs from a new one with its ID.  A script deletes an ID it has found
(`CallDelete`); `Delete` takes the lock, and the destructor runs inside the locked
section (`EraseVariable`, any number of `Get`, `DeleteEnd`).  What a thread knows is what
its locals say, so between `GetUnusedID` and `Insert`, and between `CallDelete` and
`Delete`, other threads may do anything.  `overlapped` is a history variable: a
thread has made a step while another was in a call.  `MapSpec`
is the map as scripts use it, `MapSpecWithReset` adds `Reset`, which a load calls.

### PluginManager

`InstallPlugins` is the sequence of `phase`s `query`, `postQuery`, `load`,
`postLoad`, `postPostLoad`, `run`.  What becomes of each DLL (`fate`: not a
plugin, refuses in `Query`, fails in `Load`, loads) is chosen at the start and
not known to the manager.  `index` is the counter that becomes
`s_currentPluginHandle`; `lists` are `s_pluginListeners`, where an entry keeps
the handle it was registered with (`listener`) and the DLL whose code it points
to (`code`).  A dispatch is a frame on `stack`; handlers run while their frame is
on it and may register and dispatch.  When plugins take their handle, register
and dispatch are constants (`HandleFrom`, `RegisterIn`, `DispatchIn`), since the
protocol that `PluginAPI.h` documents is one of the things the results depend on.
A DLL whose `Load` fails stays in memory until all have been loaded and is then
`Freed`; what it registered stays in the lists, and a call that goes into it is the
end of the program, so nothing follows such a call in the model.

### EventManager

`callbacks[e]` is the multimap in its order; a handler is a `node` with
its function, its filter, its priority and the two flags `removed` and
`pending`.  `stack` holds the dispatches under way; `owed` is a history variable
of each: the nodes that matched when it began and have been neither called nor
removed.  The main thread dispatches when it may run scripts; another thread
sets, removes and defers only when no dispatch and no `Tick` is under way,
because both hold `s_criticalSection`.  `Tick` handles the classic deferred list
from its end (`Stack`), the raw one from its start (`deque`), and then erases
removed handlers.  A node's number is used again only when nothing refers to it,
so that a dangling reference cannot hide behind a new handler.

### Cosave

The buffer and the file are sequences of cells: a header is one cell and so is
a byte of data.  A byte is named by who wrote it, in which record and where, so
that `ReadsWhatWasWritten` can compare each read with what is wanted.
`OpenRecord` and `SaveReturns` flush the chunk before (`FlushWriteChunk`), which
goes back to its header, writes it and returns (`BackPatch`): `length` counts
what was written, `ptr` is where the writer is.  The buffer grows as in the code
(`CheckResize`, `Resize`): it doubles until it holds what is asked for, which in a
write is the size of that write and not the position plus that size.  One call
writes up to `MaxWrite` bytes; offsets are words, and a buffer that would outgrow
them cannot be allocated (`Allocatable`).  In a load the loop over the
plugins is `CallLoad`, `SkipPlugin`, `ReadNoHeader`, `ReadHeaderThrows` and
`LoadReturns`, and what a callback may do is `GetNextRecordInfo`,
`ReadRecordData`, `SkipNBytes`, in any number.  Exceptions (`ValidateOffset`)
end the load as in the code, with `HandleNewGame` if it was not a preload.
`Restart` chooses another set of plugins in another order with other callbacks.
`KilledInSave` leaves any prefix of the file, also less than a header
(`ScrapHeader`).  `LoadFile` is the opening of either pass: `OpenFile` goes on to the
plugins; `GiveUp` makes it a new game when there is no file or the header throws, and
leaves without a word when the header has another signature or version (`Refused`), which
it has in a file that came from elsewhere (`FileReplaced`).  `IndexPastEnd` is the read past
`s_pluginCallbacks`: undefined behaviour, after which the program has failed or
goes on as if there were no callback.

### MainLoop

`stage` is how far the main thread has come in a frame: the scripts of the
game, `Tick` (deferred events, with `s_criticalSection` held), `Clean`, the
clock, and the six lists in the order of `HandleMainLoopHook`.  A list is an
ordered sequence of calls; `at` is the iterator of the loop over it.  `Visit` is
one turn of that loop up to the script it runs, `ConditionReturns` and
`CallReturns` the rest of the turn, and while a script runs it may schedule
calls on any list (`Schedule`) or ask for the event manager (`WantEvents`).
Another thread schedules calls, dispatches events, which are deferred, or runs
handlers at once (`DispatchEventAlt`), and waits for the locks the main thread
holds.  Time is kept as what is left of a delay.  `served` is a history variable:
the visits at which the call was allowed to run.

### ScriptCalls

`lists` are the event lists that exist; a list carries the number of the call
whose variables it has, `own` is `FunctionInfo::m_eventList`, `stack` the calls
under way, `parent` and `captured` the `LambdaContext`, `saved` the table
`g_savedVarLists` with its counts.  `CallFunction`, `StartBody` and `Leave` are
`FunctionContext::Execute` cut where the arguments have been evaluated and where
the script returns; `EvaluateLambda` is the token of a lambda, `Hold` and
`Release` what handlers, delayed calls and array elements do with one
(`SaveLambdaVariables`, `UnsaveLambdaVariables`), `EraseUnused` the sweep between
frames, `DestroyList` the game freeing the list of an object.  The operands that
wait in an expression are left out (section 4 says what becomes of them).

### ScriptLoops

A script is a sequence of lines and a line is its first word.  `Process` is the
preprocessor with its stack of blocks, `Compiled` the two hooks of the compiler
that push and pop `s_loopStartOffsets` and fill in the offset behind `loop`;
lambdas in the text empty that stack.  At run time `loops` is the one stack of a
thread, and each of `While`, `ForEach`, `Loop`, `Continue` and `Break` is cut
where it calls `Update`, since a condition may call scripts that loop
themselves.  An entry keeps the stack of ifs of its script, which `RestoreStack`
puts back at every jump.  `ForEachFails` is a command that returns false: the
script is gone and its entries stay.

### Expressions

`ParseSubExpression` is a loop over tokens with a stack of operators and a stack
of types; brackets and arguments of commands are calls of itself (`frames`).
`ParseShortCircuit` is a function of the postfix text.  `Evaluate` runs it,
taking the rule of an operator from the cache or looking it up by the types it
meets.  Beside the machine stands the reading of the text: `Sentence` says what
is an expression, `Postfix` how a reader groups it and `Means` what it evaluates
to, lazily and with no cache.  The properties compare the two.

### StringVars

`map` is the `VarMap` of strings, `cache` the one cached string of the thread
(`s_functionResultStringVar`) with its `inUse`.  A script that runs is a frame
with its mod, the string of its own variable and the line it evaluates, on which
tokens wait that name strings or hold literals.  A line is a `let`, or
a command with an evaluator of its own (`kind = "call"`: `Call`, `ToString`, `TypeOf`)
that stands alone or after `set x to`.  `Command` returns into the
cached string or a temporary one (`AssignToStringVarLong` while an evaluator is
`Active`), `Operator`, `Assign` and `EndLine` destroy tokens, which releases the cached
one, `Call` and `Return` copy arguments and results.  `SetResult` is the end of a
command with its own evaluator: its result goes the same way as `Command`'s, but
no token stands for it, so that nothing releases the cached string.  `SetTo` is
`set x to` a command without an evaluator, in a script that an expression called or
in one that the game runs.  A save and the load of it are one action: `Reset`
forgets whatever happened in between.  A load that leaves a variable without its
string makes the game `lost`; no script runs in it.  `Restart` ends the
program at any time and begins a new game in a new one.

### InstanceRecords

The record is a sequence of fields, a kind and a value.  `Save` writes it in the
order `SaveGameCallback` does (kits, locations, bases with their instances and
references, loose references), from the queues it fills as it writes.  `Load` is
the reader: every group has a form that restores and one that skips, `Read`
demands the kind that was written, `Skip` only its number of bytes, so that a
reader out of step is noticed at the field where it goes wrong.  `Restart`
chooses which kits, forms and pairs the next session has and how its kits are
numbered; a script may refuse to reconstruct an instance.

---------------------------------------------------------------------------

## 3. The runs

| Run | Instance | Distinct states | Shows |
|---|---|---|---|
| `arrays_one_mod` | 3 IDs, 1 key, 2 variables, 1 argument, 1 mod | 23 thousand | counts exact, queue = unreferenced, pools agree (`Bookkeeping`), nothing dangles, `Clean` collects all garbage and ends, refinement of `RefHeap` |
| `arrays_saved` | 2 IDs, 2 mods with a variable each, 2 loads | 6.1 million | new IDs are fresh after any load; a load with the same mods gives back every array and breaks no reference (`ArraysSurvive`); no trace of a mod that is gone |
| `id_map` | 3 IDs, 3 variables, 2 threads | 2.7 million | the map has exactly the used IDs whenever the lock is free, and none is lost, however calls overlap (`IDsKept`); as long as calls do not overlap the cache answers as the map and the pools agree (`MapSound`) |
| `string_vars` | 2 mods with a variable each, 3 IDs, functions one deep, 2 operands waiting | 4.6 million | no two variables or results share a string (`StringsApart`), operands keep what was returned (`OperandsKept`), nothing is left behind (`NoneLeft`), a loaded variable has its text unless its string belongs to no mod, and then it has none (`StringsSurvive`) |
| `expressions` | every text of up to 4 leaves over `\|\|` and `&&`, of up to 3 over mixed operators, every scrap of up to 4 tokens, operands of changing type; each evaluated twice | 280 thousand | accepted and grouped as it reads (`CompilesAsWritten`), evaluated as it reads (`EvaluatesAsWritten`) |
| `script_loops` | every text of up to 5 of 8 words, 10 longer ones, calls two deep | 250 thousand | accepted exactly if it nests, every jump goes where the text does, the stacks of loops and of ifs are as deep as the text, foreach gives every element |
| `script_calls` | 1 function, 1 script, 2 lambdas, 2 holders, 4 calls, depth 3 | 414 thousand | every list has one owner, calls have lists of their own (`CallsOwnLists`), a stored lambda keeps its variables and is counted once per holder (`LambdasKept`), what a saved lambda counts on is neither reset nor erased (`VariablesStay`) |
| `main_loop` | 2 calls, delays of 1 and 2 frames, a second thread | 3.7 million | iterators stay valid, calls are made in time |
| `events` | 2 events (classic, raw), 2 functions, 2 priorities, 2 nodes, depth 2 | 181 thousand | no dangling or double entries (`HandlersSound`), dispatches reach whom they owe in order, `Tick` catches up |
| `plugins_protocol` | 2 DLLs, each no plugin, failing in `Query`, failing in `Load` or loaded, dispatch depth 2 | 34 thousand | a handle is its plugin's place and as many more as `Load`s failed before it, and handlers are in DLLs that are loaded or whose `Load` failed (`PluginsAnswer`); who was told it listens is in the list, once (`ListenersHearOnce`); lists keep still while they are walked |
| `cosave` | NVSE and 2 plugins, 2 records, 1 byte each, a file that is refused | 1.1 million | buffer and lengths (`BufferSound`), what is read was written, everyone is told once, or at least called if a load fails, unless the header is refused (`EachTold`), loads end |
| `instances_saved` | 3 weapons (one made by a kit, one that only pairs use), a pair of like and one of unlike weapons, 2 kits, 2 places, 3 instances and references, 1 save, 1 load | 218 thousand | writer and reader keep step (`InStep`), what the reader can find the base of is back in every place that is there (`Restored`), nothing else is |

Several properties are conjunctions of named parts, each commented where it is
defined: `Bookkeeping`, `MapSound` (`PoolsAgree`, `GetAnswersMap`), `PluginsAnswer`
(`HandlesIdentify`, `HandlersAreLoaded`), `HandlersSound` (`NoDanglingCallback`,
`ListsAgree`), `TicksCatchUp`, `BufferSound`, `EachTold` (`EachToldOnce`,
`EveryLoadIsHeard`), `ArraysSurvive` (`ReferencesSurvive`, `RoundTrip`),
`CompilesAsWritten` (`GroupsAsWritten`, `AcceptsSentences`), `CallsOwnLists`
(`ListsOwned`, `OwnVariables`), `LambdasKept` (`KeptVariables`, `CountsMatch`).

### Why the bounds are enough

* **Arrays.** Three IDs make a chain (an array in an array in a variable), a
  cycle and a reused ID; with one key per array an element is overwritten, moved
  and cleared; two variables and an argument share an array.  `MaxRefs = 3`
  is all the places that can hold it, and one more for two mods, where counts
  leak.  The proofs lift all these bounds except the leaking count's.
* **ArrayPersistence.** Two IDs make a reference between records in either order,
  and a gap below or between; two mods make one that owns and one that refers;
  the second load reads what the first has repaired.
* **VarMap.** Two IDs are needed for a cache that holds the wrong one, a third
  for a gap between available IDs.  Two threads are what a race needs: one that
  creates or deletes an ID while the other creates, deletes or reads it.
* **StringVars.** Three IDs are a cached string, a temporary one and one of a
  variable; two operands are one that waits in a caller and one in the function
  it has called, or in the command that a line consists of.  One text is enough for
  `OperandsKept` because it also says that no two
  waiting results share a string.  The mods with their variables are alike (`Alike`), so
  TLC takes them for symmetric.
* **Expressions.** The jump over a settled operand goes wrong, if it does, between
  two operators of one kind with another between or around them: four leaves.  A
  rule is remembered by the first evaluation and used by the second.
* **ScriptLoops.** A jump can be wrong only where loops and ifs nest or follow one
  another: five words hold every pair of blocks with one jump, and the longer
  texts a third block, labels, lambdas and calls.
* **ScriptCalls.** One function recurses into itself with a lambda that calls
  another; the second holder keeps what the first lets go.  Four calls are a list
  that is saved, one that is copied and two that are recursive.
* **MainLoop.** Two calls are the current and the next node of a list; a delay of
  two frames (`MaxDelay = 2`, the longest) can have one frame of each mode.  `MaxNew = 1` script call per
  frame schedules from inside the loop.
* **Plugins.** Two plugins and NVSE give a sender, a listener and a bystander, and a
  `Load` that fails before one that does not; three, with messages one deep, were
  checked too (8.6 million states), with the same result.
* **Events.** Two nodes on an event are needed to insert before, after and
  at the one whose handler is running, and to remove either; a depth of two is a
  dispatch inside a handler of the same event.  Three nodes of one priority on
  one event were checked too (350 thousand states).
* **Cosave.** Two records let one plugin have two and the other none, or one
  each; a byte of data makes records of different lengths.  `MinBuffer = 1`
  makes the buffer grow at every position (the program starts with 0x40000
  bytes).  `WordSize = 256` is above every offset that occurs; `Remain` wraps
  around only in files cut short, as in the program.  Two bytes per record, written
  by one call or by two into a buffer of two, were checked too (4.9 million).
* **InstanceRecords.** Two instances are two of one base, or one each of a weapon
  and a pair, so that every kind of group is followed by another; a reference is
  loose, or of an instance, in the world or in a container; of two references
  one is read behind the other, in a place that may be gone.  At most three of these
  are there at once (`MaxThings`), since two instances with two references take
  TLC too long.  `Restart` takes away each form and each place in turn, or has other
  kits, or the same with other numbers.  Kits, which differ only by their index, and
  places are symmetric.

### Fairness

* `ArrayVarMap!FairSpec`: weak fairness of `Clean`.  The main loop calls it every
  frame, and it is a loop that no script can interrupt.
* `EventManager!FairSpec`: strong fairness of `Tick` (the main loop reaches it in
  every frame, although dispatches disable it in between), weak fairness of a
  handler's return, and strong fairness of the return of the outermost one: a
  handler is a script of finite length, it makes finitely many dispatches.
* `Cosave!FairSpec`: weak fairness of the loop of `HandleLoadGame`, and of a
  callback's return.  Nothing is assumed of saving, of restarting, or that a load
  ever starts.

The other modules have safety properties only.  What delayed calls owe in time is
one too (`TimelyCalls`), because time passes in frames: a call may not see
more visits than its delay allows.

`CHECK_DEADLOCK FALSE` is set where the system really stops: plugins that are
installed and have nothing to say (`PluginManager`), two threads that wait for each
other (`MainLoop`, section 4), an expression that has been
evaluated `MaxRounds` times or was refused (`Expressions`), a text that was
refused (`ScriptLoops`), and a session after its bounded saves and loads
(`InstanceRecords`).

### Properties that hold of the model only under a condition

* Exact counts (`Bookkeeping`) need one mod; `RefsCoverHolders` does not.
* All of `ArrayVarMap` needs `NumericWords = {0}`: scripts store numbers in
  elements whose low 32 bits are 0 (as of every small integer or simple fraction
  in a double).  With `{0, 1}`, TLC finds `NoDanglingReference` violated: storing
  an array in an element that holds such a number drops a reference that nobody
  holds (`ArrayElement::Unset` leaves a number's bits, `AddReference` reads them).
* `ArraysSurvive` speaks of loads with every mod there; see section 4 for others.
* `plugins_protocol` needs that plugins register while they load or in `PostLoad`,
  and dispatch from `PostPostLoad` on.  Any may fail in `Query` or in `Load`.  Two
  conjuncts of `ListenersHearOnce`, that NVSE is never refused (`NVSEAccepts`) and that
  nobody is called who did not ask (`HeardOnlyAsked`), are claimed as long as no
  `Load` has failed (`NoneFailed`); section 4 says what is true of the others.
* `events` needs that no game is loaded between an event of another thread and
  the next `Tick` (`LoadWhileDeferred = FALSE`).
* `ReadsWhatWasWritten` and `EachToldOnce` need a file that was written to its
  end.  In one that was cut short `SkipNBytes` makes the buffer larger where
  `ReadBuf` would throw, so that the reader gets zeroes in place of an error.
* `BufferSound` needs `MaxWrite <= MinBuffer` (`ConstantsAssumption`): a doubled
  buffer has room for a write only if the write is no larger than the buffer was.
  `PrepareSave` starts with 0x40000 bytes and what the sources write in one call is
  far less (strings have a length of 16 bits); the interface does not
  say so to plugins, and nothing checks it (`Serialization.cpp:340`).  `InBuffer`
  speaks of loads of whole files, since `SkipNBytes` may leave one cut short.
* A plugin that writes data before it opens a record is left out of `Cosave`:
  the code asserts that it does not (`ASSERT(s_chunkOpen)` and the documentation
  of the interface), and what it wrote would misalign the plugins behind it.
* `MapSound` speaks of calls that do not overlap (`~overlapped`); when they do, an ID
  may be given to two threads, and `Get` may answer with another variable (section 4).
  `IDsKept` needs no condition.
* `script_calls` needs `Careful = TRUE`: a lambda is not evaluated while another
  call's variables, running or kept, have it; it is stored only when it and the
  lambdas it mentions have variables, and its captures are what it mentions.  These
  are not ensured by the code, and only `LambdasKept` needs them, which says what
  holds for scripts that keep to them; `CallsOwnLists` and `VariablesStay` hold
  without (6.7 million states with three calls, and the theorems).
* `script_loops` needs `Careful = TRUE`, no command fails inside a loop of a
  script while a caller is in one, and `KeepCurrent = TRUE`, a body does not
  erase the element it was entered for.  `AcceptsScripts` speaks of texts whose
  lambdas stand outside of loops.
* `string_vars` needs `Careful = TRUE`.  Scripts use `let` and `sv_Destruct` on
  variables of their own mod (`OwnVariable`).  While an evaluator is active, that is,
  in a function that an expression calls, and everywhere when `set x to` is followed by a
  command with an evaluator of its own, `set` is used for a variable that has no string
  yet, or for a function's variable with a temporary one (`Unset`, when the line begins
  and when it ends), and does not
  give a temporary string to a variable of a quest (`SafeSet`).  No variable is
  destructed that a waiting expression has read (`SafeDestruct`).  The code
  ensures none of these, and plain scripts break the second (section 4); what the
  run and the theorems show is that nothing else is needed.
* `StringsApart` and `OperandsKept` claim nothing of a game that is `lost`, until the
  program is started again: `StringsSurvive` says which variables those are.
* `instances_saved` needs `InstanceMods = FALSE`: attachments are plain forms.
  What `Restored` claims is less than one would wish for: the reader finds no
  pair of unlike weapons, nor the base of a kit's weapon that nothing refers
  to (`Found`), and entries of containers come back only if all their containers are
  there (`InPlace`).  Each of these was found by TLC (section 4).
* `CompilesAsWritten` leaves out text in brackets that is no expression
  (`CutShort`) and a prefix operator before one that binds less (`PrefixesFall`).
  `EvaluatesAsWritten` allows a text in error with `&&` or `||` in it to come to
  a value: an operator that its right operand settles is not applied.

---------------------------------------------------------------------------

## 4. Disagreements found

These came up while the modules were written.  Each was checked with the module
named, with other constants or another property in its `.cfg`; they are not kept
as runs, which are given to the components.

| Module, instance | What TLC finds | In the code |
|---|---|---|
| `ArrayVarMap`, two mods | `RefsCountHolders` violated: counts above the references, an array never collected (`RefsCoverHolders` holds) | an element counts in the name of its container's owner and is dropped in that of its content's (`ArrayVar.cpp:390`, `:268`); `ArrayVar.h:322` says that the size of `m_refs` is the number of references |
| `ArrayVarMap` with the hook of `Hooks_Dialog.cpp:73-103` (create, dispatch, delete) | `ImplementsRefHeap` violated | the hook deletes an array a handler has kept |
| `ArrayPersistence`, a mod removed | `DiscardedUnreferenced` violated: an array is discarded that an element of another refers to | `ArrayVar.cpp:1998`, against the comment at `:1927` |
| `VarMap`, `MapSpecWithReset` | `GetAnswersMap` violated: a destroyed variable in the cache (`PoolsAgree` holds) | `Reset` clears the cache, then destroys variables whose destructors fill it (`VarMap.h:154`, `:50`) |
| `VarMap`, calls of two threads that overlap | `PoolsAgree` violated: two threads are given one ID and share its variable, which one of them deletes; `GetAnswersMap` violated by two readers | `VarMap.h:93`, where the lock is given back before `Insert` takes it; `:110`, where `Get` takes none |
| `VarMap`, no available ID above the greatest used one | violated | the comment at `VarMap.h:74` |
| `PluginManager`, "a handle is the place of its plugin" (`saved[p] <= Len(plugins) /\ plugins[saved[p]] = p`) | violated: behind a `Load` that failed, handles name the next plugin, or none | `PluginManager.cpp:585` counts `Load`s begun, `:534`; `PluginAPI.h:68` |
| `PluginManager`, `NVSEAccepts` without `NoneFailed` | violated: a plugin behind one that failed is told that NVSE, or itself, is not there | `PluginManager.cpp:534` against `PluginAPI.h:152` |
| `PluginManager`, "every code in the lists is in `Loaded`" | violated: the listener of a freed DLL is called | `PluginManager.cpp:585`: what a failing `Load` registered stays |
| `PluginManager`, listeners registered twice with everyone | a plugin is in its own list | the comment at `PluginManager.cpp:802` |
| `EventManager`, `LoadWhileDeferred` | `NoDanglingCallback` violated: a deferred handler was erased | `EventManager.cpp:1256` empties the list of removals and not that of deferred handlers |
| `EventManager`, order of deferred classic handlers | reversed | `EventManager.cpp:834` against `EventManager.h:266` |
| `Cosave` | `CallbacksInRange` violated: index past the end | `Serialization.cpp:855`: a plugin that had data and registers no callback now |
| `Cosave`, `EveryLoadIsHeard` for refused files too | violated: no plugin is called, and each goes on with the game before (`Refused`) | `Serialization.cpp:811-830` against `PluginAPI.h:741-744`, by which a load callback runs when a game is loaded, with or without data |
| `MainLoop` | `RunsOnlyWhenAllowed` violated: `CallForSeconds` runs its script in menus | `Hooks_Gameplay.cpp:228` goes on to the script; `Commands_Script.h:319` says otherwise |
| `MainLoop` | `DeferredArgumentsExist` violated: the argument array of an event deferred between `Tick` and `Clean` is deleted | `EventManager.cpp:1860`, `Hooks_Gameplay.cpp:595` |
| `MainLoop`, with deadlock checked | the main thread waits for `s_criticalSection` in the script of a delayed call, with the lock of its list held; the other thread, in a handler that `DispatchEventAlt` runs, waits for that list | a list's lock and `s_criticalSection` are taken in both orders (`Hooks_Gameplay.cpp:83`, `EventManager.h:919`) |
| `Expressions`, inputs `Sums` | `EvaluatesAsWritten` violated: a rule remembered for numbers is used for strings | `ScriptUtils.cpp:5221` against the comment at `:5217` |
| `ScriptCalls`, `Careful = FALSE` | `KeptVariables` violated: a lambda evaluated again takes its stored copies to the new variables, and captures found at the first save are used at later ones | `LambdaManager.cpp:157`, `:371`, against `ScriptUtils.cpp:4808` |
| `ScriptLoops`, `Careful = FALSE` | `StacksAsWritten` violated: a callee that is aborted in a loop leaves it on the stack, and the `loop` of its caller continues it | `Loops.cpp:267` |
| `ScriptLoops`, `KeepCurrent = FALSE` | `EachElementGiven` violated: erasing the current key ends the loop early | `ArrayVar.cpp:1065` |
| `ScriptLoops`, lambdas in loops | a `loop` behind a lambda in its body is refused | `HandleBeginCompile` empties `s_loopStartOffsets` (`Hooks_Script.cpp:401`, `Commands_Scripting.cpp:785`) |
| `StringVars`, "a load gives every variable its text" (`StringsSurvive` without its `IF`) | violated: a first `let x := ToString y` moves the cached string's owner 0xFF too, and the string is not saved | `ScriptUtils.cpp:430`, `StringVar.cpp:281`, against `StringVar.h:17` |
| `StringVars`, `Careful` without `SafeSet` and `Unset` | all four violated.  `set x to ToString <a command>`: the argument waits in the cached string, so `x` is given a temporary one; the next frame deletes it (`StringsApart`), a `let x` after that points to nothing (`OperandsKept`), and it is not saved (`StringsSurvive`).  If `x` had a string, that is left with no holder (`NoneLeft`) | `StringVar.cpp:430` takes the evaluator of `ToString`, `TypeOf` or `Call` for that of an expression, `:457` |
| `StringVars`, `Careful` without `OwnVariable` | `StringsApart` and `StringsSurvive` violated: a `let` gives a variable of another mod a string that is discarded with the mod that ran | `ScriptUtils.cpp:430`, `StringVar.cpp:344` |
| `StringVars`, `Careful` without `SafeDestruct` | `OperandsKept` violated: `sv_Destruct`, in a function that the right side calls, of the variable on the left | `Commands_String.cpp:49` |
| `InstanceRecords`, `InPlace` of each entry's own place | `Restored` violated: a place that is gone takes the entries behind it with it | `PlaceEntryRefs` returns at the first (`L1_Load.cpp:527`) |
| `InstanceRecords`, `Found` of pairs of unlike weapons too | `Restored` violated: the pair is not found | the record has the right weapon first, and `LoadStaticAkimbo` passes it as the left (`L1_Load.cpp:100`, `LookupAkimboSet` in `WeaponSmith.cpp:227`) |
| `InstanceRecords`, `InstanceMods` | `InStep` violated: an attachment that is an instance not read yet is looked up through a null pointer | `LoadInstanceDataWEAP` expects no form and keeps the link for later (`failedLinks_WEAP`) |
| `InstanceRecords`, `Found` of a kit's weapon that nothing refers to | `Restored` violated: an instance of a kit's weapon that is nowhere in the world loses its base | its location is written only if a reference asks for it (`L2_Save.cpp:62`) |

Smaller observations, met while reading:

* in `x * (Call F ...)` a recursive call of the function resolves the token of `x`
  again (`ScriptTokens.cpp:992`): the operand that waits is then read from the list
  of the inner call, which is deleted;
* a script whose `else` stands twice in one `if` is accepted, and so is a lambda
  that opens a `while` which the text after it closes; `return` in a lambda in a
  loop is refused; `Goto` out of a loop leaves its entry on the stack;
* `(1 2) + 3` compiles as `1 + 3`; `!-x` loses its `!`;
* a call with one frame of delay scheduled from a callback of the same list runs
  in the same frame; one scheduled in a menu while lists are visited is a frame
  late;
* `StringVarMap::Save` writes a length of 16 bits, and strings may be longer;
  a line `Call F` or `ToString y` whose string result gets no token keeps the cached
  string in use for good, after which every result is a temporary string;
* in the pNVSE record, `reverseKitDataMap` and `replacement` are never cleared
  between loads, loose entries of a kit's form are taken out of containers when
  the game is saved, `LoadKitData` stores the version of the new kit for the old
  one (`L1_Load.cpp:633`), and `queueToSaveRefDirect` answers false for a side of
  a pair that is queued already (`L2_Save.cpp:578`, `:639`).

---------------------------------------------------------------------------

## 5. What is proved

Every theorem holds for all values of the constants that the assumptions named in
its module allow (`ConstantsAssumption` and the like: that IDs are numbers, that
sets of variables do not overlap), however many objects, plugins, handlers,
calls, mods or steps there are.  What is assumed beyond these is in the last column.

| Module | Theorem | Says | Assumes |
|---|---|---|---|
| `ArrayProofs` | `TypeCorrect` | `Spec => []TypeOK` | |
| | `ReferencesAreSafe` | `Spec => [](RefsCoverHolders /\ QueuedIffUnreferenced /\ IDPoolsAgree /\ NoDanglingReference)` | `NumericWords = {0}` |
| | `ArraysImplementRefHeap` | `Spec => Abstract!Spec` | `NumericWords = {0}` |
| | `OneModCountsExactly` | `Spec => []Bookkeeping` | and one mod |
| | `OneModLeavesNoGarbage` | `Spec => CleanCollectsGarbage` | and one mod |
| | `NewIDsStayFresh` | `PersistSpec => []NewIDsAreFresh` | |
| | `RemovedModsStayForgotten` | `PersistSpec => []RemovedModsForgotten` | |
| | `SavedArraysSurvive` | `PersistSpec => ArraysSurvive` | `NumericWords = {0}` |
| `StringVarsProofs` | `StringsStayApart` | `Spec => []StringsApart` | `Careful` |
| | `OperandsStayKept` | `Spec => []OperandsKept` | `Careful` |
| | `NothingIsLeft` | `Spec => []NoneLeft` | `Careful` |
| | `StringsSurviveLoads` | `Spec => StringsSurvive` | `Careful` |
| `ScriptCallsProofs` | `CallsKeepTheirLists` | `Spec => []CallsOwnLists` | |
| | `SavedVariablesStay` | `Spec => VariablesStay` | |
| `ThreadProofs` | `IteratorsStayValid` | `Spec => []IteratorsValid` | |
| | `CallsAreTimely` | `Spec => []TimelyCalls` | |
| | `MapIsSound` | `MapSpec => []MapSound` | |
| | `IDsAreKept` | `MapSpec => []IDsKept` | |
| `EventManagerProofs` | `ListsAlwaysAgree` | `Spec => []ListsAgree` | |
| | `HandlersStaySound` | `Spec => []HandlersSound` | `~LoadWhileDeferred` |
| | `DispatchesComplete` | `Spec => DispatchComplete` | |
| `PluginManagerProofs` | `PluginsAlwaysAnswer` | `Spec => []PluginsAnswer` | `KeepsProtocol` |
| | `ListenersAlwaysHearOnce` | `Spec => []ListenersHearOnce` | `KeepsProtocol` |
| | `ListsStayStable` | `Spec => ListStableInDispatch` | `KeepsProtocol` |
| `CosaveProofs` | `CosaveBufferSound` | `Spec => []BufferSound` | |
| | `CosaveReadsWhatWasWritten` | `Spec => []ReadsWhatWasWritten` | |
| | `CosaveEachTold` | `Spec => EachTold` | |

The assumptions are those of section 3, under which the runs pass; without each of
them TLC has a counterexample to one of the theorems, so none can be dropped.  `KeepsProtocol`
is what `PluginAPI.h` asks of plugins: handles are asked for in `Load`, listeners
registered in `Load` or `PostLoad`, messages sent later.  Which plugins fail their
`Query` or their `Load` is left open.

### Arrays

That no reference dangles is not inductive by itself: an
array is deleted because it is queued, it is queued because its `m_refs` became
empty, and that nobody holds it then is because `m_refs` is never shorter than
the number of holders.  The invariant `Inv` joins these: the types, `PoolsMatch`
(with the ID of the array being destroyed counted as
used), that a number's low word is no ID, `Fits` (for every array in the map,
the holders are no more than the entries of `m_refs`, and it is queued exactly
when there are none), and that nothing dangles.  `Fits` is stated of a record of
counts and an assignment of words, not of the state, so that it can be followed
through an operation that makes several calls: `DropFits` and `TakeFits` say
that `RemoveReference` and `AddReference` keep it, whatever mod index they are
given.  This is where the leak of section 4 is shown to be harmless:
`VectorRemove` takes away one entry or none, and one holder goes.  `EmptySlot`
and `MoveSlot` are the two shapes of an operation on a slot, and every action is
an instance of one.  `Numbering` (the IDs ever handed out are an interval from 1)
is apart, since a load breaks it; with it `GetUnusedID` leaves no gap.

With one mod, `VectorRemove` finds what it is to remove, and `Fits` becomes an
equation (`Exact`) that the same two lemmas carry.  A queue that is exactly the
unreferenced arrays is what makes an ended `Clean` leave no garbage.

For the refinement, an abstract slot of the array being destroyed is already
empty (the code empties them one by one), and every step is `Allocate`, `Free`,
`Retarget` or a stutter: `DeleteBegin` is `Free`, and it may be because nothing
holds a queued array.

### Arrays in the file

`NewIDsStayFresh` and `RemovedModsStayForgotten` need only `Base`: the pools match
(in the midst of reading too, where `lastIndexRead` bounds what may be made available,
`Vacant`), and owners and counts know loaded mods only.  They hold with any number
of mods removed and for elements that are half a number.

`ArraysSurvive` speaks of a load with every mod, but the state it starts from may
have been through other loads, whose discarded arrays leave dangling elements.
The invariant `Survival` says, outside of reading,
`Covers` (a reference to an array that is in the map is counted); in a save, that what
is in the file is what is in the map, with its references (`Saved`, `Sound`); and
while reading, for every record that it is either still in the file or in the map as
it was before (`AsBefore`, `WordRead`).  That `LoadedRefs` keeps every reference
when every mod is loaded is `OnlyAll`.

### ID maps

`KeptInv` is what no overlap can break.  The sets of IDs are those of the map
(`UsedFits`), but for the victim of the thread that holds the lock; and the IDs that
are used, available, or handed out and not yet inserted are an interval (`NoGap`),
so that none is lost even when two threads insert, or delete, the same ID: what
`Delete` does a second time is done already, and a variable that is already there is
kept by `Insert`.  That a victim stays known while its `Delete` waits for the lock
is `VictimsKnown`.

As long as calls do not overlap (`OneByOne`) the invariant says where the one call is:
`PoolsFit` with the victim of a `Delete` and the ID that `Insert` is about to use as
exceptions, and `CacheFits`, that the cache entry is one of the map except
between the two writes of `VarCache::Insert`, and never the victim once `Delete`
has looked.  Destructors that call `Get` in a `Delete` are covered.

### String variables

That variables do not share a string is not inductive: a result becomes a
variable's string by a move, and what kept it apart until then is that the cached
string is in use.  `ClaimsApart` therefore speaks of all that may call a string its
own alike (`Claimants`: variables of quests, variables of functions under way,
waiting results): no two claim one string, and who claims the cached one finds it
in use, for good if it is a variable.  With it go, in `Inv`, that a result is what it was
and is owned by the mod of its script unless it is in the cached string (`OperandFits`),
that a line still points to the string of its variable (`LineFits`), that what a
quest holds is not temporary and is owned by the quest's mod or by nobody
(`QuestsFit`), and that every string is held, temporary or cached (`LeftFit`).  The
theorems carry `GameInv == LeftFit /\ (lost \/ Inv)`: a load that loses a string ends
what `Inv` says, but leaves no string without a holder, and a restart begins anew.

Most steps have one shape (`StackStep`): a frame becomes the top one, with at most one
new operand.  `ClaimsStep` says when the claims stay apart through such a step: one
claim may be new, and then its string was nobody's (`Unclaimed`); what is destroyed
gives up its claim as it releases the cached string.  `PlainStep` (no string is
written), `ResultStep` (a command or a function returns), `VariableStep` (a variable is
assigned to), `StoredResult` (a result becomes the string of a variable that had none)
and `EmptyStack` (between scripts) are the kinds of step, and every action
is one of them.  `Careful` is used where a line begins or a variable loses the string it
had: in `BeginLineStep`, `EndLineStep`, `SetResultStep`, `SetToStep`, `ReturnStep` and
`DestructStep`.

### Calls and their lists

Every list is of one kind (`KindsInv`): a function's or object's own, a copy that
the table of saved lists keeps, or private to one call under way.  The owners end
their lists in the right order (`StackInv`): a list is private to the
lowest frame that has it, so the frames above, which only borrow it, return first.
`PushInv`, `KeepInv` and `PopInv` are the three shapes of a step, `EndedList` what
`MarkParentAsDeleted` makes of a list.

`SavedVariablesStay` has one case that is not plain: the list that a function keeps
for itself is reset by the next call that uses it, so nobody may count on it then.
`OwnUse` says why nobody does: such a list is run on, saved or the parent of a
lambda only while the call that uses it is under way (`UsesOwn`), and the lowest
call of a function is the one that uses it; when that returns, it is the last
frame on the list, its lambdas lose their parent, and what is saved moves to a
copy (`LeaveOwnUse`).  `EndedKept`, `CallFunctionKept`, `HoldKept`, `ReleaseKept` and
`EraseUnusedKept` are then the steps, each about one way in which a list or a
count changes.  `Careful` is used nowhere in this module.

### Frames and delayed calls

The loops over the six lists differ in when they run a script, but they move in
three ways (`GoOn`, `Run`, `Erase`), and scripts change lists in one (`Appended`).
`IterInv` (no call is in two places, the iterator is in its list) is proved of these
moves.  `TimelyCalls` counts visits; what is left of a delay differs from the delay less
the visits by at most the frame under way, and `TimeInv` says by how much, according
to whether the visit of the call lies ahead in this frame (`Ahead`).  A call that was
scheduled after the clock, or from the list under way, is where the tests of
the code are few and the cases many.

### Events

`ListsAlwaysAgree` needs that a node is in one place (`PlacesInv`), that lists are in
the order of priorities, and that the list of removals holds each pending node once
(`RemoveInv`).  `FrameSound` says what a dispatch still owes: nodes that match
and come after the one it is at (`Before`), which insertion and the marking of
removals keep, and which erasing could break; `EraseBy` shows that erasing
happens only when no dispatch is under way.  From this `DispatchesComplete` follows at
once: the last node has nothing after it.  `HeldInv` is what needs that no game is
loaded between deferral and `Tick`.

### Plugins

While plugins load, `index` counts the `Load`s begun (`PhaseInv`), so the handle that is
handed out is the turn of the plugin among those that were queried (`Before`,
`SavedInv`), whatever becomes of it.  `PlaceInv` relates turns to places: a plugin's turn
is its place and as many more as `Load`s failed before it; hence two plugins never
have one handle, and `HandlesIdentify`.  Until a `Load` fails turns and places are the
same, and only then does a frame know that its sender's list is that of the
plugin which sent (`FrameFits`), which is what `HeardOnlyAsked` needs.  Registration
is over before messages are sent, hence lists stay as they are
while they are walked.

### Cosave

What a callback reads depends on what is behind the position, all the way to the
end of the file, so the invariant is a layout.  `Tiled(b, w, at, last)` says of a
buffer `b`: the records whose lengths are `w` are at the offsets `at`, each behind
the one before, those of a plugin behind its header, whose length is the distance
to the end of them, and the plugins one behind the other from offset 1 to `last`
with nothing between.  `DiskFits` says it of a whole file, `SavingFits` of the
buffer up to the position.  While a plugin writes, it is true of the plugins before
(`Others`), and `HalfWritten` says what the last one has so far: complete records
but for the open one, whose header, and the plugin's, are still owed
(`WritingFits`).  `SaveReturns` pays both, by `BackPatch` at the offsets that were
kept, and what is behind them stays.

A load is at a boundary between plugins, or inside the records of one at a known
place (`WalkFits`: `AtBoundary`, `AtPlugin`, `InRecord`), and the plugins in front
are those that were heard of (`HeardUpTo`).  Whatever a callback reads, skips or
leaves, `LoadReturns` comes to the next boundary, because the length in the header is
that distance; hence `ReadsWhatWasWritten`, and with `ToldFits` also `EachTold`.  Of
a file that was cut short none of this is known: the types hold, and
that its header was good, and who has been told (`LoadingFits`), which is what
`EveryLoadIsHeard` needs.
`ResizeGrows` proves of the doubling loop that it ends and how far it gets.  `Inv`
itself was checked by TLC as an invariant of the run and of the larger instance
named in section 3.

### Data

Induction over data cannot be cited from the libraries here, since the
theorems of induction take a predicate as parameter; what is needed is proved from
the least counterexample (`InductionUpTo`, about a set of numbers).  In this way
`DataLemmas` proves what a loop picks out of a list (`OnlyInOrder`, the reason why
`Only` is a recursive function and not `SelectSeq`, of which nothing can be
proved).

### Only model-checked

* **Liveness** (`CleanTerminates`, `TicksCatchUp`, `LoadsEnd`): the prover does not
  reason about fairness and `ENABLED`.
* **`LambdasKept`**: it needs conditions that the code does not ensure (`Careful`),
  so a proof would say little more than the run.
* **`Expressions` and `ScriptLoops`**: what the parser and the compiler make of every
  text is a statement about recursive readings of texts (`Postfix`, `Means`), with
  induction over texts.
  What `ScriptLoops` says of the stack of loops depends on the texts as well: one with a
  `goto` out of a loop breaks it, and `Texts` is any set.
* **`InstanceRecords`**: the writer and the two readers are folds over nested lists
  that pass a state through operators given as arguments; that they keep in step is
  an induction over what was saved, at four levels.

---------------------------------------------------------------------------

## 6. What is not modelled

* **Game objects and commands** (most of the lines): fields of the game's own
  objects, read or written by one command each, with nothing kept in between.
* **Layouts, patches, RTTI tables, loaders, formatting, arithmetic**: no state of
  their own, or calls to the operating system in a fixed order.
* **Text**: names of events, plugins, files and variables are model values, a line
  of a script is its first word, an expression is a sequence of tokens.
* **Lexing, macros, slices, compound assignments, the decompiler** and the cache
  of compiled script files.
* **Foreach over strings, containers and form lists**: the iterators copy what
  they walk, and nothing can change under them but inventory references, which
  are not modelled.
* **Lambdas written in lambdas, hot reload, captures that go round in a circle.**
* **Strings and lambdas on other threads**: the cache of results is one per
  thread, the table of lambdas has a lock.
* **Seconds**: a frame is the unit of time in `MainLoop`.
* **Failure of memory allocation** and exceptions of the operating system, other
  than those the code catches.
* Of modelled components, what `PROJECT.json` notes as left out.

---------------------------------------------------------------------------

## 7. Plan

Of the first plan, `ArrayPersistence`, `MainLoop`, `ScriptCalls` (planned as
`FunctionStack` and `LambdaManager`), `ScriptLoops`, `InstanceRecords`,
`StringVars` and `Expressions` are done.  What is left, in the order of what
matters most:

1. Proofs of what is model-checked only (section 5): `ScriptLoops` (the jumps of
   `RunsAsWritten` from `StacksAsWritten`), for texts without `goto`.
2. `LoadProtocol`: `Cosave` with NVSE's own callbacks and the hooks of the game:
   which state of the previous game is gone after which kind of load.
3. `InventoryReference` with its deferred actions; the cache of tokens with its
   cookie; the auxiliary variables of pNVSE; the queue, pool and lock of the
   common library.

Abstract specifications worth stating beside `RefHeap`: a map with no cache, for
`VarMap`; a function from plugins to records, for `Cosave` (a load returns the
records of the last save); a set of subscribers, for `PluginManager`; a bag of
calls to make, for `MainLoop`.
