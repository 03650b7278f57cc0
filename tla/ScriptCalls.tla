----------------------------- MODULE ScriptCalls -----------------------------
(***************************************************************************)
(* Calls of user functions and lambdas, and the variable lists they run on  *)
(* (FunctionScripts.cpp, LambdaManager.cpp).                               *)
(*                                                                         *)
(* A function script keeps one list of variables (ScriptEventList) and      *)
(* uses it for the call at the bottom; a call made while the function is    *)
(* active gets a list of its own, deleted when it returns.  A lambda runs   *)
(* on the list of the call that evaluated its expression, its parent list. *)
(* Whoever stores a lambda (an event handler, a delayed call, an element of *)
(* an array) saves its context: a list that ends with a saved lambda is     *)
(* copied, and the copy lives until nobody holds a lambda saved with it.    *)
(* Lists that are saved by nobody are erased between frames.               *)
(*                                                                         *)
(* The lambda itself is one script per place in the text: evaluating the    *)
(* expression again moves it to the new call's list.                       *)
(*                                                                         *)
(* Left out: the values of variables (a list carries the number of the call *)
(* whose variables it has), operands, what functions return, lambdas in    *)
(* lambdas, chains of lambdas longer than one, hot reload.                 *)
(***************************************************************************)
EXTENDS Integers, FiniteSets, Sequences, SequencesExt, Functions

CONSTANTS
  Functions,     \* user-defined functions
  Scripts,       \* scripts of quests and objects, whose lists the game owns
  Lambdas,
  Homes,         \* the choices of [Lambdas -> the script a lambda is written in]
  Refs,          \* [Lambdas -> the lambdas whose variables it mentions]
  Holders,       \* handlers, delayed calls and array elements that store lambdas
  kMaxNestDepth, \* calls under way at most (30 in the code)
  Lists,         \* addresses of variable lists
  MaxCalls,      \* bound on the calls of functions
  Careful        \* scripts keep to what the lists are made for

Null == 0
Unknown == {"unknown"}

ASSUME ScriptCallsAssumption ==
  /\ Functions \cap Scripts = {} /\ Lambdas \cap (Functions \cup Scripts) = {}
  /\ Homes \subseteq [Lambdas -> Functions \cup Scripts]
  /\ Refs \in [Lambdas -> SUBSET Lambdas]
  /\ \A l \in Lambdas : \A k \in Refs[l] : k # l /\ Refs[k] = {}
  /\ Null \notin Lambdas /\ Lambdas \cap Unknown = {} /\ IsFiniteSet(Holders)
  /\ Lists \subseteq Nat \ {0} /\ IsFiniteSet(Lists)
  /\ Injection(Functions \cup Scripts, Lists) # {}
  /\ kMaxNestDepth \in Nat /\ MaxCalls \in Nat /\ Careful \in BOOLEAN

VARIABLES
  home,          \* the script every lambda is written in
  lists,         \* the lists that exist: whose variables they have, the lambdas among them
  own,           \* FunctionInfo::m_eventList, or the list of a script's object
  stack,         \* the calls under way
  parent,        \* LambdaContext::parentEventList
  captured,      \* LambdaContext::capturedLambdaVariableScripts
  saved,         \* g_savedVarLists
  hold,          \* what every holder stores, and (ghost) the call it was made in
  calls          \* (ghost) the calls of functions so far

vars == <<home, lists, own, stack, parent, captured, saved, hold, calls>>

Free == CHOOSE id \in Lists \ DOMAIN lists : \A other \in Lists \ DOMAIN lists : id <= other
Fits == Lists \ DOMAIN lists # {}

\* A list with the variables of a call, none of them set.
Fresh(call) == [call |-> call, vars |-> {}]
Put(id, list) == [i \in DOMAIN lists \cup {id} |-> IF i = id THEN list ELSE lists[i]]

----------------------------------------------------------------------------
(* Calls.                                                                  *)

Frame(code, list, backup, started) ==
  [code |-> code, list |-> list, backup |-> backup, started |-> started]

\* Mutant: m_instanceCount is raised after the arguments.
MutantIsActive(f) == \E i \in DOMAIN stack : stack[i].code = f /\ stack[i].started

\* FunctionInfo::IsActive: m_instanceCount is raised before the arguments are evaluated.
IsActive(f) == \E i \in DOMAIN stack : stack[i].code = f

NestDepth == Cardinality({i \in DOMAIN stack : stack[i].code \notin Scripts})
MayCall == NestDepth < kMaxNestDepth

\* The script whose expressions are being evaluated: the arguments of a call
\* are evaluated by the caller, on the caller's list.
Evaluator == CHOOSE i \in DOMAIN stack :
  stack[i].started /\ \A j \in i + 1 .. Len(stack) : ~stack[j].started
Here == stack[Evaluator]

\* The lists a saved lambda is in; the code takes the first it comes across.
GetVarListContext(l) == {id \in DOMAIN saved : saved[id].count[l] > 0}

GetParentEventList(l) == IF parent[l] # Null THEN {parent[l]} ELSE GetVarListContext(l)

\* The game runs a script on the list of its object.
RunScript(s) ==
  /\ stack = <<>> /\ own[s] # Null
  /\ stack' = <<Frame(s, own[s], FALSE, TRUE)>>
  /\ UNCHANGED <<home, lists, own, parent, captured, saved, hold, calls>>

\* The context of a call: the function's own list, or a new one while it is in use.
\* Called by the game (for an event, a delayed call), it has its arguments already.
CallFunction(f) ==
  /\ MayCall /\ calls < MaxCalls /\ Fits
  /\ LET id == IF IsActive(f) THEN Free ELSE own[f]
     IN  /\ lists' = Put(id, Fresh(calls + 1))
         /\ stack' = Append(stack, Frame(f, id, FALSE, stack = <<>>))
  /\ calls' = calls + 1
  /\ UNCHANGED <<home, own, parent, captured, saved, hold>>

\* The arguments are in place, and the script of the function runs.
StartBody ==
  /\ stack # <<>> /\ ~Last(stack).started
  /\ stack' = [stack EXCEPT ![Len(stack)].started = TRUE]
  /\ UNCHANGED <<home, lists, own, parent, captured, saved, hold, calls>>

\* A lambda runs on its parent's list, else on a saved one, else on an empty one.
PushLambda(l, started) ==
  /\ MayCall /\ Fits
  /\ \/ \E id \in GetParentEventList(l) :
          /\ stack' = Append(stack, Frame(l, id, FALSE, started))
          /\ UNCHANGED lists
     \/ /\ GetParentEventList(l) = {}
        /\ lists' = Put(Free, Fresh(0))
        /\ stack' = Append(stack, Frame(l, Free, TRUE, started))
  /\ UNCHANGED <<home, own, parent, captured, saved, hold, calls>>

CallLambda(l) == stack # <<>> /\ l \in lists[Here.list].vars /\ PushLambda(l, FALSE)

\* A handler or a delayed call: the game passes the arguments.
CallHeld(h) == hold[h].lambda # Null /\ PushLambda(hold[h].lambda, TRUE)

----------------------------------------------------------------------------
(* The end of a list.                                                      *)

\* RemoveEventList: the lambdas evaluated on these lists have no parent any more.
RemoveEventList(gone) == [l \in Lambdas |-> IF parent[l] \in gone THEN Null ELSE parent[l]]

Rekeyed(id) == id \in DOMAIN saved /\ ~saved[id].copy

\* MarkParentAsDeleted: a list with saved lambdas lives on as a copy.
Copies(id) == IF Rekeyed(id) THEN {Free} ELSE {}
MarkParentAsDeleted(id) ==
  IF Rekeyed(id)
  THEN [i \in (DOMAIN saved \ {id}) \cup Copies(id) |->
          IF i \in Copies(id) THEN [saved[id] EXCEPT !.copy = TRUE] ELSE saved[i]]
  ELSE saved

\* What becomes of the lists when one ends: it is copied if need be, then
\* deleted, or reset when it is the function's own.
Ended(id, reset) ==
  [i \in (DOMAIN lists \ (IF reset THEN {} ELSE {id})) \cup Copies(id) |->
     IF i \in Copies(id) THEN lists[id]
     ELSE IF i = id THEN Fresh(0) ELSE lists[i]]

\* ~FunctionContext: a lambda's list is not its own to end, unless it is the empty one.
Leave ==
  /\ stack # <<>> /\ Fits
  /\ LET f == Last(stack)
     IN  IF f.code \in Functions \/ f.backup
         THEN /\ parent' = RemoveEventList({f.list})
              /\ saved' = MarkParentAsDeleted(f.list)
              /\ lists' = Ended(f.list, f.code \in Functions /\ f.list = own[f.code])
         ELSE UNCHANGED <<parent, saved, lists>>
  /\ stack' = Front(stack)
  /\ UNCHANGED <<home, own, captured, hold, calls>>

\* The game destroys the list of an object (DeleteEventList).
DestroyList(s) ==
  /\ stack = <<>> /\ own[s] # Null /\ Fits
  /\ parent' = RemoveEventList({own[s]})
  /\ saved' = MarkParentAsDeleted(own[s])
  /\ lists' = Ended(own[s], FALSE)
  /\ own' = [own EXCEPT ![s] = Null]
  /\ UNCHANGED <<home, stack, captured, hold, calls>>

\* Mutant: a list is erased when one of its lambdas is unused.
MutantEraseUnused ==
  /\ stack = <<>>
  /\ LET unused == {id \in DOMAIN saved : \E l \in Lambdas : saved[id].count[l] = 0}
         gone   == {id \in unused : saved[id].copy}
     IN  /\ saved' = Restrict(saved, DOMAIN saved \ unused)
         /\ lists' = Restrict(lists, DOMAIN lists \ gone)
         /\ parent' = RemoveEventList(gone)
  /\ UNCHANGED <<home, own, stack, captured, hold, calls>>

\* EraseUnusedSavedVariableLists, once a frame.
EraseUnused ==
  /\ stack = <<>>
  /\ LET unused == {id \in DOMAIN saved : \A l \in Lambdas : saved[id].count[l] = 0}
         gone   == {id \in unused : saved[id].copy}
     IN  /\ saved' = Restrict(saved, DOMAIN saved \ unused)
         /\ lists' = Restrict(lists, DOMAIN lists \ gone)
         /\ parent' = RemoveEventList(gone)
  /\ UNCHANGED <<home, own, stack, captured, hold, calls>>

----------------------------------------------------------------------------
(* Lambdas.                                                                *)

\* What a holder needs: its lambda and the lambdas that one calls.
Needs(h) == IF hold[h].lambda = Null THEN {} ELSE {hold[h].lambda} \cup hold[h].children

\* The variables of another call, under way or kept, have the lambda.
InUseElsewhere(l, call) ==
  \E id \in DOMAIN lists : l \in lists[id].vars /\ lists[id].call # call

\* CreateLambdaScript: the lambda of this place in the text, moved to this list.
EvaluateLambda(l) ==
  /\ stack # <<>> /\ Here.code = home[l]
  /\ Careful => ~InUseElsewhere(l, lists[Here.list].call)
  /\ parent' = [parent EXCEPT ![l] = Here.list]
  /\ lists' = [lists EXCEPT ![Here.list].vars = @ \cup {l}]
  /\ UNCHANGED <<home, own, stack, captured, saved, hold, calls>>

\* The lambdas among the variables that l mentions, looked up once.
CaptureChildLambdas(l) ==
  IF captured[l] # Unknown THEN captured[l] ELSE Refs[l] \cap lists[parent[l]].vars

\* One of the choices the code may make among the lists a lambda is saved in.
Picks == {p \in [Lambdas -> DOMAIN saved \cup {Null}] :
            \A l \in Lambdas : IF GetVarListContext(l) = {} THEN p[l] = Null
                               ELSE p[l] \in GetVarListContext(l)}

NoCount == [l \in Lambdas |-> 0]

\* Mutant: a second holder is not counted.
MutantCountIn(id) == NoCount

CountIn(id) == IF id \in DOMAIN saved THEN saved[id].count ELSE NoCount
IsCopy(id) == id \in DOMAIN saved /\ saved[id].copy

\* SaveLambdaVariables: a lambda without a list, or a child without one, is not counted.
Hold(h, l) ==
  /\ stack # <<>> /\ l \in lists[Here.list].vars /\ hold[h].lambda = Null
  /\ \E pick \in Picks :
       LET list(k)  == IF parent[k] # Null THEN parent[k] ELSE pick[k]
           children == IF list(l) = Null THEN {} ELSE CaptureChildLambdas(l)
           counted  == {k \in {l} \cup children : list(k) # Null}
           mentions == Refs[l] \cap lists[Here.list].vars
       IN  /\ Careful => counted = {l} \cup mentions /\ children = mentions
           /\ saved' = [id \in DOMAIN saved \cup {list(k) : k \in counted} |->
                          [copy  |-> IsCopy(id),
                           count |-> [k \in Lambdas |->
                              CountIn(id)[k] + IF k \in counted /\ list(k) = id THEN 1 ELSE 0]]]
           /\ captured' = [k \in Lambdas |-> IF k = l /\ k \in counted THEN children
                                             ELSE IF k \in counted THEN {} ELSE captured[k]]
           /\ hold' = [hold EXCEPT ![h] = [lambda |-> l, children |-> mentions,
                                           call |-> lists[Here.list].call]]
  /\ UNCHANGED <<home, lists, own, stack, parent, calls>>

\* UnsaveLambdaVariables, when the holder is overwritten, removed or done.
Release(h) ==
  /\ hold[h].lambda # Null
  /\ \E pick \in Picks :
       LET l == hold[h].lambda
           released == IF pick[l] = Null THEN {}
                       ELSE {k \in {l} \cup captured[l] : pick[k] # Null}
       IN  saved' = [id \in DOMAIN saved |-> [saved[id] EXCEPT !.count =
                       [k \in Lambdas |-> @[k] - IF k \in released /\ pick[k] = id THEN 1 ELSE 0]]]
  /\ hold' = [hold EXCEPT ![h] = [lambda |-> Null, children |-> {}, call |-> 0]]
  /\ UNCHANGED <<home, lists, own, stack, parent, captured, calls>>

----------------------------------------------------------------------------
Init ==
  /\ home \in Homes
  /\ own = CHOOSE o \in Injection(Functions \cup Scripts, Lists) : TRUE
  /\ lists = [id \in {own[c] : c \in DOMAIN own} |->
                Fresh(IF \E s \in Scripts : own[s] = id THEN -id ELSE 0)]
  /\ stack = <<>> /\ saved = <<>> /\ calls = 0
  /\ parent = [l \in Lambdas |-> Null]
  /\ captured = [l \in Lambdas |-> Unknown]
  /\ hold = [h \in Holders |-> [lambda |-> Null, children |-> {}, call |-> 0]]

Next ==
  \/ \E s \in Scripts : RunScript(s) \/ DestroyList(s)
  \/ \E f \in Functions : CallFunction(f)
  \/ StartBody \/ Leave \/ EraseUnused
  \/ \E l \in Lambdas : CallLambda(l) \/ EvaluateLambda(l) \/ \E h \in Holders : Hold(h, l)
  \/ \E h \in Holders : CallHeld(h) \/ Release(h)

Spec == Init /\ [][Next]_vars

----------------------------------------------------------------------------
(* Properties.                                                             *)

(* Every list that exists has an owner that will end it (a function, an     *)
(* object, a call under way or the table of saved lists), and no owner and  *)
(* no lambda points to a list that is gone.                                *)
ListsOwned ==
  /\ DOMAIN lists = ({own[c] : c \in DOMAIN own} \ {Null}) \cup DOMAIN saved
                      \cup {stack[i].list : i \in DOMAIN stack}
  /\ \A l \in Lambdas : parent[l] \in DOMAIN lists \cup {Null}

(* Calls of a function under way never share variables, also when a call is *)
(* made in the arguments of another.                                       *)
OwnVariables ==
  \A i, j \in DOMAIN stack :
    i # j /\ stack[i].code \in Functions /\ stack[j].code \in Functions
      => stack[i].list # stack[j].list

(* Every list has one owner, and every call of a function a list of its own  *)
(* (FunctionInfo::IsActive, LambdaManager::RemoveEventList).               *)
CallsOwnLists == ListsOwned /\ OwnVariables

(* A stored lambda, and a lambda it calls, runs with the variables of the   *)
(* call it was stored by, however long ago that call returned.             *)
KeptVariables ==
  \A h \in Holders : \A l \in Needs(h) :
    /\ GetParentEventList(l) # {}
    /\ \A id \in GetParentEventList(l) : lists[id].call = hold[h].call

(* A lambda is counted once for every holder that needs it, so a copied     *)
(* list goes when the last of them lets go, and not before.                *)
CountsMatch ==
  \A l \in Lambdas :
    Cardinality({h \in Holders : l \in Needs(h)}) =
      FoldFunctionOnSet(+, 0, [id \in DOMAIN saved |-> saved[id].count[l]], DOMAIN saved)

(* A stored lambda keeps its variables, for as long as it is stored and not *)
(* longer (SaveLambdaVariables, UnsaveLambdaVariables).                    *)
LambdasKept == KeptVariables /\ CountsMatch

\* A holder lets go of its lambda in this step.
LetsGo == \E h \in Holders : hold[h].lambda # Null /\ hold'[h].lambda = Null

(* The variables that a saved lambda counts on stay, in their list or in the *)
(* copy that is kept of it, with the lambdas among them, through returns,   *)
(* recursion and sweeps; only a holder that lets go lowers the count, by    *)
(* one (MarkParentAsDeleted, EraseUnusedSavedVariableLists).               *)
VariablesStay ==
  [][\A id \in DOMAIN saved : \A l \in Lambdas : saved[id].count[l] > 0 =>
       \E kept \in DOMAIN saved' :
         /\ lists'[kept].call = lists[id].call /\ lists[id].vars \subseteq lists'[kept].vars
         /\ saved'[kept].count[l] >= saved[id].count[l] - IF LetsGo THEN 1 ELSE 0]_vars

=============================================================================
