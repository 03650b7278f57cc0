---------------------------- MODULE Expressions ----------------------------
(***************************************************************************)
(* Expressions of the extended script compiler, from text to value          *)
(* (ScriptUtils.cpp, ScriptTokens.cpp).                                    *)
(*                                                                         *)
(* ExpressionParser::ParseSubExpression turns the tokens of an expression  *)
(* into postfix bytecode with a stack of operators and a stack of operand  *)
(* types; ParseShortCircuit then annotates every postfix token with the    *)
(* jump to take when its value settles the logical operator above it, and  *)
(* ExpressionEvaluator::Evaluate runs the annotated tokens on an operand   *)
(* stack.  The first time an operator runs, the rule that fits the types   *)
(* of its operands is looked up and remembered in the token cache; later   *)
(* evaluations of the same script line use the remembered rule.            *)
(*                                                                         *)
(* The module runs both on an input, evaluates it MaxRounds times with the *)
(* values the environment chooses, and compares what happens with what the *)
(* text says: Root finds the operator a reader would apply last, and Means *)
(* evaluates the text itself, from that grouping, left to right, lazily    *)
(* and with the rule looked up anew.                                       *)
(*                                                                         *)
(* Lexing (two-character symbols, spaces, macros), forms, slices, strings' *)
(* characters and the compound assignments are left out.                   *)
(***************************************************************************)
EXTENDS Integers, Sequences, SequencesExt

CONSTANTS
  Inputs,      \* the expressions: [tokens |-> a sequence, kinds |-> what its leaves are]
  Numbers,     \* the numbers a command may return
  MaxRounds    \* how often an expression is evaluated

ASSUME InputsAssumption ==
  /\ Numbers \subseteq Nat
  /\ MaxRounds \in Nat \ {0}

VARIABLES
  input,       \* the expression: its tokens and the kind of every leaf
  stage,       \* "parsing", then "failed", "empty", or "running" and "done" in turns
  pos,         \* Offset(): the next token
  frames,      \* the calls of ParseSubExpression under way, the last one running
  out,         \* the postfix expression written to the line buffer
  reported,    \* a compile error was shown
  type,        \* what ParseSubExpression returned at the top
  iter,        \* the next postfix token to run
  operands,    \* the operand stack of Evaluate
  cache,       \* TokenCacheEntry::eval and swapOrder of every postfix token
  errors,      \* kFlag_ErrorOccurred
  env,         \* what the leaf or subscript at a place of the text came to
  trace,       \* the commands executed and the variables set, in order
  round

parserVars == <<input, pos, frames, out, reported, type>>
runVars    == <<iter, operands, cache, errors, env, trace, round>>
vars       == <<stage, parserVars, runVars>>

----------------------------------------------------------------------------
(* s_operators: precedence and number of operands.  Subtraction and        *)
(* negation share their symbol; so do the two uses of an open bracket.     *)

Op(symbol, precedence, arity) ==
  [symbol |-> symbol, precedence |-> precedence, arity |-> arity]

Operators ==
  [Assignment   |-> Op(":=", 2, 2),  LogicalOr   |-> Op("||", 5, 2),
   LogicalAnd   |-> Op("&&", 7, 2),  Equals      |-> Op("==", 13, 2),
   Add          |-> Op("+", 19, 2),  Subtract    |-> Op("-", 19, 2),
   Negation     |-> Op("-", 25, 1),  LogicalNot  |-> Op("!", 27, 1),
   LeftParen    |-> Op("(", 80, 0),  RightParen  |-> Op(")", 80, 0),
   LeftBracket  |-> Op("[", 90, 2),  RightBracket |-> Op("]", 90, 0)]

Opening == {"LeftParen", "LeftBracket"}
Closing == {"RightParen", "RightBracket"}
Arity(op) == Operators[op].arity
IsLogical(op) == op \in {"LogicalOr", "LogicalAnd"}

\* Mutant: prefix operators taken for left associative.
MutantRightAssociative(op) == op = "Assignment"

RightAssociative(op) == op = "Assignment" \/ Arity(op) = 1

\* Operator::Precedes: `on` leaves the stack before `op` goes on it.
Precedes(on, op) ==
  IF RightAssociative(on)
  THEN Operators[op].precedence < Operators[on].precedence
  ELSE Operators[op].precedence <= Operators[on].precedence

(* The rules of the operators: the types they accept, in the order they    *)
(* are tried, and the function that computes them ("" for the rules that   *)
(* only the compiler uses).  Rows about forms, strings subscripted and     *)
(* whole arrays are left out.                                              *)

Rule(lhs, rhs, result, eval, asymmetric) ==
  [lhs |-> lhs, rhs |-> rhs, result |-> result, eval |-> eval, asymmetric |-> asymmetric]

LogicalRules ==
  << Rule("Ambiguous", "Ambiguous", "Boolean", "", FALSE),
     Rule("Ambiguous", "Boolean", "Boolean", "", FALSE),
     Rule("Boolean", "Boolean", "RightToken", "Logical", FALSE) >>

EqualityRules ==
  << Rule("Ambiguous", "Ambiguous", "Boolean", "", FALSE),
     Rule("Ambiguous", "Number", "Boolean", "", FALSE),
     Rule("Ambiguous", "String", "Boolean", "", FALSE),
     Rule("Number", "Number", "Boolean", "Eq_Number", FALSE),
     Rule("String", "String", "Boolean", "Eq_String", FALSE) >>

AdditionRules ==
  << Rule("Ambiguous", "Ambiguous", "Ambiguous", "", FALSE),
     Rule("Ambiguous", "Number", "Number", "", FALSE),
     Rule("Ambiguous", "String", "String", "", FALSE),
     Rule("Number", "Number", "Number", "Add_Number", FALSE),
     Rule("String", "String", "String", "Add_String", FALSE) >>

ArithmeticRules ==
  << Rule("Ambiguous", "Ambiguous", "Number", "", FALSE),
     Rule("Number", "Ambiguous", "Number", "", FALSE),
     Rule("Number", "Number", "Number", "Arithmetic", FALSE) >>

AssignmentRules ==
  << Rule("Ambiguous", "Ambiguous", "Ambiguous", "", TRUE),
     Rule("Ambiguous", "String", "String", "", TRUE),
     Rule("Ambiguous", "Number", "Number", "", TRUE),
     Rule("NumericVar", "Ambiguous", "Number", "", TRUE),
     Rule("ArrayElement", "Ambiguous", "Ambiguous", "", TRUE),
     Rule("NumericVar", "Number", "Number", "Assign_Numeric", TRUE),
     Rule("ArrayElement", "Number", "Number", "Assign_Elem_Number", TRUE) >>

NegationRules ==
  << Rule("Ambiguous", "Invalid", "Number", "", TRUE),
     Rule("Number", "Invalid", "Number", "Negation", TRUE) >>

LogicalNotRules ==
  << Rule("Ambiguous", "Invalid", "Boolean", "", TRUE),
     Rule("Boolean", "Invalid", "Boolean", "LogicalNot", TRUE) >>

LeftBracketRules ==
  << Rule("Array", "Ambiguous", "ArrayElement", "", TRUE),
     Rule("Ambiguous", "Number", "Ambiguous", "", TRUE),
     Rule("Ambiguous", "Ambiguous", "Ambiguous", "", TRUE),
     Rule("Array", "Number", "ArrayElement", "Subscript", TRUE) >>

Rules ==
  [Assignment |-> AssignmentRules, LogicalOr |-> LogicalRules, LogicalAnd |-> LogicalRules,
   Equals |-> EqualityRules, Add |-> AdditionRules, Subtract |-> ArithmeticRules,
   Negation |-> NegationRules, LogicalNot |-> LogicalNotRules,
   LeftBracket |-> LeftBracketRules]

\* s_operands: the types a type converts to, besides itself.
Conversions ==
  [Number |-> {"Boolean"}, Boolean |-> {"Number"}, String |-> {"Boolean"},
   Command |-> {"Ambiguous", "Number", "Form", "Boolean"}, Array |-> {"Boolean"},
   ArrayElement |-> {"Number", "Form", "String", "Array", "Boolean"},
   NumericVar |-> {"Number", "Boolean", "Variable"},
   ArrayVar |-> {"Array", "Variable", "Boolean"}, Ambiguous |-> {}]

CanConvertOperand(from, to) ==
  \/ from = to
  \/ from \in DOMAIN Conversions /\ to \in Conversions[from]

----------------------------------------------------------------------------
(* ParseSubExpression.                                                     *)

\* A value with a name.
With(x, Body(_)) == Body(x)

Frame(end) == [ops |-> <<>>, types |-> <<>>, operand |-> FALSE, end |-> end]
Top == Last(frames)
Token == input.tokens[pos]

\* ParseOperator: the operator at the place, where a binary one is expected or not.
ParseOperator(expectBinary, place) ==
  {op \in DOMAIN Operators :
     /\ Operators[op].symbol = input.tokens[place]
     /\ IF expectBinary THEN Arity(op) = 2 \/ op \in Closing
                        ELSE Arity(op) = 1 \/ op \in Opening}

\* MatchOpenBracket: where the bracket opened before `from` closes; 0 when nowhere.
MatchOpenBracket(op, from) ==
  LET open  == Operators[op].symbol
      close == IF op = "LeftParen" THEN ")" ELSE "]"
      Count(i) == 1 + Cardinality({j \in from .. i : input.tokens[j] = open})
                    - Cardinality({j \in from .. i : input.tokens[j] = close})
      ends  == {i \in from .. Len(input.tokens) : Count(i) = 0}
  IN  IF ends = {} THEN 0 ELSE CHOOSE i \in ends : \A j \in ends : i <= j

\* Operator::GetResult: the type of the first rule that fits, either way round.
GetResult(op, lhs, rhs) ==
  LET fits == {i \in DOMAIN Rules[op] :
                 LET r == Rules[op][i]
                 IN  \/ CanConvertOperand(lhs, r.lhs) /\ CanConvertOperand(rhs, r.rhs)
                     \/ /\ ~r.asymmetric
                        /\ CanConvertOperand(lhs, r.rhs) /\ CanConvertOperand(rhs, r.lhs)}
      first == Rules[op][CHOOSE i \in fits : \A j \in fits : i <= j]
  IN  IF fits = {} THEN "Invalid"
      ELSE IF first.result = "RightToken" THEN rhs ELSE first.result

Emit(symbol, arity, place) == [symbol |-> symbol, arity |-> arity, place |-> place]

(* PopOperator: the operator on top takes its operand types off the stack  *)
(* and is written out.  With too few operands, or when no rule fits, an    *)
(* error is shown and the operator is gone.  p holds the stacks and output.*)
WriteOut(p, op, rest, got) ==
  IF got = "Invalid" THEN [p EXCEPT !.types = rest, !.ops = Front(@), !.result = got, !.reported = TRUE]
  ELSE [p EXCEPT !.types = Append(rest, got), !.ops = Front(@), !.result = got,
                 !.out = Append(@, Emit(op, Arity(op), Last(p.ops).place))]

Pop(p, op, n) ==
  IF Len(p.types) < n THEN [p EXCEPT !.ops = Front(@), !.result = "Invalid", !.reported = TRUE]
  ELSE WriteOut(p, op, SubSeq(p.types, 1, Len(p.types) - n),
               GetResult(op, p.types[Len(p.types) - n + 1], IF n = 2 THEN Last(p.types) ELSE "Invalid"))

PopOperator(p) == With(Last(p.ops).op, LAMBDA op : Pop(p, op, Arity(op)))

Stacks == [ops |-> Top.ops, types |-> Top.types, out |-> out,
           reported |-> reported, result |-> ""]

\* The stacks after `n` operators were popped.
Popped[n \in Nat] == IF n = 0 THEN Stacks ELSE PopOperator(Popped[n - 1])

\* How many operators leave the stack before `op` goes on it.
Preceding(op) ==
  LET n == Len(Top.ops)
  IN  CHOOSE k \in 0 .. n :
        /\ \A i \in n - k + 1 .. n : Precedes(Top.ops[i].op, op)
        /\ k < n => ~Precedes(Top.ops[n - k].op, op)

\* The running call with the stacks of p and the fields of f.
Resume(p, operand, end) ==
  [ops |-> p.ops, types |-> p.types, operand |-> operand, end |-> end]

Fail(showing) ==
  /\ stage' = "failed"
  /\ reported' = showing
  /\ UNCHANGED <<input, pos, frames, out, type, runVars>>

Parsing == stage = "parsing" /\ pos < Top.end

Pushed(p, op) == [p EXCEPT !.ops = Append(@, [op |-> op, place |-> pos])]

OpenBracket ==
  /\ Parsing
  /\ \E op \in ParseOperator(Top.operand, pos) \cap Opening :
       \E end \in {MatchOpenBracket(op, pos + 1)} :
         IF end = 0 \/ end >= Top.end THEN Fail(TRUE)
         ELSE \E q \in {IF op = "LeftParen" THEN Stacks ELSE Pushed(Popped[Preceding(op)], op)} :
                /\ frames' = Append(Front(frames) \o <<Resume(q, TRUE, Top.end)>>, Frame(end))
                /\ pos' = pos + 1
                /\ out' = q.out
                /\ reported' = q.reported
                /\ UNCHANGED <<input, stage, type, runVars>>

UnexpectedClosing ==
  /\ Parsing
  /\ ParseOperator(Top.operand, pos) \cap Closing # {}
  /\ Fail(TRUE)

PushOperator ==
  /\ Parsing
  /\ \E op \in ParseOperator(Top.operand, pos) \ (Opening \cup Closing) :
       \E q \in {Pushed(Popped[Preceding(op)], op)} :
         /\ frames' = Front(frames) \o <<Resume(q, FALSE, Top.end)>>
         /\ out' = q.out
         /\ reported' = q.reported
  /\ pos' = pos + 1
  /\ UNCHANGED <<input, stage, type, runVars>>

\* The next token cannot go on with this expression: it starts the next argument.
Delimits ==
  /\ ParseOperator(Top.operand, pos) = {}
  /\ Top.operand \/ ParseOperator(~Top.operand, pos) # {}

\* The type of a leaf, when the compiler knows it.
LeafType(kind) ==
  CASE kind = "command"  -> "Number"
    [] kind = "call"     -> "Command"
    [] kind = "text"     -> "String"
    [] kind = "variable" -> "NumericVar"
    [] kind = "array"    -> "ArrayVar"

ReadOperand ==
  /\ Parsing
  /\ ParseOperator(Top.operand, pos) = {} /\ ~Delimits
  /\ out' = Append(out, Emit(Token, 0, pos))
  /\ frames' = Front(frames) \o
       <<[Top EXCEPT !.types = Append(@, LeafType(input.kinds[Token])), !.operand = TRUE]>>
  /\ pos' = pos + 1
  /\ UNCHANGED <<input, stage, reported, type, runVars>>

(* The rest of ParseSubExpression: the operators left on the stack are     *)
(* popped until one fails, and the type of the one operand left over is    *)
(* returned.  In a bracket, what the call did not read is skipped.         *)
PoppedUntil[n \in Nat] ==
  IF n = 0 THEN Stacks
  ELSE With(PoppedUntil[n - 1], LAMBDA p : IF p.result = "Invalid" THEN p ELSE PopOperator(p))

Returned(result) ==
  IF Len(frames) = 1
  THEN /\ stage' = IF result = "Empty" THEN "empty" ELSE "running"
       /\ type' = result
       /\ UNCHANGED <<pos, frames>>
  ELSE /\ frames' = [Front(frames) EXCEPT ![Len(frames) - 1].types = Append(@, result)]
       /\ pos' = Top.end + 1
       /\ UNCHANGED <<stage, type>>

EndExpression ==
  /\ stage = "parsing"
  /\ pos < Top.end => Delimits
  /\ \E p \in {PoppedUntil[Len(Top.ops)]} :
       IF p.result = "Invalid" \/ Len(p.types) > 1 THEN Fail(TRUE)
       ELSE /\ out' = p.out
            /\ reported' = p.reported
            /\ UNCHANGED <<input, runVars>>
            /\ Returned(IF p.types = <<>> THEN "Empty" ELSE Last(p.types))

----------------------------------------------------------------------------
(* Values at run time.  A token that is an element of an array converts as *)
(* the element it points to; `content` is the type of that element.        *)

Tok(t, content, num, str, ambiguous) ==
  [type |-> t, content |-> content, num |-> num, str |-> str, ambiguous |-> ambiguous]
Num(n)  == Tok("Number", "", n, <<>>, FALSE)
Str(s)  == Tok("String", "", 0, s, FALSE)
Bool(b) == Tok("Boolean", "", IF b THEN 1 ELSE 0, <<>>, FALSE)
Null    == Tok("Invalid", "", 0, <<>>, FALSE)

GetNumber(t) ==
  IF t.type \in {"Number", "Boolean", "NumericVar"} \/ t.content = "Number" THEN t.num ELSE 0
GetString(t) == IF t.type = "String" \/ t.content = "String" THEN t.str ELSE <<>>
GetBool(t)   == t.type \in {"String", "ArrayVar"} \/ GetNumber(t) # 0

CanConvertTo(t, to) ==
  IF t.type = "ArrayElement"
  THEN \/ to \in {"ArrayElement", t.content}
       \/ to = "Boolean" /\ t.content = "Number"
  ELSE CanConvertOperand(t.type, to)

\* ScriptToken::ForwardEvalResult.
ForwardEvalResult(t) ==
  IF CanConvertTo(t, "Number") THEN Num(GetNumber(t))
  ELSE IF CanConvertTo(t, "String") THEN Str(GetString(t)) ELSE t

(* The functions of the rules.  `element` is what an array holds where it  *)
(* is subscripted.                                                         *)
Compute(eval, op, l, r, element) ==
  CASE eval = "Logical" ->
         IF \/ op = "LogicalAnd" /\ GetBool(l) /\ GetBool(r)
            \/ op = "LogicalOr" /\ (GetBool(l) \/ GetBool(r))
         THEN ForwardEvalResult(r) ELSE Bool(FALSE)
    [] eval = "Eq_Number"  -> Bool(GetNumber(l) = GetNumber(r))
    [] eval = "Eq_String"  -> Bool(GetString(l) = GetString(r))
    [] eval = "Add_Number" -> Num(GetNumber(l) + GetNumber(r))
    [] eval = "Add_String" -> Str(GetString(l) \o GetString(r))
    [] eval = "Arithmetic" -> Num(GetNumber(l) - GetNumber(r))
    [] eval = "Negation"   -> Num(-GetNumber(l))
    [] eval = "LogicalNot" -> Bool(~GetBool(l))
    [] eval = "Subscript"  -> element
    [] OTHER               -> Num(GetNumber(r))   \* the two assignments

Assigns(eval) == eval \in {"Assign_Numeric", "Assign_Elem_Number"}

(* Operator::Evaluate: the first rule with a function that fits the        *)
(* operands, in this order or, for a symmetric rule, swapped.              *)
Matches(rule, op, l, r) ==
  CanConvertTo(l, rule.lhs) /\ (Arity(op) = 1 \/ CanConvertTo(r, rule.rhs))

NoRule == [eval |-> "", swap |-> FALSE]

FindRule(op, l, r) ==
  LET fits == {i \in DOMAIN Rules[op] :
                 LET rule == Rules[op][i]
                 IN  /\ rule.eval # ""
                     /\ \/ Matches(rule, op, l, r)
                        \/ ~rule.asymmetric /\ Matches(rule, op, r, l)}
      rule == Rules[op][CHOOSE i \in fits : \A j \in fits : i <= j]
  IN  IF fits = {} THEN NoRule
      ELSE [eval |-> rule.eval, swap |-> ~Matches(rule, op, l, r)]

\* An element or the result of a command of any type may differ the next time.
ShouldCache(t) == t.type # "ArrayElement" /\ ~t.ambiguous

\* The result of an operator under a rule, its operands swapped if need be.
ResultOf(rule, op, l, r, element) ==
  IF rule = NoRule THEN Null
  ELSE IF rule.swap THEN Compute(rule.eval, op, r, l, element)
  ELSE Compute(rule.eval, op, l, r, element)

----------------------------------------------------------------------------
(* ParseShortCircuit, run once when the bytecode is first read.            *)

\* GetOperatorParent: the operator that takes the value of the token at i.
ParentFrom[i \in Nat, count \in Int] ==
  IF i > Len(out) THEN i
  ELSE LET after == IF out[i].arity = 0 THEN count + 1 ELSE count - (out[i].arity - 1)
       IN  IF (out[i].arity > 0 /\ count = 0) \/ after = 0 THEN i
           ELSE ParentFrom[i + 1, after]
OperatorParent(i) == ParentFrom[i + 1, 0]

\* The last of the logical operators above the token at i that its value may settle.
FurthestParent(i) ==
  LET Climb[f \in Nat] ==
        LET p == OperatorParent(f)
        IN  IF /\ p <= Len(out)
               /\ IsLogical(out[p].symbol)
               /\ \/ f = i
                  \/ /\ out[p].symbol = out[f].symbol
                     /\ f + 1 > Len(out) \/ out[f + 1].arity = 0
            THEN Climb[p] ELSE f
  IN  Climb[i]

\* Mutant: a settling right operand leaves the left one on the stack.
MutantShortCircuitInfo(i) ==
  LET f == FurthestParent(i)
  IN  [parent   |-> IF f # i THEN out[f].symbol ELSE "",
       distance |-> f - i,
       offset   |-> 1]

ShortCircuitInfo(i) ==
  LET f == FurthestParent(i)
  IN  [parent   |-> IF f # i THEN out[f].symbol ELSE "",
       distance |-> f - i,
       offset   |-> IF OperatorParent(i) = i + 1 THEN 2 ELSE 1]

(* ShortCircuit, after every token: when the value on top of the stack     *)
(* settles the operator, skip to it and leave only that value.             *)
Settles(top, info) ==
  \/ info.parent = "LogicalAnd" /\ ~GetBool(top.tok)
  \/ info.parent = "LogicalOr" /\ GetBool(top.tok)

Jump(stack, top, info) ==
  IF ~Settles(top, info)
  THEN operands' = stack /\ iter' = iter + 1 /\ UNCHANGED <<stage, errors>>
  ELSE IF Len(stack) < info.offset
  THEN stage' = "done" /\ errors' = TRUE /\ operands' = <<>> /\ UNCHANGED iter
  ELSE /\ operands' = Append(SubSeq(stack, 1, Len(stack) - info.offset), top)
       /\ iter' = iter + info.distance + 1
       /\ UNCHANGED <<stage, errors>>

AfterToken(stack) == Jump(stack, Last(stack), ShortCircuitInfo(Last(stack).at))

----------------------------------------------------------------------------
(* ExpressionEvaluator::Evaluate.                                          *)

\* What a leaf may come to, and what an array may hold.
LeafValues(kind) ==
  CASE kind = "command"  -> {Num(n) : n \in Numbers}
    [] kind = "call"     -> {[t EXCEPT !.ambiguous = TRUE] :
                               t \in {Num(n) : n \in Numbers} \cup {Str(<<"call">>)}}
    [] kind = "text"     -> {Str(<<"text">>)}
    [] kind = "variable" -> {Tok("NumericVar", "", n, <<>>, FALSE) : n \in Numbers}
    [] kind = "array"    -> {Tok("ArrayVar", "", 0, <<>>, FALSE)}

Elements ==
  {Tok("ArrayElement", "Number", n, <<>>, FALSE) : n \in Numbers}
    \cup {Tok("ArrayElement", "String", 0, <<"element">>, FALSE)}

Event(what, place, num) == [what |-> what, place |-> place, num |-> num]
Executes(kind) == kind \in {"command", "call"}
Running == stage = "running" /\ iter <= Len(out)
Current == out[iter]

PushOperand ==
  /\ Running /\ Current.arity = 0
  /\ LET kind == input.kinds[Current.symbol]
     IN  /\ \E t \in LeafValues(kind) :
              /\ env' = [env EXCEPT ![Current.place] = t]
              /\ AfterToken(Append(operands, [tok |-> t, at |-> iter]))
         /\ trace' = IF Executes(kind) THEN Append(trace, Event("run", Current.place, 0)) ELSE trace
  /\ UNCHANGED <<parserVars, cache, round>>

RuleFor(op, l, r) == IF cache[iter] # NoRule THEN cache[iter] ELSE FindRule(op, l, r)

Give(rest, rule, cached, op, res) ==
  IF res = Null
  THEN /\ stage' = "done" /\ errors' = TRUE /\ operands' = rest
       /\ UNCHANGED <<iter, cache, env, trace>>
  ELSE /\ cache' = IF cached THEN [cache EXCEPT ![iter] = rule] ELSE cache
       /\ env' = IF op = "LeftBracket" THEN [env EXCEPT ![Current.place] = res] ELSE env
       /\ trace' = IF Assigns(rule.eval)
                   THEN Append(trace, Event("set", Current.place, res.num)) ELSE trace
       /\ AfterToken(Append(rest, [tok |-> res, at |-> iter]))

ApplyOperator ==
  /\ Running /\ Current.arity > 0
  /\ \E element \in IF Current.symbol = "LeftBracket" THEN Elements ELSE {Null} :
       \E l \in {operands[Len(operands) - Current.arity + 1].tok},
          r \in {IF Current.arity = 2 THEN Last(operands).tok ELSE Null} :
         \E rule \in {RuleFor(Current.symbol, l, r)} :
           Give(SubSeq(operands, 1, Len(operands) - Current.arity), rule, ShouldCache(l) /\ ShouldCache(r),
                Current.symbol, ResultOf(rule, Current.symbol, l, r, element))
  /\ UNCHANGED <<parserVars, round>>

Finish ==
  /\ stage = "running" /\ iter > Len(out)
  /\ stage' = "done"
  /\ errors' = (errors \/ Len(operands) # 1)
  /\ UNCHANGED <<parserVars, iter, operands, cache, env, trace, round>>

\* The script line runs again: its tokens and their rules are in the cache.
Again ==
  /\ stage = "done" /\ round < MaxRounds
  /\ stage' = "running"
  /\ iter' = 1 /\ operands' = <<>> /\ errors' = FALSE /\ trace' = <<>>
  /\ env' = [i \in DOMAIN env |-> Null]
  /\ round' = round + 1
  /\ UNCHANGED <<parserVars, cache>>

Init ==
  /\ input \in Inputs
  /\ stage = "parsing" /\ pos = 1 /\ frames = <<Frame(Len(input.tokens) + 1)>>
  /\ out = <<>> /\ reported = FALSE /\ type = ""
  /\ iter = 1 /\ operands = <<>> /\ errors = FALSE /\ trace = <<>> /\ round = 1
  /\ cache = [i \in 1 .. Len(input.tokens) |-> NoRule]
  /\ env = [i \in 1 .. Len(input.tokens) |-> Null]

Next ==
  \/ OpenBracket \/ UnexpectedClosing \/ PushOperator \/ ReadOperand \/ EndExpression
  \/ PushOperand \/ ApplyOperator \/ Finish \/ Again

Spec == Init /\ [][Next]_vars

----------------------------------------------------------------------------
(* What the text says: how a reader groups it, and what it then comes to.  *)
(* A range <<lo, hi>> of the text is split at the operator that is applied *)
(* last; the parts are ranges again.                                       *)

Symbols == {Operators[op].symbol : op \in DOMAIN Operators}
EndsOperand(i) == input.tokens[i] \notin Symbols \/ input.tokens[i] \in {")", "]"}

\* Every bracket opened in lo .. hi closes there.
Balanced(lo, hi) ==
  Cardinality({i \in lo .. hi : input.tokens[i] \in {"(", "["}}) =
    Cardinality({i \in lo .. hi : input.tokens[i] \in {")", "]"}})

OperatorAt(i) ==
  CHOOSE op \in DOMAIN Operators \ Closing :
    Operators[op].symbol = input.tokens[i] /\ Arity(op) = IF EndsOperand(i - 1) THEN 2 ELSE 1

\* The binary operators of a range outside all of its brackets.
BinaryPlaces(lo, hi) ==
  {i \in lo + 1 .. hi - 1 :
     /\ input.tokens[i] \in Symbols \ {"(", ")", "[", "]", "!"}
     /\ EndsOperand(i - 1) /\ Balanced(lo, i - 1)}

\* The one applied last: it binds least, and comes last among its equals (first for :=).
Later(i, j) == IF RightAssociative(OperatorAt(i)) THEN i <= j ELSE j <= i
LastApplied(places) ==
  LET Weight(i) == Operators[OperatorAt(i)].precedence
  IN  CHOOSE i \in places : \A j \in places :
        Weight(i) < Weight(j) \/ (Weight(i) = Weight(j) /\ Later(i, j))

Part(op, place, parts) == [op |-> op, place |-> place, parts |-> parts]

Subscripts(lo, hi) == {i \in lo + 1 .. hi - 1 : input.tokens[i] = "[" /\ Balanced(i, hi)}
LastSubscript(places) == CHOOSE i \in places : \A j \in places : j <= i

\* A range without a binary operator outside its brackets.
SplitPrimary(lo, hi, first, last) ==
  CASE first = "-" -> Part("Negation", lo, <<<<lo + 1, hi>>>>)
    [] first = "!" -> Part("LogicalNot", lo, <<<<lo + 1, hi>>>>)
    [] first \notin {"-", "!"} /\ last = "]" /\ Subscripts(lo, hi) # {} ->
         With(LastSubscript(Subscripts(lo, hi)),
              LAMBDA b : Part("LeftBracket", b, <<<<lo, b - 1>>, <<b + 1, hi - 1>>>>))
    [] first = "(" /\ last = ")" -> Part("LeftParen", lo, <<<<lo + 1, hi - 1>>>>)
    [] OTHER -> Part("Invalid", lo, <<>>)

Split(lo, hi) ==
  CASE lo > hi -> Part("Invalid", lo, <<>>)
    [] lo = hi -> Part(IF input.tokens[lo] \in Symbols THEN "Invalid" ELSE "", lo, <<>>)
    [] lo < hi ->
         With(BinaryPlaces(lo, hi), LAMBDA places :
           IF places = {} THEN SplitPrimary(lo, hi, input.tokens[lo], input.tokens[hi])
           ELSE With(LastApplied(places),
                     LAMBDA k : Part(OperatorAt(k), k, <<<<lo, k - 1>>, <<k + 1, hi>>>>)))

Sentence[r \in Nat \X Nat] ==
  With(Split(r[1], r[2]), LAMBDA s : s.op # "Invalid" /\ \A i \in DOMAIN s.parts : Sentence[s.parts[i]])

\* What is written out for a range after its parts.
Ending(s) ==
  CASE Len(s.parts) = 0    -> <<Emit(input.tokens[s.place], 0, s.place)>>
    [] s.op = "LeftParen"  -> <<>>
    [] OTHER               -> <<Emit(s.op, Len(s.parts), s.place)>>

Postfix[r \in Nat \X Nat] ==
  With(Split(r[1], r[2]), LAMBDA s :
    FlattenSeq([i \in DOMAIN s.parts |-> Postfix[s.parts[i]]]) \o Ending(s))

(* The value of a range, with what was executed and set on the way: the    *)
(* left part, then the right part unless the left one settles a logical    *)
(* operator, then the operator, by the first rule that fits its operands.  *)
Meaning(ok, tok, events) == [ok |-> ok, tok |-> tok, trace |-> events]

Given(s, rule, res, events) ==
  Meaning(res # Null, res,
          events \o IF Assigns(rule.eval) THEN <<Event("set", s.place, res.num)>> ELSE <<>>)

Applied(s, l, r) ==
  With(FindRule(s.op, l.tok, r.tok), LAMBDA rule :
    Given(s, rule, ResultOf(rule, s.op, l.tok, r.tok, env[s.place]), l.trace \o r.trace))

Settled(op, tok) == \/ op = "LogicalAnd" /\ ~GetBool(tok)
                    \/ op = "LogicalOr" /\ GetBool(tok)

LeafMeans(tok, kind, place) ==
  Meaning(tok # Null, tok, IF Executes(kind) THEN <<Event("run", place, 0)>> ELSE <<>>)

Both(s, l, r) == IF r.ok THEN Applied(s, l, r) ELSE Meaning(FALSE, Null, l.trace \o r.trace)

Means[range \in Nat \X Nat] ==
  With(Split(range[1], range[2]), LAMBDA s :
    IF s.parts = <<>> THEN LeafMeans(env[s.place], input.kinds[input.tokens[s.place]], s.place)
    ELSE With(Means[s.parts[1]], LAMBDA l :
           IF ~l.ok \/ s.op = "LeftParen" \/ Settled(s.op, l.tok) THEN l
           ELSE IF Len(s.parts) = 1 THEN Applied(s, l, Meaning(TRUE, Null, <<>>))
           ELSE Both(s, l, Means[s.parts[2]])))

----------------------------------------------------------------------------
(* Properties.                                                             *)

Read == <<1, pos - 1>>
Compiled == stage \in {"running", "done"} /\ ~reported

\* Two operands in a row, or a binary operator in front, inside a bracket: the
\* call for the bracket stops there and the rest of the bracket is skipped.
CutShort ==
  \E i \in 1 .. Len(input.tokens) : \E j \in i + 1 .. Len(input.tokens) :
    /\ input.tokens[i] \in {"(", "["} /\ input.tokens[j] \in {")", "]"}
    /\ Balanced(i, j) /\ ~Sentence[<<i + 1, j - 1>>]

(* What compiles without an error compiles to the postfix form of the text *)
(* up to where the next argument starts, as a reader groups it: by         *)
(* precedence, from the left, and := and the prefix operators from the     *)
(* right.  (Text inside brackets that is no expression is the exception.)  *)
GroupsAsWritten ==
  Compiled /\ ~CutShort => Sentence[Read] /\ out = Postfix[Read]

\* A prefix operator in front of one that binds less: PopOperator takes the
\* first one off before it has an operand.
PrefixesFall ==
  \E i \in 1 .. Len(input.tokens) - 1 : input.tokens[i] = "!" /\ input.tokens[i + 1] = "-"

(* Nothing that reads as an expression over commands is refused.           *)
AcceptsSentences ==
  /\ stage = "failed" \/ reported
  /\ \A a \in DOMAIN input.kinds : input.kinds[a] = "command"
  /\ \A i \in DOMAIN input.tokens : input.tokens[i] \notin {":=", "["}
  => ~Sentence[<<1, Len(input.tokens)>>] \/ PrefixesFall

(* The parser accepts what reads as an expression, and groups it as it      *)
(* reads (ExpressionParser::Parse, PopOperator).                           *)
CompilesAsWritten == GroupsAsWritten /\ AcceptsSentences

\* The evaluation that has ended did what the text means.
Agrees(m) ==
  IF m.ok
  THEN /\ ~errors
       /\ trace = m.trace
       /\ GetNumber(Last(operands).tok) = GetNumber(m.tok)
       /\ GetString(Last(operands).tok) = GetString(m.tok)
  ELSE \/ errors /\ trace = m.trace
       \/ \E i \in DOMAIN out : IsLogical(out[i].symbol)

(* Whenever an evaluation ends, it has done what the text says, whatever   *)
(* the jumps over settled operands and the rules remembered from earlier   *)
(* evaluations: the same commands in the same order, the same assignments, *)
(* and the same value, or an error where the text has one.  (With && or || *)
(* in it, a text that is in error may still come to a value: an operator   *)
(* that its right operand settles is not applied, so no rule is missed.)   *)
EvaluatesAsWritten == stage = "done" /\ Compiled /\ ~CutShort => Agrees(Means[Read])

=============================================================================
