------------------------------- MODULE Conditions -------------------------------
(***************************************************************************)
(* A task's definition: how a draft is decoded, validated and stored, how  *)
(* a run extracts its conditions from a page that changes meanwhile, and   *)
(* how the outcome is judged against the last successful run.              *)
(*                                                                         *)
(* Texts and numbers are a few tokens with the spellings that matter. One  *)
(* run is under way at a time; runs that overlap are the subject of Runner.*)
(***************************************************************************)
EXTENDS Integers, Sequences, FiniteSetsExt

CONSTANTS
  Urls, Selectors,
  Elements,       \* what a selector may match: its text and its one attribute
  Wires,          \* the specs a client may send
  FlatResults,    \* results an earlier version may have left behind
  MaxConditions,
  Absent, Null

Blank == ""
Text == STRING \cup {Blank}
MatchModes == {"all", "any"}

Condition == [selector : Selectors \cup {Blank}, wait : Selectors \cup {Blank}, extract : Text,
              attribute : Text, operator : Text, value : Text]
Placeholder == [name : Text, index : Nat]

\* What a client sends, and what it is decoded to and stored as.
Wire == [url : Text, match : Text, conditions : Seq(Condition), message : SUBSET Placeholder,
         flat : Condition \cup {Null}]
Definition == [url : Text, match : MatchModes, conditions : Seq(Condition),
               message : SUBSET Placeholder]

ASSUME MaxConditionsAssumption == MaxConditions \in Nat \ {0}

ASSUME ContentsAssumption ==
  /\ Elements \subseteq [text : Text, title : Text]
  /\ Wires \subseteq Wire

ExtractKinds == {"text", "number", "attribute", "count", "exists"}
NumericKinds == {"number", "count"}
ValuelessOperators == {"is_true", "is_false", "changed"}
MessagePlaceholders == {"value", "raw", "url", "name"}

OperatorsByKind ==
  [kind \in ExtractKinds |->
     CASE kind \in NumericKinds -> {"lt", "lte", "gt", "gte", "eq", "neq", "changed"}
       [] kind = "exists" -> {"is_true", "is_false", "changed"}
       [] OTHER -> {"eq", "neq", "contains", "not_contains", "changed"}]

-------------------------------------------------------------------------------
(* Texts and the numbers in them *)

NaN == -1
NoNumber == -2

\* What strconv makes of a text.
ParseFloat(text) ==
  CASE text = "0" -> 0
    [] text \in {"1", "1.0"} -> 1
    [] text = "2" -> 2
    [] text = "NaN" -> NaN
    [] OTHER -> NoNumber

\* The shortest spelling of a number, the only one a value is printed in.
Numerals == {"0", "1", "2"}

\* What is left of a text without the characters no number has.
ParseNumber(text) == CASE text = "$2" -> "2" [] OTHER -> text

Substring(part, text) == part = text \/ (part = "2" /\ text = "$2")

toNumber(text) == IF ParseFloat(text) = NoNumber THEN NaN ELSE ParseFloat(text)

\* Every comparison with NaN is false.
Ordered(a, b) == toNumber(a) # NaN /\ toNumber(b) # NaN

-------------------------------------------------------------------------------
(* Decoding and validation *)

\* Mutant: the operator is part of what a condition is known by.
KeyWithOperator(condition) == <<condition.selector, condition.operator, condition.attribute>>

\* A condition is known by what it extracts, not by its place, its test or its page.
Key(condition) == <<condition.selector, condition.extract, condition.attribute>>

\* What a condition reads of its page: the same thing for its key to find.
Reads(condition) ==
  [selector |-> condition.selector, extract |-> condition.extract,
   attribute |-> IF condition.extract = "attribute" THEN condition.attribute ELSE Blank]

\* The shape from before conditions were a list is hoisted into one.
Decode(wire) ==
  [url |-> wire.url,
   match |-> IF wire.match = Blank THEN "all" ELSE wire.match,
   conditions |-> IF wire.conditions = <<>> /\ wire.flat # Null
                  THEN <<wire.flat>> ELSE wire.conditions,
   message |-> wire.message]

\* Mutant: any operator goes with any kind.
AnyOperator(condition) == condition.extract \in ExtractKinds

validateOperator(condition) ==
  /\ condition.extract \in ExtractKinds
  /\ condition.operator \in OperatorsByKind[condition.extract]

validateCondition(condition) ==
  /\ condition.selector # Blank
  /\ validateOperator(condition)
  /\ condition.extract = "attribute" => condition.attribute # Blank
  /\ condition.operator \notin ValuelessOperators =>
       /\ condition.value # Blank
       /\ condition.extract \in NumericKinds => ParseFloat(condition.value) # NoNumber

\* What the kind and the operator have no use for is dropped.
Normalized(condition) ==
  [condition EXCEPT
     !.attribute = IF condition.extract = "attribute" THEN @ ELSE Blank,
     !.value = IF condition.operator \in ValuelessOperators THEN Blank ELSE @]

\* Mutant: placeholders are counted from zero.
MessageFromZero(message, count) ==
  \A p \in message :
    IF p.index > 0 /\ p.name \in {"value", "raw"}
    THEN p.index - 1 <= count
    ELSE p.index = 0 /\ p.name \in MessagePlaceholders

\* A placeholder with a number names a condition by its place.
validateMessage(message, count) ==
  \A p \in message :
    IF p.index > 0 /\ p.name \in {"value", "raw"}
    THEN p.index <= count
    ELSE p.index = 0 /\ p.name \in MessagePlaceholders

ValidateSpec(spec) ==
  /\ spec.url \in Urls
  /\ spec.match \in MatchModes
  /\ Len(spec.conditions) \in 1..MaxConditions
  /\ \A i \in DOMAIN spec.conditions : validateCondition(spec.conditions[i])
  /\ validateMessage(spec.message, Len(spec.conditions))

Normal(spec) ==
  [spec EXCEPT !.conditions = [i \in DOMAIN @ |-> Normalized(@[i])]]

Specs == {Normal(Decode(wire)) : wire \in {w \in Wires : ValidateSpec(Decode(w))}}

-------------------------------------------------------------------------------
VARIABLES
  page,        \* what each selector matches on each page
  spec,        \* the stored definition
  last,        \* the result of the last successful run
  run,         \* the run, or the test of a draft, under way
  sinceLast,   \* what changed on the pages since the run of that result started
  sinceStart   \* and since the run under way started

vars == <<page, spec, last, run, sinceLast, sinceStart>>

None == [type |-> "none", text |-> Blank]

Bool(b) == [type |-> "bool", text |-> IF b THEN "true" ELSE "false"]

-------------------------------------------------------------------------------
(* One run *)

\* `exists` and `count` do not wait unless they are told what for.
shouldWait(condition) ==
  condition.wait # Blank \/ condition.extract \notin {"exists", "count"}

WaitTarget(condition) == IF condition.wait # Blank THEN condition.wait ELSE condition.selector

\* What an extraction yields: nothing when the element or its number is missing.
\* A missing attribute is empty.
extractValue(element, condition) ==
  CASE condition.extract = "exists" -> Bool(element # Absent)
    [] condition.extract = "count" ->
         [type |-> "number", text |-> IF element = Absent THEN "0" ELSE "1"]
    [] element # Absent /\ condition.extract = "attribute" ->
         [type |-> "string", text |-> element.title]
    [] element # Absent /\ condition.extract = "text" ->
         [type |-> "string", text |-> element.text]
    [] element # Absent /\ condition.extract = "number"
         /\ ParseNumber(element.text) \in Numerals ->
         [type |-> "number", text |-> ParseNumber(element.text)]
    [] OTHER -> Null

Execute(definition, test) ==
  /\ run = Null
  /\ run' = [spec |-> definition, test |-> test, waited |-> FALSE, checks |-> <<>>,
             judged |-> FALSE, met |-> FALSE]
  /\ sinceStart' = IF test THEN sinceStart ELSE {}
  /\ UNCHANGED <<page, spec, last, sinceLast>>

\* The condition that is next.
Current == run.spec.conditions[Len(run.checks) + 1]
Extracting == run # Null /\ Len(run.checks) < Len(run.spec.conditions)

Wait ==
  /\ Extracting
  /\ ~run.waited
  /\ shouldWait(Current)
  /\ page[run.spec.url][WaitTarget(Current)] # Absent
  /\ run' = [run EXCEPT !.waited = TRUE]
  /\ UNCHANGED <<page, spec, last, sinceLast, sinceStart>>

Extract ==
  /\ Extracting
  /\ run.waited \/ ~shouldWait(Current)
  /\ LET value == extractValue(page[run.spec.url][Current.selector], Current)
     IN /\ value # Null
        /\ run' = [run EXCEPT !.waited = FALSE,
                              !.checks = Append(@, [key |-> Key(Current), value |-> value,
                                                    met |-> FALSE])]
  /\ UNCHANGED <<page, spec, last, sinceLast, sinceStart>>

\* A navigation, a wait or an extraction that fails, the run's deadline or a crash: the
\* row says so and is no result, however much had been extracted.
Fail ==
  /\ run # Null
  /\ run' = Null
  /\ UNCHANGED <<page, spec, last, sinceLast, sinceStart>>

-------------------------------------------------------------------------------
(* Its judgement *)

\* What the last successful run saw for a key. Several conditions may extract the
\* same: the last of them is found. A result from before conditions were a list
\* belongs to the first.
previousValue(key) ==
  LET same == {j \in DOMAIN last.checks : last.checks[j].key = key}
  IN IF run.test \/ last = Null THEN None
     ELSE IF last.flat # Null
     THEN IF key = Key(run.spec.conditions[1]) THEN last.flat ELSE None
     ELSE IF same = {} THEN None ELSE last.checks[Max(same)].value

EvaluateCondition(condition, value, previous) ==
  CASE condition.operator = "is_true" -> value = Bool(TRUE)
    [] condition.operator = "is_false" -> value = Bool(FALSE)
    [] condition.operator = "changed" -> previous # None /\ previous # value
    [] condition.operator = "eq" -> value.text = condition.value
    [] condition.operator = "neq" -> value.text # condition.value
    [] condition.operator = "contains" -> Substring(condition.value, value.text)
    [] condition.operator = "not_contains" -> ~Substring(condition.value, value.text)
    [] OTHER ->
         /\ Ordered(value.text, condition.value)
         /\ LET a == toNumber(value.text)
                b == toNumber(condition.value)
            IN \/ condition.operator = "lt" /\ a < b
               \/ condition.operator = "lte" /\ a <= b
               \/ condition.operator = "gt" /\ a > b
               \/ condition.operator = "gte" /\ a >= b

Met(i) ==
  EvaluateCondition(run.spec.conditions[i], run.checks[i].value, previousValue(run.checks[i].key))

Outcome ==
  IF run.spec.match = "any" THEN \E i \in DOMAIN run.checks : Met(i)
  ELSE \A i \in DOMAIN run.checks : Met(i)

\* Mutant: `all` stops at the first condition that is not met.
JudgedShort ==
  LET unmet == {i \in DOMAIN run.checks : ~Met(i)}
      count == IF unmet = {} THEN Len(run.checks) ELSE Min(unmet)
  IN [i \in 1..count |-> [run.checks[i] EXCEPT !.met = Met(i)]]

\* Every condition has its own outcome on the row.
Judged == [i \in DOMAIN run.checks |-> [run.checks[i] EXCEPT !.met = Met(i)]]

EvaluateConditions ==
  /\ run # Null
  /\ Len(run.checks) = Len(run.spec.conditions)
  /\ ~run.judged
  /\ run' = [run EXCEPT !.judged = TRUE, !.checks = Judged, !.met = Outcome]
  /\ UNCHANGED <<page, spec, last, sinceLast, sinceStart>>

\* The row of a success carries the result, whatever became of its alert; the test of a
\* draft has no row.
Record ==
  /\ run # Null
  /\ run.judged
  /\ ~run.test
  /\ last' = [url |-> run.spec.url, flat |-> Null,
              checks |-> [i \in DOMAIN run.checks |->
                            [key |-> run.checks[i].key, value |-> run.checks[i].value,
                             reads |-> Reads(run.spec.conditions[i])]]]
  /\ sinceLast' = sinceStart
  /\ run' = Null
  /\ UNCHANGED <<page, spec, sinceStart>>

\* What the message has values for.
Replaced ==
  {[name |-> n, index |-> 0] : n \in MessagePlaceholders}
    \cup {[name |-> n, index |-> i] : n \in {"value", "raw"}, i \in DOMAIN run.checks}

-------------------------------------------------------------------------------
(* The task and the pages *)

Save ==
  /\ \E wire \in Wires :
       /\ ValidateSpec(Decode(wire))
       /\ spec' = Normal(Decode(wire))
  /\ UNCHANGED <<page, last, run, sinceLast, sinceStart>>

TestDraft ==
  \E wire \in Wires :
    /\ ValidateSpec(Decode(wire))
    /\ Execute(Normal(Decode(wire)), TRUE)

\* A page changes when it likes, in the middle of a run too.
PageChanges ==
  /\ \E url \in Urls, selector \in Selectors :
       /\ \E element \in (Elements \cup {Absent}) \ {page[url][selector]} :
            page' = [page EXCEPT ![url][selector] = element]
       /\ sinceLast' = sinceLast \cup {<<url, selector>>}
       /\ sinceStart' = sinceStart \cup {<<url, selector>>}
  /\ UNCHANGED <<spec, last, run>>

Init ==
  /\ page \in [Urls -> [Selectors -> Elements \cup {Absent}]]
  /\ spec \in Specs
  /\ last \in {Null} \cup [url : {spec.url}, flat : FlatResults, checks : {<<>>}]
  /\ run = Null
  /\ sinceLast = Urls \X Selectors
  /\ sinceStart = {}

Next ==
  \/ Execute(spec, FALSE)
  \/ TestDraft
  \/ Wait
  \/ Extract
  \/ EvaluateConditions
  \/ Record
  \/ Fail
  \/ Save
  \/ PageChanges

Spec == Init /\ [][Next]_vars

-------------------------------------------------------------------------------
(* Properties *)

\* The stored definition is a normal one, and a run has extracted a prefix of its own.
TypeOK ==
  /\ page \in [Urls -> [Selectors -> Elements \cup {Absent}]]
  /\ ValidateSpec(spec) /\ Normal(spec) = spec
  /\ run # Null =>
       /\ Len(run.checks) <= Len(run.spec.conditions)
       /\ run.judged => Len(run.checks) = Len(run.spec.conditions)
       /\ \A i \in DOMAIN run.checks : run.checks[i].key = Key(run.spec.conditions[i])
  /\ sinceLast \subseteq Urls \X Selectors
  /\ sinceStart \subseteq sinceLast

\* What a condition may read from some page.
Readings(condition) ==
  CASE condition.extract = "exists" -> {Bool(TRUE), Bool(FALSE)}
    [] condition.extract \in NumericKinds -> [type : {"number"}, text : Numerals]
    [] OTHER -> [type : {"string"}, text : Numerals \cup {Blank, condition.value}]

\* No condition that was let in is one that no page can make true.
NeverDead ==
  \A i \in DOMAIN spec.conditions :
    \E value, previous \in Readings(spec.conditions[i]) :
      EvaluateCondition(spec.conditions[i], value, previous)

\* `changed` tells of a change only if the element it reads changed since the last
\* successful run of this page started.
ChangeIsReal ==
  run # Null /\ run.judged =>
    \A i \in DOMAIN run.checks :
      run.spec.conditions[i].operator = "changed" /\ run.checks[i].met =>
        /\ ~run.test
        /\ last # Null
        /\ last.url = run.spec.url =>
             <<run.spec.url, run.spec.conditions[i].selector>> \in sinceLast

\* It tells of one whenever that run read another value from the same place, wherever in
\* its list it did so.
ChangeIsSeen ==
  run # Null /\ run.judged /\ ~run.test /\ last # Null =>
    \A i \in DOMAIN run.checks :
      LET same == {j \in DOMAIN last.checks :
                     last.checks[j].reads = Reads(run.spec.conditions[i])}
      IN /\ run.spec.conditions[i].operator = "changed"
         /\ same # {}
         /\ \A j \in same : last.checks[j].value # run.checks[i].value
         => run.checks[i].met

\* `changed` is met for a change since the last successful run of this page and for
\* nothing else, through edits, reorderings, failed runs and tests of drafts.
ChangeIsExact == ChangeIsReal /\ ChangeIsSeen

\* An alert has a value for every placeholder its message was let in with.
MessageRenders == run # Null /\ run.judged => run.spec.message \subseteq Replaced

\* `changed` is never met for an element that has not changed.
NeverSpurious ==
  run # Null /\ run.judged =>
    \A i \in DOMAIN run.checks :
      run.spec.conditions[i].operator = "changed" /\ run.checks[i].met =>
        <<run.spec.url, run.spec.conditions[i].selector>> \in sinceLast
================================================================================
