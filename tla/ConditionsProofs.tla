---------------------------- MODULE ConditionsProofs ----------------------------
(***************************************************************************)
(* What TLAPS proves of Conditions, for any pages, definitions and number  *)
(* of conditions: what is stored and run stays valid, a message has its    *)
(* values, and `changed` tells of the changes there were and of no other.  *)
(***************************************************************************)
EXTENDS Conditions, SequenceTheorems, WellFoundedInduction, TLAPS

USE MaxConditionsAssumption, ContentsAssumption

-------------------------------------------------------------------------------
(* The operators *)

\* A non-empty set of places in a list has a highest one (Max of FiniteSetsExt).
LEMMA Highest ==
  ASSUME NEW n \in Nat, NEW S, S \subseteq 1..n, S # {}
  PROVE  Max(S) \in S
<1> DEFINE Depths == {m \in Nat : \E i \in S : m = n - i}
           R == OpToRel(<, Nat)
<1>1. Depths \subseteq Nat /\ Depths # {}
  <2>1. PICK i \in S : TRUE
    OBVIOUS
  <2>2. n - i \in Nat
    OBVIOUS
  <2> QED BY <2>2
<1>2. \A x, y \in Nat : x < y => <<x, y>> \in R
  BY DEF OpToRel
<1>3. IsWellFoundedOn(R, Nat)
  BY NatLessThanWellFounded
<1> HIDE DEF R
<1>4. PICK m \in Depths : \A d \in Depths : ~(<<d, m>> \in R)
  <2> HIDE DEF Depths
  <2> QED BY <1>1, <1>3, WFMin
<1>5. PICK i \in S : m = n - i
  OBVIOUS
<1>6. ASSUME NEW j \in S PROVE i >= j
  <2>1. n - j \in Depths
    OBVIOUS
  <2>2. ~(n - j < m)
    BY <1>2, <1>4, <2>1
  <2> QED BY <1>5, <2>2
<1> QED BY <1>6 DEF Max

\* A list of one.
LEMMA Singleton ==
  ASSUME NEW S, NEW x \in S
  PROVE  <<x>> \in Seq(S)
BY SeqDef

\* What appending to a list keeps and adds.
LEMMA Appended ==
  ASSUME NEW S, NEW s \in Seq(S), NEW x \in S
  PROVE  /\ Append(s, x) \in Seq(S)
         /\ Len(s) \in Nat /\ Len(Append(s, x)) = Len(s) + 1
         /\ \A i \in 1..Len(s) : Append(s, x)[i] = s[i]
         /\ Append(s, x)[Len(s) + 1] = x
BY AppendProperties, LenProperties

\* Decoding makes a definition of whatever a client may send that validates.
LEMMA DecodedTyped ==
  ASSUME NEW wire \in Wires, ValidateSpec(Decode(wire))
  PROVE  Decode(wire) \in Definition
<1>1. wire \in Wire
  OBVIOUS
<1>2. wire.flat # Null => <<wire.flat>> \in Seq(Condition)
  BY <1>1, Singleton DEF Wire
<1>3. /\ wire.url \in Text /\ wire.conditions \in Seq(Condition)
      /\ wire.message \in SUBSET Placeholder
  BY <1>1 DEF Wire
<1>4. Decode(wire).match \in MatchModes
  BY DEF ValidateSpec
<1> QED BY <1>2, <1>3, <1>4 DEF Decode, Definition

\* Normalising a condition drops what nothing reads.
LEMMA NormalizedCondition ==
  ASSUME NEW c \in Condition
  PROVE  /\ Normalized(c) \in Condition
         /\ Normalized(Normalized(c)) = Normalized(c)
         /\ validateCondition(c) => validateCondition(Normalized(c))
<1> DEFINE n == Normalized(c)
<1> DEFINE attribute == IF c.extract = "attribute" THEN c.attribute ELSE Blank
           value == IF c.operator \in ValuelessOperators THEN Blank ELSE c.value
<1>1. attribute \in Text /\ value \in Text
  BY DEF Condition, Text
<1>2. /\ n \in Condition
      /\ n.selector = c.selector /\ n.wait = c.wait /\ n.extract = c.extract
      /\ n.attribute = attribute /\ n.operator = c.operator /\ n.value = value
  <2>1. n = [c EXCEPT !.attribute = attribute, !.value = value]
    BY DEF Normalized
  <2> HIDE DEF n, attribute, value
  <2> QED BY <1>1, <2>1 DEF Condition
<1>3. Normalized(n) = n
  <2>1. Normalized(n) = [n EXCEPT !.attribute = n.attribute, !.value = n.value]
    BY <1>2 DEF Normalized
  <2> HIDE DEF n
  <2> QED BY <1>2, <2>1 DEF Condition
<1>4. validateCondition(c) => validateCondition(n)
  BY <1>2 DEF validateCondition, validateOperator
<1> QED BY <1>2, <1>3, <1>4

\* What may be stored and run.
Stored(d) == d \in Definition /\ ValidateSpec(d) /\ Normal(d) = d

\* A definition is a record of four fields.
LEMMA DefinitionFields ==
  ASSUME NEW d \in Definition
  PROVE  /\ d = [url |-> d.url, match |-> d.match, conditions |-> d.conditions,
                 message |-> d.message]
         /\ d.url \in Text /\ d.match \in MatchModes /\ d.message \in SUBSET Placeholder
         /\ Len(d.conditions) \in Nat
         /\ d.conditions \in [1..Len(d.conditions) -> Condition]
<1>1. d.conditions \in Seq(Condition)
  BY DEF Definition
<1> QED BY <1>1, LenProperties DEF Definition

\* Normalising keeps a definition's shape and touches its conditions one by one.
LEMMA NormalShape ==
  ASSUME NEW d \in Definition
  PROVE  /\ Normal(d) \in Definition
         /\ Normal(d).url = d.url /\ Normal(d).match = d.match /\ Normal(d).message = d.message
         /\ Len(Normal(d).conditions) = Len(d.conditions)
         /\ Normal(d).conditions = [i \in 1..Len(d.conditions) |-> Normalized(d.conditions[i])]
<1> DEFINE n == Len(d.conditions)
           cs == [i \in 1..n |-> Normalized(d.conditions[i])]
<1>1. n \in Nat /\ d.conditions \in [1..n -> Condition] /\ DOMAIN d.conditions = 1..n
  BY DefinitionFields
<1>2. cs \in [1..n -> Condition]
  BY <1>1, NormalizedCondition
<1>3. cs \in Seq(Condition) /\ Len(cs) = n
  <2>1. cs \in Seq(Condition)
    BY <1>1, <1>2, SeqDef
  <2>2. DOMAIN cs = 1..n
    OBVIOUS
  <2> HIDE DEF cs
  <2>3. Len(cs) \in Nat /\ DOMAIN cs = 1..Len(cs)
    BY <2>1, LenProperties
  <2> QED BY <2>1, <2>2, <2>3, <1>1
<1>4. Normal(d) = [url |-> d.url, match |-> d.match, conditions |-> cs, message |-> d.message]
  <2>1. Normal(d) = [d EXCEPT !.conditions = cs]
    BY <1>1 DEF Normal
  <2> HIDE DEF cs
  <2> QED BY <2>1, DefinitionFields DEF Definition
<1> HIDE DEF cs
<1>5. Normal(d) \in Definition
  BY <1>3, <1>4, DefinitionFields DEF Definition
<1> QED BY <1>3, <1>4, <1>5 DEF cs

\* A definition that validates is stored as one that does, and is normal.
LEMMA NormalStored ==
  ASSUME NEW d \in Definition, ValidateSpec(d)
  PROVE  Stored(Normal(d))
<1> DEFINE m == Normal(d)
           n == Len(d.conditions)
<1>1. /\ m \in Definition
      /\ m.url = d.url /\ m.match = d.match /\ m.message = d.message
      /\ Len(m.conditions) = n
      /\ m.conditions = [i \in 1..n |-> Normalized(d.conditions[i])]
  BY NormalShape
<1>2. n \in Nat /\ d.conditions \in [1..n -> Condition] /\ DOMAIN d.conditions = 1..n
  BY DefinitionFields
<1>3. \A i \in 1..n : validateCondition(m.conditions[i])
  <2> SUFFICES ASSUME NEW i \in 1..n PROVE validateCondition(m.conditions[i])
    OBVIOUS
  <2>1. validateCondition(d.conditions[i]) /\ d.conditions[i] \in Condition
    BY <1>2 DEF ValidateSpec
  <2> QED BY <1>1, <2>1, NormalizedCondition
<1>4. ValidateSpec(m)
  BY <1>1, <1>2, <1>3 DEF ValidateSpec
<1>5. Normal(m) = m
  <2>1. /\ Normal(m) \in Definition
        /\ Normal(m).url = m.url /\ Normal(m).match = m.match /\ Normal(m).message = m.message
        /\ Normal(m).conditions = [i \in 1..n |-> Normalized(m.conditions[i])]
    BY <1>1, NormalShape
  <2>2. \A i \in 1..n : Normalized(m.conditions[i]) = m.conditions[i]
    BY <1>1, <1>2, NormalizedCondition
  <2>3. Normal(m).conditions = m.conditions
    BY <1>1, <2>1, <2>2
  <2> HIDE DEF m
  <2> QED BY <1>1, <2>1, <2>3, DefinitionFields
<1> QED BY <1>1, <1>4, <1>5 DEF Stored

\* Each condition of what is stored is one that was let in, as it was normalised.
LEMMA StoredConditions ==
  ASSUME NEW d, Stored(d)
  PROVE  /\ Len(d.conditions) \in Nat \ {0}
         /\ DOMAIN d.conditions = 1..Len(d.conditions)
         /\ \A i \in 1..Len(d.conditions) :
              /\ d.conditions[i] \in Condition
              /\ d.conditions[i].selector \in Selectors
              /\ d.conditions[i].extract # "attribute" => d.conditions[i].attribute = Blank
<1> DEFINE n == Len(d.conditions)
<1>1. /\ d \in Definition /\ n \in Nat /\ d.conditions \in [1..n -> Condition]
      /\ DOMAIN d.conditions = 1..n
  BY DefinitionFields DEF Stored
<1>2. n # 0
  BY DEF Stored, ValidateSpec
<1>3. ASSUME NEW i \in 1..n
      PROVE  /\ d.conditions[i] \in Condition
             /\ d.conditions[i].selector \in Selectors
             /\ d.conditions[i].extract # "attribute" => d.conditions[i].attribute = Blank
  <2> DEFINE c == d.conditions[i]
  <2>1. c \in Condition /\ validateCondition(c)
    BY <1>1 DEF Stored, ValidateSpec
  <2>2. c.selector \in Selectors
    BY <2>1 DEF Condition, validateCondition
  <2>3. c = Normalized(c)
    <3>1. d.conditions = [k \in 1..n |-> Normalized(d.conditions[k])]
      BY <1>1, NormalShape DEF Stored
    <3> HIDE DEF n
    <3> QED BY <3>1
  <2>4. c.extract # "attribute" => Normalized(c).attribute = Blank
    BY <2>1 DEF Normalized, Condition
  <2> HIDE DEF c
  <2>5. c.extract # "attribute" => c.attribute = Blank
    BY <2>3, <2>4
  <2> QED BY <2>1, <2>2, <2>5 DEF c
<1> QED BY <1>1, <1>2, <1>3

\* A client's spec that validates is stored as a definition.
LEMMA SpecStored ==
  ASSUME NEW wire \in Wires, ValidateSpec(Decode(wire))
  PROVE  Stored(Normal(Decode(wire)))
BY DecodedTyped, NormalStored

-------------------------------------------------------------------------------
(* What is extracted and judged *)

Value == [type : {"none", "bool", "number", "string"},
          text : Text \cup Numerals \cup {"true", "false"}]
Places == (Selectors \cup {Blank}) \X Text \X Text
Check == [key : Places, value : Value, met : BOOLEAN]
Run == [spec : Definition, test : BOOLEAN, waited : BOOLEAN, checks : Seq(Check),
        judged : BOOLEAN, met : BOOLEAN]
Read == [key : Places, value : Value,
         reads : [selector : Selectors, extract : Text, attribute : Text]]
Result == [url : Urls, flat : FlatResults \cup {Null}, checks : Seq(Read)]

\* An extraction that yields something yields a value, and never the one for none.
LEMMA Extracted ==
  ASSUME NEW element \in Elements \cup {Absent}, NEW c \in Condition,
         extractValue(element, c) # Null
  PROVE  extractValue(element, c) \in Value \ {None}
<1> DEFINE v == extractValue(element, c)
<1>1. CASE c.extract = "exists"
  <2>1. v = [type |-> "bool", text |-> IF element # Absent THEN "true" ELSE "false"]
    BY <1>1 DEF extractValue, Bool
  <2> QED BY <2>1 DEF Value, None
<1>2. CASE c.extract = "count"
  <2>1. v = [type |-> "number", text |-> IF element = Absent THEN "0" ELSE "1"]
    BY <1>2 DEF extractValue
  <2> QED BY <2>1 DEF Value, None, Numerals
<1>3. CASE c.extract \notin {"exists", "count"}
  <2>1. CASE element # Absent /\ c.extract = "attribute"
    <3>1. v = [type |-> "string", text |-> element.title]
      BY <2>1 DEF extractValue
    <3> QED BY <2>1, <3>1 DEF Value, None
  <2>2. CASE element # Absent /\ c.extract = "text"
    <3>1. v = [type |-> "string", text |-> element.text]
      BY <2>2 DEF extractValue
    <3> QED BY <2>2, <3>1 DEF Value, None
  <2>3. CASE ~(element # Absent /\ c.extract \in {"attribute", "text"})
    <3>1. /\ v = [type |-> "number", text |-> ParseNumber(element.text)]
          /\ ParseNumber(element.text) \in Numerals
      BY <1>3, <2>3 DEF extractValue
    <3> QED BY <3>1 DEF Value, None
  <2> QED BY <2>1, <2>2, <2>3
<1> QED BY <1>1, <1>2, <1>3

\* An extraction depends on what the condition reads and on nothing else it says.
LEMMA ExtractionReads ==
  ASSUME NEW element, NEW c, NEW d, c.extract = d.extract
  PROVE  extractValue(element, c) = extractValue(element, d)
BY DEF extractValue

\* The test of a condition has a truth value.
LEMMA EvaluateBoolean ==
  ASSUME NEW c, NEW value, NEW previous
  PROVE  EvaluateCondition(c, value, previous) \in BOOLEAN
<1>1. CASE c.operator = "is_true"
  BY <1>1 DEF EvaluateCondition
<1>2. CASE c.operator = "is_false"
  BY <1>2 DEF EvaluateCondition
<1>3. CASE c.operator = "changed"
  BY <1>3 DEF EvaluateCondition
<1>4. CASE c.operator = "eq"
  BY <1>4 DEF EvaluateCondition
<1>5. CASE c.operator = "neq"
  BY <1>5 DEF EvaluateCondition
<1>6. CASE c.operator \in {"contains", "not_contains"}
  BY <1>6 DEF EvaluateCondition, Substring
<1>7. CASE c.operator \notin {"is_true", "is_false", "changed", "eq", "neq", "contains",
                             "not_contains"}
  BY <1>7 DEF EvaluateCondition, Ordered
<1> QED BY <1>1, <1>2, <1>3, <1>4, <1>5, <1>6, <1>7

\* `changed` compares the value with the one of the last successful run.
LEMMA ChangedMet ==
  ASSUME NEW c, NEW value, NEW previous, c.operator = "changed"
  PROVE  EvaluateCondition(c, value, previous) <=> previous # None /\ previous # value
BY DEF EvaluateCondition

\* The key of a stored condition is the key of what it reads, and tells what that is.
LEMMA KeyOfReads ==
  ASSUME NEW c \in Condition, c.selector \in Selectors,
         c.extract # "attribute" => c.attribute = Blank
  PROVE  /\ Key(c) \in Places
         /\ Key(c) = Key(Reads(c))
         /\ Reads(c) \in [selector : Selectors, extract : Text, attribute : Text]
         /\ Reads(c).selector = c.selector /\ Reads(c).extract = c.extract
         /\ \A r \in [selector : Selectors, extract : Text, attribute : Text] :
              Key(r) = Key(c) <=> r = Reads(c)
<1>1. Reads(c) = [selector |-> c.selector, extract |-> c.extract, attribute |-> c.attribute]
  BY DEF Reads
<1>2. c.extract \in Text /\ c.attribute \in Text
  BY DEF Condition
<1> QED BY <1>1, <1>2 DEF Key, Places

-------------------------------------------------------------------------------
(* The invariant *)

\* The run under way is of a stored definition and has extracted a prefix of it.
RunTyped ==
  run # Null =>
    /\ run \in Run
    /\ Stored(run.spec)
    /\ Len(run.checks) <= Len(run.spec.conditions)
    /\ run.judged => Len(run.checks) = Len(run.spec.conditions)
    /\ \A i \in 1..Len(run.checks) : run.checks[i].key = Key(run.spec.conditions[i])

Typed ==
  /\ page \in [Urls -> [Selectors -> Elements \cup {Absent}]]
  /\ Stored(spec)
  /\ RunTyped
  /\ last # Null => last \in Result
  /\ sinceLast \subseteq Urls \X Selectors
  /\ sinceStart \subseteq sinceLast

\* A value a run extracted is the page's still, unless its element changed since.
RunFresh ==
  run # Null =>
    \A i \in 1..Len(run.checks) :
      /\ run.checks[i].value # None
      /\ LET c == run.spec.conditions[i]
         IN ~run.test /\ <<run.spec.url, c.selector>> \notin sinceStart =>
              run.checks[i].value = extractValue(page[run.spec.url][c.selector], c)

\* So is a value of the last successful run, whose row knows each by what it reads. What
\* an earlier version left behind is of no known time.
LastFresh ==
  last # Null =>
    /\ last.flat # Null => last.checks = <<>> /\ sinceLast = Urls \X Selectors
    /\ \A j \in 1..Len(last.checks) :
         LET c == last.checks[j]
         IN /\ c.key = Key(c.reads) /\ c.value # None
            /\ <<last.url, c.reads.selector>> \notin sinceLast =>
                 c.value = extractValue(page[last.url][c.reads.selector], c.reads)

Inv == Typed /\ RunFresh /\ LastFresh /\ ChangeIsExact

-------------------------------------------------------------------------------
(* Types *)

\* A list of checks: its places and what is in them.
LEMMA RunShape ==
  ASSUME run # Null, RunTyped
  PROVE  /\ run \in Run /\ Stored(run.spec)
         /\ run.checks \in Seq(Check) /\ Len(run.checks) \in Nat
         /\ DOMAIN run.checks = 1..Len(run.checks)
         /\ \A i \in 1..Len(run.checks) : run.checks[i] \in Check
         /\ Len(run.checks) <= Len(run.spec.conditions)
<1>1. run \in Run /\ Stored(run.spec) /\ Len(run.checks) <= Len(run.spec.conditions)
  BY DEF RunTyped
<1>2. run.checks \in Seq(Check)
  BY <1>1 DEF Run
<1> QED BY <1>1, <1>2, LenProperties, ElementOfSeq

\* A run that starts is typed.
LEMMA ExecuteTyped ==
  ASSUME NEW definition, Stored(definition), NEW test \in BOOLEAN, Execute(definition, test)
  PROVE  RunTyped'
<1> DEFINE r == [spec |-> definition, test |-> test, waited |-> FALSE, checks |-> <<>>,
                 judged |-> FALSE, met |-> FALSE]
<1>1. run' = r
  BY DEF Execute
<1>2. <<>> \in Seq(Check) /\ Len(<<>>) = 0
  BY EmptySeq
<1>3. r \in Run
  BY <1>2 DEF Run, Stored
<1>4. Len(definition.conditions) \in Nat \ {0}
  BY StoredConditions
<1> QED BY <1>1, <1>2, <1>3, <1>4 DEF RunTyped

\* What an extraction does to the run.
LEMMA ExtractStep ==
  ASSUME Typed, Extract
  PROVE  /\ run # Null
         /\ run' \in Run
         /\ run'.spec = run.spec /\ run'.test = run.test /\ ~run'.judged
         /\ Len(run'.checks) = Len(run.checks) + 1
         /\ Len(run'.checks) <= Len(run.spec.conditions)
         /\ \A i \in 1..Len(run.checks) : run'.checks[i] = run.checks[i]
         /\ LET i == Len(run.checks) + 1
                c == run.spec.conditions[i]
                element == page[run.spec.url][c.selector]
            IN /\ run'.checks[i].key = Key(c)
               /\ run'.checks[i].value = extractValue(element, c)
               /\ run'.checks[i].value # None
<1> DEFINE n == Len(run.checks)
           c == run.spec.conditions[n + 1]
           value == extractValue(page[run.spec.url][c.selector], c)
           check == [key |-> Key(c), value |-> value, met |-> FALSE]
<1>1. /\ run # Null /\ run \in Run /\ Stored(run.spec) /\ run.checks \in Seq(Check) /\ n \in Nat
      /\ \A i \in 1..n : run.checks[i] \in Check
  BY RunShape DEF Extract, Extracting, Typed
<1>2. n < Len(run.spec.conditions) /\ value # Null
      /\ run' = [run EXCEPT !.waited = FALSE, !.checks = Append(run.checks, check)]
  BY DEF Extract, Extracting, Current
<1>3. ~run.judged /\ n + 1 \in 1..Len(run.spec.conditions)
  <2>1. n < Len(run.spec.conditions) /\ Len(run.spec.conditions) \in Nat
    BY <1>1, <1>2, StoredConditions
  <2>2. run.judged => n = Len(run.spec.conditions)
    BY <1>1 DEF Typed, RunTyped
  <2> QED BY <1>1, <2>1, <2>2
<1>4. /\ c \in Condition /\ c.selector \in Selectors
      /\ c.extract # "attribute" => c.attribute = Blank
  <2> HIDE DEF n
  <2> QED BY <1>1, <1>3, StoredConditions
<1>5. page[run.spec.url][c.selector] \in Elements \cup {Absent}
  BY <1>1, <1>4 DEF Typed, Stored, ValidateSpec
<1>6. value \in Value \ {None} /\ Key(c) \in Places
  BY <1>2, <1>4, <1>5, Extracted, KeyOfReads
<1> HIDE DEF c, value
<1>7. check \in Check
  BY <1>6 DEF Check
<1> HIDE DEF n
<1>8. /\ Append(run.checks, check) \in Seq(Check)
      /\ Len(Append(run.checks, check)) = n + 1
      /\ \A i \in 1..n : Append(run.checks, check)[i] = run.checks[i]
      /\ Append(run.checks, check)[n + 1] = check
  <2> HIDE DEF check
  <2> QED BY <1>1, <1>7, Appended DEF n
<1> DEFINE cs == Append(run.checks, check)
<1> HIDE DEF cs
<1>9. /\ run' \in Run /\ run'.spec = run.spec /\ run'.test = run.test
      /\ run'.judged = run.judged /\ run'.checks = cs
  <2>1. cs \in Seq(Check) /\ run' = [run EXCEPT !.waited = FALSE, !.checks = cs]
    BY <1>2, <1>8 DEF cs
  <2> QED BY <1>1, <2>1 DEF Run
<1>10. check.key = Key(c) /\ check.value = value
  OBVIOUS
<1> HIDE DEF check
<1>11. Len(cs) = n + 1 /\ (\A i \in 1..n : cs[i] = run.checks[i]) /\ cs[n + 1] = check
  BY <1>8 DEF cs
<1>12. /\ cs[n + 1].key = Key(c) /\ cs[n + 1].value = value /\ value # None
       /\ n + 1 <= Len(run.spec.conditions)
  <2>1. Len(run.spec.conditions) \in Nat
    BY <1>1, StoredConditions
  <2> QED BY <1>1, <1>2, <1>6, <1>10, <1>11, <2>1
<1> QED BY <1>1, <1>3, <1>9, <1>11, <1>12 DEF n, c, value

\* What a judgement does to the run: each check is told whether it is met.
LEMMA JudgeStep ==
  ASSUME Typed, EvaluateConditions
  PROVE  /\ run # Null
         /\ run' \in Run
         /\ run'.spec = run.spec /\ run'.test = run.test /\ run'.judged
         /\ Len(run'.checks) = Len(run.checks)
         /\ Len(run.checks) = Len(run.spec.conditions)
         /\ \A i \in 1..Len(run.checks) :
              /\ run'.checks[i].key = run.checks[i].key
              /\ run'.checks[i].value = run.checks[i].value
              /\ run'.checks[i].met = Met(i)
<1> DEFINE n == Len(run.checks)
<1>1. /\ run # Null /\ run \in Run /\ Stored(run.spec) /\ run.checks \in Seq(Check) /\ n \in Nat
      /\ DOMAIN run.checks = 1..n
      /\ \A i \in 1..n : run.checks[i] \in Check
  BY RunShape DEF EvaluateConditions, Typed
<1>2. run' = [run EXCEPT !.judged = TRUE, !.checks = Judged, !.met = Outcome]
  BY DEF EvaluateConditions
<1>3. \A i \in 1..n : Met(i) \in BOOLEAN
  BY EvaluateBoolean DEF Met
<1>4. /\ Judged \in [1..n -> Check]
      /\ \A i \in 1..n : /\ Judged[i].key = run.checks[i].key
                         /\ Judged[i].value = run.checks[i].value
                         /\ Judged[i].met = Met(i)
  <2>1. Judged = [i \in 1..n |-> [run.checks[i] EXCEPT !.met = Met(i)]]
    BY <1>1 DEF Judged
  <2>2. ASSUME NEW c \in Check, NEW b \in BOOLEAN
        PROVE  /\ [c EXCEPT !.met = b] \in Check
               /\ [c EXCEPT !.met = b].key = c.key /\ [c EXCEPT !.met = b].value = c.value
               /\ [c EXCEPT !.met = b].met = b
    BY <2>2 DEF Check
  <2> DEFINE told(i) == [run.checks[i] EXCEPT !.met = Met(i)]
  <2>3. \A i \in 1..n : /\ told(i) \in Check /\ told(i).key = run.checks[i].key
                        /\ told(i).value = run.checks[i].value /\ told(i).met = Met(i)
    BY <1>1, <1>3, <2>2
  <2>4. Judged = [i \in 1..n |-> told(i)]
    BY <2>1
  <2> HIDE DEF n, told
  <2> QED BY <2>3, <2>4
<1>5. Judged \in Seq(Check) /\ Len(Judged) = n
  <2>1. Judged \in Seq(Check)
    BY <1>1, <1>4, SeqDef
  <2> QED BY <1>1, <1>4, <2>1, LenProperties
<1>6. Outcome \in BOOLEAN
  BY DEF Outcome
<1>7. run' \in Run /\ run'.spec = run.spec /\ run'.test = run.test /\ run'.judged
      /\ run'.checks = Judged
  <2> DEFINE cs == Judged
             out == Outcome
  <2>1. cs \in Seq(Check) /\ out \in BOOLEAN
        /\ run' = [run EXCEPT !.judged = TRUE, !.checks = cs, !.met = out]
    BY <1>2, <1>5, <1>6
  <2> HIDE DEF cs, out
  <2>2. run' \in Run /\ run'.spec = run.spec /\ run'.test = run.test /\ run'.judged
        /\ run'.checks = cs
    BY <1>1, <2>1 DEF Run
  <2> QED BY <2>2 DEF cs
<1> QED BY <1>1, <1>4, <1>5, <1>7 DEF EvaluateConditions

\* What a row carries of a judged run.
LEMMA RecordStep ==
  ASSUME Typed, Record
  PROVE  /\ run # Null /\ ~run.test
         /\ last' \in Result
         /\ last'.url = run.spec.url /\ last'.flat = Null
         /\ Len(last'.checks) = Len(run.checks)
         /\ \A i \in 1..Len(run.checks) :
              /\ last'.checks[i].key = run.checks[i].key
              /\ last'.checks[i].value = run.checks[i].value
              /\ last'.checks[i].reads = Reads(run.spec.conditions[i])
<1> DEFINE n == Len(run.checks)
           cs == [i \in 1..n |-> [key |-> run.checks[i].key, value |-> run.checks[i].value,
                                  reads |-> Reads(run.spec.conditions[i])]]
<1>1. /\ run # Null /\ run \in Run /\ Stored(run.spec) /\ run.checks \in Seq(Check) /\ n \in Nat
      /\ DOMAIN run.checks = 1..n
      /\ \A i \in 1..n : run.checks[i] \in Check
  BY RunShape DEF Record, Typed
<1>2. n = Len(run.spec.conditions)
  BY <1>1 DEF Record, Typed, RunTyped
<1>3. last' = [url |-> run.spec.url, flat |-> Null, checks |-> cs]
  BY <1>1 DEF Record
<1>4. cs \in [1..n -> Read]
  <2> SUFFICES ASSUME NEW i \in 1..n PROVE cs[i] \in Read
    OBVIOUS
  <2>1. Reads(run.spec.conditions[i])
          \in [selector : Selectors, extract : Text, attribute : Text]
    BY <1>1, <1>2, StoredConditions, KeyOfReads
  <2>2. run.checks[i].key \in Places /\ run.checks[i].value \in Value
    BY <1>1 DEF Check
  <2> QED BY <2>1, <2>2 DEF Read
<1>5. /\ DOMAIN cs = 1..n
      /\ \A i \in 1..n : /\ cs[i].key = run.checks[i].key
                         /\ cs[i].value = run.checks[i].value
                         /\ cs[i].reads = Reads(run.spec.conditions[i])
  OBVIOUS
<1> HIDE DEF cs, n
<1>6. cs \in Seq(Read) /\ Len(cs) = n
  <2>1. cs \in Seq(Read)
    BY <1>1, <1>4, SeqDef
  <2> QED BY <1>1, <1>5, <2>1, LenProperties DEF n
<1>7. run.spec.url \in Urls
  BY <1>1 DEF Stored, ValidateSpec
<1>8. last' \in Result
  BY <1>3, <1>6, <1>7 DEF Result
<1>9. ~run.test
  BY DEF Record
<1> QED BY <1>1, <1>3, <1>5, <1>6, <1>8, <1>9 DEF n

LEMMA InitTyped == Init => Typed
<1> SUFFICES ASSUME Init PROVE Typed
  OBVIOUS
<1>1. Stored(spec)
  <2>1. PICK wire \in Wires : ValidateSpec(Decode(wire)) /\ spec = Normal(Decode(wire))
    BY DEF Init, Specs
  <2> QED BY <2>1, SpecStored
<1>2. last # Null => last \in Result
  <2> SUFFICES ASSUME last # Null PROVE last \in Result
    OBVIOUS
  <2>1. last \in [url : {spec.url}, flat : FlatResults, checks : {<<>>}]
    BY DEF Init
  <2>2. spec.url \in Urls /\ <<>> \in Seq(Read)
    BY <1>1, EmptySeq DEF Stored, ValidateSpec
  <2> QED BY <2>1, <2>2 DEF Result
<1> QED BY <1>1, <1>2 DEF Init, Typed, RunTyped

\* A page that changes stays a page, and only the one element of it changes.
LEMMA PageStep ==
  ASSUME page \in [Urls -> [Selectors -> Elements \cup {Absent}]], PageChanges
  PROVE  /\ page' \in [Urls -> [Selectors -> Elements \cup {Absent}]]
         /\ UNCHANGED <<spec, last, run>>
         /\ \E url \in Urls, selector \in Selectors :
              /\ sinceLast' = sinceLast \cup {<<url, selector>>}
              /\ sinceStart' = sinceStart \cup {<<url, selector>>}
              /\ \A u \in Urls, s \in Selectors :
                   <<u, s>> # <<url, selector>> => page'[u][s] = page[u][s]
<1>1. PICK url \in Urls, selector \in Selectors :
        /\ \E element \in (Elements \cup {Absent}) \ {page[url][selector]} :
             page' = [page EXCEPT ![url][selector] = element]
        /\ sinceLast' = sinceLast \cup {<<url, selector>>}
        /\ sinceStart' = sinceStart \cup {<<url, selector>>}
  BY DEF PageChanges
<1>2. PICK element \in Elements \cup {Absent} :
        page' = [page EXCEPT ![url][selector] = element]
  BY <1>1
<1>3. page' \in [Urls -> [Selectors -> Elements \cup {Absent}]]
  BY <1>2
<1>4. \A u \in Urls, s \in Selectors :
        <<u, s>> # <<url, selector>> => page'[u][s] = page[u][s]
  BY <1>2
<1> QED BY <1>1, <1>3, <1>4 DEF PageChanges

LEMMA TypedStep == Typed /\ [Next]_vars => Typed'
<1> SUFFICES ASSUME Typed, [Next]_vars PROVE Typed'
  OBVIOUS
<1> USE DEF Typed
<1>1. CASE Execute(spec, FALSE)
  <2>1. RunTyped'
    BY <1>1, ExecuteTyped
  <2> QED BY <1>1, <2>1 DEF Execute
<1>2. CASE TestDraft
  <2>1. PICK wire \in Wires : ValidateSpec(Decode(wire)) /\ Execute(Normal(Decode(wire)), TRUE)
    BY <1>2 DEF TestDraft
  <2>2. RunTyped'
    BY <2>1, SpecStored, ExecuteTyped
  <2> QED BY <2>1, <2>2 DEF Execute
<1>3. CASE Wait
  <2>1. /\ run \in Run /\ run' = [run EXCEPT !.waited = TRUE]
        /\ UNCHANGED <<page, spec, last, sinceLast, sinceStart>>
    BY <1>3 DEF Wait, Extracting, RunTyped
  <2>2. /\ run' \in Run /\ run'.spec = run.spec /\ run'.checks = run.checks
        /\ run'.judged = run.judged
    BY <2>1 DEF Run
  <2>3. RunTyped'
    BY <1>3, <2>2 DEF RunTyped, Wait, Extracting
  <2> QED BY <2>1, <2>3
<1>4. CASE Extract
  <2>1. Len(run.checks) \in Nat
    BY <1>4, RunShape DEF Extract, Extracting
  <2>2. \A i \in 1..Len(run.checks) : run.checks[i].key = Key(run.spec.conditions[i])
    BY <1>4 DEF RunTyped, Extract, Extracting
  <2>3. Stored(run.spec)
    BY <1>4 DEF RunTyped, Extract, Extracting
  <2>4. \A i \in 1..Len(run'.checks) : run'.checks[i].key = Key(run'.spec.conditions[i])
    <3> SUFFICES ASSUME NEW i \in 1..Len(run'.checks)
                 PROVE  run'.checks[i].key = Key(run'.spec.conditions[i])
      OBVIOUS
    <3>1. i \in 1..Len(run.checks) \/ i = Len(run.checks) + 1
      BY <1>4, <2>1, ExtractStep
    <3> QED BY <1>4, <2>2, <3>1, ExtractStep
  <2>5. RunTyped'
    BY <1>4, <2>3, <2>4, ExtractStep DEF RunTyped
  <2> QED BY <1>4, <2>5 DEF Extract
<1>5. CASE EvaluateConditions
  <2>1. Len(run.checks) \in Nat
    BY <1>5, RunShape DEF EvaluateConditions
  <2>2. RunTyped'
    BY <1>5, <2>1, JudgeStep DEF RunTyped
  <2> QED BY <1>5, <2>2 DEF EvaluateConditions
<1>6. CASE Record
  <2>1. last' \in Result
    BY <1>6, RecordStep
  <2>2. RunTyped'
    BY <1>6 DEF Record, RunTyped
  <2> QED BY <1>6, <2>1, <2>2 DEF Record
<1>7. CASE Fail
  BY <1>7 DEF Fail, RunTyped
<1>8. CASE Save
  <2>1. PICK wire \in Wires : ValidateSpec(Decode(wire)) /\ spec' = Normal(Decode(wire))
    BY <1>8 DEF Save
  <2>2. Stored(spec)'
    BY <2>1, SpecStored DEF Stored
  <2> QED BY <1>8, <2>2 DEF Save, RunTyped
<1>9. CASE PageChanges
  BY <1>9, PageStep DEF RunTyped
<1>10. CASE UNCHANGED vars
  BY <1>10 DEF vars, RunTyped
<1> QED BY <1>1, <1>2, <1>3, <1>4, <1>5, <1>6, <1>7, <1>8, <1>9, <1>10 DEF Next

LEMMA TypedImplies == Typed => TypeOK /\ MessageRenders
<1> SUFFICES ASSUME Typed PROVE TypeOK /\ MessageRenders
  OBVIOUS
<1>1. TypeOK
  BY RunShape DEF Typed, RunTyped, TypeOK, Stored
<1>2. MessageRenders
  <2> SUFFICES ASSUME run # Null, run.judged, NEW p \in run.spec.message PROVE p \in Replaced
    BY DEF MessageRenders
  <2>1. /\ Stored(run.spec) /\ DOMAIN run.checks = 1..Len(run.checks)
        /\ Len(run.checks) = Len(run.spec.conditions)
    BY RunShape DEF Typed, RunTyped
  <2>2. p \in Placeholder
    BY <2>1, DefinitionFields DEF Stored
  <2>3. p = [name |-> p.name, index |-> p.index] /\ p.index \in Nat
    BY <2>2 DEF Placeholder
  <2>4. validateMessage(run.spec.message, Len(run.checks))
    BY <2>1 DEF Stored, ValidateSpec
  <2>5. CASE p.index > 0 /\ p.name \in {"value", "raw"}
    <3>1. p.index \in DOMAIN run.checks
      BY <2>1, <2>3, <2>4, <2>5, StoredConditions DEF validateMessage
    <3> QED BY <2>3, <2>5, <3>1 DEF Replaced
  <2>6. CASE ~(p.index > 0 /\ p.name \in {"value", "raw"})
    <3>1. p.index = 0 /\ p.name \in MessagePlaceholders
      BY <2>4, <2>6 DEF validateMessage
    <3> QED BY <2>3, <3>1 DEF Replaced
  <2> QED BY <2>5, <2>6
<1> QED BY <1>1, <1>2

LEMMA AlwaysTyped == Spec => []Typed
BY InitTyped, TypedStep, PTL DEF Spec

\* What is stored is always a valid, normal definition, and a run extracts a prefix of
\* its own, in order, whatever is sent, edited or changed meanwhile.
THEOREM ConditionsTypeCorrect == Spec => []TypeOK
BY AlwaysTyped, TypedImplies, PTL

\* When a run is judged there is a value for every placeholder its message was let in
\* with: an index counts the conditions of the definition the run carries, and not those
\* of one that was saved over it.
THEOREM MessageAlwaysRenders == Spec => []MessageRenders
BY AlwaysTyped, TypedImplies, PTL

-------------------------------------------------------------------------------
(* What is known of the values *)

LEMMA InitFresh == Init => RunFresh /\ LastFresh
<1> SUFFICES ASSUME Init, last # Null PROVE LastFresh
  BY DEF Init, RunFresh, LastFresh
<1>1. last.checks = <<>> /\ sinceLast = Urls \X Selectors
  BY DEF Init
<1>2. Len(last.checks) = 0
  BY <1>1, EmptySeq
<1> QED BY <1>1, <1>2 DEF LastFresh

\* The row of the last successful run.
LEMMA LastShape ==
  ASSUME last # Null, last \in Result
  PROVE  /\ last.url \in Urls /\ Len(last.checks) \in Nat
         /\ DOMAIN last.checks = 1..Len(last.checks)
         /\ \A j \in 1..Len(last.checks) :
              /\ last.checks[j].reads
                   \in [selector : Selectors, extract : Text, attribute : Text]
              /\ last.checks[j].reads.selector \in Selectors
<1>1. last.url \in Urls /\ last.checks \in Seq(Read)
  BY DEF Result
<1>2. /\ Len(last.checks) \in Nat /\ DOMAIN last.checks = 1..Len(last.checks)
      /\ \A j \in 1..Len(last.checks) : last.checks[j] \in Read
  BY <1>1, LenProperties, ElementOfSeq
<1>3. \A r \in Read : /\ r.reads \in [selector : Selectors, extract : Text, attribute : Text]
                     /\ r.reads.selector \in Selectors
  BY DEF Read
<1> QED BY <1>1, <1>2, <1>3

LEMMA RunFreshStep == Typed /\ RunFresh /\ [Next]_vars => RunFresh'
<1> SUFFICES ASSUME Typed, RunFresh, [Next]_vars PROVE RunFresh'
  OBVIOUS
<1>1. ASSUME NEW definition, NEW test, Execute(definition, test) PROVE RunFresh'
  <2>1. run'.checks = <<>> /\ Len(<<>>) = 0
    BY <1>1, EmptySeq DEF Execute
  <2> QED BY <2>1 DEF RunFresh
<1>2. CASE Wait
  <2>1. run \in Run /\ run' = [run EXCEPT !.waited = TRUE]
        /\ UNCHANGED <<page, sinceStart>>
    BY <1>2 DEF Wait, Extracting, Typed, RunTyped
  <2>2. run'.spec = run.spec /\ run'.checks = run.checks /\ run'.test = run.test
    BY <2>1 DEF Run
  <2> QED BY <1>2, <2>1, <2>2 DEF RunFresh, Wait, Extracting
<1>3. CASE Extract
  <2>1. Len(run.checks) \in Nat
    BY <1>3, RunShape DEF Extract, Extracting, Typed
  <2>2. UNCHANGED <<page, sinceStart>>
    BY <1>3 DEF Extract
  <2> SUFFICES ASSUME NEW i \in 1..Len(run'.checks)
               PROVE  /\ run'.checks[i].value # None
                      /\ LET c == run.spec.conditions[i]
                         IN ~run.test /\ <<run.spec.url, c.selector>> \notin sinceStart =>
                              run'.checks[i].value =
                                extractValue(page[run.spec.url][c.selector], c)
    BY <1>3, <2>2, ExtractStep DEF RunFresh
  <2>3. CASE i \in 1..Len(run.checks)
    BY <1>3, <2>3, ExtractStep DEF RunFresh
  <2>4. CASE i = Len(run.checks) + 1
    BY <1>3, <2>4, ExtractStep
  <2>5. i \in 1..Len(run.checks) \/ i = Len(run.checks) + 1
    <3>1. Len(run'.checks) = Len(run.checks) + 1
      BY <1>3, ExtractStep
    <3> QED BY <2>1, <3>1
  <2> QED BY <2>3, <2>4, <2>5
<1>4. CASE EvaluateConditions
  <2>1. UNCHANGED <<page, sinceStart>>
    BY <1>4 DEF EvaluateConditions
  <2> QED BY <1>4, <2>1, JudgeStep DEF RunFresh
<1>5. CASE Record \/ Fail
  BY <1>5 DEF Record, Fail, RunFresh
<1>6. CASE Save
  BY <1>6 DEF Save, RunFresh
<1>7. CASE PageChanges
  <2>1. page \in [Urls -> [Selectors -> Elements \cup {Absent}]]
    BY DEF Typed
  <2>2. PICK url \in Urls, selector \in Selectors :
          /\ sinceStart' = sinceStart \cup {<<url, selector>>}
          /\ \A u \in Urls, s \in Selectors :
               <<u, s>> # <<url, selector>> => page'[u][s] = page[u][s]
    BY <1>7, <2>1, PageStep
  <2>3. UNCHANGED run
    BY <1>7 DEF PageChanges
  <2> SUFFICES ASSUME run # Null, NEW i \in 1..Len(run.checks), ~run.test,
                      <<run.spec.url, run.spec.conditions[i].selector>> \notin sinceStart'
               PROVE  page'[run.spec.url][run.spec.conditions[i].selector] =
                        page[run.spec.url][run.spec.conditions[i].selector]
    BY <2>2, <2>3 DEF RunFresh
  <2>4. /\ Stored(run.spec) /\ Len(run.checks) \in Nat
        /\ Len(run.checks) <= Len(run.spec.conditions)
    BY RunShape DEF Typed
  <2>5. run.spec.url \in Urls /\ run.spec.conditions[i].selector \in Selectors
    BY <2>4, StoredConditions DEF Stored, ValidateSpec
  <2> QED BY <2>2, <2>5
<1>8. CASE UNCHANGED vars
  BY <1>8 DEF vars, RunFresh
<1> QED BY <1>1, <1>2, <1>3, <1>4, <1>5, <1>6, <1>7, <1>8 DEF Next, TestDraft

LEMMA LastFreshStep == Typed /\ RunFresh /\ LastFresh /\ [Next]_vars => LastFresh'
<1> SUFFICES ASSUME Typed, RunFresh, LastFresh, [Next]_vars PROVE LastFresh'
  OBVIOUS
<1>1. ASSUME UNCHANGED <<page, last, sinceLast>> PROVE LastFresh'
  BY <1>1 DEF LastFresh
<1>2. CASE Record
  <2>1. /\ Stored(run.spec) /\ Len(run.checks) \in Nat
        /\ Len(run.checks) <= Len(run.spec.conditions)
        /\ \A i \in 1..Len(run.checks) : run.checks[i].key = Key(run.spec.conditions[i])
    BY <1>2, RunShape DEF Typed, RunTyped, Record
  <2>2. sinceLast' = sinceStart /\ UNCHANGED page /\ run # Null
    BY <1>2 DEF Record
  <2> SUFFICES ASSUME NEW j \in 1..Len(run.checks)
               PROVE  LET c == last'.checks[j]
                      IN /\ c.key = Key(c.reads) /\ c.value # None
                         /\ <<last'.url, c.reads.selector>> \notin sinceStart =>
                              c.value = extractValue(page[last'.url][c.reads.selector], c.reads)
    BY <1>2, <2>2, RecordStep DEF LastFresh
  <2> DEFINE c == run.spec.conditions[j]
  <2>3. /\ last'.url = run.spec.url /\ last'.checks[j].key = Key(c)
        /\ last'.checks[j].value = run.checks[j].value /\ last'.checks[j].reads = Reads(c)
        /\ ~run.test
    BY <1>2, <2>1, RecordStep
  <2>4. /\ c \in Condition /\ c.selector \in Selectors
        /\ c.extract # "attribute" => c.attribute = Blank
    BY <2>1, StoredConditions
  <2>5. /\ run.checks[j].value # None
        /\ <<run.spec.url, c.selector>> \notin sinceStart =>
             run.checks[j].value = extractValue(page[run.spec.url][c.selector], c)
    BY <2>2, <2>3 DEF RunFresh
  <2> HIDE DEF c
  <2>6. /\ Key(c) = Key(Reads(c)) /\ Reads(c).selector = c.selector
        /\ Reads(c).extract = c.extract
    BY <2>4, KeyOfReads
  <2>7. \A e : extractValue(e, c) = extractValue(e, Reads(c))
    BY <2>6, ExtractionReads
  <2> QED BY <2>3, <2>5, <2>6, <2>7
<1>3. CASE PageChanges
  <2>1. page \in [Urls -> [Selectors -> Elements \cup {Absent}]]
        /\ sinceLast \subseteq Urls \X Selectors
    BY DEF Typed
  <2>2. PICK url \in Urls, selector \in Selectors :
          /\ sinceLast' = sinceLast \cup {<<url, selector>>}
          /\ \A u \in Urls, s \in Selectors :
               <<u, s>> # <<url, selector>> => page'[u][s] = page[u][s]
    BY <1>3, <2>1, PageStep
  <2>3. UNCHANGED last
    BY <1>3 DEF PageChanges
  <2>4. ASSUME last # Null, last.flat # Null
        PROVE  last.checks = <<>> /\ sinceLast' = Urls \X Selectors
    BY <2>2, <2>4 DEF LastFresh
  <2>5. ASSUME last # Null, NEW j \in 1..Len(last.checks),
               <<last.url, last.checks[j].reads.selector>> \notin sinceLast'
        PROVE  page'[last.url][last.checks[j].reads.selector] =
                 page[last.url][last.checks[j].reads.selector]
    <3>1. last.url \in Urls /\ last.checks[j].reads.selector \in Selectors
      BY <2>5, LastShape DEF Typed
    <3> QED BY <2>2, <2>5, <3>1
  <2>6. ASSUME last # Null, NEW j \in 1..Len(last.checks)
        PROVE  LET c == last.checks[j]
               IN /\ c.key = Key(c.reads) /\ c.value # None
                  /\ <<last.url, c.reads.selector>> \notin sinceLast' =>
                       c.value = extractValue(page'[last.url][c.reads.selector], c.reads)
    BY <2>2, <2>5, <2>6 DEF LastFresh
  <2> QED BY <2>3, <2>4, <2>6 DEF LastFresh
<1>4. CASE UNCHANGED vars
  BY <1>1, <1>4 DEF vars
<1> QED BY <1>1, <1>2, <1>3, <1>4
        DEF Next, TestDraft, Execute, Wait, Extract, EvaluateConditions, Fail, Save

-------------------------------------------------------------------------------
(* `changed` *)

\* What a judgement compares a value with, whatever the value is of.
LEMMA JudgedChange ==
  ASSUME Typed, RunFresh, LastFresh, EvaluateConditions,
         NEW i \in 1..Len(run.checks), run.spec.conditions[i].operator = "changed"
  PROVE  /\ Met(i) => /\ ~run.test
                      /\ last # Null
                      /\ last.url = run.spec.url =>
                           <<run.spec.url, run.spec.conditions[i].selector>> \in sinceLast
         /\ LET same == {j \in 1..Len(last.checks) :
                           last.checks[j].reads = Reads(run.spec.conditions[i])}
            IN /\ ~run.test /\ last # Null /\ same # {}
               /\ \A j \in same : last.checks[j].value # run.checks[i].value
               => Met(i)
<1> DEFINE c == run.spec.conditions[i]
           key == run.checks[i].key
           value == run.checks[i].value
           found == {j \in 1..Len(last.checks) : last.checks[j].key = key}
<1>1. /\ run # Null /\ Stored(run.spec) /\ Len(run.checks) \in Nat
      /\ Len(run.checks) <= Len(run.spec.conditions)
      /\ key = Key(c)
  BY RunShape DEF EvaluateConditions, Typed, RunTyped
<1>2. /\ c \in Condition /\ c.selector \in Selectors
      /\ c.extract # "attribute" => c.attribute = Blank
  BY <1>1, StoredConditions
<1>3. run.spec.url \in Urls
  BY <1>1 DEF Stored, ValidateSpec
<1>4. Met(i) <=> previousValue(key) # None /\ previousValue(key) # value
  BY ChangedMet DEF Met
<1>5. ASSUME last # Null
      PROVE  /\ last.url \in Urls /\ Len(last.checks) \in Nat
             /\ DOMAIN last.checks = 1..Len(last.checks)
             /\ \A j \in 1..Len(last.checks) :
                  /\ last.checks[j].reads
                       \in [selector : Selectors, extract : Text, attribute : Text]
                  /\ last.checks[j].reads.selector \in Selectors
  BY <1>5, LastShape DEF Typed
<1>6. ASSUME last # Null
      PROVE  found = {j \in 1..Len(last.checks) : last.checks[j].reads = Reads(c)}
  <2>1. \A j \in 1..Len(last.checks) : last.checks[j].key = Key(last.checks[j].reads)
    BY <1>6 DEF LastFresh
  <2> HIDE DEF c, key
  <2>2. \A j \in 1..Len(last.checks) :
          last.checks[j].key = key <=> last.checks[j].reads = Reads(c)
    BY <1>1, <1>2, <1>5, <1>6, <2>1, KeyOfReads
  <2> QED BY <2>2
<1>7. ASSUME last # Null, last.flat = Null, ~run.test, found # {}
      PROVE  Max(found) \in found /\ previousValue(key) = last.checks[Max(found)].value
  <2>1. Max(found) \in found
    BY <1>5, <1>7, Highest
  <2>2. found = {j \in DOMAIN last.checks : last.checks[j].key = key}
    BY <1>5, <1>7
  <2> HIDE DEF found, key
  <2> QED BY <1>7, <2>1, <2>2 DEF previousValue
<1>8. ASSUME Met(i), last.url = run.spec.url
      PROVE  <<run.spec.url, c.selector>> \in sinceLast
  <2>1. ~run.test /\ last # Null
    BY <1>4, <1>8 DEF previousValue
  <2>2. CASE last.flat # Null
    BY <1>2, <1>3, <2>1, <2>2 DEF LastFresh
  <2>3. CASE last.flat = Null
    <3>1. found # {}
      BY <1>4, <1>5, <1>8, <2>1, <2>3 DEF previousValue
    <3> DEFINE j == Max(found)
    <3>2. j \in 1..Len(last.checks) /\ last.checks[j].reads = Reads(c)
          /\ previousValue(key) = last.checks[j].value
      BY <1>6, <1>7, <2>1, <2>3, <3>1
    <3> HIDE DEF j, c, key, value
    <3>3. Reads(c).selector = c.selector /\ Reads(c).extract = c.extract
      BY <1>2, KeyOfReads
    <3>4. \A e : extractValue(e, c) = extractValue(e, Reads(c))
      BY <3>3, ExtractionReads
    <3>5. <<run.spec.url, c.selector>> \notin sinceLast =>
            last.checks[j].value = extractValue(page[run.spec.url][c.selector], c)
      BY <1>8, <2>1, <3>2, <3>3, <3>4 DEF LastFresh
    <3>6. <<run.spec.url, c.selector>> \notin sinceStart =>
            value = extractValue(page[run.spec.url][c.selector], c)
      BY <1>1, <2>1 DEF RunFresh, c, value
    <3>7. sinceStart \subseteq sinceLast
      BY DEF Typed
    <3> QED BY <1>4, <1>8, <3>2, <3>5, <3>6, <3>7
  <2> QED BY <2>2, <2>3
<1>9. Met(i) => ~run.test /\ last # Null
  BY <1>4 DEF previousValue
<1>10. ASSUME ~run.test, last # Null, found # {},
              \A j \in found : last.checks[j].value # value
       PROVE  Met(i)
  <2>1. last.flat = Null
    <3>1. Len(<<>>) = 0
      BY EmptySeq
    <3> QED BY <1>5, <1>10, <3>1 DEF LastFresh
  <2>2. Max(found) \in 1..Len(last.checks) /\ last.checks[Max(found)].value # value
        /\ previousValue(key) = last.checks[Max(found)].value
    BY <1>7, <1>10, <2>1
  <2>3. last.checks[Max(found)].value # None
    BY <1>10, <2>2 DEF LastFresh
  <2> QED BY <1>4, <2>2, <2>3
<1> QED BY <1>6, <1>8, <1>9, <1>10

\* A judgement stands until its run ends: nothing that is compared changes meanwhile.
LEMMA ExactStep == Inv /\ [Next]_vars => ChangeIsExact'
<1> SUFFICES ASSUME Inv, [Next]_vars PROVE ChangeIsExact'
  OBVIOUS
<1> USE DEF Inv
<1>1. ASSUME NEW definition, NEW test, Execute(definition, test) PROVE ChangeIsExact'
  <2>1. ~run'.judged
    BY <1>1 DEF Execute
  <2> QED BY <2>1 DEF ChangeIsExact, ChangeIsReal, ChangeIsSeen
<1>2. CASE Wait
  <2>1. ~run.judged /\ run \in Run /\ run' = [run EXCEPT !.waited = TRUE]
    BY <1>2, RunShape, StoredConditions DEF Wait, Extracting, Typed, RunTyped
  <2>2. ~run'.judged
    BY <2>1 DEF Run
  <2> QED BY <2>2 DEF ChangeIsExact, ChangeIsReal, ChangeIsSeen
<1>3. CASE Extract
  BY <1>3, ExtractStep DEF ChangeIsExact, ChangeIsReal, ChangeIsSeen
<1>4. CASE EvaluateConditions
  <2>1. /\ run # Null /\ Len(run.checks) \in Nat /\ UNCHANGED <<last, sinceLast>>
        /\ run'.spec = run.spec /\ run'.test = run.test
        /\ Len(run'.checks) = Len(run.checks)
        /\ \A i \in 1..Len(run.checks) :
             run'.checks[i].value = run.checks[i].value /\ run'.checks[i].met = Met(i)
    BY <1>4, JudgeStep, RunShape DEF EvaluateConditions, Typed
  <2>2. DOMAIN run'.checks = 1..Len(run.checks)
    <3>1. run'.checks \in Seq(Check)
      BY <1>4, JudgeStep DEF Run
    <3> QED BY <2>1, <3>1, LenProperties
  <2>3. ChangeIsReal'
    BY <1>4, <2>1, <2>2, JudgedChange DEF ChangeIsReal
  <2>4. ChangeIsSeen'
    <3> DEFINE same(i) == {j \in 1..Len(last.checks) :
                             last.checks[j].reads = Reads(run.spec.conditions[i])}
               seen(i) == /\ run.spec.conditions[i].operator = "changed"
                          /\ same(i) # {}
                          /\ \A j \in same(i) : last.checks[j].value # run.checks[i].value
    <3>1. ASSUME ~run.test, last # Null, NEW i \in 1..Len(run.checks), seen(i)
          PROVE  Met(i)
      BY <1>4, <3>1, JudgedChange
    <3>2. last # Null => DOMAIN last.checks = 1..Len(last.checks)
      BY LastShape DEF Typed
    <3>3. ASSUME ~run.test, last # Null, NEW i \in 1..Len(run.checks)
          PROVE  LET s == {j \in DOMAIN last.checks :
                             last.checks[j].reads = Reads(run'.spec.conditions[i])}
                 IN (/\ run'.spec.conditions[i].operator = "changed"
                     /\ s # {}
                     /\ \A j \in s : last.checks[j].value # run'.checks[i].value)
                    => seen(i)
      BY <2>1, <3>2, <3>3
    <3>4. \A i \in 1..Len(run.checks) : run'.checks[i].met = Met(i)
      BY <2>1
    <3>5. last' = last /\ run'.test = run.test
      BY <2>1
    <3> HIDE DEF seen, same
    <3> QED BY <2>2, <3>1, <3>3, <3>4, <3>5 DEF ChangeIsSeen
  <2> QED BY <2>3, <2>4 DEF ChangeIsExact
<1>5. CASE Record \/ Fail
  BY <1>5 DEF Record, Fail, ChangeIsExact, ChangeIsReal, ChangeIsSeen
<1>6. CASE Save
  BY <1>6 DEF Save, ChangeIsExact, ChangeIsReal, ChangeIsSeen
<1>7. CASE PageChanges
  <2>1. UNCHANGED <<last, run>> /\ sinceLast \subseteq sinceLast'
    BY <1>7 DEF PageChanges
  <2> QED BY <2>1 DEF ChangeIsExact, ChangeIsReal, ChangeIsSeen
<1>8. CASE UNCHANGED vars
  BY <1>8 DEF vars, ChangeIsExact, ChangeIsReal, ChangeIsSeen
<1> QED BY <1>1, <1>2, <1>3, <1>4, <1>5, <1>6, <1>7, <1>8 DEF Next, TestDraft

\* `changed` is met exactly for the changes there were: never for an element of this page
\* that is as it was when the last successful run started, and always when that run read
\* another value from the same place, wherever its definition had it.
THEOREM ChangeAlwaysExact == Spec => []ChangeIsExact
<1>1. Init => Inv
  BY InitTyped, InitFresh DEF Inv, Init, ChangeIsExact, ChangeIsReal, ChangeIsSeen
<1>2. Inv /\ [Next]_vars => Inv'
  BY TypedStep, RunFreshStep, LastFreshStep, ExactStep DEF Inv
<1>3. Inv => ChangeIsExact
  BY DEF Inv
<1> QED BY <1>1, <1>2, <1>3, PTL DEF Spec

-------------------------------------------------------------------------------
(* Conditions that can be met *)

\* The numeric threshold of a condition has a number on the side its operator asks for, or
\* is spelled as a number is printed. Any other test reaches what it asks for.
Reached(c) ==
  c.extract \in NumericKinds =>
    /\ c.operator = "lt" => ParseFloat(c.value) \in {1, 2}
    /\ c.operator = "gt" => ParseFloat(c.value) \in {0, 1}
    /\ c.operator \in {"lte", "gte"} => ParseFloat(c.value) # NaN
    /\ c.operator = "eq" => c.value \in Numerals

Alive(c) == \E value, previous \in Readings(c) : EvaluateCondition(c, value, previous)

\* The operators a kind may have.
LEMMA KindOperators ==
  ASSUME NEW c, validateCondition(c)
  PROVE  \/ c.extract = "exists" /\ c.operator \in {"is_true", "is_false", "changed"}
         \/ /\ c.extract \in NumericKinds
            /\ c.operator \in {"lt", "lte", "gt", "gte", "eq", "neq", "changed"}
            /\ c.operator # "changed" => ParseFloat(c.value) # NoNumber
         \/ /\ c.extract \in {"text", "attribute"}
            /\ c.operator \in {"eq", "neq", "contains", "not_contains", "changed"}
<1>1. c.extract \in ExtractKinds /\ c.operator \in OperatorsByKind[c.extract]
  BY DEF validateCondition, validateOperator
<1>2. CASE c.extract = "exists"
  BY <1>1, <1>2 DEF OperatorsByKind, NumericKinds
<1>3. CASE c.extract \in NumericKinds
  <2>1. c.operator \in {"lt", "lte", "gt", "gte", "eq", "neq", "changed"}
    BY <1>1, <1>3 DEF OperatorsByKind, NumericKinds
  <2>2. c.operator # "changed" => ParseFloat(c.value) # NoNumber
    BY <1>3, <2>1 DEF validateCondition, ValuelessOperators
  <2> QED BY <1>3, <2>1, <2>2
<1>4. CASE c.extract \in {"text", "attribute"}
  BY <1>1, <1>4 DEF OperatorsByKind, NumericKinds
<1> QED BY <1>1, <1>2, <1>3, <1>4 DEF ExtractKinds, NumericKinds

\* What a numeral is worth, and what any text may be.
LEMMA NumeralsParse ==
  /\ toNumber("0") = 0 /\ toNumber("1") = 1 /\ toNumber("2") = 2
  /\ \A text \in Numerals : toNumber(text) \in {0, 1, 2}
  /\ \A text : ParseFloat(text) \in {NoNumber, NaN, 0, 1, 2}
  /\ \A text : ParseFloat(text) # NoNumber => toNumber(text) = ParseFloat(text)
<1>1. \A text : ParseFloat(text) \in {NoNumber, NaN, 0, 1, 2}
  BY DEF ParseFloat
<1>2. ParseFloat("0") = 0 /\ ParseFloat("1") = 1 /\ ParseFloat("2") = 2
  BY DEF ParseFloat
<1> QED BY <1>1, <1>2 DEF toNumber, NoNumber, NaN, Numerals

\* How numbers are compared: a threshold that is none compares with nothing.
LEMMA NumbersCompare ==
  ASSUME NEW c, NEW value, NEW previous, value.text \in Numerals,
         c.operator \in {"lt", "lte", "gt", "gte"}, ParseFloat(c.value) # NoNumber
  PROVE  EvaluateCondition(c, value, previous) <=>
           LET a == toNumber(value.text)
               b == ParseFloat(c.value)
           IN /\ b # NaN
              /\ c.operator = "lt" => a < b
              /\ c.operator = "lte" => a <= b
              /\ c.operator = "gt" => a > b
              /\ c.operator = "gte" => a >= b
<1>1. toNumber(value.text) \in {0, 1, 2} /\ toNumber(c.value) = ParseFloat(c.value)
  BY NumeralsParse
<1>2. CASE c.operator = "lt"
  BY <1>1, <1>2 DEF EvaluateCondition, Ordered, NaN
<1>3. CASE c.operator = "lte"
  BY <1>1, <1>3 DEF EvaluateCondition, Ordered, NaN
<1>4. CASE c.operator = "gt"
  BY <1>1, <1>4 DEF EvaluateCondition, Ordered, NaN
<1>5. CASE c.operator = "gte"
  BY <1>1, <1>5 DEF EvaluateCondition, Ordered, NaN
<1> QED BY <1>2, <1>3, <1>4, <1>5

\* The kinds of operators leave no condition that no page can make true: one that was let
\* in is dead exactly if it has a numeric threshold out of reach.
THEOREM OnlyThresholdsDead ==
  ASSUME NEW c, validateCondition(c)
  PROVE  Alive(c) <=> Reached(c)
<1>1. CASE c.extract = "exists"
  <2>1. Readings(c) = {Bool(TRUE), Bool(FALSE)} /\ Reached(c)
    BY <1>1 DEF Readings, Reached, NumericKinds
  <2>2. Bool(TRUE) # Bool(FALSE) /\ Bool(TRUE) # None
    BY DEF Bool, None
  <2>3. CASE c.operator = "is_true"
    BY <2>1, <2>3 DEF Alive, EvaluateCondition
  <2>4. CASE c.operator = "is_false"
    BY <2>1, <2>4 DEF Alive, EvaluateCondition
  <2>5. CASE c.operator = "changed"
    BY <2>1, <2>2, <2>5, ChangedMet DEF Alive
  <2> QED BY <1>1, <2>3, <2>4, <2>5, KindOperators DEF NumericKinds
<1>2. CASE c.extract \in NumericKinds
  <2> DEFINE N(text) == [type |-> "number", text |-> text]
  <2>1. Readings(c) = [type : {"number"}, text : Numerals]
    BY <1>2 DEF Readings, NumericKinds
  <2>2. /\ \A text \in Numerals : N(text) \in Readings(c) /\ N(text).text = text
        /\ \A value \in Readings(c) : value.text \in Numerals
        /\ N("0") # N("1") /\ N("0") # None
        /\ {"0", "1", "2"} = Numerals
    BY <2>1 DEF None, Numerals
  <2>a. ParseFloat(c.value) \in {NoNumber, NaN, 0, 1, 2}
    BY NumeralsParse
  <2> HIDE DEF N
  <2>3. CASE c.operator = "changed"
    <3>1. Alive(c)
      BY <2>2, <2>3, ChangedMet DEF Alive
    <3> QED BY <2>3, <3>1 DEF Reached
  <2>4. CASE c.operator = "neq"
    <3>1. PICK text \in {"0", "1"} : text # c.value
      OBVIOUS
    <3>2. EvaluateCondition(c, N(text), N(text))
      BY <2>2, <2>4, <3>1 DEF EvaluateCondition
    <3> QED BY <2>2, <2>4, <3>1, <3>2 DEF Alive, Reached
  <2>5. CASE c.operator = "eq"
    <3>1. \A value, previous \in Readings(c) :
            EvaluateCondition(c, value, previous) <=> value.text = c.value
      BY <2>5 DEF EvaluateCondition
    <3>2. Reached(c) <=> c.value \in Numerals
      BY <1>2, <2>5 DEF Reached
    <3> QED BY <2>2, <3>1, <3>2 DEF Alive
  <2>6. CASE c.operator \in {"lt", "lte", "gt", "gte"}
    <3>1. ParseFloat(c.value) # NoNumber
      BY <1>2, <2>6, KindOperators DEF NumericKinds
    <3>2. \A value, previous \in Readings(c) :
            EvaluateCondition(c, value, previous) <=>
              /\ ParseFloat(c.value) # NaN
              /\ c.operator = "lt" => toNumber(value.text) < ParseFloat(c.value)
              /\ c.operator = "lte" => toNumber(value.text) <= ParseFloat(c.value)
              /\ c.operator = "gt" => toNumber(value.text) > ParseFloat(c.value)
              /\ c.operator = "gte" => toNumber(value.text) >= ParseFloat(c.value)
      BY <2>2, <2>6, <3>1, NumbersCompare
    <3>3. Alive(c) <=>
            \E text \in Numerals :
              /\ ParseFloat(c.value) # NaN
              /\ c.operator = "lt" => toNumber(text) < ParseFloat(c.value)
              /\ c.operator = "lte" => toNumber(text) <= ParseFloat(c.value)
              /\ c.operator = "gt" => toNumber(text) > ParseFloat(c.value)
              /\ c.operator = "gte" => toNumber(text) >= ParseFloat(c.value)
      BY <2>2, <3>2 DEF Alive
    <3>4. Alive(c) <=>
            \E a \in {0, 1, 2} :
              /\ ParseFloat(c.value) # NaN
              /\ c.operator = "lt" => a < ParseFloat(c.value)
              /\ c.operator = "lte" => a <= ParseFloat(c.value)
              /\ c.operator = "gt" => a > ParseFloat(c.value)
              /\ c.operator = "gte" => a >= ParseFloat(c.value)
      BY <3>3, <2>2, NumeralsParse
    <3> QED BY <1>2, <2>6, <2>a, <3>1, <3>4 DEF Reached, NaN, NoNumber
  <2> QED BY <1>2, <2>3, <2>4, <2>5, <2>6, KindOperators DEF NumericKinds
<1>3. CASE c.extract \in {"text", "attribute"}
  <2> DEFINE T(text) == [type |-> "string", text |-> text]
  <2>1. Readings(c) = [type : {"string"}, text : Numerals \cup {Blank, c.value}] /\ Reached(c)
    BY <1>3 DEF Readings, Reached, NumericKinds
  <2>2. /\ \A text \in Numerals \cup {c.value} : T(text) \in Readings(c) /\ T(text).text = text
        /\ T("0") # T("1") /\ T("0") # None
        /\ {"0", "1"} \subseteq Numerals
    BY <2>1 DEF None, Numerals
  <2> HIDE DEF T
  <2>3. CASE c.operator = "changed"
    BY <2>1, <2>2, <2>3, ChangedMet DEF Alive
  <2>4. CASE c.operator = "eq"
    <3>1. EvaluateCondition(c, T(c.value), T(c.value))
      BY <2>2, <2>4 DEF EvaluateCondition
    <3> QED BY <2>1, <2>2, <3>1 DEF Alive
  <2>5. CASE c.operator = "contains"
    <3>1. EvaluateCondition(c, T(c.value), T(c.value))
      BY <2>2, <2>5 DEF EvaluateCondition, Substring
    <3> QED BY <2>1, <2>2, <3>1 DEF Alive
  <2>6. CASE c.operator \in {"neq", "not_contains"}
    <3>1. PICK text \in {"0", "1"} : text # c.value
      OBVIOUS
    <3>2. T(text) \in Readings(c) /\ T(text).text = text
      BY <2>2
    <3>3. ~Substring(c.value, text)
      BY <3>1 DEF Substring
    <3>4. EvaluateCondition(c, T(text), T(text))
      BY <2>6, <3>1, <3>2, <3>3 DEF EvaluateCondition
    <3> QED BY <2>1, <3>2, <3>4 DEF Alive
  <2> QED BY <1>3, <2>3, <2>4, <2>5, <2>6, KindOperators DEF NumericKinds
<1> QED BY <1>1, <1>2, <1>3, KindOperators

\* What is let in with thresholds that are reached.
AllReached(d) == \A i \in DOMAIN d.conditions : Reached(d.conditions[i])

\* Normalising drops no threshold that is compared with.
LEMMA ReachedNormal ==
  ASSUME NEW d \in Definition, AllReached(d)
  PROVE  AllReached(Normal(d))
<1>1. ASSUME NEW c \in Condition, Reached(c) PROVE Reached(Normalized(c))
  <2>1. Normalized(c).extract = c.extract /\ Normalized(c).operator = c.operator
    BY DEF Normalized, Condition
  <2>2. c.operator \notin ValuelessOperators => Normalized(c).value = c.value
    BY DEF Normalized, Condition
  <2> QED BY <1>1, <2>1, <2>2 DEF Reached, ValuelessOperators
<1>2. /\ DOMAIN Normal(d).conditions = 1..Len(d.conditions)
      /\ DOMAIN d.conditions = 1..Len(d.conditions)
      /\ \A i \in 1..Len(d.conditions) :
           /\ d.conditions[i] \in Condition
           /\ Normal(d).conditions[i] = Normalized(d.conditions[i])
  BY NormalShape, DefinitionFields
<1> QED BY <1>1, <1>2 DEF AllReached

\* No condition that is stored is dead, if no client sends a numeric threshold that is
\* out of reach: a number below or above all that are read, one spelled as none is
\* printed, or none. Nothing else a client may send, and no edit, makes one.
THEOREM NoneDead ==
  ASSUME \A wire \in Wires : ValidateSpec(Decode(wire)) => AllReached(Decode(wire))
  PROVE  Spec => []NeverDead
<1>1. ASSUME NEW wire \in Wires, ValidateSpec(Decode(wire))
      PROVE  AllReached(Normal(Decode(wire)))
  BY <1>1, DecodedTyped, ReachedNormal
<1>2. Init => AllReached(spec)
  BY <1>1 DEF Init, Specs
<1>3. AllReached(spec) /\ [Next]_vars => AllReached(spec)'
  <2> SUFFICES ASSUME AllReached(spec), [Next]_vars PROVE AllReached(spec')
    OBVIOUS
  <2>1. CASE Save
    BY <1>1, <2>1 DEF Save
  <2>2. CASE UNCHANGED spec
    BY <2>2
  <2> QED BY <2>1, <2>2 DEF Next, Execute, TestDraft, Wait, Extract, EvaluateConditions,
                            Record, Fail, PageChanges, vars
<1>4. TypeOK /\ AllReached(spec) => NeverDead
  <2> SUFFICES ASSUME TypeOK, AllReached(spec), NEW i \in DOMAIN spec.conditions
               PROVE  Alive(spec.conditions[i])
    BY DEF NeverDead, Alive
  <2>1. validateCondition(spec.conditions[i]) /\ Reached(spec.conditions[i])
    BY DEF TypeOK, ValidateSpec, AllReached
  <2> QED BY <2>1, OnlyThresholdsDead
<1> QED BY <1>2, <1>3, <1>4, ConditionsTypeCorrect, PTL DEF Spec
================================================================================
