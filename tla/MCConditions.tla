------------------------------ MODULE MCConditions ------------------------------
(* The pages and the drafts that Conditions is checked on.                     *)
EXTENDS Conditions

C(selector, extract, operator, value) ==
  [selector |-> selector, wait |-> Blank, extract |-> extract, attribute |-> "title",
   operator |-> operator, value |-> value]

W(url, match, conditions, message) ==
  [url |-> url, match |-> match, conditions |-> conditions, message |-> message, flat |-> Null]

P(name, index) == [name |-> name, index |-> index]

Price == [text |-> "$2", title |-> "1"]
Sale == [text |-> "1", title |-> "1"]
Note == [text |-> "gone", title |-> Blank]

MCElements == {Price, Sale, Note}

MCFlatResults == {[type |-> "string", text |-> "$2"]}

\* What the form saves, reordered and edited.
Sound ==
  {[W("u1", Blank, <<>>, {P("value", 0)}) EXCEPT !.flat = C("s1", "text", "changed", Blank)],
   W("u1", "any", <<[C("s2", "number", "changed", Blank) EXCEPT !.wait = "s1"],
                    C("s1", "text", "changed", Blank)>>, {P("value", 2)}),
   W("u1", "all", <<C("s1", "text", "changed", Blank), C("s2", "exists", "is_true", Blank)>>, {}),
   W("u1", "all", <<C("s1", "number", "lt", "2"), C("s1", "attribute", "changed", Blank)>>, {}),
   W("u1", "all", <<C("s1", "text", "contains", "gone")>>, {})}

\* What it, or a caller of the API, gets wrong.
Unsound ==
  {W("u1", "all", <<C("s1", "exists", "gt", "1")>>, {}),
   W("u1", "all", <<C("s1", "number", "eq", "gone")>>, {}),
   W("u1", "all", <<C("s1", "text", "changed", Blank)>>, {P("value", 2)}),
   W("u1", "some", <<C("s1", "text", "changed", Blank)>>, {}),
   W("u1", "all", <<C("s1", "text", "eq", Blank)>>, {}),
   W("u1", "all", [i \in 1..3 |-> C("s1", "text", "changed", Blank)], {}),
   W("u1", "all", <<>>, {})}

MCWires == Sound \cup Unsound

\* The same watch on another page, and a number spelled as it is not printed.
Moved == {W(url, "all", <<C("s1", "text", "changed", Blank)>>, {}) : url \in {"u1", "u2"}}
Spelled == {W("u1", "all", <<C("s1", "number", "eq", value)>>, {}) : value \in {"1", "1.0"}}
================================================================================
