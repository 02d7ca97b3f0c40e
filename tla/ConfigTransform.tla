--------------------------- MODULE ConfigTransform ---------------------------
(***************************************************************************)
(* The transformation of a configuration on its way from the CR to the     *)
(* driver (common.go 492-600). The forms of the console can only write text, *)
(* so options carry a mark that says what their text stands for, and        *)
(* options of all drivers come side by side under a prefix with the driver's *)
(* name. A first loop transforms the marked values and drops their marks; a *)
(* second one drops the options of the other drivers and the prefix of those *)
(* of the one in use.                                                       *)
(*                                                                         *)
(* Both loops change the Go map they range over: the keys come in any order, *)
(* and one inserted on the way is visited or not. So a visit is a step.     *)
(***************************************************************************)
EXTENDS Naturals

CONSTANTS
  Drivers,      \* driver names
  Options,      \* option names, without "driver"
  Texts,        \* the text values
  Blank,        \* the empty text
  PairTexts,    \* texts with a pair k:v
  SeveralTexts, \* those of them with several pairs
  NumberTexts,  \* texts that parse as a number
  None,         \* no driver
  Missing,      \* no value
  Inputs        \* the parsed configurations users write, apart from their driver

Marks == {"none", "empty_none", "csv", "csv_kvs", "string_float"}
Keys  == [driver : Drivers \cup {None}, option : Options, mark : Marks]

\* Values keep the text they come from: as it is, split at the commas, as a map of
\* all its pairs k:v or of the last one, or as a number. "other" is whatever else JSON
\* has.
Forms  == {"text", "null", "list", "pairs", "lastPair", "number", "other"}
Values == [form : Forms, of : Texts]
Config == [Keys -> Values \cup {Missing}]

Present(c) == {k \in Keys : c[k] # Missing}

BareOfOne(k) == \* broken: of "csv_kvs" it drops "kvs"
  [k EXCEPT !.mark = IF @ = "csv_kvs" THEN "csv" ELSE "none"]

Bare(k) == [k EXCEPT !.mark = "none"]

\* An option has a type, and by its type a mark.
OneMark(c) ==
  \A j, k \in Present(c) :
    j.mark # "none" /\ k.mark # "none" /\ Bare(j) = Bare(k) => j = k

ASSUME TransformAssumption ==
  /\ None \notin Drivers /\ Missing \notin Values
  /\ Blank \in Texts
  /\ SeveralTexts \subseteq PairTexts
  /\ Inputs \subseteq Config
  /\ \A c \in Inputs : OneMark(c) /\ \A k \in Present(c) : c[k].form # "lastPair"

VARIABLES
  input,   \* the configuration as parsed
  driver,  \* what it has under "driver", read before the loops
  m,       \* the map
  todo,    \* its keys the loop under way has still to visit
  loop     \* the loop under way, or how it ended

transformVars == <<input, driver, m, todo, loop>>

\* unparsed: the configuration was no JSON object, and is forwarded as it is.
TransformTypeOK ==
  /\ input \in Inputs /\ driver \in Drivers \cup {None}
  /\ m \in Config
  /\ todo \subseteq Present(m)
  /\ loop \in {"unparsed", "transform", "select", "done", "panicked"}

TransformInit ==
  /\ input \in Inputs /\ m = input
  /\ driver \in Drivers \cup {None}
  /\ \/ loop = "transform" /\ todo = Present(input)
     \/ loop = "unparsed" /\ todo = {}
-----------------------------------------------------------------------------
(* The first loop.                                                         *)

Text(t) == [form |-> "text", of |-> t]
Null    == [form |-> "null", of |-> Blank]

TextMarks == {"csv", "csv_kvs", "string_float"}

\* A mark that says None for the empty text stays on any other value.
Handled(k, v) == k.mark \in TextMarks \/ (k.mark = "empty_none" /\ v = Text(Blank))

\* The type assertion v.(string) panics.
Breaks(k, v) == k.mark \in TextMarks /\ v.form # "text"

\* Each pair of a text replaces the map of the one before.
PairsOf(v) ==
  IF v.of \notin PairTexts THEN Missing
  ELSE [v EXCEPT !.form = IF v.of \in SeveralTexts THEN "lastPair" ELSE "pairs"]

\* What the option gets instead; Missing: nothing, it is left as it is.
Outcome(k, v) ==
  CASE k.mark = "empty_none"   -> Null
    [] k.mark = "csv"          -> [v EXCEPT !.form = "list"]
    [] k.mark = "csv_kvs"      -> PairsOf(v)
    [] k.mark = "string_float" -> IF v.of \in NumberTexts THEN [v EXCEPT !.form = "number"] ELSE v

Or(value, otherwise) == IF value = Missing THEN otherwise ELSE value

\* A visit ends; a key it has inserted may be visited too.
Visited(k, inserted) ==
  /\ \E again \in SUBSET (inserted \ Present(m)) : todo' = (todo \ {k}) \cup again
  /\ UNCHANGED <<input, driver, loop>>

TransformCopying(k) == \* broken: the marked key stays
  /\ loop = "transform" /\ k \in todo
  /\ IF Breaks(k, m[k])
     THEN loop' = "panicked" /\ UNCHANGED <<input, driver, m, todo>>
     ELSE /\ m' = IF Handled(k, m[k]) THEN [m EXCEPT ![Bare(k)] = Or(Outcome(k, m[k]), @)] ELSE m
          /\ Visited(k, {Bare(k)} \cap Present(m'))

TransformKey(k) ==
  /\ loop = "transform" /\ k \in todo
  /\ IF Breaks(k, m[k])
     THEN loop' = "panicked" /\ UNCHANGED <<input, driver, m, todo>>
     ELSE IF Handled(k, m[k])
     THEN /\ m' = [m EXCEPT ![k] = Missing, ![Bare(k)] = Or(Outcome(k, m[k]), @)]
          /\ Visited(k, {Bare(k)} \cap Present(m'))
     ELSE m' = m /\ Visited(k, {})
-----------------------------------------------------------------------------
(* The second loop.                                                        *)

Own(k)    == [k EXCEPT !.driver = driver]
Common(k) == [k EXCEPT !.driver = None]

SelectCopying(k) == \* broken: the prefixed key stays
  /\ loop = "select" /\ k \in todo
  /\ m' = IF k.driver # None /\ k.driver = driver THEN [m EXCEPT ![Common(k)] = m[k]] ELSE m
  /\ Visited(k, {Common(k)} \cap Present(m'))

SelectKey(k) ==
  /\ loop = "select" /\ k \in todo
  /\ m' = IF k.driver = None THEN m
          ELSE IF k.driver = driver THEN [m EXCEPT ![k] = Missing, ![Common(k)] = m[k]]
          ELSE [m EXCEPT ![k] = Missing]
  /\ Visited(k, {Common(k)} \cap Present(m'))

RangeOverInput == \* broken: it visits the keys of the configuration as parsed
  /\ loop = "transform" /\ todo = {}
  /\ loop' = "select" /\ todo' = Present(input) \cap Present(m)
  /\ UNCHANGED <<input, driver, m>>

\* The second loop visits the keys as the first one has left them.
RangeAgain ==
  /\ loop = "transform" /\ todo = {}
  /\ loop' = "select" /\ todo' = Present(m)
  /\ UNCHANGED <<input, driver, m>>

Finish ==
  /\ loop = "select" /\ todo = {}
  /\ loop' = "done" /\ UNCHANGED <<input, driver, m, todo>>

Transform ==
  \/ \E k \in todo : TransformKey(k) \/ SelectKey(k)
  \/ RangeAgain \/ Finish

TransformSpec == TransformInit /\ [][Transform]_transformVars
-----------------------------------------------------------------------------
(* Properties.                                                             *)

\* The definitions the loops are checked against. Result is what they compute, without
\* any order.
Sources(c, k) ==
  {j \in {[k EXCEPT !.mark = mark] : mark \in Marks \ {"none"}} :
     c[j] # Missing /\ Handled(j, c[j]) /\ Outcome(j, c[j]) # Missing}

Unmarked(c, k) ==
  IF k.mark # "none"
  THEN IF c[k] # Missing /\ Handled(k, c[k]) THEN Missing ELSE c[k]
  ELSE IF Sources(c, k) = {} THEN c[k]
  ELSE LET j == CHOOSE j \in Sources(c, k) : TRUE IN Outcome(j, c[j])

Result(c, d, k) ==
  IF k.driver # None THEN Missing
  ELSE IF d = None THEN Unmarked(c, k)
  ELSE Or(Unmarked(c, [k EXCEPT !.driver = d]), Unmarked(c, k))

\* Meaning is what the marks and prefixes are written for: a text of pairs stands for
\* a dictionary of them all (build/olm-catalog/yaml-options-gen.py:23-30, 340-357).
AllPairs(v) == IF v # Missing /\ v.form = "lastPair" THEN [v EXCEPT !.form = "pairs"] ELSE v

Meaning(c, d, k) == AllPairs(Result(c, d, k))

SinglePairs(c) ==
  \A k \in Present(c) : k.mark = "csv_kvs" => c[k].of \notin SeveralTexts

Broken(c) == \E k \in Present(c) : Breaks(k, c[k])

\* The result does not depend on the order in which the maps are ranged over, options
\* of the driver in use winning over those without prefix; it is the one the marks and
\* prefixes mean, unless there is a text of several pairs, of which the code keeps the
\* last one only; and the operator panics exactly when a marked value is no text,
\* whatever else is there (common.go:523-600).
ResultIsMeaning ==
  /\ loop = "done" =>
       /\ ~ Broken(input)
       /\ \A k \in Keys : m[k] = Result(input, driver, k)
       /\ SinglePairs(input) => \A k \in Keys : m[k] = Meaning(input, driver, k)
  /\ loop = "panicked" => Broken(input)

\* A configuration that has been through is a fixed point: it is transformed again
\* each time an object is built from it, and by every pass on the redacted CR, in
\* which it is a map by then (common.go:492-508).
SecondPassChangesNothing ==
  loop = "done" => ~ Broken(m) /\ \A k \in Keys : Result(m, driver, k) = m[k]

\* The keys for which the loop under way has something to do.
Pending == {k \in todo : IF loop = "transform" THEN k.mark # "none" ELSE k.driver # None}

\* The loops end, though they insert keys into the map they range over and may visit
\* those too: each visit takes a key from those with something to do, or takes one
\* from the others and adds none (common.go:533-591).
VisitsRunOut ==
  [][loop' = loop =>
       \/ Pending' \subseteq Pending /\ Pending' # Pending
       \/ Pending' = Pending /\ todo' \subseteq todo /\ todo' # todo]_transformVars

-----------------------------------------------------------------------------
(* The inductive invariant.                                                *)

\* In the first loop a marked key is as it was until it is visited, and so is a plain
\* one until one is visited that is transformed into it.
FirstLoopInv ==
  \A k \in Keys :
    m[k] = IF k.mark # "none"
           THEN IF k \in todo THEN input[k] ELSE Unmarked(input, k)
           ELSE IF Sources(input, k) \subseteq todo THEN input[k] ELSE Unmarked(input, k)

\* In the second loop a prefixed key is there until it is visited, and one without
\* prefix as the first loop left it until that of the driver in use is visited.
SecondLoopInv ==
  \A k \in Keys :
    m[k] = IF k.driver # None
           THEN IF k \in todo THEN Unmarked(input, k) ELSE Missing
           ELSE IF driver = None \/ Own(k) \in todo THEN Unmarked(input, k)
           ELSE Or(Unmarked(input, Own(k)), Unmarked(input, k))

\* A marked value is checked when its key is visited.
PanicInv ==
  CASE loop = "panicked"           -> Broken(input)
    [] loop = "transform"          -> \A k \in Present(input) : Breaks(k, input[k]) => k \in todo
    [] loop \in {"select", "done"} -> ~ Broken(input)
    [] OTHER                       -> TRUE

TransformInv ==
  /\ TransformTypeOK
  /\ PanicInv
  /\ loop = "transform" => FirstLoopInv
  /\ loop \in {"select", "done"} => SecondLoopInv
  /\ loop = "done" => todo = {}
=============================================================================
