-------------------------- MODULE PodTemplatesProofs --------------------------
(***************************************************************************)
(* Theorems about PodTemplates, for all drivers, options, configurations,   *)
(* clusters and topologies.                                                *)
(***************************************************************************)
EXTENDS PodTemplates, TLAPS

-----------------------------------------------------------------------------
(* Keys.                                                                   *)

LEMMA BareFacts ==
  ASSUME NEW k \in Keys
  PROVE  /\ Bare(k) \in Keys /\ Bare(k).mark = "none"
         /\ Bare(k).driver = k.driver /\ Bare(k).option = k.option
         /\ k.mark = "none" => Bare(k) = k
         /\ k.mark # "none" => Bare(k) # k
BY DEF Keys, Bare, Marks

LEMMA OwnFacts ==
  ASSUME NEW k \in Keys, TransformTypeOK
  PROVE  /\ Own(k) \in Keys /\ Own(k).mark = k.mark /\ Own(k).driver = driver
         /\ Common(k) \in Keys /\ Common(k).mark = k.mark /\ Common(k).driver = None
         /\ k.driver = None => Common(Own(k)) = k
         /\ k.driver = driver => Own(Common(k)) = k
BY DEF Keys, Own, Common, TransformTypeOK

LEMMA OutcomeType ==
  ASSUME NEW k \in Keys, NEW v \in Values, Handled(k, v)
  PROVE  Outcome(k, v) \in Values \cup {Missing} /\ k.mark # "none"
<1> USE TransformAssumption DEF Values, Forms
<1>1. CASE k.mark = "empty_none"
  BY <1>1 DEF Outcome, Null
<1>2. CASE k.mark = "csv"
  BY <1>2 DEF Outcome
<1>3. CASE k.mark = "csv_kvs"
  BY <1>3 DEF Outcome, PairsOf
<1>4. CASE k.mark = "string_float"
  BY <1>4 DEF Outcome
<1> QED
  BY <1>1, <1>2, <1>3, <1>4 DEF Handled, TextMarks

\* What a plain key gets its value from: the one marked key of its option.
LEMMA SourceFacts ==
  ASSUME NEW c \in Config, NEW k \in Keys, k.mark = "none", NEW j \in Keys
  PROVE  j \in Sources(c, k) <=> /\ j.mark # "none" /\ Bare(j) = k /\ c[j] # Missing
                                 /\ Handled(j, c[j]) /\ Outcome(j, c[j]) # Missing
<1>1. j \in {[k EXCEPT !.mark = mark] : mark \in Marks \ {"none"}} <=> j.mark # "none" /\ Bare(j) = k
  <2>1. ASSUME j.mark # "none", Bare(j) = k
        PROVE  j = [k EXCEPT !.mark = j.mark] /\ j.mark \in Marks \ {"none"}
    BY <2>1 DEF Keys, Bare
  <2>2. ASSUME NEW mark \in Marks \ {"none"}, j = [k EXCEPT !.mark = mark]
        PROVE  j.mark # "none" /\ Bare(j) = k
    BY <2>2 DEF Keys, Bare
  <2> QED
    BY <2>1, <2>2
<1> QED
  BY <1>1 DEF Sources

LEMMA SourcesAreKeys ==
  ASSUME NEW c, NEW k \in Keys PROVE Sources(c, k) \subseteq Keys
BY DEF Sources, Keys

LEMMA OneSource ==
  ASSUME NEW c \in Config, OneMark(c), NEW k \in Keys, k.mark = "none", NEW j \in Sources(c, k)
  PROVE  Sources(c, k) = {j} /\ Unmarked(c, k) = Outcome(j, c[j])
<1>1. \A i \in Sources(c, k) : i = j
  <2> TAKE i \in Sources(c, k)
  <2>1. i \in Keys /\ j \in Keys
    BY SourcesAreKeys
  <2> QED
    BY <2>1, SourceFacts DEF OneMark, Present
<1> QED
  BY <1>1 DEF Unmarked

LEMMA UnmarkedType ==
  ASSUME NEW c \in Config, OneMark(c), NEW k \in Keys
  PROVE  Unmarked(c, k) \in Values \cup {Missing}
<1>1. CASE k.mark # "none"
  BY <1>1 DEF Unmarked, Config
<1>2. CASE k.mark = "none" /\ Sources(c, k) = {}
  BY <1>2 DEF Unmarked, Config
<1>3. CASE k.mark = "none" /\ Sources(c, k) # {}
  <2>1. PICK j \in Sources(c, k) : TRUE
    BY <1>3
  <2>2. j \in Keys /\ c[j] # Missing /\ Handled(j, c[j])
    BY <1>3, <2>1, SourcesAreKeys, SourceFacts
  <2> QED
    BY <1>3, <2>1, <2>2, OneSource, OutcomeType DEF Config
<1> QED
  BY <1>1, <1>2, <1>3

LEMMA InputFacts ==
  ASSUME TransformTypeOK
  PROVE  input \in Config /\ OneMark(input)
BY TransformAssumption DEF TransformTypeOK

\* A visit takes its key out and lets in at most what it has inserted.
LEMMA VisitFacts ==
  ASSUME NEW k, NEW inserted, Visited(k, inserted)
  PROVE  /\ todo \ {k} \subseteq todo'
         /\ todo' \subseteq (todo \ {k}) \cup (inserted \ Present(m))
         /\ UNCHANGED <<input, driver, loop>>
BY DEF Visited
-----------------------------------------------------------------------------
(* The first loop.                                                         *)

LEMMA TransformKeyInv ==
  ASSUME TransformInv, NEW k \in todo, TransformKey(k)
  PROVE  TransformInv'
<1>1. /\ loop = "transform" /\ FirstLoopInv /\ TransformTypeOK
      /\ k \in Keys /\ m[k] \in Values /\ m \in Config /\ m[k] # Missing
  BY TransformAssumption DEF TransformInv, TransformKey, TransformTypeOK, Present, Config
<1>2. input \in Config /\ OneMark(input)
  BY <1>1, InputFacts
<1>3. k.mark # "none" => m[k] = input[k]
  BY <1>1 DEF FirstLoopInv
<1>4. \A j \in Present(input) : Breaks(j, input[j]) => j \in todo
  BY <1>1 DEF TransformInv, PanicInv
<1>5. CASE Breaks(k, m[k])
  <2>1. loop' = "panicked" /\ UNCHANGED <<input, driver, m, todo>>
    BY <1>5 DEF TransformKey
  <2>2. Broken(input)
    BY <1>1, <1>3, <1>5 DEF Breaks, TextMarks, Broken, Present
  <2> QED
    BY <1>1, <2>1, <2>2 DEF TransformInv, TransformTypeOK, PanicInv, Broken, Present
<1>6. CASE ~ Breaks(k, m[k]) /\ Handled(k, m[k])
  <2> DEFINE out == Outcome(k, m[k])
  <2>1. /\ m' = [m EXCEPT ![k] = Missing, ![Bare(k)] = Or(out, @)]
        /\ Visited(k, {Bare(k)} \cap Present(m'))
    BY <1>6 DEF TransformKey
  <2>2. out \in Values \cup {Missing} /\ k.mark # "none" /\ Bare(k) # k /\ Bare(k) \in Keys
        /\ Bare(k).mark = "none"
    BY <1>1, <1>6, OutcomeType, BareFacts
  <2> HIDE DEF out
  <2>3. /\ m' \in Config /\ m'[k] = Missing
        /\ m'[Bare(k)] = IF out = Missing THEN m[Bare(k)] ELSE out
        /\ \A j \in Keys : j # k /\ j # Bare(k) => m'[j] = m[j]
    BY <1>1, <2>1, <2>2 DEF Config, Or
  <2>4. /\ todo \ {k} \subseteq todo' /\ todo' \subseteq (todo \ {k}) \cup ({Bare(k)} \cap Present(m'))
        /\ UNCHANGED <<input, driver, loop>> /\ k \notin todo'
    <3> DEFINE inserted == {Bare(k)} \cap Present(m')
    <3>1. Visited(k, inserted)
      BY <2>1
    <3> HIDE DEF inserted
    <3>2. /\ todo \ {k} \subseteq todo' /\ todo' \subseteq (todo \ {k}) \cup inserted
          /\ UNCHANGED <<input, driver, loop>>
      BY <3>1, VisitFacts
    <3> QED
      BY <2>2, <3>2 DEF inserted
  <2>5. TransformTypeOK'
    <3>1. todo' \subseteq Present(m')
      <4> SUFFICES ASSUME NEW j \in todo', j \in todo \ {k} PROVE j \in Present(m')
        BY <2>4
      <4>1. j \in Keys /\ m[j] # Missing
        BY <1>1 DEF TransformTypeOK, Present
      <4>2. m'[j] # Missing
        BY <2>3, <4>1
      <4> QED
        BY <4>1, <4>2 DEF Present
    <3> QED
      BY <1>1, <2>3, <2>4, <3>1 DEF TransformTypeOK
  <2>6. FirstLoopInv'
    <3> SUFFICES ASSUME NEW j \in Keys
                 PROVE  m'[j] = IF j.mark # "none"
                                THEN IF j \in todo' THEN input[j] ELSE Unmarked(input, j)
                                ELSE IF Sources(input, j) \subseteq todo' THEN input[j]
                                     ELSE Unmarked(input, j)
      <4>1. \A j \in Keys : Unmarked(input, j)' = Unmarked(input, j) /\ Sources(input, j)' = Sources(input, j)
        BY <2>4 DEF Unmarked, Sources
      <4> QED
        BY <2>4, <4>1 DEF FirstLoopInv
    <3>1. CASE j.mark # "none" /\ j = k
      BY <1>3, <1>6, <2>2, <2>3, <2>4, <3>1 DEF Unmarked
    <3>2. CASE j.mark # "none" /\ j # k
      BY <1>1, <2>2, <2>3, <2>4, <3>2 DEF FirstLoopInv
    <3>3. CASE j.mark = "none"
      <4>1. \A i \in Sources(input, j) : i \in Keys /\ i.mark # "none" /\ Bare(i) = j
        BY <1>2, <3>3, SourcesAreKeys, SourceFacts
      <4>2. k \in Sources(input, j) <=> Bare(k) = j /\ out # Missing
        BY <1>1, <1>2, <1>3, <1>6, <2>2, <3>3, SourceFacts DEF out
      <4>3. k \notin Sources(input, j) => (Sources(input, j) \subseteq todo <=> Sources(input, j) \subseteq todo')
        BY <2>2, <2>4, <4>1
      <4>4. CASE k \in Sources(input, j)
        <5>1. Unmarked(input, j) = out
          BY <1>2, <1>3, <2>2, <3>3, <4>4, OneSource DEF out
        <5> QED
          BY <2>3, <2>4, <4>2, <4>4, <5>1, <3>3
      <4>5. CASE k \notin Sources(input, j)
        <5>1. m'[j] = m[j]
          BY <2>2, <2>3, <3>3, <4>2, <4>5
        <5> QED
          BY <1>1, <3>3, <4>3, <4>5, <5>1 DEF FirstLoopInv
      <4> QED
        BY <4>4, <4>5
    <3> QED
      BY <3>1, <3>2, <3>3
  <2>7. PanicInv'
    BY <1>1, <1>3, <1>4, <1>6, <2>2, <2>4 DEF PanicInv, Present
  <2> QED
    BY <1>1, <2>4, <2>5, <2>6, <2>7 DEF TransformInv
<1>7. CASE ~ Breaks(k, m[k]) /\ ~ Handled(k, m[k])
  <2>1. m' = m /\ Visited(k, {})
    BY <1>7 DEF TransformKey
  <2>2. todo' = todo \ {k} /\ UNCHANGED <<input, driver, loop, m>>
    BY <2>1, VisitFacts
  <2>3. \A j \in Keys : j.mark = "none" => k \notin Sources(input, j)
    BY <1>1, <1>2, <1>3, <1>7, SourceFacts
  <2>4. k.mark # "none" => Unmarked(input, k) = input[k]
    BY <1>3, <1>7 DEF Unmarked
  <2>5. FirstLoopInv'
    <3>1. \A j \in Keys : Unmarked(input, j)' = Unmarked(input, j) /\ Sources(input, j)' = Sources(input, j)
      BY <2>2 DEF Unmarked, Sources
    <3>2. \A j \in Keys : j.mark = "none" =>
            (Sources(input, j) \subseteq todo <=> Sources(input, j) \subseteq todo')
      BY <2>2, <2>3
    <3> QED
      BY <1>1, <2>2, <2>4, <3>1, <3>2 DEF FirstLoopInv
  <2>6. PanicInv'
    BY <1>1, <1>3, <1>4, <1>7, <2>2 DEF PanicInv, Present, Breaks, TextMarks
  <2> QED
    BY <1>1, <2>2, <2>5, <2>6 DEF TransformInv, TransformTypeOK, Present
<1> QED
  BY <1>5, <1>6, <1>7
-----------------------------------------------------------------------------
(* The second loop.                                                        *)

\* The first loop has turned the input into what its marks mean.
LEMMA RangeAgainInv ==
  ASSUME TransformInv, RangeAgain
  PROVE  TransformInv'
<1>1. /\ loop = "transform" /\ loop' = "select" /\ FirstLoopInv /\ TransformTypeOK
      /\ todo = {} /\ todo' = Present(m) /\ UNCHANGED <<input, driver, m>>
  BY DEF TransformInv, RangeAgain
<1>2. \A k \in Keys : m[k] = Unmarked(input, k)
  <2> TAKE k \in Keys
  <2>1. CASE k.mark # "none"
    BY <1>1, <2>1 DEF FirstLoopInv
  <2>2. CASE k.mark = "none" /\ Sources(input, k) = {}
    BY <1>1, <2>2 DEF FirstLoopInv, Unmarked
  <2>3. CASE k.mark = "none" /\ Sources(input, k) # {}
    BY <1>1, <2>3 DEF FirstLoopInv
  <2> QED
    BY <2>1, <2>2, <2>3
<1>3. SecondLoopInv'
  <2>1. \A k \in Keys : /\ Unmarked(input, k)' = Unmarked(input, k) /\ Own(k)' = Own(k)
                         /\ Own(k) \in Keys
    BY <1>1, OwnFacts DEF Unmarked, Sources, Own
  <2>2. \A k \in Keys : k \in todo' <=> Unmarked(input, k) # Missing
    BY <1>1, <1>2 DEF Present
  <2>3. SUFFICES ASSUME NEW k \in Keys
                 PROVE m[k] = IF k.driver # None
                              THEN IF k \in todo' THEN Unmarked(input, k) ELSE Missing
                              ELSE IF driver = None \/ Own(k) \in todo' THEN Unmarked(input, k)
                              ELSE Or(Unmarked(input, Own(k)), Unmarked(input, k))
    BY <1>1, <2>1 DEF SecondLoopInv
  <2> QED
    BY <1>2, <2>1, <2>2 DEF Or
<1>4. PanicInv'
  BY <1>1 DEF TransformInv, PanicInv, Broken, Present
<1> QED
  BY <1>1, <1>3, <1>4 DEF TransformInv, TransformTypeOK, Present

LEMMA SelectKeyInv ==
  ASSUME TransformInv, NEW k \in todo, SelectKey(k)
  PROVE  TransformInv'
<1>1. /\ loop = "select" /\ SecondLoopInv /\ TransformTypeOK /\ ~ Broken(input)
      /\ k \in Keys /\ m[k] \in Values /\ m \in Config /\ m[k] # Missing
  BY TransformAssumption DEF TransformInv, SelectKey, TransformTypeOK, Present, Config, PanicInv
<1>2. /\ todo \ {k} \subseteq todo' /\ todo' \subseteq (todo \ {k}) \cup {Common(k)}
      /\ Common(k) \in todo' => Common(k) \in Present(m')
      /\ k.driver = None => todo' = todo \ {k}
      /\ UNCHANGED <<input, driver, loop>>
  <2> DEFINE inserted == {Common(k)} \cap Present(m')
  <2>1. Visited(k, inserted)
    BY DEF SelectKey
  <2>2. k.driver = None => inserted \subseteq Present(m)
    BY <1>1 DEF SelectKey, Present
  <2>3. Common(k) \in todo \ {k} => Common(k) \in Present(m')
    <3>1. CASE k.driver = None \/ k.driver # driver
      BY <1>1, <3>1 DEF SelectKey, TransformTypeOK, Present, Config
    <3>2. CASE k.driver # None /\ k.driver = driver
      BY <1>1, <3>2, OwnFacts DEF SelectKey, Present, Config
    <3> QED
      BY <3>1, <3>2
  <2> HIDE DEF inserted
  <2>4. /\ todo \ {k} \subseteq todo' /\ todo' \subseteq (todo \ {k}) \cup (inserted \ Present(m))
        /\ UNCHANGED <<input, driver, loop>>
    BY <2>1, VisitFacts
  <2> QED
    BY <2>2, <2>3, <2>4 DEF inserted
<1>3. /\ m' \in Config
      /\ \A j \in Keys : j # k /\ j # Common(k) => m'[j] = m[j]
      /\ k.driver # None => m'[k] = Missing
      /\ m'[Common(k)] = IF k.driver # None /\ k.driver = driver THEN m[k] ELSE m[Common(k)]
  <2>1. CASE k.driver = None
    BY <1>1, <2>1 DEF SelectKey
  <2>2. CASE k.driver # None /\ k.driver = driver
    BY <1>1, <2>2, OwnFacts DEF SelectKey, Config
  <2>3. CASE k.driver # None /\ k.driver # driver
    BY <1>1, <2>3, OwnFacts DEF SelectKey, Config
  <2> QED
    BY <2>1, <2>2, <2>3
<1>4. TransformTypeOK'
  <2>1. todo' \subseteq Present(m')
    <3> SUFFICES ASSUME NEW j \in todo', j \in todo \ {k}, j # Common(k) PROVE j \in Present(m')
      BY <1>2
    <3> QED
      BY <1>1, <1>3 DEF TransformTypeOK, Present
  <2> QED
    BY <1>1, <1>2, <1>3, <2>1 DEF TransformTypeOK
<1>5. SecondLoopInv'
  <2>1. \A j \in Keys : /\ Unmarked(input, j)' = Unmarked(input, j) /\ Own(j)' = Own(j)
                         /\ Own(j) \in Keys /\ Own(j).driver = driver
    BY <1>1, <1>2, OwnFacts DEF Unmarked, Sources, Own
  <2>2. SUFFICES ASSUME NEW j \in Keys
                 PROVE m'[j] = IF j.driver # None
                               THEN IF j \in todo' THEN Unmarked(input, j) ELSE Missing
                               ELSE IF driver = None \/ Own(j) \in todo' THEN Unmarked(input, j)
                               ELSE Or(Unmarked(input, Own(j)), Unmarked(input, j))
    BY <1>2, <2>1 DEF SecondLoopInv
  <2>3. \A i \in Keys : i.driver # None /\ i # k => (i \in todo' <=> i \in todo)
    BY <1>1, <1>2, OwnFacts
  <2>4. CASE k.driver = None
    BY <1>1, <1>2, <1>3, <2>1, <2>3, <2>4, OwnFacts DEF SecondLoopInv, SelectKey
  <2>5. CASE k.driver # None
    <3>1. k \notin todo'
      BY <1>1, <1>2, <2>5, OwnFacts
    <3>2. CASE j.driver # None
      BY <1>1, <1>3, <2>3, <2>5, <3>1, <3>2, OwnFacts DEF SecondLoopInv
    <3>3. CASE j.driver = None /\ Own(j) = k
      <4>1. j = Common(k) /\ k.driver = driver
        BY <1>1, <2>1, <3>3, OwnFacts
      <4>2. m'[j] = m[k] /\ m[k] = Unmarked(input, k)
        BY <1>1, <1>3, <2>5, <4>1 DEF SecondLoopInv
      <4> QED
        BY <1>1, <2>5, <3>1, <3>3, <4>1, <4>2 DEF Or
    <3>4. CASE j.driver = None /\ Own(j) # k
      <4>1. j # k /\ (j = Common(k) => k.driver # driver)
        BY <1>1, <2>5, <3>4, OwnFacts
      <4>2. m'[j] = m[j]
        BY <1>3, <4>1
      <4>3. driver # None => (Own(j) \in todo' <=> Own(j) \in todo)
        BY <2>1, <2>3, <3>4
      <4> QED
        BY <1>1, <3>4, <4>2, <4>3 DEF SecondLoopInv
    <3> QED
      BY <3>2, <3>3, <3>4
  <2> QED
    BY <2>4, <2>5
<1> QED
  BY <1>1, <1>2, <1>4, <1>5 DEF TransformInv, PanicInv, Broken, Present
-----------------------------------------------------------------------------
(* The theorems about the transformation.                                  *)

LEMMA StandingInv ==
  ASSUME TransformInv, UNCHANGED <<input, driver, m, todo>>, UNCHANGED loop \/ (loop' = "done" /\ todo = {}),
         loop' = "done" => loop \in {"select", "done"}
  PROVE  TransformInv'
<1>1. \A k \in Keys : /\ Unmarked(input, k)' = Unmarked(input, k) /\ Sources(input, k)' = Sources(input, k)
                       /\ Own(k)' = Own(k)
  BY DEF Unmarked, Sources, Own
<1>2. TransformTypeOK' /\ PanicInv'
  BY DEF TransformInv, TransformTypeOK, PanicInv, Broken, Present
<1>3. FirstLoopInv => FirstLoopInv'
  BY <1>1 DEF FirstLoopInv
<1>4. SecondLoopInv => SecondLoopInv'
  BY <1>1 DEF SecondLoopInv
<1> QED
  BY <1>2, <1>3, <1>4 DEF TransformInv, TransformTypeOK

LEMMA TemplatesInvInit ==
  ASSUME TemplatesInit PROVE TransformInv
<1>1. input \in Inputs /\ m = input /\ driver \in Drivers \cup {None} /\ input \in Config
  BY TransformAssumption DEF TemplatesInit, TransformInit
<1>2. TransformTypeOK
  BY <1>1 DEF TemplatesInit, TransformInit, TransformTypeOK
<1>3. loop = "transform" => FirstLoopInv
  <2>1. ASSUME loop = "transform" PROVE todo = Present(input)
    BY <2>1 DEF TemplatesInit, TransformInit
  <2>2. ASSUME loop = "transform", NEW k \in Keys, k.mark = "none"
        PROVE Sources(input, k) \subseteq todo
    BY <1>1, <2>1, <2>2, SourcesAreKeys, SourceFacts DEF Present
  <2>3. ASSUME loop = "transform", NEW k \in Keys, k.mark # "none", k \notin todo
        PROVE input[k] = Unmarked(input, k)
    BY <2>1, <2>3 DEF Present, Unmarked
  <2> QED
    BY <1>1, <2>2, <2>3 DEF FirstLoopInv
<1>4. PanicInv
  BY DEF TemplatesInit, TransformInit, PanicInv
<1> QED
  BY <1>2, <1>3, <1>4 DEF TemplatesInit, TransformInit, TransformInv

LEMMA TemplatesInvNext ==
  ASSUME TransformInv, [TemplatesNext]_templateVars PROVE TransformInv'
<1>1. CASE UNCHANGED transformVars
  BY <1>1, StandingInv DEF transformVars
<1>2. CASE Finish
  BY <1>2, StandingInv DEF Finish
<1> QED
  BY <1>1, <1>2, TransformKeyInv, SelectKeyInv, RangeAgainInv
     DEF TemplatesNext, templateVars, Build, Transform

\* The inductive invariant of the two loops (common.go:523-600).
THEOREM LoopsInductive == TemplatesSpec => []TransformInv
<1> QED
  BY TemplatesInvInit, TemplatesInvNext, PTL DEF TemplatesSpec

\* Only a text of several pairs becomes a map of the last one.
LEMMA UnmarkedForm ==
  ASSUME NEW c \in Config, OneMark(c), NEW k \in Keys, Unmarked(c, k) # Missing,
         \A j \in Present(c) : c[j].form # "lastPair", SinglePairs(c)
  PROVE  Unmarked(c, k).form # "lastPair"
<1>1. CASE k.mark # "none" \/ Sources(c, k) = {}
  BY <1>1 DEF Unmarked, Present
<1>2. CASE k.mark = "none" /\ Sources(c, k) # {}
  <2>1. PICK j \in Sources(c, k) : TRUE
    BY <1>2
  <2>2. /\ j \in Keys /\ c[j] \in Values /\ Handled(j, c[j]) /\ j \in Present(c)
        /\ Unmarked(c, k) = Outcome(j, c[j]) /\ c[j].form # "lastPair"
    BY <1>2, <2>1, SourcesAreKeys, SourceFacts, OneSource DEF Config, Present
  <2>3. Outcome(j, c[j]) = Missing \/ Outcome(j, c[j]).form # "lastPair"
    <3>1. CASE j.mark = "empty_none"
      BY <3>1 DEF Outcome, Null
    <3>2. CASE j.mark = "csv"
      BY <2>2, <3>2 DEF Outcome, Values
    <3>3. CASE j.mark = "csv_kvs"
      <4>1. c[j].of \notin SeveralTexts
        BY <2>2, <3>3 DEF SinglePairs
      <4> QED
        BY <2>2, <3>3, <4>1 DEF Outcome, PairsOf, Values
    <3>4. CASE j.mark = "string_float"
      BY <2>2, <3>4 DEF Outcome, Values
    <3> QED
      BY <2>2, <3>1, <3>2, <3>3, <3>4 DEF Handled, TextMarks
  <2> QED
    BY <2>2, <2>3
<1> QED
  BY <1>1, <1>2

\* Go's order of the keys does not matter: the loops compute one result, for all
\* drivers, options and configurations, and without a text of several pairs it is what
\* the marks and prefixes mean (common.go:523-600).
THEOREM OrderDoesNotMatter == TemplatesSpec => []ResultIsMeaning
<1>1. TransformInv => ResultIsMeaning
  <2> SUFFICES ASSUME TransformInv, loop = "done", NEW k \in Keys
               PROVE  /\ m[k] = Result(input, driver, k)
                      /\ SinglePairs(input) => m[k] = Meaning(input, driver, k)
    BY DEF ResultIsMeaning, TransformInv, PanicInv
  <2>1. SecondLoopInv /\ todo = {} /\ TransformTypeOK
    BY DEF TransformInv
  <2>2. m[k] = Result(input, driver, k)
    BY <2>1 DEF SecondLoopInv, Result, Own
  <2>3. ASSUME SinglePairs(input), m[k] # Missing
        PROVE  m[k].form # "lastPair"
    <3>1. /\ input \in Config /\ OneMark(input) /\ Own(k) \in Keys
          /\ \A j \in Present(input) : input[j].form # "lastPair"
      BY <2>1, InputFacts, OwnFacts, TransformAssumption DEF TransformTypeOK
    <3>2. m[k] = Unmarked(input, Own(k)) \/ m[k] = Unmarked(input, k)
      BY <2>1, <2>3 DEF SecondLoopInv, Or
    <3> QED
      BY <2>3, <3>1, <3>2, UnmarkedForm
  <2> QED
    BY <2>2, <2>3 DEF Meaning, AllPairs
<1> QED
  BY <1>1, LoopsInductive, PTL

\* What is left of a marked key has a mark that does not apply to its value.
LEMMA LeftoverFacts ==
  ASSUME TransformInv, loop = "done", NEW k \in Keys, m[k] # Missing
  PROVE  k.driver = None /\ (k.mark # "none" => ~ Handled(k, m[k]))
<1>1. SecondLoopInv /\ todo = {} /\ TransformTypeOK
  BY DEF TransformInv
<1>2. k.driver = None
  BY <1>1 DEF SecondLoopInv
<1>3. Own(k) \in Keys /\ Own(k).mark = k.mark
  BY <1>1, OwnFacts
<1>4. m[k] = Unmarked(input, Own(k)) \/ m[k] = Unmarked(input, k)
  BY <1>1, <1>2 DEF SecondLoopInv, Or
<1>5. \A v : Handled(Own(k), v) <=> Handled(k, v)
  BY <1>3 DEF Handled
<1> QED
  BY <1>2, <1>3, <1>4, <1>5 DEF Unmarked

\* Transforming a transformed configuration changes nothing (common.go:492-600).
THEOREM TransformedOnce == TemplatesSpec => []SecondPassChangesNothing
<1>1. TransformInv => SecondPassChangesNothing
  <2> SUFFICES ASSUME TransformInv, loop = "done"
               PROVE ~ Broken(m) /\ \A k \in Keys : Result(m, driver, k) = m[k]
    BY DEF SecondPassChangesNothing
  <2>1. m \in Config /\ TransformTypeOK
    BY DEF TransformInv, TransformTypeOK
  <2>2. ~ Broken(m)
    BY LeftoverFacts DEF Broken, Breaks, Handled, TextMarks, Present
  <2>3. \A k \in Keys : Unmarked(m, k) = m[k]
    <3> TAKE k \in Keys
    <3>1. CASE k.mark # "none"
      BY <3>1, LeftoverFacts DEF Unmarked
    <3>2. CASE k.mark = "none"
      <4>1. Sources(m, k) = {}
        BY <2>1, <3>2, SourcesAreKeys, SourceFacts, LeftoverFacts
      <4> QED
        BY <3>2, <4>1 DEF Unmarked
    <3> QED
      BY <3>1, <3>2
  <2>4. ASSUME NEW k \in Keys PROVE Result(m, driver, k) = m[k]
    <3>1. CASE k.driver # None
      BY <3>1, LeftoverFacts DEF Result
    <3>2. CASE k.driver = None /\ driver = None
      BY <2>3, <3>2 DEF Result
    <3>3. CASE k.driver = None /\ driver # None
      <4>1. Own(k) \in Keys /\ Own(k).driver = driver
        BY <2>1, OwnFacts
      <4>2. Unmarked(m, Own(k)) = Missing
        BY <2>3, <3>3, <4>1, LeftoverFacts
      <4> QED
        BY <2>3, <3>3, <4>2 DEF Result, Own, Or
    <3> QED
      BY <3>1, <3>2, <3>3
  <2> QED
    BY <2>2, <2>4
<1> QED
  BY <1>1, LoopsInductive, PTL
-----------------------------------------------------------------------------
(* The theorems about the templates.                                       *)

\* What an instance can show.
Views == [json : BOOLEAN, driver : Drivers \cup {None}, config : Config]

LEMMA ShownType ==
  ASSUME TransformTypeOK, NEW saved \in BOOLEAN
  PROVE  Shown(saved) \in Views
<1>1. Text(Hidden) \in Values /\ m \in Config
  BY TemplatesAssumption DEF Text, Values, Forms, TransformTypeOK
<1>2. [k \in Keys |-> IF loop = "done" /\ Named(m)[k] # Missing THEN Text(Hidden) ELSE Missing] \in Config
  BY <1>1 DEF Config
<1> QED
  BY <1>1, <1>2 DEF Shown, Views, TransformTypeOK

\* Without the LVM driver's name in the CR's own, filling in the name does not make
\* the configuration mention it.
LEMMA NamedMentions ==
  ASSUME NEW shown \in Views, CrName \notin LvmTexts
  PROVE  MentionsLvm(WithName(shown)) => MentionsLvm(shown)
<1> DEFINE key == [driver |-> None, option |-> NameOption, mark |-> "none"]
           config == shown.config
<1>1. key \in Keys /\ None \notin LvmDrivers /\ config \in Config
  BY TemplatesAssumption, TransformAssumption DEF Keys, Marks, Views
<1>2. \A k \in Keys : Named(config)[k] = config[k] \/ (k = key /\ Named(config)[k] = Text(CrName))
  BY <1>1 DEF Named, SetIfEmpty, Config
<1>3. /\ WithName(shown).json = shown.json /\ WithName(shown).driver = shown.driver
      /\ WithName(shown).config = Named(config)
  BY DEF WithName, Views
<1>4. key.driver = None /\ Text(CrName).of = CrName
  BY DEF Text
<1> HIDE DEF key, config
<1>5. ASSUME NEW k \in Present(Named(config)),
             \/ k.driver \in LvmDrivers
             \/ /\ Named(config)[k].form \in {"text", "list", "pairs", "lastPair"}
                /\ Named(config)[k].of \in LvmTexts
      PROVE  Named(config)[k] = config[k]
  BY <1>1, <1>2, <1>4, <1>5 DEF Present
<1> QED
  BY <1>3, <1>5 DEF MentionsLvm, Present, config

\* Every mount has its volume, for all clusters, drivers and configurations
\* (common.go:218-467).
THEOREM MountsHaveVolumes == TemplatesSpec => []MountsBacked
<1>1. TemplatesInit => MountsBacked
  BY DEF TemplatesInit, MountsBacked, Built
<1>2. TransformInv /\ MountsBacked /\ [TemplatesNext]_templateVars => MountsBacked'
  <2> SUFFICES ASSUME TransformInv, MountsBacked, [TemplatesNext]_templateVars PROVE MountsBacked'
    OBVIOUS
  <2>1. CASE UNCHANGED pods
    BY <2>1 DEF MountsBacked, Built
  <2>2. CASE Build
    <3> SUFFICES ASSUME CrName \notin LvmTexts, NEW mode \in PodModes, NEW c \in DOMAIN pods'.mounts[mode]
                 PROVE pods'.mounts[mode][c] \subseteq pods'.volumes[mode]
      BY DEF MountsBacked, Built
    <3>1. PICK section \in Sections, sysFiles \in BOOLEAN, saved \in BOOLEAN :
            /\ pods'.mounts[mode] = Containers(Shown(saved), mode, section, sysFiles)
            /\ pods'.volumes[mode] = Volumes(Shown(saved), mode, section, sysFiles)
      BY <2>2 DEF Build
    <3> DEFINE shown == Shown(saved)
    <3>2. shown \in Views
      BY ShownType DEF TransformInv
    <3> HIDE DEF shown
    <3>3. MentionsLvm(WithName(shown)) => MentionsLvm(shown)
      BY <3>2, NamedMentions
    <3>4. /\ pods'.mounts[mode] = Containers(shown, mode, section, sysFiles)
          /\ pods'.volumes[mode] = Volumes(shown, mode, section, sysFiles)
      BY <3>1 DEF shown
    <3>5. CASE c = "ember-csi"
      BY <3>3, <3>4, <3>5 DEF Containers, DriverMounts, Volumes
    <3>6. CASE c # "ember-csi"
      <4>1. c \in SidecarsOf(mode, section) /\ pods'.mounts[mode][c] = SidecarMounts(c)
        BY <3>4, <3>6 DEF Containers
      <4>2. c = "node-driver-registrar" => mode = "node" /\ c \in section.sidecars
        BY <4>1 DEF SidecarsOf, ControllerSidecars
      <4> QED
        BY <3>4, <4>1, <4>2 DEF SidecarMounts, Volumes, HostDirs
    <3> QED
      BY <3>5, <3>6
  <2> QED
    BY <2>1, <2>2 DEF TemplatesNext, templateVars
<1> QED
  BY <1>1, <1>2, LoopsInductive, PTL DEF TemplatesSpec

\* The transformation makes up no text.
LEMMA UnmarkedText ==
  ASSUME NEW c \in Config, OneMark(c), NEW k \in Keys, Unmarked(c, k) # Missing,
         \A j \in Present(c) : c[j].of \notin LvmTexts
  PROVE  Unmarked(c, k).of \notin LvmTexts
<1>1. CASE k.mark # "none" \/ Sources(c, k) = {}
  BY <1>1 DEF Unmarked, Present
<1>2. CASE k.mark = "none" /\ Sources(c, k) # {}
  <2>1. PICK j \in Sources(c, k) : TRUE
    BY <1>2
  <2>2. /\ j \in Keys /\ c[j] \in Values /\ Handled(j, c[j]) /\ j \in Present(c)
        /\ Unmarked(c, k) = Outcome(j, c[j])
    BY <1>2, <2>1, SourcesAreKeys, SourceFacts, OneSource DEF Config, Present
  <2>3. Outcome(j, c[j]).of \in {c[j].of, Blank} \/ Outcome(j, c[j]) = Missing
    <3>1. CASE j.mark = "empty_none"
      BY <3>1 DEF Outcome, Null
    <3>2. CASE j.mark = "csv"
      BY <2>2, <3>2 DEF Outcome, Values
    <3>3. CASE j.mark = "csv_kvs"
      BY <2>2, <3>3 DEF Outcome, PairsOf, Values
    <3>4. CASE j.mark = "string_float"
      BY <2>2, <3>4 DEF Outcome, Values
    <3> QED
      BY <2>2, <3>1, <3>2, <3>3, <3>4 DEF Handled, TextMarks
  <2> QED
    BY <2>2, <2>3, TemplatesAssumption
<1> QED
  BY <1>1, <1>2

\* So what is left after the second loop mentions LVM only as the driver.
LEMMA MentionsDriver ==
  ASSUME TransformInv, loop = "done", \A j \in Present(input) : input[j].of \notin LvmTexts
  PROVE  MentionsLvm(Shown(FALSE)) <=> driver \in LvmDrivers
<1>1. TransformTypeOK /\ SecondLoopInv /\ todo = {} /\ None \notin LvmDrivers
  BY TemplatesAssumption, TransformAssumption DEF TransformInv
<1>2. input \in Config /\ OneMark(input)
  BY <1>1, InputFacts
<1>3. ASSUME NEW k \in Present(m)
      PROVE  k.driver = None /\ m[k].of \notin LvmTexts
  <2>1. k \in Keys /\ m[k] # Missing /\ k.driver = None /\ Own(k) \in Keys
    BY <1>1, LeftoverFacts, OwnFacts DEF Present
  <2>2. m[k] = Unmarked(input, Own(k)) \/ m[k] = Unmarked(input, k)
    BY <1>1, <2>1 DEF SecondLoopInv, Or
  <2> QED
    BY <1>2, <2>1, <2>2, UnmarkedText
<1>4. Shown(FALSE).json /\ Shown(FALSE).driver = driver /\ Shown(FALSE).config = m
  BY DEF Shown
<1> QED
  BY <1>1, <1>3, <1>4 DEF MentionsLvm

\* A configuration that was saved shows no text but the hidden one, and no driver.
LEMMA SavedMentionsNothing ==
  ASSUME TransformInv PROVE ~ MentionsLvm(Shown(TRUE))
<1>1. None \notin LvmDrivers /\ Hidden \notin LvmTexts /\ Text(Hidden).of = Hidden
  BY TemplatesAssumption, TransformAssumption DEF Text
<1> DEFINE key == [driver |-> None, option |-> NameOption, mark |-> "none"]
           config == [k \in Keys |-> IF loop = "done" /\ Named(m)[k] # Missing
                                     THEN Text(Hidden) ELSE Missing]
<1>2. Shown(TRUE).driver = None /\ Shown(TRUE).config = config
  BY DEF Shown
<1>3. \A k \in Keys : Named(m)[k] = m[k] \/ k = key
  BY DEF Named, SetIfEmpty, TransformInv, TransformTypeOK, Config
<1>4. key.driver = None
  OBVIOUS
<1>5. \A k \in Present(config) : /\ k \in Keys /\ config[k] = Text(Hidden)
                                /\ loop = "done" /\ Named(m)[k] # Missing
  BY DEF Present
<1> HIDE DEF key, config
<1>6. \A k \in Present(config) : k.driver = None
  BY <1>3, <1>4, <1>5, LeftoverFacts
<1> QED
  BY <1>1, <1>2, <1>5, <1>6 DEF MentionsLvm

\* The LVM directories go with the LVM driver, and an LVM driver with configuration as
\* the user wrote it has them (common.go:250-268, 355-378).
THEOREM LvmForLvmOnly == TemplatesSpec => []LvmAsDriver
<1> DEFINE Settled == Built => loop \in {"done", "unparsed"}
<1>1. TemplatesInit => Settled /\ LvmAsDriver
  BY DEF TemplatesInit, LvmAsDriver, Built
<1>2. TransformInv /\ Settled /\ LvmAsDriver /\ [TemplatesNext]_templateVars => (Settled /\ LvmAsDriver)'
  <2> SUFFICES ASSUME TransformInv, Settled, LvmAsDriver, [TemplatesNext]_templateVars
               PROVE (Settled /\ LvmAsDriver)'
    OBVIOUS
  <2>1. CASE Build
    <3>1. loop \in {"done", "unparsed"} /\ UNCHANGED <<input, driver, m, todo, loop>>
      BY <2>1 DEF Build, transformVars
    <3> DEFINE isLvm == loop = "done" /\ driver \in LvmDrivers
    <3>2. ASSUME \A k \in Present(input) : input[k].of \notin LvmTexts, NEW mode \in PodModes
          PROVE /\ LvmDirs \cap pods'.volumes[mode] # {} => isLvm
                /\ isLvm /\ ~ pods'.saved =>
                     LvmDirs \subseteq pods'.volumes[mode] \cap pods'.mounts[mode]["ember-csi"]
      <4>1. PICK section \in Sections, sysFiles \in BOOLEAN, saved \in BOOLEAN :
              /\ pods'.mounts[mode] = Containers(Shown(saved), mode, section, sysFiles)
              /\ pods'.volumes[mode] = Volumes(Shown(saved), mode, section, sysFiles)
              /\ pods'.saved = saved
        BY <2>1 DEF Build
      <4> DEFINE shown == Shown(saved)
      <4>2. shown \in Views
        BY ShownType DEF TransformInv
      <4>3. MentionsLvm(shown) => isLvm
        BY <3>1, <3>2, MentionsDriver, SavedMentionsNothing DEF MentionsLvm, Shown
      <4>4. isLvm /\ ~ saved => MentionsLvm(shown) /\ MentionsLvm(WithName(shown))
        BY DEF MentionsLvm, Shown, WithName
      <4>5. /\ pods'.mounts[mode]["ember-csi"] = DriverMounts(shown, mode, section, sysFiles)
            /\ pods'.volumes[mode] = Volumes(shown, mode, section, sysFiles)
        BY <4>1 DEF Containers
      <4> HIDE DEF shown
      <4>6. LvmDirs \cap Volumes(shown, mode, section, sysFiles) # {} => MentionsLvm(shown)
        BY DEF Volumes, LvmDirs, HostDirs, NodeDirs, SystemFiles
      <4>7. /\ MentionsLvm(shown) => LvmDirs \subseteq Volumes(shown, mode, section, sysFiles)
            /\ MentionsLvm(WithName(shown)) => LvmDirs \subseteq DriverMounts(shown, mode, section, sysFiles)
        BY DEF Volumes, DriverMounts
      <4> QED
        BY <4>1, <4>3, <4>4, <4>5, <4>6, <4>7
    <3> QED
      BY <3>1, <3>2 DEF LvmAsDriver, Present
  <2>2. CASE UNCHANGED pods /\ (Transform \/ UNCHANGED transformVars)
    <3>1. Built => UNCHANGED <<input, driver, loop>>
      BY <2>2 DEF Transform, TransformKey, SelectKey, RangeAgain, Finish, transformVars
    <3> QED
      BY <2>2, <3>1 DEF LvmAsDriver, Built, Present
  <2> QED
    BY <2>1, <2>2 DEF TemplatesNext, templateVars
<1> QED
  BY <1>1, <1>2, LoopsInductive, PTL DEF TemplatesSpec
-----------------------------------------------------------------------------
(* The loops end.                                                          *)

\* A visit in the first loop takes a marked key out, or a plain one that has nothing
\* inserted.
LEMMA TransformKeyRunsOut ==
  ASSUME NEW k \in todo, todo \subseteq Keys, TransformKey(k), loop' = loop
  PROVE  \/ Pending' \subseteq Pending /\ Pending' # Pending
         \/ Pending' = Pending /\ todo' \subseteq todo /\ todo' # todo
<1>1. loop = "transform" /\ k \in Keys
  BY DEF TransformKey
<1>2. Pending = {j \in todo : j.mark # "none"} /\ Pending' = {j \in todo' : j.mark # "none"}
  BY <1>1 DEF Pending
<1>3. CASE Breaks(k, m[k])
  BY <1>1, <1>3 DEF TransformKey
<1>4. CASE ~ Breaks(k, m[k]) /\ Handled(k, m[k])
  <2>1. k.mark # "none" /\ Bare(k).mark = "none"
    BY <1>1, <1>4, BareFacts DEF Handled, TextMarks
  <2>2. Visited(k, {Bare(k)} \cap Present(m'))
    BY <1>4 DEF TransformKey
  <2>3. todo' \subseteq (todo \ {k}) \cup {Bare(k)} /\ todo \ {k} \subseteq todo'
    BY <2>2, VisitFacts
  <2>4. Pending' = Pending \ {k}
    BY <1>2, <2>1, <2>3
  <2> QED
    BY <1>2, <2>1, <2>4
<1>5. CASE ~ Breaks(k, m[k]) /\ ~ Handled(k, m[k])
  <2>1. todo' = todo \ {k}
    BY <1>5 DEF TransformKey, Visited
  <2> QED
    BY <1>2, <2>1
<1> QED
  BY <1>3, <1>4, <1>5

\* One in the second loop takes a prefixed key out, or one without prefix that is put
\* where it was.
LEMMA SelectKeyRunsOut ==
  ASSUME NEW k \in todo, todo \subseteq Present(m), SelectKey(k)
  PROVE  \/ Pending' \subseteq Pending /\ Pending' # Pending
         \/ Pending' = Pending /\ todo' \subseteq todo /\ todo' # todo
<1>1. loop = "select" /\ loop' = "select" /\ k \in Keys /\ k \in Present(m)
  BY DEF SelectKey, Visited, Present
<1>2. Pending = {j \in todo : j.driver # None} /\ Pending' = {j \in todo' : j.driver # None}
  BY <1>1 DEF Pending
<1>3. Visited(k, {Common(k)} \cap Present(m'))
  BY DEF SelectKey
<1>4. Common(k).driver = None /\ (k.driver = None => Common(k) = k)
  BY <1>1 DEF Common, Keys
<1>5. CASE k.driver = None
  <2>1. ({Common(k)} \cap Present(m')) \ Present(m) = {}
    BY <1>1, <1>4, <1>5
  <2>2. todo' = todo \ {k}
    BY <1>3, <2>1 DEF Visited
  <2> QED
    BY <1>2, <1>5, <2>2
<1>6. CASE k.driver # None
  <2>1. todo' \subseteq (todo \ {k}) \cup {Common(k)} /\ todo \ {k} \subseteq todo'
    BY <1>3, VisitFacts
  <2>2. Pending' = Pending \ {k}
    BY <1>2, <1>4, <1>6, <2>1
  <2> QED
    BY <1>2, <1>6, <2>2
<1> QED
  BY <1>5, <1>6

\* The loops over a map they insert into end (common.go:533-591).
THEOREM LoopsEnd == TemplatesSpec => VisitsRunOut
<1> DEFINE Runs == loop' = loop =>
                     \/ Pending' \subseteq Pending /\ Pending' # Pending
                     \/ Pending' = Pending /\ todo' \subseteq todo /\ todo' # todo
<1>1. TransformInv /\ [TemplatesNext]_templateVars => [Runs]_transformVars
  <2> SUFFICES ASSUME TransformInv, [TemplatesNext]_templateVars PROVE [Runs]_transformVars
    OBVIOUS
  <2>1. todo \subseteq Present(m) /\ todo \subseteq Keys
    BY DEF TransformInv, TransformTypeOK, Present
  <2>2. CASE UNCHANGED transformVars
    BY <2>2
  <2>3. CASE Transform
    <3>1. ASSUME NEW k \in todo, TransformKey(k) PROVE Runs
      BY <2>1, <3>1, TransformKeyRunsOut
    <3>2. ASSUME NEW k \in todo, SelectKey(k) PROVE Runs
      BY <2>1, <3>2, SelectKeyRunsOut
    <3>3. CASE RangeAgain \/ Finish
      BY <3>3 DEF RangeAgain, Finish
    <3> QED
      BY <2>3, <3>1, <3>2, <3>3 DEF Transform
  <2> QED
    BY <2>2, <2>3 DEF TemplatesNext, Build, templateVars
<1> QED
  BY <1>1, LoopsInductive, PTL DEF TemplatesSpec, VisitsRunOut
-----------------------------------------------------------------------------
(* The environment.                                                        *)

LEMMA EnvNames ==
  ASSUME NEW mode \in PodModes, NEW setting \in Setting, NEW sysFiles \in BOOLEAN
  PROVE  LET env == DriverEnv(mode, setting, sysFiles) IN
         /\ "X_CSI_EMBER_CONFIG" \in DOMAIN env <=> setting.ember # NotJson
         /\ "X_CSI_SYSTEM_FILES" \in DOMAIN env <=> sysFiles
         /\ "X_CSI_PERSISTENCE_CONFIG" \in DOMAIN env
BY DEF DriverEnv, GivenNames, Setting, UserVariables

\* Users set the two configurations by their keys, and not as variables.
LEMMA EnvConfigs ==
  ASSUME NEW mode \in PodModes, NEW setting \in Setting, NEW sysFiles \in BOOLEAN
  PROVE  LET env == DriverEnv(mode, setting, sysFiles) IN
         /\ env["X_CSI_PERSISTENCE_CONFIG"] = Filled(setting.persistence, PersistenceKeys)
         /\ setting.ember # NotJson =>
              env["X_CSI_EMBER_CONFIG"] = Filled(setting.ember, EmberDefaults(mode))
<1>1. "X_CSI_PERSISTENCE_CONFIG" \notin setting.variables /\ "X_CSI_EMBER_CONFIG" \notin setting.variables
  BY DEF Setting, UserVariables
<1>2. /\ Given("X_CSI_PERSISTENCE_CONFIG", mode, setting) = Filled(setting.persistence, PersistenceKeys)
      /\ Given("X_CSI_EMBER_CONFIG", mode, setting) = Filled(setting.ember, EmberDefaults(mode))
  BY DEF Given
<1> QED
  BY <1>1, <1>2 DEF DriverEnv, GivenNames

LEMMA PluginName ==
  ASSUME NEW mode, NEW own
  PROVE  LET config == Filled(own, EmberDefaults(mode)) IN
         /\ "plugin_name" \in DOMAIN config
         /\ config["plugin_name"] = IF "plugin_name" \in own THEN "user" ELSE "default"
BY DEF Filled, EmberDefaults

\* Controller and nodes of one CR are plugins of one driver, whatever the user has set
\* of their environment (common.go:36-168, node.go:220-338).
THEOREM PluginsAgree == TemplatesSpec => []PluginsFit
<1>1. TemplatesInit => PluginsFit
  BY DEF TemplatesInit, PluginsFit, Built
<1>2. PluginsFit /\ [TemplatesNext]_templateVars => PluginsFit'
  <2> SUFFICES ASSUME PluginsFit, [TemplatesNext]_templateVars PROVE PluginsFit'
    OBVIOUS
  <2>1. CASE UNCHANGED pods
    BY <2>1 DEF PluginsFit, Built
  <2>2. CASE Build
    <3>1. PICK setting \in Settings, section \in Sections, sysFiles \in BOOLEAN, saved \in BOOLEAN :
            /\ pods'.mounts = [mode \in PodModes |-> Containers(Shown(saved), mode, section, sysFiles)]
            /\ pods'.env = [mode \in PodModes |-> DriverEnv(mode, setting, sysFiles)]
      BY <2>2 DEF Build
    <3>2. setting \in Setting
      BY TemplatesAssumption, Zenon
    <3> DEFINE env == pods'.env
    <3>3. \A mode \in PodModes : env[mode] = DriverEnv(mode, setting, sysFiles)
      BY <3>1
    <3>4. \A mode \in PodModes :
            /\ "X_CSI_EMBER_CONFIG" \in DOMAIN env[mode] <=> setting.ember # NotJson
            /\ "X_CSI_SYSTEM_FILES" \in DOMAIN env[mode] <=> sysFiles
            /\ env[mode]["X_CSI_PERSISTENCE_CONFIG"] = Filled(setting.persistence, PersistenceKeys)
            /\ setting.ember # NotJson =>
                 env[mode]["X_CSI_EMBER_CONFIG"] = Filled(setting.ember, EmberDefaults(mode))
      BY <3>2, <3>3, EnvNames, EnvConfigs
    <3>5. "controller" \in PodModes /\ "node" \in PodModes
      BY DEF PodModes
    <3>6. \A mode \in PodModes : "system-files" \in pods'.mounts[mode]["ember-csi"] <=> sysFiles
      <4> TAKE mode \in PodModes
      <4>1. pods'.mounts[mode]["ember-csi"] = DriverMounts(Shown(saved), mode, section, sysFiles)
        BY <3>1 DEF Containers
      <4> QED
        BY <4>1 DEF DriverMounts, HostDirs, LvmDirs, NodeDirs, SystemFiles
    <3>7. ASSUME setting.ember # NotJson
          PROVE  \E own \in {"user", "default"} : \A mode \in PodModes :
                   LET config == env[mode]["X_CSI_EMBER_CONFIG"]
                   IN "plugin_name" \in DOMAIN config /\ config["plugin_name"] = own
      BY <3>4, <3>7, PluginName
    <3> QED
      BY <3>4, <3>5, <3>6, <3>7 DEF PluginsFit
  <2> QED
    BY <2>1, <2>2 DEF TemplatesNext, templateVars
<1> QED
  BY <1>1, <1>2, PTL DEF TemplatesSpec
=============================================================================
