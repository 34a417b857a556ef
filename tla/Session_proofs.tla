--------------------------- MODULE Session_proofs ---------------------------
(* Theorems about the run of the program, and about the parser of its command line. *)
EXTENDS Session, Recursion

\* Without a connection nothing is found, and the loop asks for an inventory.
FoundByConnection ==
  /\ pc \in {"parse", "connect"} => inventory = <<>>
  /\ pc = "scan" => connected
  /\ ~connected => inventory = <<>>
  /\ PollsOnlyConnected

(* The loop of main never polls without a connection, whatever -I says           *)
(* (main.cpp:120): for every register map, command line and garbage in rtuId.    *)
THEOREM IgnoringChangesNothing == Spec => []PollsOnlyConnected
<1>1. Init => FoundByConnection
  BY DEF Init, FoundByConnection, PollsOnlyConnected
<1>2. FoundByConnection /\ [Next]_vars => FoundByConnection'
  <2> SUFFICES ASSUME FoundByConnection, [Next]_vars
               PROVE  FoundByConnection'
    OBVIOUS
  <2> USE DEF FoundByConnection, PollsOnlyConnected, config, dtu, work, End
  <2>0. CASE ParseArgument \/ ParseThrows \/ ParseReturns
    BY <2>0 DEF ParseArgument, ParseThrows, ParseReturns
  <2>1. CASE ConnectSucceeds \/ ConnectFails \/ ConnectCrashes
    BY <2>1 DEF ConnectSucceeds, ConnectFails, ConnectCrashes
  <2>2. CASE Scan \/ Aborts
    <3>1. CASE Scan
      <4>1. connected /\ connected' = connected /\ pc' = "loop"
        BY <3>1 DEF Scan
      <4> QED
        BY <4>1
    <3>2. CASE Aborts
      BY <3>2 DEF Aborts
    <3> QED
      BY <2>2, <3>1, <3>2
  <2>3. CASE LoopAgain
    BY <2>3 DEF LoopAgain, KeepsPolling
  <2>4. CASE LoopEnds \/ Update \/ Show
    BY <2>4 DEF LoopEnds, Update, Show
  <2>5. CASE List \/ WriteOne \/ MainReturns
    BY <2>5 DEF List, WriteOne, MainReturns
  <2>6. CASE Signal
    BY <2>6 DEF Signal
  <2>7. CASE UNCHANGED vars
    BY <2>7 DEF vars
  <2> QED
    BY <2>0, <2>1, <2>2, <2>3, <2>4, <2>5, <2>6, <2>7 DEF Next, Step
<1>3. FoundByConnection => PollsOnlyConnected
  BY DEF FoundByConnection
<1> QED
  BY <1>1, <1>2, <1>3, PTL DEF Spec
-----------------------------------------------------------------------------
\* What main knows of the transport was on the command line, with all it needs.
FromTheLine ==
  /\ opts.rtu => Given(parse, "r")
  /\ opts.tcp => Given(parse, "t")
  /\ NeedsMet(parse)

\* A line that was accepted, and a connection over one of its transports.
AcceptedByNow ==
  /\ pc = "parse" => ~connected
  /\ pc = "connect" => ~connected /\ FromTheLine
  /\ connected => FromTheLine /\ (opts.rtu \/ opts.tcp)

(* A connection is only made over a transport that was given completely: the chain of  *)
(* needs in main (main.cpp:34,38,46) ends at -a and -d, or at -i, for every line.    *)
THEOREM TransportComplete == Spec => []TransportGiven
<1>1. Init => AcceptedByNow
  BY DEF Init, AcceptedByNow
<1>2. AcceptedByNow /\ [Next]_vars => AcceptedByNow'
  <2> SUFFICES ASSUME AcceptedByNow, [Next]_vars
               PROVE  AcceptedByNow'
    OBVIOUS
  <2>1. CASE ParseArgument
    BY <2>1 DEF ParseArgument, AcceptedByNow, dtu
  <2>2. CASE ParseReturns
    <3>1. pc = "parse" /\ connected' = connected /\ pc' = "connect" /\ parse' = parse
      BY <2>2 DEF ParseReturns, dtu
    <3>2. opts'.rtu = FlagSet(parse, "r") /\ opts'.tcp = FlagSet(parse, "t") /\ NeedsMet(parse)
      BY <2>2 DEF ParseReturns, Accepted
    <3>3. FromTheLine'
      BY <3>1, <3>2 DEF FromTheLine, FlagSet
    <3> QED
      BY <3>1, <3>3 DEF AcceptedByNow
  <2>3. CASE ~ParseArgument /\ ~ParseReturns
    <3>1. opts' = opts /\ parse' = parse
      BY <2>3 DEF Next, Step, ParseThrows, ConnectSucceeds, ConnectFails, ConnectCrashes, Scan,
         Aborts, LoopAgain, LoopEnds, Update, Show, List, WriteOne, MainReturns, Signal,
         config, vars, End
    <3>2. FromTheLine' = FromTheLine
      BY <3>1 DEF FromTheLine
    <3>3. CASE ConnectSucceeds
      BY <3>1, <3>2, <3>3 DEF ConnectSucceeds, AcceptedByNow
    <3>4. CASE ~ConnectSucceeds
      <4> DEFINE Leaves == \/ connected' = FALSE /\ pc' \notin {"parse", "connect"}
                           \/ /\ connected' = connected
                              /\ pc' \notin {"parse", "connect"} \/ pc' = pc
      <4>1. Leaves
        <5>1. CASE ParseThrows \/ ConnectFails \/ ConnectCrashes
          BY <5>1 DEF ParseThrows, ConnectFails, ConnectCrashes, dtu, End
        <5>2. CASE Scan \/ Aborts \/ Signal
          BY <5>2 DEF Scan, Aborts, Signal, dtu, End
        <5>3. CASE LoopAgain \/ LoopEnds \/ Update \/ Show
          BY <5>3 DEF LoopAgain, LoopEnds, Update, Show, dtu
        <5>4. CASE List \/ MainReturns
          BY <5>4 DEF List, MainReturns, dtu, End
        <5>5. CASE WriteOne
          BY <5>5 DEF WriteOne, dtu
        <5>6. CASE UNCHANGED vars
          BY <5>6 DEF vars
        <5> QED
          BY <2>3, <3>4, <5>1, <5>2, <5>3, <5>4, <5>5, <5>6 DEF Next, Step
      <4> QED
        BY <3>1, <3>2, <4>1 DEF AcceptedByNow
    <3> QED
      BY <3>3, <3>4
  <2> QED
    BY <2>1, <2>2, <2>3
<1>3. AcceptedByNow => TransportGiven
  <2>1. NeedsMet(parse) => /\ Given(parse, "r") => Given(parse, "d")
                           /\ Given(parse, "d") => Given(parse, "a")
                           /\ Given(parse, "t") => Given(parse, "i")
    BY DEF NeedsMet, Needs
  <2> QED
    BY <2>1 DEF AcceptedByNow, FromTheLine, TransportGiven
<1> QED
  BY <1>1, <1>2, <1>3, PTL DEF Spec
-----------------------------------------------------------------------------
\* What an argument looks like.
LEMMA ArgumentParts ==
  ASSUME NEW arg \in Arguments
  PROVE  /\ arg.text \in Seq(STRING)
         /\ arg.form \in {"long", "short"} => arg.text # <<>>
<1>1. CASE arg \in [form : {"word"}, text : Seq(STRING)]
  BY <1>1
<1>2. CASE arg \in [form : {"long", "short"}, text : Seq(STRING) \ {<<>>}]
  BY <1>2
<1>3. CASE arg \in [form : {"mark"}, text : {<<>>}]
  <2>1. arg.form = "mark" /\ arg.text = <<>> /\ <<>> \in Seq(STRING)
    BY <1>3
  <2> QED
    BY <2>1
<1> QED
  BY <1>1, <1>2, <1>3 DEF Arguments

\* What is cut out of the command line is an argument.
LEMMA WordsAreArguments ==
  /\ \A text \in Seq(STRING) : Word(text) \in Arguments
  /\ \A text \in Seq(STRING) : text # <<>> => [form |-> "short", text |-> text] \in Arguments
  /\ TrueString \in Arguments
<1>1. \A text \in Seq(STRING) : Word(text) \in Arguments
  BY DEF Word, Arguments
<1>2. \A text \in Seq(STRING) : text # <<>> => [form |-> "short", text |-> text] \in Arguments
  BY DEF Arguments
<1>3. <<"true">> \in Seq(STRING)
  <2>1. "true" \in STRING
    BY WordsAssumption
  <2> QED
    BY <2>1
<1> QED
  BY <1>1, <1>2, <1>3 DEF TrueString

\* What an argument is for an option.
LEMMA ResultsType ==
  ASSUME NEW o, NEW value \in Arguments
  PROVE  ResultsOf(o, value) \in Seq(Arguments)
<1>1. value.text \in Seq(STRING)
  BY ArgumentParts
<1>2. \A i \in DOMAIN value.text : Word(<<value.text[i]>>) \in Arguments
  <2>1. \A i \in DOMAIN value.text : <<value.text[i]>> \in Seq(STRING)
    BY <1>1
  <2> QED
    BY <2>1, WordsAreArguments
<1>3. [i \in DOMAIN value.text |-> Word(<<value.text[i]>>)] \in Seq(Arguments)
  <2>1. DOMAIN value.text = 1 .. Len(value.text) /\ Len(value.text) \in Nat
    BY <1>1
  <2> QED
    BY <1>2, <2>1
<1> QED
  BY <1>3 DEF ResultsOf

\* The results of an option's values are arguments.
LEMMA CollectedType ==
  ASSUME NEW o, NEW args \in Seq(Arguments), NEW n \in 0 .. Len(args)
  PROVE  Collected(o, args, n) \in Seq(Arguments)
<1> DEFINE parts == [i \in 1 .. n |-> ResultsOf(o, args[i])]
<1>1. \A i \in 1 .. n : args[i] \in Arguments
  OBVIOUS
<1>2. \A i \in 1 .. n : ResultsOf(o, args[i]) \in Seq(Arguments)
  BY <1>1, ResultsType
<1>3. parts \in Seq(Seq(Arguments))
  BY <1>2
<1> HIDE DEF parts
<1>4. FlattenSeq(parts) \in Seq(Arguments)
  BY <1>3, FlattenType
<1> QED
  BY <1>4 DEF Collected, parts

\* The longest beginning of wanted members: there is one.
LEMMA WhileAllIs ==
  ASSUME NEW S, NEW s \in Seq(S), NEW wanted
  PROVE  /\ WhileAll(s, wanted) \in 0 .. Len(s)
         /\ \A i \in 1 .. WhileAll(s, wanted) : s[i] \in wanted
         /\ WhileAll(s, wanted) < Len(s) => s[WhileAll(s, wanted) + 1] \notin wanted
<1> DEFINE Ends == {n \in 0 .. Len(s) : n < Len(s) => s[n + 1] \notin wanted}
<1>1. Len(s) \in Ends /\ Ends \in SUBSET Nat
  OBVIOUS
<1>2. PICK n \in Ends : \A m \in Ends : n <= m
  <2> HIDE DEF Ends
  <2> QED
    BY <1>1, LeastNatural
<1>3. \A i \in 1 .. n : s[i] \in wanted
  <2> SUFFICES ASSUME NEW i \in 1 .. n, s[i] \notin wanted
               PROVE  FALSE
    OBVIOUS
  <2>1. i - 1 \in Ends
    BY <1>2
  <2> QED
    BY <1>2, <2>1
<1>4. \E k \in 0 .. Len(s) : /\ \A i \in 1 .. k : s[i] \in wanted
                             /\ k < Len(s) => s[k + 1] \notin wanted
  BY <1>2, <1>3
<1> QED
  BY <1>4 DEF WhileAll

\* An argument that names an option has its name.
LEMMA NamedHasName ==
  ASSUME NEW arg \in Arguments, NEW o \in Named(arg)
  PROVE  /\ o \in OptionNames
         /\ Tail(arg.text) \in Seq(STRING)
<1>1. arg.form \in {"short", "long"} /\ o \in OptionNames
  BY DEF Named, HasName
<1>2. arg.text \in Seq(STRING) /\ arg.text # <<>>
  BY <1>1, ArgumentParts
<1>3. \A s \in Seq(STRING) : s # <<>> => Tail(s) \in Seq(STRING)
  OBVIOUS
<1> QED
  BY <1>1, <1>2, <1>3

\* Taking a flag leaves a parse.
LEMMA ParseFlagType ==
  ASSUME NEW p \in Parses, p.args # <<>>, NEW o \in Named(Head(p.args))
  PROVE  ParseFlag(p, o) \in Parses
<1> DEFINE given == Tail(Head(p.args).text)
           isLong == Head(p.args).form = "long"
           result == IF isLong /\ given # <<>> THEN Word(given) ELSE TrueString
           left == IF isLong \/ given = <<>> THEN Tail(p.args)
                   ELSE <<[form |-> "short", text |-> given]>> \o Tail(p.args)
<1>1. /\ p.args \in Seq(Arguments) /\ p.results \in [OptionNames -> Seq(Arguments)]
      /\ p.positionalOnly \in BOOLEAN /\ p.missing \in Seq(Arguments) /\ p.error \in BOOLEAN
  BY DEF Parses
<1>2. Head(p.args) \in Arguments /\ Tail(p.args) \in Seq(Arguments)
  BY <1>1
<1>3. o \in OptionNames /\ given \in Seq(STRING)
  BY <1>2, NamedHasName
<1>4. result \in Arguments
  <2> HIDE DEF given, isLong
  <2> QED
    BY <1>3, WordsAreArguments
<1>5. left \in Seq(Arguments)
  <2> HIDE DEF given, isLong
  <2>1. given # <<>> => <<[form |-> "short", text |-> given]>> \in Seq(Arguments)
    BY <1>3, WordsAreArguments
  <2> QED
    BY <1>2, <2>1
<1>6. ParseFlag(p, o) = [p EXCEPT !.results[o] = Append(@, result), !.args = left]
  BY DEF ParseFlag
<1> HIDE DEF result, left, given, isLong
<1> DEFINE more == Append(p.results[o], result)
<1>7. more \in Seq(Arguments)
  BY <1>1, <1>3, <1>4
<1>8. ParseFlag(p, o) = [p EXCEPT !.results[o] = more, !.args = left]
  BY <1>6
<1> HIDE DEF more
<1>9. [p.results EXCEPT ![o] = more] \in [OptionNames -> Seq(Arguments)]
  BY <1>1, <1>3, <1>7
<1>10. [p EXCEPT !.results = [p.results EXCEPT ![o] = more], !.args = left] \in Parses
  BY <1>5, <1>9 DEF Parses
<1> QED
  BY <1>8, <1>10

\* Taking an option with its values leaves a parse.
LEMMA ParseValueType ==
  ASSUME NEW p \in Parses, p.args # <<>>, NEW o \in Named(Head(p.args))
  PROVE  ParseValue(p, o) \in Parses
<1> DEFINE given == Tail(Head(p.args).text)
           attached == IF given = <<>> THEN <<>> ELSE ResultsOf(o, Word(given))
           rest == Tail(p.args)
           empty == WhileAll(rest, {a \in ToSet(rest) : ResultsOf(o, a) = <<>>})
           least == IF attached = <<>> THEN empty + 1 ELSE 0
           behind == SubSeq(rest, least + 1, Len(rest))
           words == WhileAll(behind, {a \in ToSet(rest) : IsWord(a)})
           taken == IF o \in Lists THEN least + words ELSE least
           ends == o \in Lists /\ taken < Len(rest) /\ rest[taken + 1].form = "mark"
           left == SubSeq(rest, IF ends THEN taken + 2 ELSE taken + 1, Len(rest))
           more == p.results[o] \o attached \o Collected(o, rest, taken)
<1>1. /\ p.args \in Seq(Arguments) /\ p.results \in [OptionNames -> Seq(Arguments)]
      /\ p.positionalOnly \in BOOLEAN /\ p.missing \in Seq(Arguments) /\ p.error \in BOOLEAN
  BY DEF Parses
<1>2. Head(p.args) \in Arguments /\ rest \in Seq(Arguments) /\ Len(rest) \in Nat
  BY <1>1
<1>3. o \in OptionNames /\ given \in Seq(STRING)
  BY <1>2, NamedHasName
<1>4. attached \in Seq(Arguments)
  <2> HIDE DEF given
  <2>1. Word(given) \in Arguments
    BY <1>3, WordsAreArguments
  <2>2. ResultsOf(o, Word(given)) \in Seq(Arguments)
    BY <2>1, ResultsType
  <2>3. <<>> \in Seq(Arguments)
    OBVIOUS
  <2> QED
    BY <2>2, <2>3
<1>5. empty \in 0 .. Len(rest)
  <2> HIDE DEF rest
  <2> QED
    BY <1>2, WhileAllIs
<1>6. least \in Nat
  BY <1>2, <1>5
<1>7. ParseValue(p, o) = IF least > Len(rest) THEN [p EXCEPT !.error = TRUE]
                         ELSE [p EXCEPT !.args = left, !.results[o] = more]
  BY DEF ParseValue
<1>8. CASE least > Len(rest)
  <2>1. ParseValue(p, o) = [p EXCEPT !.error = TRUE]
    BY <1>7, <1>8, Zenon
  <2> QED
    BY <1>1, <2>1 DEF Parses
<1>9. CASE ~(least > Len(rest))
  <2> HIDE DEF given, attached, rest, empty, least
  <2>1. behind \in Seq(Arguments) /\ Len(behind) = Len(rest) - least
    BY <1>2, <1>6, <1>9
  <2>2. words \in 0 .. Len(rest) - least
    <3> HIDE DEF behind
    <3> QED
      BY <2>1, WhileAllIs
  <2> HIDE DEF behind, words
  <2>3. taken \in 0 .. Len(rest)
    BY <1>2, <1>6, <1>9, <2>2
  <2> HIDE DEF taken
  <2>4. Collected(o, rest, taken) \in Seq(Arguments)
    BY <1>2, <2>3, CollectedType
  <2>5. left \in Seq(Arguments)
    <3> DEFINE from == IF ends THEN taken + 2 ELSE taken + 1
    <3>1. from \in Nat /\ from >= 1
      BY <2>3
    <3> HIDE DEF from
    <3>2. SubSeq(rest, from, Len(rest)) \in Seq(Arguments)
      BY <1>2, <3>1
    <3> QED
      BY <3>2 DEF from
  <2>6. more \in Seq(Arguments)
    <3>1. p.results[o] \in Seq(Arguments)
      BY <1>1, <1>3
    <3> QED
      BY <1>4, <2>4, <3>1
  <2> HIDE DEF left, more
  <2>7. ParseValue(p, o) = [p EXCEPT !.args = left, !.results[o] = more]
    BY <1>7, <1>9, Zenon
  <2>8. [p.results EXCEPT ![o] = more] \in [OptionNames -> Seq(Arguments)]
    BY <1>1, <1>3, <2>6
  <2>9. [p EXCEPT !.args = left, !.results = [p.results EXCEPT ![o] = more]] \in Parses
    BY <2>5, <2>8 DEF Parses
  <2> QED
    BY <2>7, <2>9
<1> QED
  BY <1>8, <1>9

(* One step of the parser leads from one of its states to another.                    *)
LEMMA ParsesKept ==
  ASSUME NEW p \in Parses, InProgress(p)
  PROVE  ParseSingle(p) \in Parses
<1> DEFINE named == IF p.positionalOnly THEN {} ELSE Named(Head(p.args))
           o == CHOOSE n \in named : TRUE
<1>1. p.args # <<>>
  BY DEF InProgress
<1>2. CASE named = {}
  <2>1. ParseSingle(p) = MoveToMissing(p)
    BY <1>2 DEF ParseSingle
  <2>2. /\ p.args \in Seq(Arguments) /\ p.results \in [OptionNames -> Seq(Arguments)]
        /\ p.positionalOnly \in BOOLEAN /\ p.missing \in Seq(Arguments) /\ p.error \in BOOLEAN
    BY DEF Parses
  <2>3. Head(p.args) \in Arguments /\ Tail(p.args) \in Seq(Arguments)
    BY <1>1, <2>2
  <2>4. Append(p.missing, Head(p.args)) \in Seq(Arguments)
    BY <2>2, <2>3
  <2>5. (p.positionalOnly \/ Head(p.args).form = "mark") \in BOOLEAN
    BY <2>2
  <2> QED
    BY <2>1, <2>2, <2>3, <2>4, <2>5 DEF MoveToMissing, Parses
<1>3. CASE named # {}
  <2>1. o \in Named(Head(p.args))
    BY <1>3
  <2>2. ParseSingle(p) = IF o \in Flags THEN ParseFlag(p, o) ELSE ParseValue(p, o)
    BY <1>3 DEF ParseSingle
  <2> HIDE DEF o
  <2>3. ParseFlag(p, o) \in Parses
    BY <1>1, <2>1, ParseFlagType
  <2>4. ParseValue(p, o) \in Parses
    BY <1>1, <2>1, ParseValueType
  <2> QED
    BY <2>2, <2>3, <2>4
<1> QED
  BY <1>2, <1>3
-----------------------------------------------------------------------------
\* The inventory is made of what the slots hold, and each member of it has a slot.
LEMMA InventoryType ==
  ASSUME NEW S, layout \in Seq(S), NEW slots \in 0 .. Len(layout)
  PROVE  InventoryOf(slots) \in Seq(ToSet(layout))
<1> DEFINE D == 1 .. slots
           all == [slot \in D |-> slot]
           wanted == {slot \in D : IsFirst(slot)}
           firsts == Selected(all, wanted)
<1>1. all \in Seq(D)
  OBVIOUS
<1>2. firsts \in Seq(D)
  <2> HIDE DEF all, D, wanted
  <2> QED
    BY <1>1, SelectedMembers
<1>3. \A slot \in D : layout[slot] \in ToSet(layout)
  <2>1. D \subseteq DOMAIN layout
    OBVIOUS
  <2> QED
    BY <2>1 DEF ToSet
<1> HIDE DEF D, firsts
<1>4. \A i \in 1 .. Len(firsts) : layout[firsts[i]] \in ToSet(layout)
  BY <1>2, <1>3
<1>5. DOMAIN firsts = 1 .. Len(firsts) /\ Len(firsts) \in Nat
  BY <1>2
<1>6. [i \in DOMAIN firsts |-> layout[firsts[i]]] \in Seq(ToSet(layout))
  BY <1>4, <1>5
<1>7. InventoryOf(slots) = [i \in DOMAIN firsts |-> layout[firsts[i]]]
  BY DEF InventoryOf, firsts, D
<1> QED
  BY <1>6, <1>7

\* A microinverter of the layout has its slot in it.
LEMMA StartSlotType ==
  ASSUME NEW S, layout \in Seq(S), NEW m \in ToSet(layout)
  PROVE  StartSlot(m) \in 2 .. Len(layout) + 1
<1> DEFINE Slots == {slot \in DOMAIN layout : layout[slot] = m}
<1>1. DOMAIN layout = 1 .. Len(layout) /\ Len(layout) \in Nat
  OBVIOUS
<1>2. Slots \in SUBSET Nat /\ Slots # {}
  BY <1>1 DEF ToSet
<1>3. PICK first \in Slots : \A slot \in Slots : first <= slot
  <2> HIDE DEF Slots
  <2> QED
    BY <1>2, LeastNatural
<1>4. IsFirst(first)
  <2> SUFFICES ASSUME NEW other \in 1 .. first - 1, layout[other] = m
               PROVE  FALSE
    BY <1>3 DEF IsFirst
  <2>1. other \in Slots /\ other < first
    BY <1>1, <1>3
  <2> QED
    BY <1>1, <1>3, <2>1
<1>5. \E slot \in DOMAIN layout : layout[slot] = m /\ IsFirst(slot)
  BY <1>3, <1>4
<1>6. FirstSlot(m) \in DOMAIN layout
  BY <1>5 DEF FirstSlot
<1> QED
  BY <1>1, <1>6 DEF StartSlot

\* The sequence of the options, without their names.
LEMMA OptionsInOrder ==
  /\ OptionOrder \in Seq(OptionNames)
  /\ "a" \in OptionNames /\ "m" \in OptionNames
<1>1. Len(OptionOrder) = 19 /\ DOMAIN OptionOrder = 1 .. 19
  BY SMT DEF OptionOrder
<1>2. OptionOrder[3] = "a" /\ OptionOrder[13] = "m"
  BY SMT DEF OptionOrder
<1>3. OptionOrder = [i \in 1 .. 19 |-> OptionOrder[i]]
  BY SMT DEF OptionOrder
<1> HIDE DEF OptionOrder
<1>4. \A i \in 1 .. 19 : OptionOrder[i] \in OptionNames
  BY <1>1 DEF OptionNames, ToSet
<1>5. [i \in 1 .. 19 |-> OptionOrder[i]] \in Seq(OptionNames)
  BY <1>4
<1>6. "a" \in OptionNames /\ "m" \in OptionNames
  BY <1>1, <1>2, <1>4
<1> QED
  BY <1>3, <1>5, <1>6

(* Every option of a line that was accepted has values of its type.                   *)
LEMMA AcceptedConverts ==
  ASSUME NEW p \in Parses, Accepted(p), NEW o \in OptionNames, Given(p, o)
  PROVE  ~TooMany(p, o) /\ AllConvert(o, Reduced(p, o))
<1> DEFINE throwing == {n \in OptionNames : Given(p, n) /\ Callback(p, n) # "none"}
<1>1. OptionOrder \in Seq(OptionNames)
  BY OptionsInOrder
<1>2. ToSet(Selected(OptionOrder, throwing)) = ToSet(OptionOrder) \cap throwing
  <2> HIDE DEF throwing
  <2> QED
    BY <1>1, SelectedMembers
<1>3. Selected(OptionOrder, throwing) = <<>>
  BY DEF Accepted, Throwing
<1>4. ToSet(<<>>) = {}
  BY DEF ToSet
<1>5. o \notin throwing
  BY <1>2, <1>3, <1>4 DEF OptionNames
<1>6. Callback(p, o) = "none"
  BY <1>5
<1> QED
  BY <1>6 DEF Callback

\* A value that was accepted as an integer is one.
LEMMA IntegersAreInt ==
  ASSUME NEW value, NEW values, NumberIn(values, value) \/ value = TrueString
  PROVE  IntegerOf(value) \in Int
<1>1. CASE value = TrueString
  BY <1>1 DEF IntegerOf
<1>2. CASE value # TrueString
  BY <1>2, WordsAssumption DEF IntegerOf, NumberIn
<1> QED
  BY <1>1, <1>2

\* The integers of an accepted command line are integers.
LEMMA AcceptedIntegers ==
  ASSUME NEW p \in Parses, Accepted(p)
  PROVE  /\ Given(p, "a") => IntegerOf(Head(p.results["a"])) \in Int
         /\ [i \in DOMAIN p.results["m"] |-> IntegerOf(p.results["m"][i])] \in Seq(Int)
<1>1. "a" \in OptionNames /\ "m" \in OptionNames
  BY OptionsInOrder
<1>2. p.results["a"] \in Seq(Arguments) /\ p.results["m"] \in Seq(Arguments)
  BY <1>1 DEF Parses
<1>3. "a" \notin Flags /\ "m" \notin Flags
  BY DEF Flags
<1>4. ASSUME Given(p, "a")
      PROVE  IntegerOf(Head(p.results["a"])) \in Int
  <2>1. AllConvert("a", p.results["a"])
    BY <1>1, <1>3, <1>4, AcceptedConverts DEF Reduced
  <2>2. 1 \in DOMAIN p.results["a"] /\ Head(p.results["a"]) = p.results["a"][1]
    BY <1>2, <1>4 DEF Given
  <2>3. ConvertsToSigned(Int32, Head(p.results["a"]))
    BY <1>3, <2>1, <2>2 DEF AllConvert, Converts
  <2> QED
    BY <2>3, IntegersAreInt DEF ConvertsToSigned
<1>5. \A i \in DOMAIN p.results["m"] : IntegerOf(p.results["m"][i]) \in Int
  <2> SUFFICES ASSUME NEW i \in DOMAIN p.results["m"]
               PROVE  IntegerOf(p.results["m"][i]) \in Int
    OBVIOUS
  <2>1. Given(p, "m")
    BY <1>2 DEF Given
  <2>2. AllConvert("m", p.results["m"])
    BY <1>1, <1>3, <2>1, AcceptedConverts DEF Reduced
  <2>3. ConvertsToSigned(Int, p.results["m"][i])
    BY <1>3, <2>2 DEF AllConvert, Converts
  <2> QED
    BY <2>3, IntegersAreInt DEF ConvertsToSigned
<1>6. DOMAIN p.results["m"] = 1 .. Len(p.results["m"]) /\ Len(p.results["m"]) \in Nat
  BY <1>2
<1> QED
  BY <1>4, <1>5, <1>6
-----------------------------------------------------------------------------
\* Before the writing nothing has been written, and nothing is found before the scan.
Progress ==
  /\ pc \notin {"write", "exit"} => at = 1 /\ attempts = <<>> /\ touched = {}
  /\ pc = "parse" => inventory = <<>>
  /\ ending = "none" <=> pc # "exit"

TypeInv == TypeOK /\ inventory \in Seq(ToSet(layout)) /\ Progress

\* The serial numbers that slots hold are serial numbers.
LEMMA LayoutType ==
  ASSUME TypeInv
  PROVE  layout \in Seq(Serials) /\ ToSet(layout) \subseteq Serials /\ Serials \subseteq Int
<1>1. layout \in Seq(Serials)
  <2>1. CASE layout = <<>>
    BY <2>1
  <2>2. CASE layout \in Layouts
    BY <2>2, SerialsAssumption
  <2> QED
    BY <2>1, <2>2 DEF TypeInv, TypeOK
<1>2. \A i \in DOMAIN layout : layout[i] \in Serials
  BY <1>1
<1> QED
  BY <1>1, <1>2, SerialsAssumption DEF ToSet

\* What is written to is in the inventory, and has a slot.
LEMMA TargetsAreThere ==
  ASSUME TypeInv, NEW m \in Writable
  PROVE  m \in ToSet(layout) /\ m \in Serials /\ StartSlot(m) \in 2 .. Len(layout) + 1
<1>1. inventory \in Seq(ToSet(layout)) /\ m \in ToSet(inventory)
  BY DEF TypeInv, Writable
<1>2. m \in ToSet(layout)
  BY <1>1 DEF ToSet
<1> QED
  BY <1>2, LayoutType, StartSlotType

\* The types hold at the start,
LEMMA TypeInit == Init => TypeInv
<1> SUFFICES ASSUME Init PROVE TypeInv
  OBVIOUS
<1>1. parse \in Parses
  <2>1. PICK line \in Lines : parse = Start(line)
    BY DEF Init
  <2>2. line \in Seq(Arguments)
    BY LinesAssumption
  <2>3. <<>> \in Seq(Arguments)
    OBVIOUS
  <2> QED
    BY <2>1, <2>2, <2>3 DEF Start, Parses
<1>2. Unset \in Options
  BY DEF Unset, Options
<1>3. \A S : <<>> \in Seq(S)
  OBVIOUS
<1>4. opts \in Options /\ parse \in Parses
  BY <1>1, <1>2 DEF Init
<1>5. inventory \in Seq(Serials) /\ inventory \in Seq(ToSet(layout)) /\ attempts \in Seq(Serials)
  BY <1>3 DEF Init
<1>6. chosen \in Seq(Int) /\ Len(chosen) = 0 /\ at \in 1 .. Len(chosen) + 1
  BY <1>3 DEF Init
<1>7. /\ layout \in Layouts \cup {<<>>} /\ rtuId \in Garbage \cup {-1}
      /\ connected \in BOOLEAN /\ slave \in {-1, TcpSlave} \cup 0 .. 247
      /\ touched \subseteq 2 .. Len(layout) + 1
  BY DEF Init
<1>8. pc = "parse" /\ ending = "none" /\ Progress
  BY DEF Init, Progress
<1> QED
  BY <1>4, <1>5, <1>6, <1>7, <1>8 DEF TypeInv, TypeOK

\* The slave address that a connection starts with.
LEMMA SlaveType == ASSUME TypeInv PROVE SlaveForScan \in {-1, TcpSlave} \cup 0 .. 247
<1>1. ASSUME NEW current \in {-1, TcpSlave} \cup 0 .. 247, NEW id
      PROVE  WithSlave(current, id) \in {-1, TcpSlave} \cup 0 .. 247
  BY DEF WithSlave
<1> DEFINE given == IF opts.rtu THEN WithSlave(-1, opts.address) ELSE TcpSlave
<1>2. given \in {-1, TcpSlave} \cup 0 .. 247
  BY <1>1
<1>3. SlaveForScan = IF rtuId # -1 THEN WithSlave(given, rtuId) ELSE given
  BY DEF SlaveForScan
<1> HIDE DEF given
<1> QED
  BY <1>1, <1>2, <1>3

\* What a choice is filled in with.
LEMMA ChosenNowType == ASSUME TypeInv PROVE ChosenNow \in Seq(Int)
<1>1. ToSet(layout) \subseteq Int
  BY LayoutType
<1>2. inventory \in Seq(Int)
  BY <1>1, WiderSeq DEF TypeInv
<1> QED
  BY <1>2 DEF ChosenNow, TypeInv, TypeOK

\* through every step,
LEMMA TypeStep == ASSUME TypeInv, [Next]_vars PROVE TypeInv'
<1> USE DEF config, dtu, work, End
<1>1. CASE ParseArgument
  <2>1. parse' \in Parses
    BY <1>1, ParsesKept DEF ParseArgument, TypeInv, TypeOK
  <2>2. UNCHANGED <<opts, layout, rtuId, dtu, work, pc, ending>>
    BY <1>1 DEF ParseArgument
  <2> QED
    BY <2>1, <2>2 DEF TypeInv, TypeOK, Progress
<1>2. CASE ParseThrows
  BY <1>2 DEF ParseThrows, TypeInv, TypeOK, Progress
<1>3. CASE ParseReturns
  <2>1. pc = "parse" /\ parse \in Parses /\ Accepted(parse) /\ inventory = <<>>
    BY <1>3 DEF ParseReturns, TypeInv, TypeOK, Progress
  <2>2. chosen' \in Seq(Int)
    BY <1>3, <2>1, AcceptedIntegers DEF ParseReturns
  <2>3. opts' \in Options
    <3> DEFINE address == IF Given(parse, "a") THEN IntegerOf(Head(parse.results["a"])) ELSE 1
    <3>1. address \in Int
      <4>1. CASE Given(parse, "a")
        BY <2>1, <4>1, AcceptedIntegers
      <4>2. CASE ~Given(parse, "a")
        BY <4>2
      <4> QED
        BY <4>1, <4>2
    <3>2. /\ FlagSet(parse, "r") \in BOOLEAN /\ FlagSet(parse, "t") \in BOOLEAN
          /\ (Given(parse, "P") \/ FlagSet(parse, "A")) \in BOOLEAN
          /\ FlagSet(parse, "M") \in BOOLEAN /\ FlagSet(parse, "w") \in BOOLEAN
          /\ FlagSet(parse, "I") \in BOOLEAN /\ StatusKnown(parse) \in BOOLEAN
      BY DEF FlagSet, StatusKnown, Given
    <3> HIDE DEF address
    <3>3. opts' = [rtu |-> FlagSet(parse, "r"), tcp |-> FlagSet(parse, "t"),
                   address |-> address,
                   fetch |-> Given(parse, "P") \/ FlagSet(parse, "A"),
                   list |-> FlagSet(parse, "M"), write |-> FlagSet(parse, "w"),
                   ignore |-> FlagSet(parse, "I"),
                   statusKnown |-> StatusKnown(parse)]
      BY <1>3 DEF ParseReturns, address
    <3> QED
      BY <3>1, <3>2, <3>3 DEF Options
  <2>4. /\ UNCHANGED <<parse, connected, slave, inventory, at, attempts, touched, ending>>
        /\ layout' \in Layouts /\ rtuId' \in Garbage /\ pc' = "connect"
    BY <1>3 DEF ParseReturns
  <2>5. inventory' \in Seq(ToSet(layout)')
    BY <2>1, <2>4
  <2>6. at = 1 /\ attempts = <<>> /\ touched = {}
    BY <2>1 DEF TypeInv, Progress
  <2>7. at' \in 1 .. Len(chosen') + 1
    BY <2>2, <2>4, <2>6
  <2> QED
    BY <2>1, <2>2, <2>3, <2>4, <2>5, <2>6, <2>7 DEF TypeInv, TypeOK, Progress
<1>4. CASE ConnectSucceeds
  <2>1. slave' \in {-1, TcpSlave} \cup 0 .. 247
    BY <1>4, SlaveType DEF ConnectSucceeds
  <2> QED
    BY <1>4, <2>1 DEF ConnectSucceeds, TypeInv, TypeOK, Progress
<1>5. CASE ConnectFails \/ ConnectCrashes
  <2>1. CASE ConnectFails
    BY <2>1 DEF ConnectFails, TypeInv, TypeOK, Progress
  <2>2. CASE ConnectCrashes
    BY <2>2 DEF ConnectCrashes, TypeInv, TypeOK, Progress
  <2> QED
    BY <1>5, <2>1, <2>2
<1>6. CASE Scan
  <2>1. PICK slots \in 0 .. Len(layout) : inventory' = InventoryOf(slots)
    BY <1>6 DEF Scan
  <2>2. /\ UNCHANGED <<parse, opts, layout, rtuId, connected, slave, chosen, at, attempts,
                       touched, ending>>
        /\ pc = "scan" /\ pc' = "loop"
    BY <1>6 DEF Scan
  <2>3. inventory' \in Seq(ToSet(layout))
    BY <2>1, LayoutType, InventoryType
  <2>4. inventory' \in Seq(Serials)
    BY <2>3, LayoutType, WiderSeq
  <2> QED
    BY <2>2, <2>3, <2>4 DEF TypeInv, TypeOK, Progress
<1>7. CASE Aborts \/ Signal \/ MainReturns
  <2>1. /\ UNCHANGED <<parse, opts, layout, rtuId, connected, slave, inventory, chosen, at,
                       attempts, touched>>
        /\ pc' = "exit" /\ ending' \in {"abort", "signal", "return"}
    BY <1>7 DEF Aborts, Signal, MainReturns
  <2> QED
    BY <2>1 DEF TypeInv, TypeOK, Progress
<1>8. CASE LoopAgain \/ LoopEnds \/ Show
  <2>1. /\ UNCHANGED <<parse, opts, layout, rtuId, connected, slave, inventory, chosen, at,
                       attempts, touched, ending>>
        /\ pc \in {"loop", "print"} /\ pc' \in {"update", "list", "loop"}
    BY <1>8 DEF LoopAgain, LoopEnds, Show
  <2> QED
    BY <2>1 DEF TypeInv, TypeOK, Progress
<1>9. CASE Update \/ List
  <2>1. chosen' \in Seq(Int)
    BY <1>9, ChosenNowType DEF Update, List, TypeInv, TypeOK
  <2>2. /\ UNCHANGED <<parse, opts, layout, rtuId, connected, slave, inventory, at, attempts,
                       touched, ending>>
        /\ pc \in {"update", "list"} /\ pc' \in {"print", "write"}
    BY <1>9 DEF Update, List
  <2>3. at = 1 /\ attempts = <<>> /\ touched = {}
    BY <2>2 DEF TypeInv, Progress
  <2>4. at' \in 1 .. Len(chosen') + 1
    BY <2>1, <2>2, <2>3
  <2> QED
    BY <2>1, <2>2, <2>3, <2>4 DEF TypeInv, TypeOK, Progress
<1>10. CASE WriteOne
  <2>1. /\ UNCHANGED <<parse, opts, layout, rtuId, connected, slave, inventory, chosen, pc,
                       ending>>
        /\ pc = "write" /\ at <= Len(chosen) /\ at' = at + 1
    BY <1>10 DEF WriteOne
  <2>2. at' \in 1 .. Len(chosen) + 1
    BY <2>1 DEF TypeInv, TypeOK
  <2>3. attempts' \in Seq(Serials) /\ touched' \subseteq 2 .. Len(layout) + 1
    <3>0. attempts \in Seq(Serials) /\ touched \subseteq 2 .. Len(layout) + 1
      BY DEF TypeInv, TypeOK
    <3>1. CASE chosen[at] \in Writable
      <4>1. chosen[at] \in Serials /\ StartSlot(chosen[at]) \in 2 .. Len(layout) + 1
        BY <3>1, TargetsAreThere
      <4>2. attempts' = Append(attempts, chosen[at]) /\ WriteStatus(chosen[at])
        BY <1>10, <3>1 DEF WriteOne
      <4>3. attempts' \in Seq(Serials)
        BY <3>0, <4>1, <4>2
      <4>4. touched' \subseteq touched \cup {StartSlot(chosen[at])}
        BY <4>2 DEF WriteStatus
      <4> QED
        BY <3>0, <4>1, <4>3, <4>4
    <3>2. CASE chosen[at] \notin Writable
      BY <1>10, <3>0, <3>2 DEF WriteOne
    <3> QED
      BY <3>1, <3>2
  <2> QED
    BY <2>1, <2>2, <2>3 DEF TypeInv, TypeOK, Progress
<1>11. CASE UNCHANGED vars
  BY <1>11 DEF vars, TypeInv, TypeOK, Progress
<1> QED
  BY <1>1, <1>2, <1>3, <1>4, <1>5, <1>6, <1>7, <1>8, <1>9, <1>10, <1>11 DEF Next, Step

\* and always.
LEMMA TypeInvariant == Spec => []TypeInv
BY TypeInit, TypeStep, PTL DEF Spec

(* Every variable keeps its type, for any command lines and register maps: the parser  *)
(* never makes an argument without a name look like an option, what main takes for a   *)
(* number is one (CLI11.hpp:2409-2507), and what is written to has a slot.             *)
THEOREM TypeCorrect == Spec => []TypeOK
<1>1. TypeInv => TypeOK
  BY DEF TypeInv
<1> QED
  BY <1>1, TypeInvariant, PTL
-----------------------------------------------------------------------------
(* The strengthening of WritesInOrder: the choice is filled in by the time of the       *)
(* writing, and then the attempts are those that the part already gone through asks.    *)
WriteInv ==
  /\ pc = "write" /\ opts.write => ChosenNow = chosen
  /\ at > 1 => ChosenNow = chosen
  /\ opts.write => attempts = Selected(SubSeq(chosen, 1, at - 1), Writable)
  /\ ~opts.write => attempts = <<>> /\ touched = {}
  /\ opts.write /\ ending = "return" => attempts = Targets

\* The part gone through before the first write.
LEMMA NothingGoneThrough ==
  ASSUME NEW S, NEW seq \in Seq(S), NEW wanted
  PROVE  Selected(SubSeq(seq, 1, 0), wanted) = <<>>
<1>1. SubSeq(seq, 1, 0) = <<>>
  OBVIOUS
<1> QED
  BY <1>1, SelectedFromNone

\* The part gone through, and the next.
LEMMA OneFurther ==
  ASSUME NEW S, NEW seq \in Seq(S), NEW k \in 1 .. Len(seq), NEW wanted
  PROVE  LET before == Selected(SubSeq(seq, 1, k - 1), wanted)
         IN Selected(SubSeq(seq, 1, k), wanted)
              = IF seq[k] \in wanted THEN Append(before, seq[k]) ELSE before
<1> DEFINE part == SubSeq(seq, 1, k - 1)
           x == seq[k]
<1>1. part \in Seq(S) /\ x \in S
  OBVIOUS
<1>2. SubSeq(seq, 1, k) = Append(part, x)
  OBVIOUS
<1>3. Selected(Append(part, x), wanted)
        = IF x \in wanted THEN Append(Selected(part, wanted), x) ELSE Selected(part, wanted)
  <2> HIDE DEF part, x
  <2> QED
    BY <1>1, SelectedWithOneMore
<1> QED
  BY <1>2, <1>3

\* The order of the writes holds at the start
LEMMA WriteInit == Init => WriteInv
<1> SUFFICES ASSUME Init PROVE WriteInv
  OBVIOUS
<1>1. pc = "parse" /\ ~opts.write /\ at = 1 /\ attempts = <<>> /\ touched = {} /\ ending = "none"
  BY DEF Init, Unset
<1> QED
  BY <1>1 DEF WriteInv

\* A step before the writing, and the one that leads to it.
LEMMA WriteUntouched ==
  ASSUME TypeInv, chosen' \in Seq(Int), at = 1, attempts = <<>>, touched = {},
         UNCHANGED <<at, attempts, touched>>, ending' # "return",
         pc' = "write" /\ opts'.write => ChosenNow' = chosen'
  PROVE  WriteInv'
<1>1. Selected(SubSeq(chosen', 1, 0), Writable') = <<>>
  BY NothingGoneThrough
<1> QED
  BY <1>1 DEF WriteInv

\* and through every step.
LEMMA WriteStep == ASSUME TypeInv, TypeInv', WriteInv, [Next]_vars PROVE WriteInv'
<1> USE DEF config, dtu, work, End
<1>1. chosen \in Seq(Int) /\ chosen' \in Seq(Int) /\ at \in 1 .. Len(chosen) + 1
  BY DEF TypeInv, TypeOK
<1>2. CASE ParseArgument \/ ParseThrows \/ ParseReturns \/ ConnectSucceeds \/ ConnectFails
           \/ ConnectCrashes \/ Scan \/ Aborts \/ LoopAgain \/ LoopEnds \/ Update \/ Show
  <2>1. /\ UNCHANGED <<at, attempts, touched>>
        /\ pc \notin {"write", "exit"} /\ pc' # "write"
        /\ ending' = ending \/ ending' \in {"informed", "refused", "crash", "abort"}
    BY <1>2 DEF ParseArgument, ParseThrows, ParseReturns, ConnectSucceeds, ConnectFails,
                ConnectCrashes, Scan, Aborts, LoopAgain, LoopEnds, Update, Show
  <2>2. at = 1 /\ attempts = <<>> /\ touched = {} /\ ending = "none"
    BY <2>1 DEF TypeInv, Progress
  <2> QED
    BY <1>1, <2>1, <2>2, WriteUntouched
<1>3. CASE List
  <2>1. /\ UNCHANGED <<opts, inventory, at, attempts, touched, ending>> /\ pc = "list"
        /\ chosen' = IF opts.write THEN ChosenNow ELSE chosen
    BY <1>3 DEF List
  <2>2. at = 1 /\ attempts = <<>> /\ touched = {} /\ ending = "none"
    BY <2>1 DEF TypeInv, Progress
  <2>3. opts'.write => ChosenNow' = chosen'
    BY <2>1 DEF ChosenNow
  <2> QED
    BY <1>1, <2>1, <2>2, <2>3, WriteUntouched
<1>4. CASE WriteOne
  <2>1. /\ UNCHANGED <<opts, inventory, chosen, pc, ending>>
        /\ pc = "write" /\ opts.write /\ at <= Len(chosen) /\ at' = at + 1
        /\ attempts' = IF chosen[at] \in Writable THEN Append(attempts, chosen[at])
                       ELSE attempts
    BY <1>4 DEF WriteOne
  <2>2. ChosenNow' = chosen' /\ Writable' = Writable /\ ChosenNow = chosen
    BY <2>1 DEF ChosenNow, Writable, WriteInv
  <2>3. at \in 1 .. Len(chosen) /\ at' - 1 = at
    BY <1>1, <2>1
  <2>4. attempts' = Selected(SubSeq(chosen, 1, at), Writable)
    BY <1>1, <2>1, <2>3, OneFurther DEF WriteInv
  <2>5. ending = "none"
    BY <2>1 DEF TypeInv, Progress
  <2> QED
    BY <2>1, <2>2, <2>3, <2>4, <2>5 DEF WriteInv
<1>5. CASE MainReturns
  <2>1. /\ UNCHANGED <<opts, inventory, chosen, at, attempts, touched>> /\ pc = "write"
        /\ ~opts.write \/ at > Len(chosen)
        /\ pc' = "exit"
    BY <1>5 DEF MainReturns
  <2>2. ChosenNow' = ChosenNow /\ Writable' = Writable /\ Targets' = Targets
    BY <2>1 DEF ChosenNow, Writable, Targets
  <2>3. ASSUME opts.write PROVE attempts = Targets
    <3>1. at - 1 = Len(chosen)
      BY <1>1, <2>1, <2>3
    <3>2. SubSeq(chosen, 1, Len(chosen)) = chosen
      BY <1>1
    <3> QED
      BY <2>1, <2>3, <3>1, <3>2 DEF WriteInv, Targets
  <2> QED
    BY <2>1, <2>2, <2>3 DEF WriteInv
<1>6. CASE Signal \/ UNCHANGED vars
  <2>1. /\ UNCHANGED <<opts, inventory, chosen, at, attempts, touched>>
        /\ pc' \in {pc, "exit"} /\ ending' \in {ending, "signal"}
    BY <1>6 DEF Signal, vars
  <2>2. ChosenNow' = ChosenNow /\ Writable' = Writable /\ Targets' = Targets
    BY <2>1 DEF ChosenNow, Writable, Targets
  <2> QED
    BY <2>1, <2>2 DEF WriteInv
<1> QED
  BY <1>2, <1>3, <1>4, <1>5, <1>6 DEF Next, Step

\* What has been attempted is a beginning of what is to be.
LEMMA WriteInvImplies == ASSUME TypeInv, WriteInv PROVE WritesInOrder
<1>1. chosen \in Seq(Int) /\ at \in 1 .. Len(chosen) + 1 /\ ChosenNow \in Seq(Int)
  BY ChosenNowType DEF TypeInv, TypeOK
<1>2. ASSUME opts.write PROVE IsPrefix(attempts, Targets)
  <2>1. CASE at = 1
    <3>1. attempts = <<>>
      BY <1>1, <1>2, <2>1, NothingGoneThrough DEF WriteInv
    <3>2. Targets \in Seq(Int)
      BY <1>1, SelectedMembers DEF Targets
    <3> QED
      BY <3>1, <3>2 DEF IsPrefix
  <2>2. CASE at > 1
    <3>1. ChosenNow = chosen /\ attempts = Selected(SubSeq(chosen, 1, at - 1), Writable)
      BY <1>2, <2>2 DEF WriteInv
    <3>2. at - 1 \in 0 .. Len(chosen)
      BY <1>1, <2>2
    <3> QED
      BY <1>1, <3>1, <3>2, SelectedFromBeginning DEF Targets
  <2> QED
    BY <1>1, <2>1, <2>2
<1> QED
  BY <1>2 DEF WriteInv, WritesInOrder

(* Whatever the command line, the register map and the fate of each write, a run with   *)
(* -w tries every chosen microinverter that was found once, in the order given, and no  *)
(* other; an interruption leaves a prefix tried, and a run without -w writes nothing    *)
(* (main.cpp:137-144, dtu.cpp:183-200).                                                 *)
THEOREM WritesAreInOrder == Spec => []WritesInOrder
<1>1. TypeInv /\ WriteInv /\ [Next]_vars => WriteInv'
  BY TypeStep, WriteStep
<1>2. TypeInv /\ WriteInv => WritesInOrder
  BY WriteInvImplies
<1> QED
  BY <1>1, <1>2, WriteInit, TypeInvariant, PTL DEF Spec
-----------------------------------------------------------------------------
(***************************************************************************)
(* The two spellings of a line.  A line and the same line spelled apart are   *)
(* parsed in step, one argument at a time: Alike relates the two states, and   *)
(* a step of the one and a step of the other lead to states that are alike     *)
(* again.  A step that names an option takes parts off the line and puts none   *)
(* back, so that the size of the line bounds the number of steps, and the fold   *)
(* that ParseAll is has reached the end of both lines.                          *)
(***************************************************************************)

\* How many steps a line may take: the parts of its arguments, and one for each.
Parts == [a \in Arguments |-> a.text]
Size(p) == Len(p.args) + Len(Spread(Parts, p.args))

\* One argument is worked off, unless there is none.
OneOff(p) == IF InProgress(p) THEN ParseSingle(p) ELSE p
\* ParseAll as a recursive function on the parts of the line.
Fuel(p) == p.args \o FlattenSeq([i \in DOMAIN p.args |-> p.args[i].text])
Working(f, p) ==
  f = [s \in SUBSET DOMAIN Fuel(p) |-> IF s = {} THEN p ELSE OneOff(f[s \ {Max(s)}])]
Worked(p) == CHOOSE f : Working(f, p)

\* A parse to its end is a recursive function on the parts of the line.
LEMMA ParseAllWorked == ASSUME NEW p PROVE ParseAll(p) = Worked(p)[DOMAIN Fuel(p)]
BY Zenon DEF ParseAll, FoldLeft, MapThenFoldSet, Worked, Working, OneOff, Fuel

\* A step leads from one state of the parser to another.
LEMMA OneOffType == \A p \in Parses : OneOff(p) \in Parses
BY ParsesKept DEF OneOff

\* As many steps as there may be.
LEMMA FuelSize ==
  ASSUME NEW p \in Parses
  PROVE  Size(p) \in Nat /\ DOMAIN Fuel(p) = 1 .. Size(p)
<1> DEFINE texts == [i \in DOMAIN p.args |-> p.args[i].text]
           parts == FlattenSeq(texts)
<1>1. p.args \in Seq(Arguments)
  BY DEF Parses
<1>2. \A i \in DOMAIN p.args : p.args[i] \in Arguments /\ p.args[i].text \in Seq(STRING)
  BY <1>1, ArgumentParts
<1>3. texts \in Seq(Seq(STRING))
  BY <1>1, <1>2
<1>4. parts \in Seq(STRING)
  <2> HIDE DEF texts
  <2> QED
    BY <1>3, FlattenType
<1>5. Spread(Parts, p.args) = parts
  <2>1. [i \in DOMAIN p.args |-> Parts[p.args[i]]] = texts
    BY <1>2 DEF Parts
  <2> HIDE DEF texts
  <2> QED
    BY <2>1, Zenon DEF Spread, parts
<1>6. Fuel(p) = p.args \o parts
  BY DEF Fuel
<1> HIDE DEF parts
<1>7. DOMAIN (p.args \o parts) = 1 .. Len(p.args) + Len(parts)
  BY <1>1, <1>4
<1> QED
  BY <1>1, <1>4, <1>5, <1>6, <1>7 DEF Size

\* A parse as a sequence of steps, the last of which is its end.
LEMMA ParseSteps ==
  ASSUME NEW p \in Parses, NEW f \in [Nat -> Parses], f[0] = p,
         \A k \in Nat : f[k + 1] = OneOff(f[k])
  PROVE  ParseAll(p) = f[Size(p)]
<1> DEFINE n == Size(p)
           D == DOMAIN Fuel(p)
           h == [s \in SUBSET D |-> f[IF s = {} THEN 0 ELSE Max(s)]]
           ch == [s \in SUBSET D |-> Max(s)]
           step == [i \in D |-> [q \in Parses |-> OneOff(q)]]
           g == Worked(p)
<1>0. n \in Nat /\ D = 1 .. n /\ IsFiniteSet(D)
  BY FuelSize, FS_Interval
<1>1. \A s \in SUBSET D : s # {} => ch[s] \in s
  BY <1>0, MaxIsMember
<1>2. step \in [D -> [Parses -> Parses]]
  BY OneOffType
<1>3. PICK e : ByFolding(e, D, ch, Parses, p, step)
  <2> HIDE DEF ch, step, D
  <2> QED
    BY <1>0, <1>1, <1>2, FoldDefines, Zenon
<1>4. e \in [SUBSET D -> Parses]
  BY <1>3 DEF ByFolding
<1>5. ASSUME NEW s \in SUBSET D
      PROVE  e[s] = IF s = {} THEN p ELSE OneOff(e[s \ {Max(s)}])
  <2>1. e[s] = IF s = {} THEN p ELSE step[ch[s]][e[s \ {ch[s]}]]
    BY <1>3 DEF ByFolding
  <2>2. e[s \ {ch[s]}] \in Parses
    BY <1>4
  <2>3. s # {} => ch[s] \in D
    BY <1>1
  <2>4. ch[s] = Max(s)
    OBVIOUS
  <2> HIDE DEF ch, D
  <2> QED
    BY <2>1, <2>2, <2>3, <2>4
<1>6. Working(e, p)
  BY <1>4, <1>5 DEF Working
<1>7. Working(g, p)
  BY <1>6, Zenon DEF Worked
<1> HIDE DEF g
<1>8. \A s \in SUBSET D : g[s] = IF s = {} THEN p ELSE OneOff(g[s \ {Max(s)}])
  <2>1. g = [s \in SUBSET D |-> IF s = {} THEN p ELSE OneOff(g[s \ {Max(s)}])]
    BY <1>7, Zenon DEF Working
  <2> HIDE DEF D
  <2> QED
    BY <2>1
<1> DEFINE Good == {k \in Nat : k <= n => g[1 .. k] = f[k]}
<1>9. 0 \in Good
  <2>1. 1 .. 0 = {} /\ {} \in SUBSET D
    OBVIOUS
  <2>2. g[{}] = p
    BY <1>8, <2>1
  <2> QED
    BY <2>1, <2>2
<1>10. ASSUME NEW k \in Nat, k \in Good PROVE k + 1 \in Good
  <2> SUFFICES ASSUME k + 1 <= n PROVE g[1 .. k + 1] = f[k + 1]
    OBVIOUS
  <2>1. g[1 .. k] = f[k]
    BY <1>0, <1>10
  <2>2. 1 .. k + 1 \in SUBSET D
    BY <1>0
  <2>3. Max(1 .. k + 1) = k + 1 /\ (1 .. k + 1) \ {k + 1} = 1 .. k /\ 1 .. k + 1 # {}
    BY LastPlace
  <2>4. g[1 .. k + 1] = OneOff(g[(1 .. k + 1) \ {Max(1 .. k + 1)}])
    BY <1>8, <2>2, <2>3
  <2>5. f[k + 1] = OneOff(f[k])
    OBVIOUS
  <2> QED
    BY <2>1, <2>3, <2>4, <2>5, Zenon
<1> HIDE DEF Good
<1>11. \A k \in Nat : k \in Good
  BY <1>9, <1>10, Induction
<1>12. g[1 .. n] = f[n]
  BY <1>0, <1>11 DEF Good
<1> QED
  BY <1>0, <1>12, ParseAllWorked DEF g

\* There is such a sequence of steps.
LEMMA StepsReached ==
  ASSUME NEW p \in Parses
  PROVE  \E f \in [Nat -> Parses] : f[0] = p /\ \A k \in Nat : f[k + 1] = OneOff(f[k])
<1> DEFINE step == [k \in Nat |-> [q \in Parses |-> OneOff(q)]]
<1>1. step \in [Nat -> [Parses -> Parses]]
  BY OneOffType
<1>2. PICK f : ByRecursion(f, Parses, p, step)
  <2> HIDE DEF step
  <2> QED
    BY <1>1, RecursionDefines, Zenon
<1>3. f \in [Nat -> Parses] /\ f[0] = p /\ \A k \in Nat : f[k + 1] = step[k][f[k]]
  BY <1>2 DEF ByRecursion
<1>4. ASSUME NEW k \in Nat PROVE f[k + 1] = OneOff(f[k])
  <2>1. f[k] \in Parses /\ f[k + 1] = step[k][f[k]]
    BY <1>3
  <2> QED
    BY <2>1
<1> QED
  BY <1>3, <1>4

\* The size of a line.
PartsIn(args) == Len(args) + Len(Spread(Parts, args))

\* Every argument is made of texts.
LEMMA PartsType == Parts \in [Arguments -> Seq(STRING)]
BY ArgumentParts DEF Parts

\* The parts of two lines one behind the other, and of one argument.
LEMMA PartsOfLines ==
  /\ PartsIn(<<>>) = 0
  /\ \A s, t \in Seq(Arguments) : /\ PartsIn(s) \in Nat /\ PartsIn(s) >= Len(s)
                                  /\ PartsIn(s \o t) = PartsIn(s) + PartsIn(t)
  /\ \A a \in Arguments : PartsIn(<<a>>) = 1 + Len(a.text)
<1>1. /\ Spread(Parts, <<>>) = <<>>
      /\ \A s \in Seq(Arguments), x \in Arguments : Spread(Parts, s) \in Seq(STRING)
  BY PartsType, SpreadMore
<1>2. PartsIn(<<>>) = 0
  BY <1>1 DEF PartsIn
<1>3. ASSUME NEW s \in Seq(Arguments), NEW t \in Seq(Arguments)
      PROVE  /\ PartsIn(s) \in Nat /\ PartsIn(s) >= Len(s)
             /\ PartsIn(s \o t) = PartsIn(s) + PartsIn(t)
  <2>1. Spread(Parts, s \o t) = Spread(Parts, s) \o Spread(Parts, t)
    BY PartsType, SpreadJoined
  <2>2. TrueString \in Arguments
    BY WordsAreArguments
  <2>3. Spread(Parts, s) \in Seq(STRING) /\ Spread(Parts, t) \in Seq(STRING)
    BY <1>1, <2>2, Zenon
  <2> DEFINE left == Spread(Parts, s)
             right == Spread(Parts, t)
  <2> HIDE DEF left, right
  <2>4. left \in Seq(STRING) /\ right \in Seq(STRING) /\ Spread(Parts, s \o t) = left \o right
    BY <2>1, <2>3 DEF left, right
  <2>5. Len(left \o right) = Len(left) + Len(right) /\ Len(s \o t) = Len(s) + Len(t)
    BY <2>4
  <2>6. PartsIn(s) = Len(s) + Len(left) /\ PartsIn(t) = Len(t) + Len(right)
    BY DEF PartsIn, left, right
  <2>7. PartsIn(s \o t) = Len(s \o t) + Len(left \o right)
    BY <2>4 DEF PartsIn
  <2> QED
    BY <2>4, <2>5, <2>6, <2>7
<1>4. ASSUME NEW a \in Arguments PROVE PartsIn(<<a>>) = 1 + Len(a.text)
  <2>1. Spread(Parts, <<a>>) = Parts[a]
    BY PartsType, SpreadOne
  <2>2. Parts[a] = a.text
    BY DEF Parts
  <2>3. Len(<<a>>) = 1
    OBVIOUS
  <2> QED
    BY <2>1, <2>2, <2>3 DEF PartsIn
<1> QED
  BY <1>2, <1>3, <1>4

\* A line without its beginning has no more parts.
LEMMA PartsOfRest ==
  ASSUME NEW s \in Seq(Arguments), NEW k \in Nat \ {0}
  PROVE  PartsIn(SubSeq(s, k, Len(s))) <= PartsIn(s)
<1>1. CASE k > Len(s)
  <2>1. SubSeq(s, k, Len(s)) = <<>>
    BY <1>1
  <2> QED
    BY <2>1, PartsOfLines
<1>2. CASE k <= Len(s)
  <2> DEFINE first == SubSeq(s, 1, k - 1)
             rest == SubSeq(s, k, Len(s))
  <2>1. first \in Seq(Arguments) /\ rest \in Seq(Arguments)
    <3>1. \A i \in 1 .. Len(s) : s[i] \in Arguments
      OBVIOUS
    <3>2. first \in Seq(Arguments)
      BY <1>2
    <3>3. rest \in Seq(Arguments)
      BY <1>2
    <3> QED
      BY <3>2, <3>3
  <2>2. s = first \o rest
    BY <1>2
  <2> HIDE DEF first, rest
  <2>3. PartsIn(first) \in Nat /\ PartsIn(rest) \in Nat /\ PartsIn(s) = PartsIn(first) + PartsIn(rest)
    BY <2>1, <2>2, PartsOfLines
  <2> QED
    BY <2>3 DEF rest
<1> QED
  BY <1>1, <1>2

\* What ParseValue leaves of the line is an end of it.
LEMMA ParseValueLeaves ==
  ASSUME NEW p \in Parses, p.args # <<>>, NEW o
  PROVE  \/ ParseValue(p, o).error
         \/ \E k \in Nat \ {0} : ParseValue(p, o).args = SubSeq(Tail(p.args), k, Len(Tail(p.args)))
<1> DEFINE given == Tail(Head(p.args).text)
           attached == IF given = <<>> THEN <<>> ELSE ResultsOf(o, Word(given))
           rest == Tail(p.args)
           empty == WhileAll(rest, {a \in ToSet(rest) : ResultsOf(o, a) = <<>>})
           least == IF attached = <<>> THEN empty + 1 ELSE 0
           behind == SubSeq(rest, least + 1, Len(rest))
           words == WhileAll(behind, {a \in ToSet(rest) : IsWord(a)})
           taken == IF o \in Lists THEN least + words ELSE least
           ends == o \in Lists /\ taken < Len(rest) /\ rest[taken + 1].form = "mark"
           k == IF ends THEN taken + 2 ELSE taken + 1
           more == p.results[o] \o attached \o Collected(o, rest, taken)
<1>1. p.args \in Seq(Arguments)
  BY DEF Parses
<1>2. rest \in Seq(Arguments) /\ Len(rest) \in Nat
  BY <1>1
<1>3. empty \in 0 .. Len(rest)
  <2> HIDE DEF rest
  <2> QED
    BY <1>2, WhileAllIs
<1>4. least \in Nat
  BY <1>2, <1>3
<1>5. ParseValue(p, o) = IF least > Len(rest) THEN [p EXCEPT !.error = TRUE]
                         ELSE [p EXCEPT !.args = SubSeq(rest, k, Len(rest)), !.results[o] = more]
  BY DEF ParseValue
<1>6. CASE least > Len(rest)
  <2>1. ParseValue(p, o) = [p EXCEPT !.error = TRUE]
    BY <1>5, <1>6, Zenon
  <2> QED
    BY <2>1 DEF Parses
<1>7. CASE ~(least > Len(rest))
  <2> HIDE DEF attached, rest, empty, least
  <2>1. behind \in Seq(Arguments)
    BY <1>2, <1>4, <1>7
  <2>2. words \in Nat
    <3> HIDE DEF behind
    <3>1. words \in 0 .. Len(behind)
      BY <2>1, WhileAllIs
    <3> QED
      BY <3>1
  <2> HIDE DEF behind, words
  <2>3. k \in Nat \ {0}
    BY <1>4, <2>2
  <2>4. ParseValue(p, o) = [p EXCEPT !.args = SubSeq(rest, k, Len(rest)), !.results[o] = more]
    BY <1>5, <1>7, Zenon
  <2> HIDE DEF k, more
  <2>5. ParseValue(p, o).args = SubSeq(rest, k, Len(rest))
    BY <2>4 DEF Parses
  <2> QED
    BY <2>3, <2>5 DEF rest
<1> QED
  BY <1>6, <1>7

\* Each step takes something off the line, or is the last one.
LEMMA PartsTaken ==
  ASSUME NEW p \in Parses, InProgress(p)
  PROVE  ParseSingle(p).error \/ Size(ParseSingle(p)) < Size(p)
<1> DEFINE h == Head(p.args)
           t == Tail(p.args)
           named == IF p.positionalOnly THEN {} ELSE Named(h)
           o == CHOOSE n \in named : TRUE
<1>1. p.args # <<>> /\ p.args \in Seq(Arguments)
  BY DEF InProgress, Parses
<1>2. h \in Arguments /\ t \in Seq(Arguments) /\ p.args = <<h>> \o t /\ <<h>> \in Seq(Arguments)
  BY <1>1
<1>3. h.text \in Seq(STRING) /\ Len(h.text) \in Nat
  BY <1>2, ArgumentParts
<1>4. \A q : Size(q) = PartsIn(q.args)
  BY DEF Size, PartsIn
<1>5. Size(p) = 1 + Len(h.text) + PartsIn(t) /\ PartsIn(t) \in Nat
  <2> HIDE DEF h, t
  <2>1. PartsIn(p.args) = PartsIn(<<h>>) + PartsIn(t) /\ PartsIn(t) \in Nat
    BY <1>2, PartsOfLines
  <2>2. PartsIn(<<h>>) = 1 + Len(h.text)
    BY <1>2, PartsOfLines
  <2> QED
    BY <1>4, <2>1, <2>2
<1>6. CASE named = {}
  <2>1. ParseSingle(p) = MoveToMissing(p)
    BY <1>6 DEF ParseSingle
  <2>2. ParseSingle(p).args = t
    BY <2>1 DEF MoveToMissing, Parses
  <2> HIDE DEF h, t
  <2> QED
    BY <1>3, <1>4, <1>5, <2>2
<1>7. CASE named # {}
  <2>1. o \in Named(h)
    BY <1>7
  <2>2. ParseSingle(p) = IF o \in Flags THEN ParseFlag(p, o) ELSE ParseValue(p, o)
    BY <1>7 DEF ParseSingle
  <2> HIDE DEF o
  <2>3. h.form \in {"long", "short"}
    BY <2>1 DEF Named, HasName
  <2>4. h.text # <<>>
    BY <1>2, <2>3, ArgumentParts
  <2>5. CASE o \in Flags
    <3> DEFINE tail == Tail(h.text)
               left == IF h.form = "long" \/ tail = <<>> THEN t
                       ELSE <<[form |-> "short", text |-> tail]>> \o t
    <3>1. ParseFlag(p, o).args = left
      BY DEF ParseFlag, Parses
    <3>2. tail \in Seq(STRING) /\ Len(tail) = Len(h.text) - 1
      <4>1. \A text \in Seq(STRING) :
              text # <<>> => Tail(text) \in Seq(STRING) /\ Len(Tail(text)) = Len(text) - 1
        OBVIOUS
      <4> HIDE DEF h
      <4> QED
        BY <1>3, <2>4, <4>1, Zenon
    <3>3. PartsIn(left) <= 1 + Len(tail) + PartsIn(t)
      <4> HIDE DEF h, t, tail
      <4>1. Len(tail) \in Nat
        BY <3>2
      <4>2. tail # <<>> => PartsIn(<<[form |-> "short", text |-> tail]>> \o t)
                             = 1 + Len(tail) + PartsIn(t)
        <5> SUFFICES ASSUME tail # <<>>
                     PROVE  PartsIn(<<[form |-> "short", text |-> tail]>> \o t)
                              = 1 + Len(tail) + PartsIn(t)
          OBVIOUS
        <5> DEFINE a == [form |-> "short", text |-> tail]
        <5>1. a \in Arguments /\ a.text = tail
          BY <3>2, WordsAreArguments
        <5> HIDE DEF a
        <5>2. <<a>> \in Seq(Arguments)
          BY <5>1
        <5>3. PartsIn(<<a>> \o t) = PartsIn(<<a>>) + PartsIn(t) /\ PartsIn(<<a>>) = 1 + Len(a.text)
          BY <1>2, <5>1, <5>2, PartsOfLines
        <5> QED
          BY <5>1, <5>3 DEF a
      <4> QED
        BY <1>5, <4>1, <4>2
    <3> HIDE DEF left, h, t, tail
    <3>4. ParseSingle(p).args = left
      BY <2>2, <2>5, <3>1
    <3>5. Size(ParseSingle(p)) <= 1 + Len(tail) + PartsIn(t)
      BY <1>4, <3>3, <3>4
    <3>6. left \in Seq(Arguments)
      <4>1. ParseFlag(p, o) \in Parses
        BY <1>1, <2>1, ParseFlagType DEF h
      <4> QED
        BY <3>1, <4>1 DEF Parses
    <3>7. Size(ParseSingle(p)) \in Nat
      BY <1>4, <3>4, <3>6, PartsOfLines
    <3> QED
      BY <1>3, <1>5, <3>2, <3>5, <3>7
  <2>6. CASE o \notin Flags
    <3>1. ParseSingle(p) = ParseValue(p, o)
      BY <2>2, <2>6
    <3>2. CASE ParseValue(p, o).error
      BY <3>1, <3>2
    <3>3. CASE ~ParseValue(p, o).error
      <4>1. PICK k \in Nat \ {0} : ParseValue(p, o).args = SubSeq(t, k, Len(t))
        BY <1>1, <3>3, ParseValueLeaves
      <4> HIDE DEF h, t
      <4>2. PartsIn(SubSeq(t, k, Len(t))) <= PartsIn(t)
        BY <1>2, PartsOfRest
      <4>3. SubSeq(t, k, Len(t)) \in Seq(Arguments)
        BY <1>2
      <4>4. PartsIn(SubSeq(t, k, Len(t))) \in Nat
        BY <4>3, PartsOfLines
      <4>5. Size(ParseSingle(p)) = PartsIn(SubSeq(t, k, Len(t)))
        BY <1>4, <3>1, <4>1
      <4> QED
        BY <1>3, <1>5, <4>2, <4>4, <4>5
    <3> QED
      BY <3>2, <3>3
  <2> QED
    BY <2>5, <2>6
<1> QED
  BY <1>6, <1>7

\* A parse of a line ends, and then nothing changes any more.
LEMMA ParseEnds ==
  ASSUME NEW p \in Parses, NEW f \in [Nat -> Parses], f[0] = p,
         \A k \in Nat : f[k + 1] = OneOff(f[k])
  PROVE  /\ ~InProgress(f[Size(p)])
         /\ \A k \in Nat : f[Size(p) + k] = f[Size(p)]
<1> DEFINE n == Size(p)
           Good == {k \in Nat : InProgress(f[k]) => Size(f[k]) + k <= n}
           Still == {k \in Nat : f[n + k] = f[n]}
<1>0. \A q \in Parses : /\ Size(q) \in Nat
                        /\ InProgress(q) => Size(q) > 0
  <2>1. ASSUME NEW q \in Parses PROVE Size(q) \in Nat /\ (InProgress(q) => Size(q) > 0)
    <3>1. q.args \in Seq(Arguments)
      BY DEF Parses
    <3>2. Size(q) \in Nat /\ Size(q) >= Len(q.args)
      <4>1. Size(q) = PartsIn(q.args)
        BY DEF Size, PartsIn
      <4> QED
        BY <3>1, <4>1, PartsOfLines
    <3>3. InProgress(q) => Len(q.args) > 0
      BY <3>1 DEF InProgress
    <3> QED
      BY <3>1, <3>2, <3>3
  <2> QED
    BY <2>1
<1>1. 0 \in Good
  BY <1>0
<1>2. ASSUME NEW k \in Nat, k \in Good PROVE k + 1 \in Good
  <2> SUFFICES ASSUME InProgress(f[k + 1]) PROVE Size(f[k + 1]) + (k + 1) <= n
    OBVIOUS
  <2>1. f[k] \in Parses /\ f[k + 1] \in Parses /\ f[k + 1] = OneOff(f[k])
    OBVIOUS
  <2>2. InProgress(f[k])
    <3>1. ~InProgress(f[k]) => OneOff(f[k]) = f[k]
      BY DEF OneOff
    <3> QED
      BY <2>1, <3>1
  <2>3. f[k + 1] = ParseSingle(f[k])
    BY <2>1, <2>2 DEF OneOff
  <2>4. ~f[k + 1].error
    BY DEF InProgress
  <2>5. Size(f[k + 1]) < Size(f[k])
    BY <2>1, <2>2, <2>3, <2>4, PartsTaken
  <2>6. Size(f[k]) + k <= n
    BY <1>2, <2>2
  <2> QED
    BY <1>0, <2>1, <2>5, <2>6
<1> HIDE DEF Good
<1>3. \A k \in Nat : k \in Good
  BY <1>1, <1>2, Induction
<1>4. n \in Nat /\ f[n] \in Parses
  BY <1>0
<1>5. ~InProgress(f[n])
  <2>1. InProgress(f[n]) => Size(f[n]) + n <= n
    BY <1>3, <1>4 DEF Good
  <2>2. InProgress(f[n]) => Size(f[n]) > 0
    BY <1>0, <1>4
  <2>3. Size(f[n]) \in Nat
    BY <1>0, <1>4
  <2> HIDE DEF n
  <2> QED
    BY <1>4, <2>1, <2>2, <2>3
<1> HIDE DEF n
<1>6. 0 \in Still
  <2>1. n + 0 = n
    BY <1>4
  <2> QED
    BY <2>1
<1>7. ASSUME NEW k \in Nat, k \in Still PROVE k + 1 \in Still
  <2>1. n + (k + 1) = (n + k) + 1 /\ n + k \in Nat
    BY <1>4
  <2>2. f[(n + k) + 1] = OneOff(f[n + k])
    BY <2>1
  <2>3. f[n + k] = f[n]
    BY <1>7
  <2>4. OneOff(f[n]) = f[n]
    BY <1>5 DEF OneOff
  <2> QED
    BY <2>1, <2>2, <2>3, <2>4
<1> HIDE DEF Still
<1>8. \A k \in Nat : k \in Still
  BY <1>6, <1>7, Induction
<1> QED
  BY <1>5, <1>8 DEF Still, n

\* The line with every argument spelled apart.
ApartFrom == [a \in Arguments |-> Apart(a)]
Spelled(args) == Spread(ApartFrom, args)

\* What is spelled apart are arguments, and the first looks like the one there was.
LEMMA ApartType ==
  ASSUME NEW a \in Arguments
  PROVE  /\ Apart(a) \in Seq(Arguments) /\ Apart(a) # <<>>
         /\ Head(Apart(a)).form = a.form
<1> DEFINE name == [form |-> a.form, text |-> <<Head(a.text)>>]
           rest == Tail(a.text)
<1>1. CASE Named(a) = {} \/ rest = <<>>
  <2>1. Apart(a) = <<a>>
    BY <1>1 DEF Apart
  <2> QED
    BY <2>1
<1>2. CASE ~(Named(a) = {} \/ rest = <<>>)
  <2>1. a.form \in {"long", "short"}
    BY <1>2 DEF Named, HasName
  <2>2. a.text # <<>> /\ a.text \in Seq(STRING)
    BY <2>1, ArgumentParts
  <2>3. <<Head(a.text)>> \in Seq(STRING) \ {<<>>} /\ rest \in Seq(STRING)
    <3>1. \A text \in Seq(STRING) :
            text # <<>> => Tail(text) \in Seq(STRING) /\ Head(text) \in STRING
      OBVIOUS
    <3>2. Tail(a.text) \in Seq(STRING) /\ Head(a.text) \in STRING
      BY <2>2, <3>1, Zenon
    <3> QED
      BY <3>2
  <2>4. name \in Arguments
    BY <2>1, <2>3 DEF Arguments
  <2>5. Word(rest) \in Arguments /\ [form |-> "short", text |-> rest] \in Arguments
    BY <1>2, <2>3, WordsAreArguments
  <2>6. \/ Apart(a) = <<name, Word(rest)>>
        \/ Apart(a) = <<name, [form |-> "short", text |-> rest]>>
        \/ Apart(a) = <<a>>
    BY <1>2 DEF Apart
  <2>7. name.form = a.form
    OBVIOUS
  <2> HIDE DEF name, rest
  <2> DEFINE y == Word(rest)
             z == [form |-> "short", text |-> rest]
  <2>8. y \in Arguments /\ z \in Arguments
    BY <2>5
  <2> HIDE DEF y, z
  <2>9. CASE Apart(a) = <<a>>
    BY <2>9
  <2>10. \A b \in {y, z} : /\ <<name, b>> \in Seq(Arguments) /\ <<name, b>> # <<>>
                           /\ Head(<<name, b>>) = name
    BY <2>4, <2>8
  <2> QED
    BY <2>6, <2>7, <2>9, <2>10 DEF y, z
<1> QED
  BY <1>1, <1>2

\* Spelled apart, an argument is a line.
LEMMA ApartFromType == ApartFrom \in [Arguments -> Seq(Arguments)]
BY ApartType DEF ApartFrom

\* A line is spelled apart argument by argument.
LEMMA SpelledLine ==
  /\ Spelled(<<>>) = <<>>
  /\ \A s, t \in Seq(Arguments) : Spelled(s) \in Seq(Arguments) /\ Spelled(s \o t) = Spelled(s) \o Spelled(t)
  /\ \A a \in Arguments : Spelled(<<a>>) = Apart(a)
<1>0. /\ Spread(ApartFrom, <<>>) = <<>>
      /\ \A s \in Seq(Arguments), x \in Arguments : Spread(ApartFrom, s) \in Seq(Arguments)
  BY ApartFromType, SpreadMore
<1>1. ASSUME NEW s \in Seq(Arguments), NEW t \in Seq(Arguments)
      PROVE  Spelled(s) \in Seq(Arguments) /\ Spelled(s \o t) = Spelled(s) \o Spelled(t)
  <2>1. TrueString \in Arguments
    BY WordsAreArguments
  <2>2. Spread(ApartFrom, s) \in Seq(Arguments)
    BY <1>0, <2>1, Zenon
  <2>3. Spread(ApartFrom, s \o t) = Spread(ApartFrom, s) \o Spread(ApartFrom, t)
    BY ApartFromType, SpreadJoined
  <2> QED
    BY <2>2, <2>3 DEF Spelled
<1>2. ASSUME NEW a \in Arguments PROVE Spelled(<<a>>) = Apart(a)
  <2>1. Spread(ApartFrom, <<a>>) = ApartFrom[a]
    BY ApartFromType, SpreadOne
  <2> QED
    BY <2>1 DEF Spelled, ApartFrom
<1> QED
  BY <1>0, <1>1, <1>2 DEF Spelled

\* Words are spelled as they are.
LEMMA SpelledWords ==
  ASSUME NEW ws \in Seq({a \in Arguments : IsWord(a)})
  PROVE  Spelled(ws) = ws
<1> DEFINE Words == {a \in Arguments : IsWord(a)}
           Good == {s \in Seq(Words) : Spelled(s) = s}
<1>0. \A s \in Seq(Words) : s \in Seq(Arguments)
  OBVIOUS
<1>1. <<>> \in Good
  BY SpelledLine
<1>2. ASSUME NEW s \in Seq(Words), NEW x \in Words, s \in Good PROVE Append(s, x) \in Good
  <2>1. Append(s, x) = s \o <<x>> /\ Append(s, x) \in Seq(Words) /\ <<x>> \in Seq(Arguments)
    OBVIOUS
  <2>2. Named(x) = {}
    BY DEF Named, HasName, IsWord
  <2>3. Spelled(<<x>>) = <<x>>
    BY <2>2, SpelledLine DEF Apart
  <2>4. Spelled(s \o <<x>>) = Spelled(s) \o Spelled(<<x>>)
    BY <1>0, <2>1, SpelledLine
  <2>5. Spelled(s) = s
    BY <1>2
  <2>6. Spelled(Append(s, x)) = Append(s, x)
    BY <2>1, <2>3, <2>4, <2>5, Zenon
  <2> QED
    BY <2>1, <2>6
<1> HIDE DEF Good
<1>3. \A s \in Seq(Words) : s \in Good
  <2> HIDE DEF Words
  <2> QED
    BY <1>1, <1>2, SequenceInduction
<1> QED
  BY <1>3 DEF Good

\* A sequence with a member put before it.
LEMMA PutBefore ==
  ASSUME NEW S, NEW x \in S, NEW s \in Seq(S)
  PROVE  /\ <<x>> \o s \in Seq(S) /\ <<x>> \o s # <<>>
         /\ Head(<<x>> \o s) = x /\ Tail(<<x>> \o s) = s
         /\ Len(<<x>> \o s) = 1 + Len(s)
<1> DEFINE t == <<x>> \o s
<1>1. t \in Seq(S) /\ Len(t) = 1 + Len(s) /\ Len(s) \in Nat
  OBVIOUS
<1>2. t[1] = x /\ \A i \in 1 .. Len(s) : t[i + 1] = s[i]
  OBVIOUS
<1> HIDE DEF t
<1>3. t # <<>> /\ Head(t) = x
  BY <1>1, <1>2
<1>4. Tail(t) \in Seq(S) /\ Len(Tail(t)) = Len(s) /\ \A i \in 1 .. Len(s) : Tail(t)[i] = t[i + 1]
  BY <1>1, <1>3
<1>5. Tail(t) = s
  BY <1>2, <1>4, SeqEqual
<1> QED
  BY <1>1, <1>3, <1>5 DEF t

\* Three lines one after the other.
LEMMA OneAfterTheOther ==
  \A s, t, u \in Seq(Arguments) : s \o (t \o u) = (s \o t) \o u
OBVIOUS

\* What is behind a place in a sequence.
LEMMA RestOfSequence ==
  ASSUME NEW S, NEW u \in Seq(S), NEW k \in 1 .. Len(u) + 1
  PROVE  SubSeq(u, k, Len(u)) \in Seq(S) /\ Len(SubSeq(u, k, Len(u))) = Len(u) + 1 - k
<1>1. SubSeq(u, k, Len(u)) \in Seq(S)
  OBVIOUS
<1>2. Len(SubSeq(u, k, Len(u))) = Len(u) + 1 - k
  OBVIOUS
<1> QED
  BY <1>1, <1>2

\* A sequence of two pieces, cut where they meet.
LEMMA CutApart ==
  ASSUME NEW S, NEW s \in Seq(S), NEW t \in Seq(S)
  PROVE  /\ Len(s \o t) = Len(s) + Len(t)
         /\ SubSeq(s \o t, Len(s) + 1, Len(s \o t)) = t
         /\ t # <<>> => /\ (s \o t)[Len(s) + 1] = Head(t)
                        /\ SubSeq(s \o t, Len(s) + 2, Len(s \o t)) = Tail(t)
         /\ \A i \in 1 .. Len(t) : (s \o t)[Len(s) + i] = t[i]
<1> DEFINE u == s \o t
           n == Len(s)
<1>1. u \in Seq(S) /\ n \in Nat /\ Len(t) \in Nat /\ Len(u) = n + Len(t)
  OBVIOUS
<1>2. \A i \in 1 .. Len(t) : u[n + i] = t[i]
  OBVIOUS
<1>3. t # <<>> => Len(t) >= 1 /\ Head(t) = t[1]
  OBVIOUS
<1>4. t # <<>> => /\ Tail(t) \in Seq(S) /\ Len(Tail(t)) = Len(t) - 1
                  /\ \A i \in 1 .. Len(t) - 1 : Tail(t)[i] = t[i + 1]
  OBVIOUS
<1> HIDE DEF u, n
<1>5. SubSeq(u, n + 1, Len(u)) = t
  BY <1>1, <1>2
<1>6. t # <<>> => u[n + 1] = Head(t)
  BY <1>1, <1>2, <1>3
<1>7. t # <<>> => SubSeq(u, n + 2, Len(u)) = Tail(t)
  <2> SUFFICES ASSUME t # <<>> PROVE SubSeq(u, n + 2, Len(u)) = Tail(t)
    OBVIOUS
  <2> DEFINE cut == SubSeq(u, n + 2, Len(u))
             tail == Tail(t)
  <2>1. cut \in Seq(S) /\ Len(cut) = Len(t) - 1 /\ \A i \in 1 .. Len(t) - 1 : cut[i] = u[n + 1 + i]
    <3>1. cut \in Seq(S) /\ Len(cut) = Len(t) - 1
      <4>1. n + 2 \in 1 .. Len(u) + 1 /\ Len(u) + 1 - (n + 2) = Len(t) - 1
        BY <1>1, <1>3
      <4> QED
        BY <1>1, <4>1, RestOfSequence
    <3>2. ASSUME NEW i \in 1 .. Len(t) - 1 PROVE cut[i] = u[n + 1 + i]
      <4>1. i \in 1 .. Len(u) - (n + 2) + 1 /\ i + (n + 2) - 1 = n + 1 + i
        BY <1>1
      <4>2. cut[i] = u[i + (n + 2) - 1]
        BY <1>1, <4>1
      <4> QED
        BY <4>1, <4>2
    <3> QED
      BY <3>1, <3>2
  <2>2. tail \in Seq(S) /\ Len(tail) = Len(t) - 1 /\ \A i \in 1 .. Len(t) - 1 : tail[i] = t[i + 1]
    BY <1>4
  <2> HIDE DEF cut, tail
  <2>3. \A i \in 1 .. Len(t) - 1 : u[n + 1 + i] = t[i + 1]
    <3> SUFFICES ASSUME NEW i \in 1 .. Len(t) - 1 PROVE u[n + 1 + i] = t[i + 1]
      OBVIOUS
    <3>1. i + 1 \in 1 .. Len(t) /\ n + (i + 1) = n + 1 + i
      BY <1>1
    <3> QED
      BY <1>2, <3>1
  <2>4. \A i \in 1 .. Len(cut) : cut[i] = tail[i]
    BY <2>1, <2>2, <2>3
  <2>5. cut = tail
    BY <2>1, <2>2, <2>4, SeqEqual
  <2> QED
    BY <2>5 DEF cut, tail
<1> QED
  BY <1>1, <1>2, <1>5, <1>6, <1>7 DEF u, n

\* The arguments a list goes on with.
Words == {a \in Arguments : IsWord(a)}

\* A line divides into the words it begins with and what is behind them.
LEMMA WordsFirst ==
  ASSUME NEW t \in Seq(Arguments)
  PROVE  \E ws \in Seq(Words), v \in Seq(Arguments) :
           t = ws \o v /\ (v # <<>> => ~IsWord(Head(v)))
<1> DEFINE n == WhileAll(t, Words)
           ws == SubSeq(t, 1, n)
           v == SubSeq(t, n + 1, Len(t))
<1>1. n \in 0 .. Len(t) /\ (\A i \in 1 .. n : t[i] \in Words) /\ (n < Len(t) => t[n + 1] \notin Words)
  BY WhileAllIs
<1> HIDE DEF n
<1>2. ws \in Seq(Words)
  <2> HIDE DEF Words
  <2> QED
    BY <1>1
<1>3. v \in Seq(Arguments) /\ t = ws \o v
  <2>1. \A i \in 1 .. Len(t) : t[i] \in Arguments
    OBVIOUS
  <2>2. v \in Seq(Arguments)
    BY <1>1
  <2>3. t = ws \o v
    <3> DEFINE s == ws \o v
    <3>1. ws \in Seq(Arguments) /\ Len(ws) = n /\ \A i \in 1 .. n : ws[i] = t[i]
      BY <1>1, <2>1
    <3>2. Len(v) = Len(t) - n /\ \A i \in 1 .. Len(t) - n : v[i] = t[n + i]
      BY <1>1
    <3> HIDE DEF ws, v
    <3>3. s \in Seq(Arguments) /\ Len(s) = Len(t)
      <4>1. s \in Seq(Arguments) /\ Len(s) = Len(ws) + Len(v)
        <5>1. \A a, b \in Seq(Arguments) : a \o b \in Seq(Arguments) /\ Len(a \o b) = Len(a) + Len(b)
          OBVIOUS
        <5> QED
          BY <2>2, <3>1, <5>1, Zenon
      <4>2. n + (Len(t) - n) = Len(t)
        BY <1>1
      <4> QED
        BY <3>1, <3>2, <4>1, <4>2
    <3>4. \A i \in 1 .. Len(t) : s[i] = t[i]
      <4> SUFFICES ASSUME NEW i \in 1 .. Len(t) PROVE s[i] = t[i]
        OBVIOUS
      <4>1. CASE i <= n
        BY <1>1, <2>2, <3>1, <3>2, <4>1
      <4>2. CASE i > n
        <5>1. i - n \in 1 .. Len(t) - n /\ s[i] = v[i - n]
          BY <1>1, <2>2, <3>1, <3>2, <4>2
        <5>2. v[i - n] = t[n + (i - n)] /\ n + (i - n) = i
          BY <1>1, <3>2, <5>1
        <5> QED
          BY <5>1, <5>2
      <4>3. i <= n \/ i > n
        BY <1>1
      <4> QED
        BY <4>1, <4>2, <4>3
    <3> HIDE DEF s
    <3>5. s = t
      BY <3>3, <3>4, SeqEqual
    <3> QED
      BY <3>5 DEF s
  <2> QED
    BY <2>2, <2>3
<1>4. v # <<>> => ~IsWord(Head(v))
  <2> SUFFICES ASSUME v # <<>> PROVE ~IsWord(Head(v))
    OBVIOUS
  <2>1. n < Len(t) /\ Head(v) = t[n + 1] /\ t[n + 1] \in Arguments
    BY <1>1
  <2> QED
    BY <1>1, <2>1 DEF Words
<1> HIDE DEF ws, v
<1> QED
  BY <1>2, <1>3, <1>4

\* The longest beginning, by what ends it.
LEMMA WhileAllOf ==
  ASSUME NEW S, NEW ws \in Seq(S), NEW v \in Seq(S), NEW wanted,
         \A i \in 1 .. Len(ws) : ws[i] \in wanted, v # <<>> => Head(v) \notin wanted
  PROVE  WhileAll(ws \o v, wanted) = Len(ws)
<1> DEFINE s == ws \o v
           n == WhileAll(s, wanted)
<1>1. s \in Seq(S) /\ Len(s) = Len(ws) + Len(v) /\ Len(ws) \in Nat /\ Len(v) \in Nat
  OBVIOUS
<1>2. \A i \in 1 .. Len(ws) : s[i] = ws[i]
  OBVIOUS
<1>3. v # <<>> => Len(v) > 0 /\ s[Len(ws) + 1] = Head(v)
  OBVIOUS
<1>4. v = <<>> => Len(v) = 0
  OBVIOUS
<1> HIDE DEF s
<1>5. n \in 0 .. Len(s) /\ (\A i \in 1 .. n : s[i] \in wanted) /\ (n < Len(s) => s[n + 1] \notin wanted)
  BY <1>1, WhileAllIs
<1> HIDE DEF n
<1>6. ~(n < Len(ws))
  <2> SUFFICES ASSUME n < Len(ws) PROVE FALSE
    OBVIOUS
  <2>1. n + 1 \in 1 .. Len(ws) /\ n < Len(s)
    BY <1>1, <1>5
  <2> QED
    BY <1>2, <1>5, <2>1
<1>7. ~(n > Len(ws))
  <2> SUFFICES ASSUME n > Len(ws) PROVE FALSE
    OBVIOUS
  <2>1. Len(ws) + 1 \in 1 .. n /\ v # <<>>
    BY <1>1, <1>4, <1>5
  <2> QED
    BY <1>3, <1>5, <2>1
<1>8. n = Len(ws)
  BY <1>1, <1>5, <1>6, <1>7
<1> QED
  BY <1>8 DEF n, s

\* What the arguments are for an option.
Meaning(o) == [a \in Arguments |-> ResultsOf(o, a)]
Attached(o, h) == IF Tail(h.text) = <<>> THEN <<>> ELSE ResultsOf(o, Word(Tail(h.text)))

\* What an argument means to an option is a line of values.
LEMMA MeaningType == \A o : Meaning(o) \in [Arguments -> Seq(Arguments)]
<1> TAKE o
<1>1. \A a \in Arguments : ResultsOf(o, a) \in Seq(Arguments)
  BY ResultsType
<1> QED
  BY <1>1 DEF Meaning

\* A word with something in it means something.
LEMMA MeansSomething ==
  ASSUME NEW o, NEW text \in Seq(STRING), text # <<>>
  PROVE  ResultsOf(o, Word(text)) # <<>>
<1> DEFINE parts == [i \in DOMAIN text |-> Word(<<text[i]>>)]
<1>1. DOMAIN text = 1 .. Len(text) /\ Len(text) \in Nat /\ Len(text) # 0
  OBVIOUS
<1>2. 1 \in DOMAIN parts
  BY <1>1
<1>3. DOMAIN <<>> = 1 .. 0
  OBVIOUS
<1>4. parts # <<>>
  <2>1. 1 \notin 1 .. 0
    OBVIOUS
  <2> HIDE DEF parts
  <2> QED
    BY <1>2, <1>3, <2>1, Zenon
<1>5. ResultsOf(o, Word(text)) = parts \/ ResultsOf(o, Word(text)) = <<Word(text)>>
  BY DEF ResultsOf, Word
<1> HIDE DEF parts
<1>6. <<Word(text)>> # <<>>
  OBVIOUS
<1> QED
  BY <1>4, <1>5, <1>6, Zenon

\* A list eats the mark that ends it.
Behind(o, v) == IF o \in Lists /\ v # <<>> /\ Head(v).form = "mark" THEN Tail(v) ELSE v

\* The parser with new results of an option and what it leaves of the line.
Took(p, o, results, args) == [p EXCEPT !.args = args, !.results[o] = results]

\* Arguments of which an option takes one, unless it has a value attached, and a list the
\* words behind it.
Takes(args, o, h, start, ws, v) ==
  /\ args = <<h>> \o (start \o (ws \o v))
  /\ IF Tail(h.text) # <<>> THEN start = <<>>
     ELSE \E w \in Arguments : start = <<w>> /\ ResultsOf(o, w) # <<>>
  /\ IF o \in Lists THEN v # <<>> => ~IsWord(Head(v)) ELSE ws = <<>>

\* Words are arguments.
LEMMA WordsAre == \A ws \in Seq(Words) : ws \in Seq(Arguments)
BY DEF Words

\* An option with values, by the words that are taken for it.
LEMMA ParseValueIs ==
  ASSUME NEW p \in Parses, NEW h \in Arguments, NEW o \in Named(h),
         NEW start \in Seq(Arguments), NEW ws \in Seq(Words), NEW v \in Seq(Arguments),
         Takes(p.args, o, h, start, ws, v)
  PROVE  ParseValue(p, o) =
           Took(p, o, (p.results[o] \o Attached(o, h)) \o Spread(Meaning(o), start \o ws),
                Behind(o, v))
<1> DEFINE given == Tail(Head(p.args).text)
           attached == IF given = <<>> THEN <<>> ELSE ResultsOf(o, Word(given))
           rest == Tail(p.args)
           empty == WhileAll(rest, {a \in ToSet(rest) : ResultsOf(o, a) = <<>>})
           least == IF attached = <<>> THEN empty + 1 ELSE 0
           behind == SubSeq(rest, least + 1, Len(rest))
           words == WhileAll(behind, {a \in ToSet(rest) : IsWord(a)})
           taken == IF o \in Lists THEN least + words ELSE least
           ends == o \in Lists /\ taken < Len(rest) /\ rest[taken + 1].form = "mark"
           left == SubSeq(rest, IF ends THEN taken + 2 ELSE taken + 1, Len(rest))
           more == (p.results[o] \o attached) \o Collected(o, rest, taken)
           head == start \o ws
           line == ws \o v
<1>0. /\ p.args = <<h>> \o (start \o (ws \o v))
      /\ IF Tail(h.text) # <<>> THEN start = <<>>
         ELSE \E w \in Arguments : start = <<w>> /\ ResultsOf(o, w) # <<>>
      /\ IF o \in Lists THEN v # <<>> => ~IsWord(Head(v)) ELSE ws = <<>>
  BY DEF Takes
<1>17. o \notin Lists => ws = <<>>
  BY <1>0, Zenon
<1>1. ws \in Seq(Arguments) /\ \A i \in 1 .. Len(ws) : IsWord(ws[i])
  <2>1. ws \in Seq(Arguments)
    BY DEF Words
  <2>2. \A i \in 1 .. Len(ws) : ws[i] \in Words
    OBVIOUS
  <2> QED
    BY <2>1, <2>2 DEF Words
<1>2. line \in Seq(Arguments) /\ head \in Seq(Arguments) /\ start \o line = head \o v
  <2>1. line \in Seq(Arguments)
    BY <1>1
  <2>2. head \in Seq(Arguments)
    BY <1>1
  <2>3. start \o (ws \o v) = (start \o ws) \o v
    <3>1. ws \in Seq(Arguments)
      BY <1>1
    <3> QED
      BY <3>1, OneAfterTheOther, Zenon
  <2> QED
    BY <2>1, <2>2, <2>3, Zenon
<1>3. Head(p.args) = h /\ rest = start \o line
  <2> DEFINE s == start \o line
  <2>1. s \in Seq(Arguments) /\ p.args = <<h>> \o s
    BY <1>0, <1>2
  <2> HIDE DEF s
  <2>2. Head(<<h>> \o s) = h /\ Tail(<<h>> \o s) = s
    BY <2>1, PutBefore
  <2> QED
    BY <2>1, <2>2 DEF s
<1>4. attached = Attached(o, h)
  BY <1>3 DEF Attached
<1>5. rest \in Seq(Arguments) /\ rest = head \o v
  <2> HIDE DEF head, line
  <2>1. head \o v \in Seq(Arguments)
    BY <1>2
  <2>2. rest = head \o v
    BY <1>2, <1>3, Zenon
  <2> HIDE DEF rest
  <2> QED
    BY <2>1, <2>2
<1> HIDE DEF rest, attached, given
<1>6. least = Len(start) /\ behind = line
  <2>1. CASE Tail(h.text) # <<>>
    <3>1. start = <<>>
      BY <1>0, <2>1
    <3>2. Tail(h.text) \in Seq(STRING)
      BY NamedHasName
    <3>3. attached # <<>>
      BY <1>4, <2>1, <3>2, MeansSomething DEF Attached
    <3>4. least = 0 /\ Len(start) = 0
      BY <3>1, <3>3
    <3>5. rest = line
      BY <1>2, <1>3, <3>1
    <3> HIDE DEF line, least
    <3>6. SubSeq(line, 0 + 1, Len(line)) = line
      BY <1>2
    <3> QED
      BY <3>4, <3>5, <3>6
  <2>2. CASE Tail(h.text) = <<>>
    <3>1. PICK w \in Arguments : start = <<w>> /\ ResultsOf(o, w) # <<>>
      BY <1>0, <2>2
    <3>2. attached = <<>>
      BY <1>4, <2>2 DEF Attached
    <3>3. empty = 0
      <4> DEFINE none == {a \in ToSet(rest) : ResultsOf(o, a) = <<>>}
      <4>1. rest # <<>> /\ Head(rest) = w /\ <<>> \o rest = rest /\ <<>> \in Seq(Arguments)
        <5> HIDE DEF line
        <5> QED
          BY <1>2, <1>3, <1>5, <3>1
      <4>2. Head(rest) \notin none
        BY <3>1, <4>1
      <4> HIDE DEF none
      <4>3. WhileAll(<<>> \o rest, none) = Len(<<>>)
        <5>1. \A i \in 1 .. Len(<<>>) : <<>>[i] \in none
          OBVIOUS
        <5> QED
          BY <1>5, <4>1, <4>2, <5>1, WhileAllOf
      <4>4. Len(<<>>) = 0
        OBVIOUS
      <4> QED
        BY <4>1, <4>3, <4>4, Zenon DEF none, empty
    <3> HIDE DEF empty
    <3>4. least = 1 /\ Len(start) = 1
      BY <3>1, <3>2, <3>3
    <3> HIDE DEF line, least
    <3>5. SubSeq(<<w>> \o line, 2, Len(<<w>> \o line)) = line
      BY <1>2
    <3> QED
      BY <1>3, <3>1, <3>4, <3>5
  <2> QED
    BY <2>1, <2>2
<1> HIDE DEF least, behind
<1>7. o \in Lists => words = Len(ws)
  <2> SUFFICES ASSUME o \in Lists PROVE words = Len(ws)
    OBVIOUS
  <2> DEFINE wanted == {a \in ToSet(rest) : IsWord(a)}
  <2>1. \A i \in 1 .. Len(ws) : ws[i] \in wanted
    <3>1. \A i \in 1 .. Len(ws) : ws[i] \in ToSet(rest)
      <4> SUFFICES ASSUME NEW i \in 1 .. Len(ws) PROVE ws[i] \in ToSet(rest)
        OBVIOUS
      <4>1. i \in 1 .. Len(line) /\ line[i] = ws[i]
        BY <1>1
      <4>2. Len(start) + i \in DOMAIN rest /\ rest[Len(start) + i] = line[i]
        <5> HIDE DEF line
        <5>1. Len(start) \in Nat /\ Len(start \o line) = Len(start) + Len(line)
          BY <1>2
        <5>2. (start \o line)[Len(start) + i] = line[i]
          BY <1>2, <4>1, CutApart
        <5>3. Len(start) + i \in 1 .. Len(start) + Len(line)
          BY <1>2, <4>1, <5>1
        <5> QED
          BY <1>3, <1>5, <5>1, <5>2, <5>3
      <4> QED
        BY <4>1, <4>2 DEF ToSet
    <3> QED
      BY <1>1, <3>1
  <2>2. v # <<>> => Head(v) \notin wanted
    BY <1>0
  <2> HIDE DEF wanted
  <2>3. WhileAll(line, wanted) = Len(ws)
    BY <1>1, <2>1, <2>2, WhileAllOf
  <2> QED
    BY <1>6, <2>3 DEF wanted
<1> HIDE DEF words
<1>8. taken = Len(head) /\ Len(head) \in Nat
  <2>1. Len(head) = Len(start) + Len(ws)
    BY <1>1
  <2>2. ws = <<>> => Len(ws) = 0
    OBVIOUS
  <2>3. taken = Len(start) + Len(ws)
    <3>1. CASE o \in Lists
      BY <1>6, <1>7, <3>1
    <3>2. CASE o \notin Lists
      BY <1>6, <1>17, <2>2, <3>2
    <3> QED
      BY <3>1, <3>2
  <2>4. Len(head) \in Nat
    BY <1>2
  <2> QED
    BY <2>1, <2>3, <2>4
<1> HIDE DEF taken
<1>9. ends <=> o \in Lists /\ v # <<>> /\ Head(v).form = "mark"
  <2> HIDE DEF head
  <2>1. (taken < Len(rest)) <=> (v # <<>>)
    BY <1>2, <1>5, <1>8
  <2>2. v # <<>> => rest[taken + 1] = Head(v)
    BY <1>2, <1>5, <1>8, CutApart
  <2> QED
    BY <2>1, <2>2
<1>10. left = IF ends THEN Tail(v) ELSE v
  <2> HIDE DEF head, ends
  <2>1. ends => v # <<>>
    BY <1>9
  <2>2. SubSeq(rest, taken + 1, Len(rest)) = v
    BY <1>2, <1>5, <1>8, CutApart
  <2>3. v # <<>> => SubSeq(rest, taken + 2, Len(rest)) = Tail(v)
    BY <1>2, <1>5, <1>8, CutApart
  <2> QED
    BY <2>1, <2>2, <2>3
<1>11. Collected(o, rest, taken) = Spread(Meaning(o), head)
  <2> HIDE DEF head
  <2>1. DOMAIN head = 1 .. Len(head) /\ \A i \in 1 .. Len(head) : rest[i] = head[i] /\ head[i] \in Arguments
    BY <1>2, <1>5
  <2>2. [i \in 1 .. taken |-> ResultsOf(o, rest[i])] = [i \in DOMAIN head |-> Meaning(o)[head[i]]]
    BY <1>8, <2>1 DEF Meaning
  <2> QED
    BY <2>2, Zenon DEF Collected, Spread
<1> HIDE DEF left, ends
<1>12. ParseValue(p, o) = IF least > Len(rest) THEN [p EXCEPT !.error = TRUE]
                          ELSE [p EXCEPT !.args = left, !.results[o] = more]
  BY DEF ParseValue, least, rest, attached, given, behind, words, taken, left, ends
<1>13. ~(least > Len(rest))
  <2>1. Len(rest) = Len(start) + Len(line)
    <3> HIDE DEF line
    <3> QED
      BY <1>2, <1>3
  <2>2. Len(start) \in Nat /\ Len(line) \in Nat
    BY <1>2
  <2> HIDE DEF line
  <2> QED
    BY <1>6, <2>1, <2>2
<1>14. ParseValue(p, o) = [p EXCEPT !.args = left, !.results[o] = more]
  BY <1>12, <1>13, Zenon
<1>15. left = IF o \in Lists /\ v # <<>> /\ Head(v).form = "mark" THEN Tail(v) ELSE v
  BY <1>9, <1>10
<1> QED
  BY <1>4, <1>11, <1>14, <1>15, Zenon DEF Took, Behind

\* All of a line is spelled apart, or all but its first argument, of which a flag has
\* been taken already.
SpelledAlike(a, b) == b = Spelled(a) \/ (a # <<>> /\ b = <<Head(a)>> \o Spelled(Tail(a)))

\* The two states are in step: they have collected the same, and what they have left is
\* the same line in two spellings.  Behind the mark, arguments only move to those that are
\* left over, and it matters whether there are any.
Alike(p, q) ==
  /\ p \in Parses /\ q \in Parses
  /\ p.results = q.results /\ p.error = q.error /\ p.positionalOnly = q.positionalOnly
  /\ IF p.positionalOnly
     THEN ~p.error /\ (p.missing \o p.args = <<>> <=> q.missing \o q.args = <<>>)
     ELSE p.missing = q.missing /\ TakesNoOption(p) /\ SpelledAlike(p.args, q.args)

\* The option an argument names, the argument without its value, and short options.
Chosen(h) == CHOOSE o \in Named(h) : TRUE
Name(h) == [form |-> h.form, text |-> <<Head(h.text)>>]
Short(text) == [form |-> "short", text |-> text]

\* What a named argument is made of.
LEMMA NameIs ==
  ASSUME NEW h \in Arguments, Named(h) # {}
  PROVE  /\ Chosen(h) \in Named(h)
         /\ h.form \in {"long", "short"} /\ h.text # <<>> /\ h.text \in Seq(STRING)
         /\ Tail(h.text) \in Seq(STRING)
         /\ Name(h) \in Arguments /\ Named(Name(h)) = Named(h) /\ Chosen(Name(h)) = Chosen(h)
         /\ Tail(Name(h).text) = <<>>
<1>1. Chosen(h) \in Named(h)
  BY DEF Chosen
<1>2. h.form \in {"long", "short"}
  BY DEF Named, HasName
<1>3. h.text # <<>> /\ h.text \in Seq(STRING)
  BY <1>2, ArgumentParts
<1>4. Tail(h.text) \in Seq(STRING) /\ Head(h.text) \in STRING
  <2>1. \A text \in Seq(STRING) :
          text # <<>> => Tail(text) \in Seq(STRING) /\ Head(text) \in STRING
    OBVIOUS
  <2> QED
    BY <1>3, <2>1, Zenon
<1>5. <<Head(h.text)>> \in Seq(STRING) \ {<<>>}
  BY <1>4
<1>6. Name(h) \in Arguments
  BY <1>2, <1>5 DEF Name, Arguments
<1>7. Name(h).form = h.form /\ Head(Name(h).text) = Head(h.text) /\ Tail(Name(h).text) = <<>>
  BY <1>4 DEF Name
<1>8. \A o : HasName(o, Name(h)) <=> HasName(o, h)
  BY <1>7, Zenon DEF HasName
<1>9. Named(Name(h)) = Named(h)
  BY <1>8 DEF Named
<1> QED
  BY <1>1, <1>2, <1>3, <1>4, <1>6, <1>7, <1>9 DEF Chosen

\* How an argument is spelled, by its option.
LEMMA ApartIs ==
  ASSUME NEW h \in Arguments
  PROVE  Apart(h) = IF Named(h) = {} \/ Tail(h.text) = <<>> THEN <<h>>
                    ELSE IF Chosen(h) \notin Flags THEN <<Name(h), Word(Tail(h.text))>>
                    ELSE IF h.form = "short" THEN <<Name(h), Short(Tail(h.text))>>
                    ELSE <<h>>
BY Zenon DEF Apart, Chosen, Name, Short

\* One step, by the argument that comes first.
LEMMA SingleIs ==
  ASSUME NEW p \in Parses, NEW h \in Arguments, NEW t \in Seq(Arguments), p.args = <<h>> \o t,
         ~p.positionalOnly
  PROVE  ParseSingle(p) = IF Named(h) = {} THEN MoveToMissing(p)
                          ELSE IF Chosen(h) \in Flags THEN ParseFlag(p, Chosen(h))
                          ELSE ParseValue(p, Chosen(h))
<1>1. Head(p.args) = h
  BY PutBefore
<1> DEFINE named == IF p.positionalOnly THEN {} ELSE Named(Head(p.args))
<1>2. named = Named(h)
  BY <1>1
<1>3. ParseSingle(p) = IF named = {} THEN MoveToMissing(p)
                       ELSE IF (CHOOSE n \in named : TRUE) \in Flags
                            THEN ParseFlag(p, CHOOSE n \in named : TRUE)
                       ELSE ParseValue(p, CHOOSE n \in named : TRUE)
  BY DEF ParseSingle
<1> HIDE DEF named
<1> QED
  BY <1>2, <1>3, Zenon DEF Chosen

\* What a flag leaves of the line, and its value.
FlagLeaves(h, t) ==
  IF h.form = "long" \/ Tail(h.text) = <<>> THEN t ELSE <<Short(Tail(h.text))>> \o t
FlagResult(h) ==
  IF h.form = "long" /\ Tail(h.text) # <<>> THEN Word(Tail(h.text)) ELSE TrueString

\* A flag, by the argument that comes first.
LEMMA ParseFlagIs ==
  ASSUME NEW p \in Parses, NEW h \in Arguments, NEW t \in Seq(Arguments), p.args = <<h>> \o t, NEW o
  PROVE  ParseFlag(p, o) = Took(p, o, Append(p.results[o], FlagResult(h)), FlagLeaves(h, t))
<1>1. Head(p.args) = h /\ Tail(p.args) = t
  BY PutBefore
<1>2. (IF h.form = "long" /\ Tail(h.text) # <<>> THEN Word(Tail(h.text)) ELSE TrueString) = FlagResult(h)
  BY DEF FlagResult
<1>3. (IF h.form = "long" \/ Tail(h.text) = <<>> THEN Tail(p.args)
       ELSE <<[form |-> "short", text |-> Tail(h.text)]>> \o Tail(p.args)) = FlagLeaves(h, t)
  BY <1>1 DEF FlagLeaves, Short
<1>4. ParseFlag(p, o) =
        [p EXCEPT !.results[o] = Append(@, IF h.form = "long" /\ Tail(h.text) # <<>>
                                           THEN Word(Tail(h.text)) ELSE TrueString),
                  !.args = IF h.form = "long" \/ Tail(h.text) = <<>> THEN Tail(@)
                           ELSE <<[form |-> "short", text |-> Tail(h.text)]>> \o Tail(@)]
  BY <1>1, Zenon DEF ParseFlag
<1> QED
  BY <1>2, <1>3, <1>4 DEF Took

\* The parts of a state of the parser.
LEMMA PartsOfParse ==
  ASSUME NEW p \in Parses
  PROVE  /\ p.args \in Seq(Arguments) /\ p.missing \in Seq(Arguments)
         /\ p.positionalOnly \in BOOLEAN /\ p.error \in BOOLEAN
         /\ p.results \in [OptionNames -> Seq(Arguments)]
BY DEF Parses

\* The results with those of one option replaced.
ResultsWith(results, o, x) == [results EXCEPT ![o] = x]

\* What is new in it, and what is not.
LEMMA TookIs ==
  \A p \in Parses : \A o, x, y :
    /\ Took(p, o, x, y).args = y
    /\ Took(p, o, x, y).results = ResultsWith(p.results, o, x)
    /\ Took(p, o, x, y).missing = p.missing
    /\ Took(p, o, x, y).error = p.error
    /\ Took(p, o, x, y).positionalOnly = p.positionalOnly
BY DEF Parses, Took, ResultsWith

\* What holds of the options of a line holds of an end of it.
LEMMA TakesNoOptionLater ==
  ASSUME NEW p \in Parses, NEW q \in Parses, NEW s \in Seq(Arguments),
         TakesNoOption(p), p.args = s \o q.args
  PROVE  TakesNoOption(q)
<1> DEFINE t == q.args
           u == p.args
<1>1. t \in Seq(Arguments) /\ u = s \o t /\ u \in Seq(Arguments)
  BY PartsOfParse
<1>2. \A i \in 1 .. Len(u) - 1 : TakesNext(u[i]) => IsWord(u[i + 1]) /\ u[i + 1].text # <<>>
  BY DEF TakesNoOption
<1> HIDE DEF t, u
<1>3. Len(s) \in Nat /\ Len(t) \in Nat /\ Len(u) = Len(s) + Len(t)
  BY <1>1
<1>4. \A i \in 1 .. Len(t) : u[Len(s) + i] = t[i]
  BY <1>1, CutApart
<1>5. ASSUME NEW i \in 1 .. Len(t) - 1, TakesNext(t[i]) PROVE IsWord(t[i + 1]) /\ t[i + 1].text # <<>>
  <2>1. /\ i \in 1 .. Len(t) /\ i + 1 \in 1 .. Len(t)
        /\ Len(s) + i \in 1 .. Len(u) - 1 /\ Len(s) + (i + 1) = (Len(s) + i) + 1
    BY <1>3
  <2>2. u[Len(s) + i] = t[i] /\ u[Len(s) + (i + 1)] = t[i + 1]
    BY <1>4, <2>1, Zenon
  <2>3. TakesNext(u[Len(s) + i]) =>
          IsWord(u[(Len(s) + i) + 1]) /\ u[(Len(s) + i) + 1].text # <<>>
    BY <1>2, <2>1, Zenon
  <2> QED
    BY <1>5, <2>1, <2>2, <2>3, Zenon
<1> QED
  BY <1>5 DEF TakesNoOption, t

\* ... and of a line whose first argument has lost a flag.
LEMMA TakesNoOptionCut ==
  ASSUME NEW p \in Parses, NEW q \in Parses, NEW g \in Arguments, NEW h \in Arguments,
         NEW t \in Seq(Arguments), p.args = <<h>> \o t, q.args = <<g>> \o t,
         TakesNoOption(p), TakesNext(g) => TakesNext(h)
  PROVE  TakesNoOption(q)
<1>1. ASSUME NEW f \in Arguments
      PROVE  /\ Len(<<f>> \o t) = 1 + Len(t) /\ (<<f>> \o t)[1] = f /\ Len(t) \in Nat
             /\ \A i \in 1 .. Len(t) : (<<f>> \o t)[1 + i] = t[i]
  OBVIOUS
<1>2. \A i \in 1 .. Len(t) : p.args[1 + i] = t[i] /\ q.args[1 + i] = t[i]
  BY <1>1
<1>3. /\ p.args[1] = h /\ q.args[1] = g /\ Len(t) \in Nat
      /\ Len(p.args) = 1 + Len(t) /\ Len(q.args) = 1 + Len(t)
  BY <1>1
<1>4. \A i \in 1 .. Len(p.args) - 1 :
         TakesNext(p.args[i]) => IsWord(p.args[i + 1]) /\ p.args[i + 1].text # <<>>
  BY DEF TakesNoOption
<1>5. ASSUME NEW i \in 1 .. Len(q.args) - 1, TakesNext(q.args[i])
      PROVE  IsWord(q.args[i + 1]) /\ q.args[i + 1].text # <<>>
  <2>1. i \in 1 .. Len(t) /\ i + 1 = 1 + i /\ i \in 1 .. Len(p.args) - 1
    BY <1>3
  <2>2. p.args[i + 1] = q.args[i + 1]
    BY <1>2, <2>1
  <2>3. TakesNext(p.args[i])
    <3>1. CASE i = 1
      BY <1>3, <1>5, <3>1
    <3>2. CASE i # 1
      <4>1. i - 1 \in 1 .. Len(t) /\ 1 + (i - 1) = i
        BY <2>1, <3>2
      <4>2. p.args[i] = q.args[i]
        BY <1>2, <4>1
      <4> QED
        BY <1>5, <4>2
    <3> QED
      BY <3>1, <3>2
  <2> QED
    BY <1>4, <2>1, <2>2, <2>3, Zenon
<1> QED
  BY <1>5, Zenon DEF TakesNoOption

\* A line that begins with an argument, spelled in either way.
LEMMA SpelledFirst ==
  ASSUME NEW h \in Arguments, NEW t \in Seq(Arguments), NEW b
  PROVE  SpelledAlike(<<h>> \o t, b) <=> b = Apart(h) \o Spelled(t) \/ b = <<h>> \o Spelled(t)
<1>1. <<h>> \o t # <<>> /\ Head(<<h>> \o t) = h /\ Tail(<<h>> \o t) = t
  BY PutBefore
<1>2. <<h>> \in Seq(Arguments)
  OBVIOUS
<1>3. Spelled(<<h>> \o t) = Apart(h) \o Spelled(t)
  <2>1. Spelled(<<h>> \o t) = Spelled(<<h>>) \o Spelled(t)
    BY <1>2, SpelledLine
  <2>2. Spelled(<<h>>) = Apart(h)
    BY SpelledLine
  <2> QED
    BY <2>1, <2>2, Zenon
<1> QED
  BY <1>1, <1>3, Zenon DEF SpelledAlike

\* A line that begins.
LEMMA FirstOfLine ==
  ASSUME NEW s \in Seq(Arguments), s # <<>>
  PROVE  Head(s) \in Arguments /\ Tail(s) \in Seq(Arguments) /\ s = <<Head(s)>> \o Tail(s)
<1>1. Head(s) \in Arguments /\ Tail(s) \in Seq(Arguments)
  OBVIOUS
<1>2. s = <<Head(s)>> \o Tail(s)
  OBVIOUS
<1> QED
  BY <1>1, <1>2

\* Two arguments before others.
LEMMA TwoBefore ==
  \A a, b \in Arguments, s \in Seq(Arguments) : <<a, b>> \o s = <<a>> \o (<<b>> \o s)
<1> TAKE a \in Arguments, b \in Arguments, s \in Seq(Arguments)
<1>1. <<a, b>> = <<a>> \o <<b>> /\ <<a>> \in Seq(Arguments) /\ <<b>> \in Seq(Arguments)
  <2>1. <<a>> \in Seq(Arguments) /\ <<b>> \in Seq(Arguments)
    OBVIOUS
  <2>2. <<a, b>> = <<a>> \o <<b>>
    <3> DEFINE u == <<a, b>>
               v == <<a>> \o <<b>>
    <3>1. u \in Seq(Arguments) /\ Len(u) = 2 /\ u[1] = a /\ u[2] = b
      OBVIOUS
    <3>2. v \in Seq(Arguments) /\ Len(v) = 2 /\ v[1] = a /\ v[2] = b
      BY <2>1
    <3> HIDE DEF u, v
    <3>3. \A i \in 1 .. Len(u) : u[i] = v[i]
      BY <3>1, <3>2
    <3>4. u = v
      BY <3>1, <3>2, <3>3, SeqEqual
    <3> QED
      BY <3>4 DEF u, v
  <2> QED
    BY <2>1, <2>2
<1>2. <<a>> \o (<<b>> \o s) = (<<a>> \o <<b>>) \o s
  BY <1>1, OneAfterTheOther, Zenon
<1> QED
  BY <1>1, <1>2, Zenon

\* What is left over is left over in both spellings.
LEMMA MoveAlike ==
  ASSUME NEW p, NEW q, Alike(p, q), ~p.positionalOnly, ~p.error,
         NEW h \in Arguments, NEW t \in Seq(Arguments), p.args = <<h>> \o t,
         q.args = <<h>> \o Spelled(t), MoveToMissing(p) \in Parses, MoveToMissing(q) \in Parses
  PROVE  Alike(MoveToMissing(p), MoveToMissing(q))
<1> DEFINE r == MoveToMissing(p)
           s == MoveToMissing(q)
<1>0. p \in Parses /\ q \in Parses /\ TakesNoOption(p)
      /\ p.missing = q.missing /\ p.results = q.results /\ p.error = q.error
      /\ p.positionalOnly = FALSE /\ q.positionalOnly = FALSE
  <2>1. p \in Parses /\ p.positionalOnly \in BOOLEAN
    BY PartsOfParse DEF Alike
  <2> QED
    BY <2>1, Zenon DEF Alike
<1>1. Spelled(t) \in Seq(Arguments) /\ <<h>> \in Seq(Arguments)
  BY SpelledLine
<1>2. Head(p.args) = h /\ Tail(p.args) = t /\ Head(q.args) = h /\ Tail(q.args) = Spelled(t)
  BY <1>1, PutBefore
<1>3. /\ r.args = t /\ r.results = p.results /\ r.error = p.error
      /\ r.missing = Append(p.missing, h)
      /\ r.positionalOnly = (p.positionalOnly \/ h.form = "mark")
  BY <1>0, <1>2 DEF MoveToMissing, Parses
<1>4. /\ s.args = Spelled(t) /\ s.results = q.results /\ s.error = q.error
      /\ s.missing = Append(q.missing, h)
      /\ s.positionalOnly = (q.positionalOnly \/ h.form = "mark")
  BY <1>0, <1>2 DEF MoveToMissing, Parses
<1> HIDE DEF r, s
<1>5. r \in Parses /\ s \in Parses
  BY DEF r, s
<1>6. r.positionalOnly = s.positionalOnly
  BY <1>0, <1>3, <1>4, Zenon
<1>7. TakesNoOption(r)
  BY <1>0, <1>1, <1>3, <1>5, TakesNoOptionLater
<1>8. SpelledAlike(r.args, s.args)
  BY <1>3, <1>4, Zenon DEF SpelledAlike
<1>9. r.missing \o r.args # <<>> /\ s.missing \o s.args # <<>>
  <2>1. ASSUME NEW m \in Seq(Arguments), NEW a \in Seq(Arguments)
        PROVE  Append(m, h) \o a # <<>>
    <3>1. Append(m, h) \in Seq(Arguments) /\ Len(Append(m, h)) = Len(m) + 1
      OBVIOUS
    <3>2. Len(Append(m, h) \o a) = Len(Append(m, h)) + Len(a)
      BY <3>1
    <3>3. Len(<<>>) = 0 /\ Len(m) \in Nat /\ Len(a) \in Nat
      OBVIOUS
    <3> DEFINE w == Append(m, h) \o a
    <3>4. Len(w) = (Len(m) + 1) + Len(a)
      BY <3>1, <3>2
    <3> HIDE DEF w
    <3>5. w # <<>>
      BY <3>3, <3>4
    <3> QED
      BY <3>5 DEF w
  <2>2. p.missing \in Seq(Arguments)
    BY <1>0, PartsOfParse
  <2> QED
    BY <1>0, <1>1, <1>3, <1>4, <2>1, <2>2, Zenon
<1>10. Alike(r, s)
  BY <1>0, <1>3, <1>4, <1>5, <1>6, <1>7, <1>8, <1>9, Zenon DEF Alike
<1> QED
  BY <1>10 DEF r, s

\* Two steps that take the same results off two spellings leave two spellings.
LEMMA TakenAlike ==
  ASSUME NEW p, NEW q, Alike(p, q), ~p.positionalOnly, ~p.error, NEW o, NEW x,
         NEW a, NEW b, NEW r \in Parses, NEW s \in Parses,
         r = Took(p, o, x, a),
         s = Took(q, o, x, b),
         TakesNoOption(r), SpelledAlike(a, b)
  PROVE  Alike(r, s)
<1>0. p \in Parses /\ q \in Parses
      /\ p.missing = q.missing /\ p.results = q.results /\ p.error = q.error
      /\ p.positionalOnly = q.positionalOnly
  BY Zenon DEF Alike
<1>1. /\ r.args = a /\ r.results = ResultsWith(p.results, o, x)
      /\ r.missing = p.missing /\ r.error = p.error /\ r.positionalOnly = p.positionalOnly
  BY <1>0, TookIs
<1>2. /\ s.args = b /\ s.results = ResultsWith(q.results, o, x)
      /\ s.missing = q.missing /\ s.error = q.error /\ s.positionalOnly = q.positionalOnly
  BY <1>0, TookIs
<1>3. r.results = s.results
  BY <1>0, <1>1, <1>2, Zenon
<1> QED
  BY <1>0, <1>1, <1>2, <1>3, Zenon DEF Alike

\* A flag is the same in both spellings.
LEMMA FlagAlike ==
  ASSUME NEW p, NEW q, Alike(p, q), ~p.positionalOnly, ~p.error,
         NEW h \in Arguments, NEW t \in Seq(Arguments), p.args = <<h>> \o t,
         Named(h) # {}, Chosen(h) \in Flags,
         ParseFlag(p, Chosen(h)) \in Parses, ParseFlag(q, Chosen(h)) \in Parses,
         q.args = Apart(h) \o Spelled(t) \/ q.args = <<h>> \o Spelled(t)
  PROVE  Alike(ParseFlag(p, Chosen(h)), ParseFlag(q, Chosen(h)))
<1> DEFINE o == Chosen(h)
           r == ParseFlag(p, o)
           s == ParseFlag(q, o)
           tail == Tail(h.text)
           apart == ~(h.form = "long" \/ tail = <<>>)
           spelled == Spelled(t)
<1>0. p \in Parses /\ q \in Parses /\ TakesNoOption(p) /\ p.results = q.results
  BY Zenon DEF Alike
<1>1. spelled \in Seq(Arguments)
  BY SpelledLine
<1>2. /\ h.form \in {"long", "short"} /\ h.text # <<>> /\ h.text \in Seq(STRING)
      /\ tail \in Seq(STRING) /\ Name(h) \in Arguments /\ Tail(Name(h).text) = <<>>
      /\ Chosen(h) \in Named(h)
  BY NameIs
<1>3. r = Took(p, o, Append(p.results[o], FlagResult(h)), FlagLeaves(h, t))
  BY <1>0, ParseFlagIs, Zenon
<1>4. apart => Short(tail) \in Arguments /\ Short(tail).form = "short" /\ Short(tail).text = tail
  BY <1>2, WordsAreArguments DEF Short
<1> HIDE DEF spelled, tail, o
<1>5. \/ /\ FlagLeaves(h, t) = t
         /\ s = Took(q, o, Append(q.results[o], FlagResult(h)), spelled)
      \/ /\ apart /\ FlagLeaves(h, t) = <<Short(tail)>> \o t
         /\ s = Took(q, o, Append(q.results[o], FlagResult(h)), <<Short(tail)>> \o spelled)
  <2>1. CASE q.args = <<h>> \o spelled
    <3>1. s = Took(q, o, Append(q.results[o], FlagResult(h)), FlagLeaves(h, spelled))
      BY <1>0, <1>1, <2>1, ParseFlagIs, Zenon
    <3> QED
      BY <3>1, Zenon DEF FlagLeaves, tail
  <2>2. CASE q.args # <<h>> \o spelled
    <3>0. q.args = Apart(h) \o spelled
      BY <2>2 DEF spelled
    <3>1. Apart(h) # <<h>>
      BY <2>2, <3>0, Zenon
    <3>2. Apart(h) = <<Name(h), Short(tail)>> /\ h.form = "short" /\ tail # <<>>
      BY <3>1, ApartIs, Zenon DEF tail, o
    <3>3. apart
      BY <3>2
    <3> DEFINE line == <<Short(tail)>> \o spelled
               n == Name(h)
               c == Short(tail)
    <3>4. line \in Seq(Arguments)
      BY <1>1, <1>4, <3>3
    <3>5. n \in Arguments /\ c \in Arguments /\ n.form = "short" /\ Tail(n.text) = <<>>
      BY <1>2, <1>4, <3>2, <3>3 DEF Name
    <3>6. <<n, c>> \o spelled = <<n>> \o (<<c>> \o spelled)
      BY <1>1, <3>5, TwoBefore, Zenon
    <3>7. q.args = <<n>> \o line
      BY <3>0, <3>2, <3>6, Zenon
    <3> HIDE DEF line, n
    <3>8. s = Took(q, o, Append(q.results[o], FlagResult(n)), FlagLeaves(n, line))
      <4>1. ParseFlag(q, o) = Took(q, o, Append(q.results[o], FlagResult(n)), FlagLeaves(n, line))
        <5> HIDE DEF c, apart
        <5>1. q \in Parses /\ n \in Arguments /\ line \in Seq(Arguments) /\ q.args = <<n>> \o line
          BY <1>0, <3>4, <3>5, <3>7
        <5> QED
          BY ONLY <5>1, ParseFlagIs
      <4> QED
        BY <4>1
    <3>9. FlagResult(n) = TrueString /\ FlagLeaves(n, line) = line
      BY <3>5 DEF FlagResult, FlagLeaves
    <3>10. FlagResult(h) = TrueString /\ FlagLeaves(h, t) = <<c>> \o t
      BY <3>2 DEF FlagResult, FlagLeaves, tail
    <3> QED
      BY <3>3, <3>8, <3>9, <3>10, Zenon DEF line
  <2> QED
    BY <2>1, <2>2
<1>6. CASE FlagLeaves(h, t) = t /\ s = Took(q, o, Append(q.results[o], FlagResult(h)), spelled)
  <2>1. r = Took(p, o, Append(p.results[o], FlagResult(h)), t)
    BY <1>3, <1>6, Zenon
  <2>2. r.args = t
    BY <1>0, <2>1, TookIs
  <2>3. r \in Parses /\ s \in Parses /\ <<h>> \in Seq(Arguments)
    BY DEF o
  <2> HIDE DEF r, s
  <2>4. TakesNoOption(r)
    BY <1>0, <2>2, <2>3, TakesNoOptionLater
  <2>5. SpelledAlike(t, spelled)
    BY DEF SpelledAlike, spelled
  <2>6. s = Took(q, o, Append(p.results[o], FlagResult(h)), spelled)
    BY <1>0, <1>6, Zenon
  <2>7. Alike(r, s)
    BY <2>1, <2>3, <2>4, <2>5, <2>6, TakenAlike
  <2> QED
    BY <2>7 DEF r, s, o
<1>7. CASE /\ apart /\ FlagLeaves(h, t) = <<Short(tail)>> \o t
           /\ s = Took(q, o, Append(q.results[o], FlagResult(h)), <<Short(tail)>> \o spelled)
  <2> DEFINE c == Short(tail)
             a == <<c>> \o t
             b == <<c>> \o spelled
  <2>0. c \in Arguments /\ c.form = "short" /\ c.text = tail
    BY <1>4, <1>7
  <2>1. r = Took(p, o, Append(p.results[o], FlagResult(h)), a)
    BY <1>3, <1>7, Zenon
  <2>2. r.args = a
    <3> HIDE DEF a, r
    <3> QED
      BY <1>0, <2>1, TookIs
  <2>3. r \in Parses /\ s \in Parses
    BY DEF o
  <2>4. s = Took(q, o, Append(p.results[o], FlagResult(h)), b)
    BY <1>0, <1>7, Zenon
  <2> HIDE DEF r, s, c
  <2>5. TakesNext(c) => TakesNext(h)
    <3> SUFFICES ASSUME TakesNext(c) PROVE TakesNext(h)
      OBVIOUS
    <3> DEFINE n == Len(h.text)
    <3>1. h.form = "short" /\ tail # <<>>
      BY <1>2, <1>7
    <3>2. n \in Nat /\ n >= 2 /\ Len(tail) = n - 1 /\ \A i \in 1 .. n - 1 : tail[i] = h.text[i + 1]
      BY <1>2, <3>1 DEF tail
    <3>3. Last(tail) \in OptionNames \ Flags /\ \A i \in 1 .. Len(tail) - 1 : tail[i] \in Flags
      BY <2>0, Zenon DEF TakesNext
    <3>4. Last(h.text) = Last(tail)
      <4>1. n - 1 \in 1 .. n - 1 /\ (n - 1) + 1 = n
        BY <3>2
      <4>2. tail[n - 1] = h.text[n]
        BY <3>2, <4>1
      <4> QED
        BY <3>2, <4>2 DEF Last
    <3>5. h.text[1] \in Flags
      <4>1. HasName(Chosen(h), h)
        BY <1>2 DEF Named
      <4>2. Head(h.text) = Chosen(h)
        BY <3>1, <4>1 DEF HasName
      <4>3. Head(h.text) = h.text[1]
        BY <1>2
      <4> QED
        BY <4>2, <4>3
    <3>6. ASSUME NEW i \in 1 .. n - 1 PROVE h.text[i] \in Flags
      <4>1. CASE i = 1
        BY <3>5, <4>1
      <4>2. CASE i # 1
        <5>1. i - 1 \in 1 .. n - 1 /\ i - 1 \in 1 .. (n - 1) - 1 /\ (i - 1) + 1 = i
          BY <3>2, <4>2
        <5>2. tail[i - 1] = h.text[i]
          BY <3>2, <5>1
        <5> QED
          BY <3>2, <3>3, <5>1, <5>2
      <4> QED
        BY <4>1, <4>2
    <3> QED
      BY <3>1, <3>3, <3>4, <3>6, Zenon DEF TakesNext
  <2>6. TakesNoOption(r)
    BY <1>0, <2>0, <2>2, <2>3, <2>5, TakesNoOptionCut
  <2>7. SpelledAlike(a, b)
    BY <2>0, SpelledFirst DEF spelled
  <2> HIDE DEF a, b
  <2>8. Alike(r, s)
    BY <2>1, <2>3, <2>4, <2>6, <2>7, TakenAlike
  <2> QED
    BY <2>8 DEF r, s, o
<1> QED
  BY <1>5, <1>6, <1>7

\* The line ends before the value an option needs.
Failed(p) == [p EXCEPT !.error = TRUE]

\* An option without any value behind it.
LEMMA ParseValueFails ==
  ASSUME NEW p \in Parses, NEW h \in Arguments, p.args = <<h>>, Tail(h.text) = <<>>, NEW o
  PROVE  ParseValue(p, o) = Failed(p)
<1> DEFINE given == Tail(Head(p.args).text)
           attached == IF given = <<>> THEN <<>> ELSE ResultsOf(o, Word(given))
           rest == Tail(p.args)
           empty == WhileAll(rest, {a \in ToSet(rest) : ResultsOf(o, a) = <<>>})
           least == IF attached = <<>> THEN empty + 1 ELSE 0
<1>1. Head(p.args) = h /\ rest = <<>>
  OBVIOUS
<1>2. attached = <<>>
  BY <1>1
<1>3. empty \in 0 .. Len(rest)
  <2>1. rest \in Seq(Arguments)
    BY <1>1
  <2> HIDE DEF rest
  <2> QED
    BY <2>1, WhileAllIs
<1>4. Len(rest) = 0
  BY <1>1
<1> HIDE DEF attached, rest, empty
<1>5. least = 1
  BY <1>2, <1>3, <1>4
<1>6. least > Len(rest)
  BY <1>4, <1>5
<1> HIDE DEF least
<1>7. \E x : ParseValue(p, o) = IF least > Len(rest) THEN Failed(p) ELSE x
  BY DEF ParseValue, Failed, least, empty, attached, rest
<1> QED
  BY <1>6, <1>7

\* What is left behind a value is spelled like the line.
LEMMA BehindSpelled ==
  ASSUME NEW o, NEW v \in Seq(Arguments)
  PROVE  /\ Behind(o, Spelled(v)) = Spelled(Behind(o, v))
         /\ (v # <<>> /\ Spelled(v) # <<>> /\ Head(Spelled(v)).form = Head(v).form)
            \/ (v = <<>> /\ Spelled(v) = <<>>)
         /\ \E s \in Seq(Arguments) : v = s \o Behind(o, v)
<1>1. CASE v = <<>>
  <2>1. Spelled(v) = <<>> /\ Behind(o, v) = <<>>
    BY <1>1, SpelledLine DEF Behind
  <2>2. <<>> \in Seq(Arguments) /\ <<>> = <<>> \o <<>>
    OBVIOUS
  <2> QED
    BY <1>1, <2>1, <2>2
<1>2. CASE v # <<>>
  <2> DEFINE h == Head(v)
             t == Tail(v)
  <2>1. h \in Arguments /\ t \in Seq(Arguments) /\ v = <<h>> \o t
    BY <1>2, FirstOfLine
  <2>2. <<h>> \in Seq(Arguments)
    BY <2>1
  <2> HIDE DEF h, t
  <2>3. Spelled(v) = Apart(h) \o Spelled(t)
    <3>1. Spelled(<<h>> \o t) = Spelled(<<h>>) \o Spelled(t)
      BY <2>1, <2>2, SpelledLine, Zenon
    <3>2. Spelled(<<h>>) = Apart(h)
      BY <2>1, SpelledLine, Zenon
    <3> QED
      BY <2>1, <3>1, <3>2, Zenon
  <2>4. /\ Apart(h) \in Seq(Arguments) /\ Apart(h) # <<>> /\ Head(Apart(h)).form = h.form
        /\ Spelled(t) \in Seq(Arguments)
    BY <2>1, ApartType, SpelledLine
  <2>5. \A a, b \in Seq(Arguments) : a # <<>> => a \o b # <<>> /\ Head(a \o b) = Head(a)
    OBVIOUS
  <2>6. Spelled(v) # <<>> /\ Head(Spelled(v)).form = h.form
    BY <2>3, <2>4, <2>5, Zenon
  <2>7. CASE o \in Lists /\ h.form = "mark"
    <3>1. Named(h) = {}
      BY <2>7 DEF Named, HasName
    <3>2. Apart(h) = <<h>>
      BY <2>1, <3>1, ApartIs
    <3>3. Tail(<<h>> \o Spelled(t)) = Spelled(t)
      BY <2>1, <2>4, PutBefore
    <3>4. Behind(o, v) = t
      BY <1>2, <2>7 DEF Behind, h, t
    <3>5. Behind(o, Spelled(v)) = Tail(Spelled(v))
      BY <2>6, <2>7, Zenon DEF Behind
    <3>6. Behind(o, Spelled(v)) = Spelled(t)
      BY <2>3, <3>2, <3>3, <3>5, Zenon
    <3> QED
      BY <1>2, <2>1, <2>2, <2>6, <3>4, <3>6, Zenon DEF h
  <2>8. CASE ~(o \in Lists /\ h.form = "mark")
    <3>1. Behind(o, v) = v
      BY <2>8, Zenon DEF Behind, h
    <3>2. Behind(o, Spelled(v)) = Spelled(v)
      BY <2>6, <2>8, Zenon DEF Behind
    <3>3. <<>> \in Seq(Arguments) /\ v = <<>> \o v
      OBVIOUS
    <3> QED
      BY <1>2, <2>6, <3>1, <3>2, <3>3, Zenon DEF h
  <2> QED
    BY <2>7, <2>8
<1> QED
  BY <1>1, <1>2

\* What an option takes of the line, and what it leaves.
LEMMA TakenWords ==
  ASSUME NEW o, NEW mid \in Seq(Arguments)
  PROVE  \E ws \in Seq(Words), v \in Seq(Arguments) :
           mid = ws \o v /\ (IF o \in Lists THEN v # <<>> => ~IsWord(Head(v)) ELSE ws = <<>>)
<1>1. CASE o \in Lists
  BY <1>1, WordsFirst
<1>2. CASE o \notin Lists
  <2>1. <<>> \in Seq(Words) /\ mid = <<>> \o mid
    OBVIOUS
  <2> QED
    BY <1>2, <2>1
<1> QED
  BY <1>1, <1>2

\* An option without a value is followed by a word, or nothing follows.
LEMMA WordFollows ==
  ASSUME NEW p \in Parses, NEW h \in Arguments, NEW t \in Seq(Arguments), p.args = <<h>> \o t,
         TakesNoOption(p), Named(h) # {}, Chosen(h) \notin Flags, Tail(h.text) = <<>>, t # <<>>
  PROVE  Head(t) \in Words /\ Head(t) = Word(Head(t).text) /\ Head(t).text # <<>>
<1> DEFINE u == p.args
<1>1. /\ Chosen(h) \in Named(h) /\ h.form \in {"long", "short"}
      /\ h.text # <<>> /\ h.text \in Seq(STRING)
  BY NameIs
<1>2. Chosen(h) \in OptionNames /\ HasName(Chosen(h), h)
  BY <1>1 DEF Named
<1>3. Len(h.text) = 1 /\ h.text[1] = Head(h.text)
  <2>1. \A text \in Seq(STRING) :
          text # <<>> => Len(Tail(text)) = Len(text) - 1 /\ text[1] = Head(text) /\ Len(text) \in Nat
    OBVIOUS
  <2>2. Len(Tail(h.text)) = Len(h.text) - 1 /\ h.text[1] = Head(h.text) /\ Len(h.text) \in Nat
    BY <1>1, <2>1, Zenon
  <2>3. Len(<<>>) = 0
    OBVIOUS
  <2>4. Len(Tail(h.text)) = 0
    BY <2>3, Zenon
  <2> QED
    BY <2>2, <2>4
<1>4. TakesNext(h)
  <2>1. CASE h.form = "short"
    <3>1. Head(h.text) = Chosen(h)
      BY <1>2, <2>1 DEF HasName
    <3>2. Last(h.text) = Chosen(h)
      BY <1>3, <3>1 DEF Last
    <3>3. \A i \in 1 .. Len(h.text) - 1 : h.text[i] \in Flags
      BY <1>3
    <3> QED
      BY <1>2, <2>1, <3>2, <3>3, Zenon DEF TakesNext
  <2>2. CASE h.form # "short"
    <3>1. Chosen(h) \in Named(h) \ Flags
      BY <1>1
    <3> QED
      BY <2>2, <3>1, Zenon DEF TakesNext
  <2> QED
    BY <2>1, <2>2
<1>5. Len(u) = 1 + Len(t) /\ Len(t) \in Nat /\ u[1] = h /\ u[1 + 1] = Head(t) /\ Len(t) # 0
  OBVIOUS
<1>6. \A i \in 1 .. Len(u) - 1 : TakesNext(u[i]) => IsWord(u[i + 1]) /\ u[i + 1].text # <<>>
  BY DEF TakesNoOption
<1>7. IsWord(u[1 + 1]) /\ u[1 + 1].text # <<>>
  <2> HIDE DEF u
  <2>1. 1 \in 1 .. Len(u) - 1
    BY <1>5
  <2> QED
    BY <1>4, <1>5, <1>6, <2>1, Zenon
<1> HIDE DEF u
<1>8. Head(t) \in Arguments
  OBVIOUS
<1>9. Head(t).form = "word"
  BY <1>5, <1>7 DEF IsWord
<1>10. Head(t) = Word(Head(t).text)
  <2> DEFINE w == Head(t)
  <2> HIDE DEF w
  <2>1. w \in Arguments /\ w.form = "word"
    BY <1>8, <1>9 DEF w
  <2>2. w = Word(w.text)
    BY <2>1 DEF Arguments, Word
  <2> QED
    BY <2>2 DEF w
<1> QED
  BY <1>5, <1>7, <1>8, <1>10, Zenon DEF Words

\* How an option with values and its arguments are spelled in the other line.
ValueLine(o, h, start, ws, v, args) ==
  \/ args = <<h>> \o (start \o (ws \o Spelled(v)))
  \/ /\ Tail(h.text) # <<>>
     /\ args = <<Name(h)>> \o (<<Word(Tail(h.text))>> \o (ws \o Spelled(v)))

\* The arguments that an option takes are a word, if nothing is attached, and the words
\* of a list, in both spellings.
LEMMA ValueLines ==
  ASSUME NEW p, NEW q, Alike(p, q), ~p.positionalOnly,
         NEW h \in Arguments, NEW t \in Seq(Arguments), p.args = <<h>> \o t,
         Named(h) # {}, Chosen(h) \notin Flags, ~(t = <<>> /\ Tail(h.text) = <<>>),
         q.args = Apart(h) \o Spelled(t) \/ q.args = <<h>> \o Spelled(t)
  PROVE  \E start \in Seq(Arguments), ws \in Seq(Words), v \in Seq(Arguments) :
           /\ Takes(p.args, Chosen(h), h, start, ws, v)
           /\ ValueLine(Chosen(h), h, start, ws, v, q.args)
<1> DEFINE o == Chosen(h)
           given == Tail(h.text)
<1>0. p \in Parses /\ TakesNoOption(p)
  BY Zenon DEF Alike
<1>1. /\ Name(h) \in Arguments /\ given \in Seq(STRING)
  BY NameIs
<1>2. ASSUME NEW start \in Seq(Words), NEW mid \in Seq(Arguments), t = start \o mid
      PROVE  \E ws \in Seq(Words), v \in Seq(Arguments) :
               /\ mid = ws \o v
               /\ IF o \in Lists THEN v # <<>> => ~IsWord(Head(v)) ELSE ws = <<>>
               /\ Spelled(t) = start \o (ws \o Spelled(v))
  <2>1. PICK ws \in Seq(Words), v \in Seq(Arguments) :
          mid = ws \o v /\ (IF o \in Lists THEN v # <<>> => ~IsWord(Head(v)) ELSE ws = <<>>)
    BY TakenWords
  <2>2. ws \in Seq(Arguments) /\ start \in Seq(Arguments)
    BY DEF Words
  <2>3. Spelled(start) = start /\ Spelled(ws) = ws
    BY SpelledWords DEF Words
  <2>4. Spelled(start \o mid) = Spelled(start) \o Spelled(mid)
    BY <2>2, SpelledLine, Zenon
  <2>5. Spelled(ws \o v) = Spelled(ws) \o Spelled(v)
    BY <2>2, SpelledLine, Zenon
  <2>6. Spelled(t) = start \o (ws \o Spelled(v))
    BY <1>2, <2>1, <2>3, <2>4, <2>5, Zenon
  <2> QED
    BY <2>1, <2>6
<1>3. CASE given # <<>>
  <2>1. <<>> \in Seq(Words) /\ t = <<>> \o t /\ <<>> \in Seq(Arguments)
    OBVIOUS
  <2>2. PICK ws \in Seq(Words), v \in Seq(Arguments) :
               /\ t = ws \o v
               /\ IF o \in Lists THEN v # <<>> => ~IsWord(Head(v)) ELSE ws = <<>>
               /\ Spelled(t) = <<>> \o (ws \o Spelled(v))
    BY <1>2, <2>1
  <2> DEFINE line == ws \o Spelled(v)
  <2>3. line \in Seq(Arguments)
    <3>1. ws \in Seq(Arguments) /\ Spelled(v) \in Seq(Arguments)
      BY SpelledLine DEF Words
    <3> QED
      BY <3>1
  <2>4. <<>> \o line = line
    <3> HIDE DEF line
    <3> QED
      BY <2>3
  <2>5. Spelled(t) = line
    BY <2>2, <2>4, Zenon
  <2>6. ValueLine(o, h, <<>>, ws, v, q.args)
    <3>1. CASE q.args = <<h>> \o Spelled(t)
      BY <2>2, <3>1, Zenon DEF ValueLine
    <3>2. CASE q.args = Apart(h) \o Spelled(t)
      <4>1. Apart(h) = <<Name(h), Word(given)>>
        BY <1>3, ApartIs
      <4>2. Word(given) \in Arguments
        BY <1>1, WordsAreArguments
      <4> HIDE DEF line, given
      <4>3. <<Name(h), Word(given)>> \o line = <<Name(h)>> \o (<<Word(given)>> \o line)
        BY <1>1, <2>3, <4>2, TwoBefore, Zenon
      <4>4. q.args = <<Name(h)>> \o (<<Word(given)>> \o line)
        BY <2>5, <3>2, <4>1, <4>3, Zenon
      <4> QED
        BY <1>3, <4>4, Zenon DEF ValueLine, line, given
    <3> QED
      BY <3>1, <3>2
  <2>7. p.args = <<h>> \o (<<>> \o (ws \o v))
    BY <2>1, <2>2, Zenon
  <2> HIDE DEF line
  <2> QED
    BY <1>3, <2>1, <2>2, <2>6, <2>7, Zenon DEF Takes
<1>4. CASE given = <<>>
  <2> DEFINE w == Head(t)
             mid == Tail(t)
  <2>1. t # <<>>
    BY <1>4
  <2>2. w \in Words /\ w = Word(w.text) /\ w.text # <<>>
    BY <1>0, <1>4, <2>1, WordFollows
  <2>3. w \in Arguments /\ mid \in Seq(Arguments) /\ t = <<w>> \o mid
    BY <2>1, FirstOfLine
  <2> HIDE DEF w, mid
  <2>4. <<w>> \in Seq(Words) /\ <<w>> \in Seq(Arguments)
    BY <2>2, <2>3
  <2>5. ResultsOf(o, w) # <<>>
    <3>1. w.text \in Seq(STRING)
      BY <2>3, ArgumentParts
    <3>2. ResultsOf(o, Word(w.text)) # <<>>
      BY <2>2, <3>1, MeansSomething
    <3> QED
      BY <2>2, <3>2, Zenon
  <2>6. PICK ws \in Seq(Words), v \in Seq(Arguments) :
               /\ mid = ws \o v
               /\ IF o \in Lists THEN v # <<>> => ~IsWord(Head(v)) ELSE ws = <<>>
               /\ Spelled(t) = <<w>> \o (ws \o Spelled(v))
    BY <1>2, <2>3, <2>4
  <2>7. Apart(h) = <<h>>
    BY <1>4, ApartIs
  <2>8. q.args = <<h>> \o Spelled(t)
    BY <2>7
  <2>9. ValueLine(o, h, <<w>>, ws, v, q.args)
    BY <2>6, <2>8, Zenon DEF ValueLine
  <2>10. p.args = <<h>> \o (<<w>> \o (ws \o v))
    BY <2>3, <2>6, Zenon
  <2> QED
    BY <1>4, <2>3, <2>4, <2>5, <2>6, <2>9, <2>10, Zenon DEF Takes
<1> QED
  BY <1>3, <1>4

\* What the arguments of two lines stand for.
LEMMA SpreadOfLines ==
  ASSUME NEW g \in [Arguments -> Seq(Arguments)], NEW s \in Seq(Arguments), NEW t \in Seq(Arguments)
  PROVE  Spread(g, s \o t) = Spread(g, s) \o Spread(g, t)
BY SpreadJoined

\* What an argument and those behind it mean.
LEMMA MeaningFirst ==
  ASSUME NEW o, NEW w \in Arguments, NEW ws \in Seq(Arguments)
  PROVE  /\ Spread(Meaning(o), <<w>> \o ws) = ResultsOf(o, w) \o Spread(Meaning(o), ws)
         /\ Spread(Meaning(o), ws) \in Seq(Arguments)
<1>0. Meaning(o) \in [Arguments -> Seq(Arguments)] /\ <<w>> \in Seq(Arguments)
  BY MeaningType
<1>1. Spread(Meaning(o), <<w>>) = Meaning(o)[w]
  BY <1>0, SpreadOne
<1>2. Meaning(o)[w] = ResultsOf(o, w)
  BY DEF Meaning
<1>3. \A u \in Seq(Arguments) :
        Spread(Meaning(o), <<w>> \o u) = Spread(Meaning(o), <<w>>) \o Spread(Meaning(o), u)
  BY <1>0, SpreadOfLines
<1>4. \A u \in Seq(Arguments), x \in Arguments : Spread(Meaning(o), u) \in Seq(Arguments)
  BY <1>0, SpreadMore
<1> QED
  BY <1>1, <1>2, <1>3, <1>4, Zenon

\* An option whose value is spelled apart takes the same results.
LEMMA TakenApart ==
  ASSUME NEW q \in Parses, NEW h \in Arguments, Named(h) # {}, NEW ws \in Seq(Words),
         NEW v \in Seq(Arguments), Tail(h.text) # <<>>,
         q.args = <<Name(h)>> \o (<<Word(Tail(h.text))>> \o (ws \o v)),
         IF Chosen(h) \in Lists THEN v # <<>> => ~IsWord(Head(v)) ELSE ws = <<>>
  PROVE  ParseValue(q, Chosen(h)) =
           Took(q, Chosen(h),
                (q.results[Chosen(h)] \o Attached(Chosen(h), h)) \o Spread(Meaning(Chosen(h)), ws),
                Behind(Chosen(h), v))
<1> DEFINE o == Chosen(h)
           n == Name(h)
           w == Word(Tail(h.text))
           m == Spread(Meaning(o), ws)
           results == q.results[o]
           value == ResultsOf(o, w)
<1>1. n \in Arguments /\ o \in Named(n) /\ Tail(n.text) = <<>> /\ Tail(h.text) \in Seq(STRING)
  BY NameIs
<1>2. w \in Arguments /\ ResultsOf(o, w) # <<>> /\ <<w>> \in Seq(Arguments)
  <2>1. w \in Arguments /\ <<w>> \in Seq(Arguments)
    BY <1>1, WordsAreArguments
  <2>2. ResultsOf(o, w) # <<>>
    BY <1>1, MeansSomething
  <2> QED
    BY <2>1, <2>2, Zenon
<1>3. ws \in Seq(Arguments)
  BY WordsAre
<1>4. Attached(o, n) = <<>> /\ Attached(o, h) = value
  BY <1>1 DEF Attached
<1> HIDE DEF o, n, w
<1>5. Takes(q.args, o, n, <<w>>, ws, v)
  <2>1. IF o \in Lists THEN v # <<>> => ~IsWord(Head(v)) ELSE ws = <<>>
    BY DEF o
  <2>2. q.args = <<n>> \o (<<w>> \o (ws \o v))
    BY DEF n, w
  <2> QED
    BY <1>1, <1>2, <2>1, <2>2, Zenon DEF Takes
<1>6. ParseValue(q, o) = Took(q, o, (results \o Attached(o, n)) \o Spread(Meaning(o), <<w>> \o ws),
                              Behind(o, v))
  <2> DEFINE first == <<w>>
  <2>1. first \in Seq(Arguments) /\ Takes(q.args, o, n, first, ws, v)
    BY <1>2, <1>5
  <2> HIDE DEF first
  <2>2. /\ q \in Parses /\ n \in Arguments /\ o \in Named(n) /\ ws \in Seq(Words)
        /\ v \in Seq(Arguments)
    BY <1>1
  <2>3. ParseValue(q, o) = Took(q, o, (results \o Attached(o, n)) \o Spread(Meaning(o), first \o ws),
                                Behind(o, v))
    BY ONLY <2>1, <2>2, ParseValueIs DEF results
  <2> QED
    BY <2>3 DEF first
<1>7. Spread(Meaning(o), <<w>> \o ws) = value \o m /\ m \in Seq(Arguments)
  BY <1>2, <1>3, MeaningFirst
<1>8. results \in Seq(Arguments) /\ value \in Seq(Arguments)
  <2>1. o \in OptionNames
    BY <1>1 DEF Named
  <2> QED
    BY <1>2, <2>1, PartsOfParse, ResultsType
<1> HIDE DEF results, value, m
<1>9. results \o <<>> = results
  BY <1>8
<1>10. (results \o value) \o m = results \o (value \o m)
  BY <1>7, <1>8, OneAfterTheOther, Zenon
<1>11. ParseValue(q, o) = Took(q, o, (results \o Attached(o, h)) \o m, Behind(o, v))
  BY <1>4, <1>6, <1>7, <1>9, <1>10, Zenon
<1> QED
  BY <1>11, Zenon DEF o, results, m

\* A line that is the end of another one.
IsEnd(args, end) == \E first \in Seq(Arguments) : args = first \o end

\* The end of a line is its end whatever comes before it.
LEMMA EndOfMore ==
  ASSUME NEW a \in Seq(Arguments), NEW b, NEW end \in Seq(Arguments), IsEnd(b, end)
  PROVE  IsEnd(a \o b, end)
<1>1. PICK c \in Seq(Arguments) : b = c \o end
  BY DEF IsEnd
<1>2. a \o c \in Seq(Arguments)
  OBVIOUS
<1>3. a \o (c \o end) = (a \o c) \o end
  OBVIOUS
<1> QED
  BY <1>1, <1>2, <1>3, Zenon DEF IsEnd

\* What an option leaves is an end of the line.
LEMMA TakenLeaves ==
  ASSUME NEW args, NEW o, NEW h \in Arguments, NEW start \in Seq(Arguments), NEW ws \in Seq(Arguments),
         NEW v \in Seq(Arguments), Behind(o, v) \in Seq(Arguments), Takes(args, o, h, start, ws, v)
  PROVE  IsEnd(args, Behind(o, v))
<1> DEFINE left == Behind(o, v)
           head == <<h>>
<1>1. IsEnd(v, left)
  BY BehindSpelled DEF IsEnd
<1>2. left \in Seq(Arguments) /\ head \in Seq(Arguments)
  OBVIOUS
<1>3. args = head \o (start \o (ws \o v))
  BY DEF Takes
<1> HIDE DEF left, head
<1>4. IsEnd(ws \o v, left)
  BY <1>1, <1>2, EndOfMore
<1>5. IsEnd(start \o (ws \o v), left)
  BY <1>2, <1>4, EndOfMore
<1>6. IsEnd(head \o (start \o (ws \o v)), left)
  BY <1>2, <1>5, EndOfMore
<1> QED
  BY <1>3, <1>6 DEF left

\* What a spelled line gives to an option is what the line gives.
LEMMA ValueAlike ==
  ASSUME NEW p, NEW q, Alike(p, q), ~p.positionalOnly, ~p.error,
         NEW h \in Arguments, NEW t \in Seq(Arguments), p.args = <<h>> \o t,
         Named(h) # {}, Chosen(h) \notin Flags,
         ParseValue(p, Chosen(h)) \in Parses, ParseValue(q, Chosen(h)) \in Parses,
         q.args = Apart(h) \o Spelled(t) \/ q.args = <<h>> \o Spelled(t)
  PROVE  Alike(ParseValue(p, Chosen(h)), ParseValue(q, Chosen(h)))
<1> DEFINE o == Chosen(h)
           given == Tail(h.text)
           one == ParseValue(p, o)
           other == ParseValue(q, o)
<1>0. /\ p \in Parses /\ q \in Parses /\ TakesNoOption(p) /\ SpelledAlike(p.args, q.args)
      /\ p.results = q.results /\ p.missing = q.missing /\ p.error = q.error
      /\ p.positionalOnly = q.positionalOnly
  BY Zenon DEF Alike
<1>1. /\ Name(h) \in Arguments /\ given \in Seq(STRING) /\ o \in Named(h)
      /\ o \in Named(Name(h)) /\ Tail(Name(h).text) = <<>>
  BY NameIs
<1>2. CASE t = <<>> /\ given = <<>>
  <2>1. Apart(h) = <<h>> /\ Spelled(t) = <<>>
    BY <1>2, ApartIs, SpelledLine
  <2>2. p.args = <<h>> /\ q.args = <<h>>
    BY <1>2, <2>1
  <2>3. one = Failed(p) /\ other = Failed(q)
    BY <1>0, <1>2, <2>2, ParseValueFails
  <2>4. \A f \in Parses : /\ Failed(f).args = f.args /\ Failed(f).results = f.results
                          /\ Failed(f).missing = f.missing /\ Failed(f).error = TRUE
                          /\ Failed(f).positionalOnly = f.positionalOnly
    BY DEF Failed, Parses
  <2>5. one \in Parses /\ other \in Parses
    OBVIOUS
  <2> HIDE DEF one, other
  <2>6. /\ one.args = p.args /\ one.results = p.results /\ one.missing = p.missing /\ one.error = TRUE
        /\ one.positionalOnly = p.positionalOnly
    BY <1>0, <2>3, <2>4, Zenon
  <2>7. /\ other.args = q.args /\ other.results = q.results /\ other.missing = q.missing /\ other.error = TRUE
        /\ other.positionalOnly = q.positionalOnly
    BY <1>0, <2>3, <2>4, Zenon
  <2>8. TakesNoOption(one)
    BY <1>0, <2>6, Zenon DEF TakesNoOption
  <2>9. Alike(one, other)
    BY <1>0, <2>5, <2>6, <2>7, <2>8, Zenon DEF Alike
  <2> QED
    BY <2>9 DEF one, other
<1>3. CASE ~(t = <<>> /\ given = <<>>)
  <2>1. PICK start \in Seq(Arguments), ws \in Seq(Words), v \in Seq(Arguments) :
           Takes(p.args, o, h, start, ws, v) /\ ValueLine(o, h, start, ws, v, q.args)
    BY <1>3, ValueLines
  <2>13. /\ p.args = <<h>> \o (start \o (ws \o v))
         /\ IF given # <<>> THEN start = <<>>
            ELSE \E w \in Arguments : start = <<w>> /\ ResultsOf(o, w) # <<>>
         /\ IF o \in Lists THEN v # <<>> => ~IsWord(Head(v)) ELSE ws = <<>>
    BY <2>1 DEF Takes
  <2> DEFINE results == p.results[o]
             apart == Spelled(v)
             left == Behind(o, v)
             value == (results \o Attached(o, h)) \o Spread(Meaning(o), start \o ws)
  <2>2. ws \in Seq(Arguments) /\ apart \in Seq(Arguments)
    BY WordsAre, SpelledLine
  <2>3. /\ Behind(o, apart) = Spelled(left)
        /\ (v # <<>> /\ apart # <<>> /\ Head(apart).form = Head(v).form) \/ (v = <<>> /\ apart = <<>>)
    BY BehindSpelled
  <2>5. IF o \in Lists THEN apart # <<>> => ~IsWord(Head(apart)) ELSE ws = <<>>
    <3> HIDE DEF o, apart
    <3> QED
      BY <2>13, <2>3 DEF IsWord
  <2>6. one = Took(p, o, value, left)
    <3> HIDE DEF o
    <3>1. /\ p \in Parses /\ h \in Arguments /\ o \in Named(h) /\ start \in Seq(Arguments)
          /\ ws \in Seq(Words) /\ v \in Seq(Arguments) /\ Takes(p.args, o, h, start, ws, v)
      BY <1>0, <1>1, <2>1
    <3> QED
      BY ONLY <3>1, ParseValueIs DEF one, value, left, results
  <2> HIDE DEF apart, o, given
  <2>7. other = Took(q, o, value, Behind(o, apart))
    <3>1. CASE q.args = <<h>> \o (start \o (ws \o apart))
      <4>1. other = Took(q, o, (q.results[o] \o Attached(o, h)) \o Spread(Meaning(o), start \o ws),
                     Behind(o, apart))
        <5>1. Takes(q.args, o, h, start, ws, apart)
          BY <2>13, <2>5, <3>1, Zenon DEF Takes, given
        <5>2. /\ q \in Parses /\ h \in Arguments /\ o \in Named(h) /\ start \in Seq(Arguments)
              /\ ws \in Seq(Words) /\ apart \in Seq(Arguments)
          BY <1>0, <1>1, <2>2
        <5> QED
          BY ONLY <5>1, <5>2, ParseValueIs DEF other
      <4> QED
        BY <1>0, <4>1
    <3>2. CASE /\ given # <<>>
               /\ q.args = <<Name(h)>> \o (<<Word(given)>> \o (ws \o apart))
      <4>1. other = Took(q, o, (q.results[o] \o Attached(o, h)) \o Spread(Meaning(o), ws),
                         Behind(o, apart))
        <5>1. q.args = <<Name(h)>> \o (<<Word(Tail(h.text))>> \o (ws \o apart))
          BY <3>2 DEF given
        <5>2. /\ q \in Parses /\ h \in Arguments /\ Named(h) # {} /\ ws \in Seq(Words)
              /\ apart \in Seq(Arguments) /\ Tail(h.text) # <<>>
          BY <1>0, <2>2, <3>2 DEF given
        <5> QED
          BY ONLY <2>5, <5>1, <5>2, TakenApart DEF other, o
      <4>2. start \o ws = ws
        BY <2>13, <2>2, <3>2
      <4> QED
        BY <1>0, <4>1, <4>2, Zenon
    <3> QED
      BY <2>1, <3>1, <3>2, Zenon DEF ValueLine, apart, given
  <2>8. one.args = left
    <3> HIDE DEF one, left, value
    <3> QED
      BY <1>0, <2>6, TookIs
  <2>9. one \in Parses /\ other \in Parses
    BY DEF o
  <2> HIDE DEF one, other, value
  <2>10. TakesNoOption(one)
    <3>1. left \in Seq(Arguments)
      BY <2>8, <2>9, PartsOfParse
    <3>2. IsEnd(p.args, left)
      <4>1. /\ h \in Arguments /\ start \in Seq(Arguments) /\ ws \in Seq(Arguments)
            /\ v \in Seq(Arguments) /\ Behind(o, v) \in Seq(Arguments)
            /\ Takes(p.args, o, h, start, ws, v)
        BY <2>1, <2>2, <3>1
      <4> QED
        BY ONLY <4>1, TakenLeaves DEF left
    <3> HIDE DEF left
    <3>3. PICK z \in Seq(Arguments) : p.args = z \o one.args
      BY <2>8, <3>2, Zenon DEF IsEnd
    <3> QED
      BY <1>0, <2>9, <3>3, TakesNoOptionLater
  <2>11. SpelledAlike(left, Behind(o, apart))
    BY <2>3, Zenon DEF SpelledAlike
  <2> HIDE DEF left
  <2>12. Alike(one, other)
    BY <2>6, <2>7, <2>9, <2>10, <2>11, TakenAlike
  <2> QED
    BY <2>12 DEF one, other, o
<1> QED
  BY <1>2, <1>3

\* What has something in it is not empty.
LEMMA JoinedSomething ==
  /\ \A m, s \in Seq(Arguments) : m \o s = <<>> <=> m = <<>> /\ s = <<>>
  /\ \A m \in Seq(Arguments), a \in Arguments : Append(m, a) \in Seq(Arguments) /\ Append(m, a) # <<>>
<1>1. ASSUME NEW m \in Seq(Arguments), NEW s \in Seq(Arguments)
      PROVE  m \o s = <<>> <=> m = <<>> /\ s = <<>>
  <2>1. /\ m \o s \in Seq(Arguments) /\ Len(m \o s) = Len(m) + Len(s)
        /\ Len(m) \in Nat /\ Len(s) \in Nat
    OBVIOUS
  <2>2. \A u \in Seq(Arguments) : u = <<>> <=> Len(u) = 0
    OBVIOUS
  <2>3. (m \o s = <<>> <=> Len(m \o s) = 0) /\ (m = <<>> <=> Len(m) = 0) /\ (s = <<>> <=> Len(s) = 0)
    BY <2>1, <2>2, Zenon
  <2> DEFINE joined == Len(m \o s)
             empty == m \o s = <<>>
  <2>4. joined = Len(m) + Len(s) /\ (empty <=> joined = 0)
    BY <2>1, <2>3, Zenon
  <2> HIDE DEF joined, empty
  <2> QED
    BY <2>1, <2>3, <2>4 DEF empty
<1>2. ASSUME NEW m \in Seq(Arguments), NEW a \in Arguments
      PROVE  Append(m, a) \in Seq(Arguments) /\ Append(m, a) # <<>>
  <2> DEFINE x == Append(m, a)
             n == Len(m) + 1
  <2>1. x \in Seq(Arguments)
    OBVIOUS
  <2>2. Len(x) = n /\ n > 0
    OBVIOUS
  <2>3. Len(<<>>) = 0
    OBVIOUS
  <2> HIDE DEF x, n
  <2>4. x # <<>>
    BY <2>2, <2>3
  <2> QED
    BY <2>1, <2>4 DEF x
<1> QED
  BY <1>1, <1>2

\* The rest of a line is left over without a look at it.
LEMMA PositionalStep ==
  ASSUME NEW p \in Parses, p.positionalOnly, ~p.error
  PROVE  /\ OneOff(p).results = p.results /\ OneOff(p).error = p.error
         /\ OneOff(p).positionalOnly
         /\ OneOff(p).missing \o OneOff(p).args = <<>> <=> p.missing \o p.args = <<>>
<1> DEFINE h == Head(p.args)
           t == Tail(p.args)
           r == OneOff(p)
<1>1. CASE p.args = <<>>
  <2>1. r = p
    BY <1>1 DEF OneOff, InProgress
  <2> QED
    BY <2>1
<1>2. CASE p.args # <<>>
  <2>1. r = MoveToMissing(p)
    BY <1>2 DEF OneOff, InProgress, ParseSingle
  <2>2. p.missing \in Seq(Arguments) /\ p.args \in Seq(Arguments)
    BY PartsOfParse
  <2>3. h \in Arguments /\ t \in Seq(Arguments) /\ p.args = <<h>> \o t
    BY <1>2, <2>2, FirstOfLine
  <2>4. /\ r.results = p.results /\ r.error = p.error /\ r.positionalOnly
        /\ r.missing = Append(p.missing, h) /\ r.args = t
    BY <2>1 DEF MoveToMissing, Parses
  <2> HIDE DEF r, h, t
  <2>5. r.missing \in Seq(Arguments) /\ r.missing # <<>>
    <3>1. \A m \in Seq(Arguments), a \in Arguments : Append(m, a) \in Seq(Arguments) /\ Append(m, a) # <<>>
      BY JoinedSomething
    <3> QED
      BY <2>2, <2>3, <2>4, <3>1, Zenon
  <2>6. \A m, s \in Seq(Arguments) : m \o s = <<>> <=> m = <<>> /\ s = <<>>
    BY JoinedSomething
  <2>7. r.missing \o r.args # <<>>
    BY <2>3, <2>4, <2>5, <2>6, Zenon
  <2>8. p.missing \o p.args # <<>>
    BY <1>2, <2>2, <2>6, Zenon
  <2> QED
    BY <2>4, <2>7, <2>8 DEF r
<1> QED
  BY <1>1, <1>2

\* One step of the other spelling, by the argument that comes first in the line.
LEMMA SingleSpelled ==
  ASSUME NEW q \in Parses, NEW h \in Arguments, NEW t \in Seq(Arguments), ~q.positionalOnly,
         q.args = Apart(h) \o t \/ q.args = <<h>> \o t
  PROVE  ParseSingle(q) = IF Named(h) = {} THEN MoveToMissing(q)
                          ELSE IF Chosen(h) \in Flags THEN ParseFlag(q, Chosen(h))
                          ELSE ParseValue(q, Chosen(h))
<1>1. CASE q.args = <<h>> \o t
  BY <1>1, SingleIs
<1>2. CASE q.args # <<h>> \o t
  <2>1. Apart(h) # <<h>>
    BY <1>2, Zenon
  <2>2. Named(h) # {} /\ Tail(h.text) # <<>>
    BY <2>1, ApartIs, Zenon
  <2>3. PICK b \in Arguments : Apart(h) = <<Name(h), b>>
    <3>1. Word(Tail(h.text)) \in Arguments /\ Short(Tail(h.text)) \in Arguments
      BY <2>2, NameIs, WordsAreArguments DEF Short
    <3> QED
      BY <2>1, <3>1, ApartIs, Zenon
  <2> DEFINE n == Name(h)
             line == <<b>> \o t
  <2>4. n \in Arguments /\ Named(n) = Named(h) /\ Chosen(n) = Chosen(h)
    BY <2>2, NameIs
  <2>5. line \in Seq(Arguments)
    OBVIOUS
  <2> HIDE DEF n
  <2>6. <<n, b>> \o t = <<n>> \o line
    BY <2>4, TwoBefore, Zenon
  <2>7. q.args = <<n>> \o line
    BY <1>2, <2>3, <2>6, Zenon DEF n
  <2> HIDE DEF line
  <2>8. ParseSingle(q) = IF Named(n) = {} THEN MoveToMissing(q)
                         ELSE IF Chosen(n) \in Flags THEN ParseFlag(q, Chosen(n))
                         ELSE ParseValue(q, Chosen(n))
    BY <2>4, <2>5, <2>7, SingleIs
  <2> QED
    BY <2>4, <2>8, Zenon
<1> QED
  BY <1>1, <1>2

\* A line is worked off in step with the same line spelled apart.
LEMMA StepAlike ==
  ASSUME NEW p, NEW q, Alike(p, q)
  PROVE  Alike(OneOff(p), OneOff(q))
<1>0. /\ p \in Parses /\ q \in Parses
      /\ p.results = q.results /\ p.error = q.error /\ p.positionalOnly = q.positionalOnly
  BY Zenon DEF Alike
<1>1. OneOff(p) \in Parses /\ OneOff(q) \in Parses
  BY <1>0, OneOffType
<1>2. CASE p.positionalOnly
  <2>1. ~p.error /\ (p.missing \o p.args = <<>> <=> q.missing \o q.args = <<>>)
    BY <1>2 DEF Alike
  <2> DEFINE r == OneOff(p)
             s == OneOff(q)
  <2>2. /\ r.results = p.results /\ r.error = p.error /\ r.positionalOnly
        /\ r.missing \o r.args = <<>> <=> p.missing \o p.args = <<>>
    BY <1>0, <1>2, <2>1, PositionalStep
  <2>3. /\ s.results = q.results /\ s.error = q.error /\ s.positionalOnly
        /\ s.missing \o s.args = <<>> <=> q.missing \o q.args = <<>>
    BY <1>0, <1>2, <2>1, PositionalStep
  <2>4. r.positionalOnly \in BOOLEAN /\ s.positionalOnly \in BOOLEAN
    BY <1>1, PartsOfParse
  <2> HIDE DEF r, s
  <2>5. r.positionalOnly = s.positionalOnly
    BY <2>2, <2>3, <2>4
  <2>6. r \in Parses /\ s \in Parses
    BY <1>1 DEF r, s
  <2>7. ~r.error
    BY <2>1, <2>2
  <2>8. r.missing \o r.args = <<>> <=> s.missing \o s.args = <<>>
    BY <2>1, <2>2, <2>3
  <2>9. r.results = s.results /\ r.error = s.error
    BY <1>0, <2>2, <2>3, Zenon
  <2>10. Alike(r, s)
    BY <2>2, <2>5, <2>6, <2>7, <2>8, <2>9, Zenon DEF Alike
  <2> QED
    BY <2>10 DEF r, s
<1>3. CASE ~p.positionalOnly
  <2>0. p.missing = q.missing /\ TakesNoOption(p) /\ SpelledAlike(p.args, q.args)
    BY <1>3, Zenon DEF Alike
  <2>1. CASE p.args = <<>>
    <3>1. q.args = <<>>
      BY <2>0, <2>1, SpelledLine DEF SpelledAlike
    <3>2. OneOff(p) = p /\ OneOff(q) = q
      BY <2>1, <3>1 DEF OneOff, InProgress
    <3> QED
      BY <3>2
  <2>2. CASE p.args # <<>>
    <3>0. p.args \in Seq(Arguments)
      BY <1>0, PartsOfParse
    <3>1. PICK h \in Arguments, t \in Seq(Arguments) : p.args = <<h>> \o t
      BY <2>2, <3>0, FirstOfLine
    <3>2. q.args = Apart(h) \o Spelled(t) \/ q.args = <<h>> \o Spelled(t)
      BY <2>0, <3>1, SpelledFirst
    <3>3. Spelled(t) \in Seq(Arguments)
      BY SpelledLine
    <3>4. q.args # <<>>
      <4>1. Apart(h) \in Seq(Arguments) /\ Apart(h) # <<>>
        BY ApartType
      <4>2. <<h>> \in Seq(Arguments) /\ <<h>> # <<>>
        OBVIOUS
      <4>3. \A a, b \in Seq(Arguments) : a # <<>> => a \o b # <<>>
        OBVIOUS
      <4> DEFINE head == <<h>>
      <4>4. head \in Seq(Arguments) /\ head # <<>>
        BY <4>2
      <4> HIDE DEF head
      <4>5. head \o Spelled(t) # <<>> /\ Apart(h) \o Spelled(t) # <<>>
        BY <3>3, <4>1, <4>3, <4>4, Zenon
      <4> QED
        BY <3>2, <4>5, Zenon DEF head
    <3>5. CASE p.error
      <4>1. OneOff(p) = p /\ OneOff(q) = q
        BY <1>0, <3>5 DEF OneOff, InProgress
      <4> QED
        BY <4>1
    <3>6. CASE ~p.error
      <4>1. OneOff(p) = ParseSingle(p) /\ OneOff(q) = ParseSingle(q)
        BY <1>0, <2>2, <3>4, <3>6, Zenon DEF OneOff, InProgress
      <4>2. ParseSingle(p) = IF Named(h) = {} THEN MoveToMissing(p)
                             ELSE IF Chosen(h) \in Flags THEN ParseFlag(p, Chosen(h))
                             ELSE ParseValue(p, Chosen(h))
        BY <1>0, <1>3, <3>1, SingleIs
      <4>3. ParseSingle(q) = IF Named(h) = {} THEN MoveToMissing(q)
                             ELSE IF Chosen(h) \in Flags THEN ParseFlag(q, Chosen(h))
                             ELSE ParseValue(q, Chosen(h))
        BY <1>0, <1>3, <3>2, <3>3, SingleSpelled
      <4>4. CASE Named(h) = {}
        <5>1. OneOff(p) = MoveToMissing(p) /\ OneOff(q) = MoveToMissing(q)
          BY <4>1, <4>2, <4>3, <4>4, Zenon
        <5>2. q.args = <<h>> \o Spelled(t)
          BY <3>2, <4>4, ApartIs
        <5>3. MoveToMissing(p) \in Parses /\ MoveToMissing(q) \in Parses
          BY <1>1, <5>1
        <5> QED
          BY <1>3, <3>1, <3>6, <5>1, <5>2, <5>3, MoveAlike
      <4>5. CASE Named(h) # {} /\ Chosen(h) \in Flags
        <5> DEFINE r == ParseFlag(p, Chosen(h))
                   s == ParseFlag(q, Chosen(h))
        <5>1. OneOff(p) = r /\ OneOff(q) = s
          BY <4>1, <4>2, <4>3, <4>5, Zenon
        <5>2. r \in Parses /\ s \in Parses
          BY <1>1, <5>1
        <5>3. Alike(r, s)
          BY <1>3, <3>1, <3>2, <3>6, <4>5, <5>2, FlagAlike
        <5> QED
          BY <5>1, <5>3, Zenon
      <4>6. CASE Named(h) # {} /\ Chosen(h) \notin Flags
        <5> DEFINE r == ParseValue(p, Chosen(h))
                   s == ParseValue(q, Chosen(h))
        <5>1. OneOff(p) = r /\ OneOff(q) = s
          BY <4>1, <4>2, <4>3, <4>6, Zenon
        <5>2. r \in Parses /\ s \in Parses
          BY <1>1, <5>1
        <5>3. Alike(r, s)
          BY <1>3, <3>1, <3>2, <3>6, <4>6, <5>2, ValueAlike
        <5> QED
          BY <5>1, <5>3, Zenon
      <4> QED
        BY <4>4, <4>5, <4>6
    <3> QED
      BY <3>5, <3>6
  <2> QED
    BY <2>1, <2>2
<1> QED
  BY <1>2, <1>3

\* Two spellings of a line end alike.
LEMMA EndAlike ==
  ASSUME NEW p, NEW q, Alike(p, q)
  PROVE  /\ Alike(ParseAll(p), ParseAll(q))
         /\ ~InProgress(ParseAll(p)) /\ ~InProgress(ParseAll(q))
<1>0. p \in Parses /\ q \in Parses
  BY DEF Alike
<1>1. PICK f \in [Nat -> Parses] : f[0] = p /\ \A k \in Nat : f[k + 1] = OneOff(f[k])
  BY <1>0, StepsReached
<1>2. PICK g \in [Nat -> Parses] : g[0] = q /\ \A k \in Nat : g[k + 1] = OneOff(g[k])
  BY <1>0, StepsReached
<1>3. /\ ParseAll(p) = f[Size(p)] /\ ~InProgress(f[Size(p)])
      /\ \A k \in Nat : f[Size(p) + k] = f[Size(p)]
  BY <1>0, <1>1, ParseSteps, ParseEnds
<1>4. /\ ParseAll(q) = g[Size(q)] /\ ~InProgress(g[Size(q)])
      /\ \A k \in Nat : g[Size(q) + k] = g[Size(q)]
  BY <1>0, <1>2, ParseSteps, ParseEnds
<1> DEFINE Good == {k \in Nat : Alike(f[k], g[k])}
<1>5. 0 \in Good
  BY <1>1, <1>2
<1>6. ASSUME NEW k \in Nat, k \in Good PROVE k + 1 \in Good
  <2>1. Alike(f[k], g[k])
    BY <1>6
  <2>2. Alike(OneOff(f[k]), OneOff(g[k]))
    BY <2>1, StepAlike
  <2>3. f[k + 1] = OneOff(f[k]) /\ g[k + 1] = OneOff(g[k])
    BY <1>1, <1>2
  <2> QED
    BY <2>2, <2>3
<1> HIDE DEF Good
<1>7. \A k \in Nat : k \in Good
  BY <1>5, <1>6, Induction
<1>8. Size(p) \in Nat /\ Size(q) \in Nat
  BY <1>0, FuelSize
<1>9. Size(p) + Size(q) \in Nat /\ Size(p) + Size(q) = Size(q) + Size(p)
  BY <1>8
<1>10. f[Size(p) + Size(q)] = ParseAll(p) /\ g[Size(p) + Size(q)] = ParseAll(q)
  <2>1. f[Size(p) + Size(q)] = f[Size(p)] /\ g[Size(q) + Size(p)] = g[Size(q)]
    BY <1>3, <1>4, <1>8, Zenon
  <2> QED
    BY <1>3, <1>4, <1>9, <2>1, Zenon
<1>11. Alike(f[Size(p) + Size(q)], g[Size(p) + Size(q)])
  BY <1>7, <1>9 DEF Good
<1> QED
  BY <1>3, <1>4, <1>10, <1>11, Zenon

\* What is wrong with a line depends on what was collected of it, on its mistakes and
\* on whether something is left over.
LEMMA SameOutcome ==
  ASSUME NEW p, NEW q, p.results = q.results, p.error = q.error, ExtrasLeft(p) = ExtrasLeft(q)
  PROVE  Exception(p) = Exception(q) /\ Accepted(p) = Accepted(q)
<1>1. \A o : /\ Given(p, o) = Given(q, o) /\ FlagSet(p, o) = FlagSet(q, o)
             /\ Reduced(p, o) = Reduced(q, o)
  BY Zenon DEF Given, FlagSet, Reduced
<1>2. ASSUME NEW o PROVE Callback(p, o) = Callback(q, o)
  <2>1. /\ Reduced(p, o) = Reduced(q, o) /\ FlagSet(p, o) = FlagSet(q, o)
        /\ FlagSet(p, "v") = FlagSet(q, "v")
    BY <1>1, Zenon
  <2>2. TooMany(p, o) <=> TooMany(q, o)
    BY <2>1 DEF TooMany
  <2>3. AllConvert(o, Reduced(p, o)) = AllConvert(o, Reduced(q, o))
    BY <2>1, Zenon
  <2> QED
    BY <2>1, <2>2, <2>3 DEF Callback
<1>3. \A o : Callback(p, o) = Callback(q, o)
  BY <1>2
<1>4. Throwing(p) = Throwing(q)
  <2>1. {o \in OptionNames : Given(p, o) /\ Callback(p, o) # "none"}
        = {o \in OptionNames : Given(q, o) /\ Callback(q, o) # "none"}
    BY <1>1, <1>3, Zenon
  <2> QED
    BY <2>1, Zenon DEF Throwing
<1>5. HelpAsked(p) = HelpAsked(q)
  BY <1>1, Zenon DEF HelpAsked
<1>6. NeedsMet(p) = NeedsMet(q)
  BY <1>1, Zenon DEF NeedsMet
<1>7. Accepted(p) = Accepted(q)
  BY <1>4, <1>5, <1>6, Zenon DEF Accepted
<1>8. [i \in DOMAIN Throwing(p) |-> Callback(p, Throwing(p)[i])]
      = [i \in DOMAIN Throwing(q) |-> Callback(q, Throwing(q)[i])]
  BY <1>3, <1>4, Zenon
<1>9. Thrown(p) = Thrown(q)
  BY <1>5, <1>6, <1>8, Zenon DEF Thrown
<1> QED
  BY <1>7, <1>9, Zenon DEF Exception

\* At their ends, two spellings have the same outcome.
LEMMA AlikeOutcome ==
  ASSUME NEW p, NEW q, Alike(p, q), ~InProgress(p), ~InProgress(q)
  PROVE  Exception(p) = Exception(q) /\ Accepted(p) = Accepted(q) /\ p.results = q.results
<1>0. /\ p \in Parses /\ q \in Parses
      /\ p.results = q.results /\ p.error = q.error /\ p.positionalOnly = q.positionalOnly
  BY Zenon DEF Alike
<1>1. ExtrasLeft(p) = ExtrasLeft(q)
  <2>1. CASE p.positionalOnly
    <3>1. ~p.error /\ (p.missing \o p.args = <<>> <=> q.missing \o q.args = <<>>)
      BY <2>1 DEF Alike
    <3>2. p.args = <<>> /\ q.args = <<>>
      BY <1>0, <3>1 DEF InProgress
    <3>3. p.missing \in Seq(Arguments) /\ q.missing \in Seq(Arguments)
      BY <1>0, PartsOfParse
    <3>4. \A m \in Seq(Arguments) : m \o <<>> = m
      OBVIOUS
    <3>5. p.missing = <<>> <=> q.missing = <<>>
      BY <3>1, <3>2, <3>3, <3>4, Zenon
    <3> QED
      BY <3>5 DEF ExtrasLeft
  <2>2. CASE ~p.positionalOnly
    <3>1. p.missing = q.missing
      BY <2>2 DEF Alike
    <3> QED
      BY <3>1 DEF ExtrasLeft
  <2> QED
    BY <2>1, <2>2
<1> QED
  BY <1>0, <1>1, SameOutcome

\* A line and the line spelled apart begin alike.
LEMMA StartAlike ==
  ASSUME NEW p \in Parses, TakesNoOption(p), ~p.error
  PROVE  Alike(p, [p EXCEPT !.args = FlattenSeq([i \in DOMAIN @ |-> Apart(@[i])])])
<1> DEFINE q == [p EXCEPT !.args = FlattenSeq([i \in DOMAIN @ |-> Apart(@[i])])]
           line == Spelled(p.args)
<1>1. p.args \in Seq(Arguments) /\ p.missing \in Seq(Arguments) /\ p.positionalOnly \in BOOLEAN
  BY PartsOfParse
<1>2. FlattenSeq([i \in DOMAIN p.args |-> Apart(p.args[i])]) = line
  <2>1. \A i \in DOMAIN p.args : p.args[i] \in Arguments
    BY <1>1
  <2>2. [i \in DOMAIN p.args |-> ApartFrom[p.args[i]]] = [i \in DOMAIN p.args |-> Apart(p.args[i])]
    BY <2>1 DEF ApartFrom
  <2> QED
    BY <2>2, Zenon DEF Spelled, Spread
<1>3. q = [p EXCEPT !.args = line]
  BY <1>2, Zenon
<1>4. line \in Seq(Arguments)
  BY <1>1, SpelledLine
<1> HIDE DEF q, line
<1>5. /\ q \in Parses /\ q.args = line /\ q.missing = p.missing /\ q.results = p.results
      /\ q.error = p.error /\ q.positionalOnly = p.positionalOnly
  BY <1>3, <1>4 DEF Parses
<1>6. SpelledAlike(p.args, q.args)
  BY <1>5 DEF SpelledAlike, line
<1>7. p.missing \o p.args = <<>> <=> q.missing \o q.args = <<>>
  <2>1. \A m, s \in Seq(Arguments) : m \o s = <<>> <=> m = <<>> /\ s = <<>>
    BY JoinedSomething
  <2>2. p.args = <<>> <=> line = <<>>
    BY <1>1, BehindSpelled DEF line
  <2> QED
    BY <1>1, <1>4, <1>5, <2>1, <2>2, Zenon
<1>8. Alike(p, q)
  BY <1>5, <1>6, <1>7, Zenon DEF Alike
<1> QED
  BY <1>8 DEF q

\* At every point of the parse, a line and the line spelled apart end with the same
\* results, or with the same exception (CLI11.hpp:9578-9799).
THEOREM SpellingsNeverMatter == Spec => []SpellingsAgree
<1>1. TypeInv => SpellingsAgree
  <2> SUFFICES ASSUME TypeInv, TakesNoOption(parse), ~parse.error
               PROVE  LET spelled == [parse EXCEPT !.args = FlattenSeq([i \in DOMAIN @ |-> Apart(@[i])])]
                          given == ParseAll(parse)
                          other == ParseAll(spelled)
                      IN /\ Exception(given) = Exception(other)
                         /\ Accepted(given) => given.results = other.results
    BY DEF SpellingsAgree
  <2> DEFINE spelled == [parse EXCEPT !.args = FlattenSeq([i \in DOMAIN @ |-> Apart(@[i])])]
             given == ParseAll(parse)
             other == ParseAll(spelled)
  <2>1. parse \in Parses
    BY DEF TypeInv, TypeOK
  <2>2. Alike(parse, spelled)
    BY <2>1, StartAlike
  <2> HIDE DEF spelled
  <2>3. Alike(given, other) /\ ~InProgress(given) /\ ~InProgress(other)
    BY <2>2, EndAlike
  <2> HIDE DEF given, other
  <2>4. Exception(given) = Exception(other) /\ given.results = other.results
    BY <2>3, AlikeOutcome
  <2> QED
    BY <2>4 DEF spelled, given, other
<1> QED
  BY <1>1, TypeInvariant, PTL
=============================================================================
