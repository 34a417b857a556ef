---------------------------- MODULE CommandLine ----------------------------
(***************************************************************************)
(* The options of the program and how its parser reads a command line: the   *)
(* declarations in main (src/src/main.cpp) and the part of CLI11 that they    *)
(* reach (src/inc/CLI11.hpp): App::parse, _parse_arg, _process and             *)
(* Option::run_callback, without subcommands, positionals and config files.   *)
(*                                                                           *)
(* An argument is what it looks like: [form |-> "short", text |-> <<"w",      *)
(* "V", "5">>] is -wV5, [form |-> "long", text |-> <<"value", "5">>] is       *)
(* --value=5, a "word" has its parts between commas as text, and "mark" is    *)
(* --.  The parser works off one argument at a time; values that could not     *)
(* be told apart by it are strings.                                          *)
(***************************************************************************)
EXTENDS Integers, Sequences, Selection

CONSTANTS Number,        \* the words that are numbers, with their values; "" is 0
          TrueWords,     \* the words a flag takes for true, beside numbers
          FalseWords,    \* ... and for false
          StatusNames    \* the names of the two statuses (port.cpp)

Uint16 == 0 .. 65535
Int32 == (-2147483647 - 1) .. 2147483647

ASSUME WordsAssumption ==
  /\ Number \in [DOMAIN Number -> Int]
  /\ TrueWords \cap FalseWords = {}
  /\ (TrueWords \cup FalseWords) \cap DOMAIN Number = {}
  /\ "true" \in TrueWords /\ TrueWords \subseteq STRING
-----------------------------------------------------------------------------
\* The options in the order of their declaration, which is that of their callbacks.
OptionOrder == <<"h", "v", "a", "d", "r", "i", "t", "p", "P", "A", "s", "M", "m",
                 "D", "T", "I", "w", "V", "S">>
OptionNames == ToSet(OptionOrder)
Flags == {"h", "v", "r", "t", "A", "s", "M", "D", "T", "I", "w"}
Lists == {"P", "m"}                      \* vectors, delimited by commas

\* Option::needs
Needs == [r |-> "d", d |-> "a", t |-> "i", V |-> "w", S |-> "w"]

\* The long name of each option.
LongNames == [help |-> "h", version |-> "v", rt_device_address |-> "a",
              serial_device_address |-> "d", rtu |-> "r", ip_address |-> "i",
              tcp |-> "t", port |-> "p", parameters |-> "P", all_parameters |-> "A",
              short |-> "s", get_microinverters |-> "M", microinverters |-> "m",
              today_production |-> "D", total_production |-> "T",
              ignore_conn_error |-> "I", write |-> "w", value |-> "V", status |-> "S"]

\* What looks like an option has a name.
Arguments == [form : {"word"}, text : Seq(STRING)]
             \cup [form : {"long", "short"}, text : Seq(STRING) \ {<<>>}]
             \cup [form : {"mark"}, text : {<<>>}]
Word(text) == [form |-> "word", text |-> text]
TrueString == Word(<<"true">>)
-----------------------------------------------------------------------------
VARIABLE parse  \* the state of the App during parse

Parses == [args : Seq(Arguments), positionalOnly : BOOLEAN, missing : Seq(Arguments),
           error : BOOLEAN, results : [OptionNames -> Seq(Arguments)]]

\* The parser before a line: nothing has been given.
Start(line) == [args |-> line, positionalOnly |-> FALSE, missing |-> <<>>, error |-> FALSE,
                results |-> [o \in OptionNames |-> <<>>]]

\* An argument that looks neither like an option nor like the mark.
IsWord(arg) == arg.form = "word"

\* check_name: by the number of dashes, the short name or the long one.
HasName(o, arg) ==
  \/ arg.form = "short" /\ Head(arg.text) = o
  \/ arg.form = "long" /\ Head(arg.text) \in DOMAIN LongNames /\ LongNames[Head(arg.text)] = o

\* The option an argument names, if there is one.
Named(arg) == {o \in OptionNames : HasName(o, arg)}

\* _add_result: a list is split at its commas, and empty parts are dropped.
ResultsOf(o, value) ==
  IF o \in Lists /\ value.form = "word"
  THEN [i \in DOMAIN value.text |-> Word(<<value.text[i]>>)]
  ELSE <<value>>

\* The first n arguments as results of an option.
Collected(o, args, n) == FlattenSeq([i \in 1 .. n |-> ResultsOf(o, args[i])])

\* The length of the longest beginning with nothing but wanted members.
WhileAll(s, wanted) ==
  CHOOSE n \in 0 .. Len(s) : /\ \A i \in 1 .. n : s[i] \in wanted
                             /\ n < Len(s) => s[n + 1] \notin wanted

\* An argument that names no option and a word are left over.
MoveToMissing(p) ==
  [p EXCEPT !.args = Tail(@), !.missing = Append(@, Head(p.args)),
            !.positionalOnly = @ \/ Head(p.args).form = "mark"]

\* A flag: --flag=value has that value, and behind -f more short options may follow.
ParseFlag(p, o) ==
  LET given == Tail(Head(p.args).text)
      isLong == Head(p.args).form = "long"
  IN [p EXCEPT !.results[o] = Append(@, IF isLong /\ given # <<>> THEN Word(given)
                                        ELSE TrueString),
               !.args = IF isLong \/ given = <<>> THEN Tail(@)
                        ELSE <<[form |-> "short", text |-> given]>> \o Tail(@)]

\* Mutant: an attached value does not count towards the one that is needed.
ParseValueTwice(p, o) ==
  LET given == Tail(Head(p.args).text)
      attached == IF given = <<>> THEN <<>> ELSE ResultsOf(o, Word(given))
      rest == Tail(p.args)
  IN IF rest = <<>> THEN [p EXCEPT !.error = TRUE]
     ELSE [p EXCEPT !.args = Tail(rest),
                    !.results[o] = @ \o attached \o ResultsOf(o, Head(rest))]

\* An option with values: an attached value, or else arguments of any look until
\* there is one value.  A list then goes on as long as words follow, and eats the
\* mark that ends them.
ParseValue(p, o) ==
  LET given == Tail(Head(p.args).text)
      attached == IF given = <<>> THEN <<>> ELSE ResultsOf(o, Word(given))
      rest == Tail(p.args)
      empty == WhileAll(rest, {a \in ToSet(rest) : ResultsOf(o, a) = <<>>})
      least == IF attached = <<>> THEN empty + 1 ELSE 0
      words == WhileAll(SubSeq(rest, least + 1, Len(rest)), {a \in ToSet(rest) : IsWord(a)})
      taken == IF o \in Lists THEN least + words ELSE least
      ends == o \in Lists /\ taken < Len(rest) /\ rest[taken + 1].form = "mark"
  IN IF least > Len(rest) THEN [p EXCEPT !.error = TRUE]
     ELSE [p EXCEPT !.args = SubSeq(rest, IF ends THEN taken + 2 ELSE taken + 1, Len(rest)),
                    !.results[o] = @ \o attached \o Collected(o, rest, taken)]

\* _parse_single
ParseSingle(p) ==
  LET named == IF p.positionalOnly THEN {} ELSE Named(Head(p.args))
      o == CHOOSE n \in named : TRUE
  IN IF named = {} THEN MoveToMissing(p)
     ELSE IF o \in Flags THEN ParseFlag(p, o) ELSE ParseValue(p, o)

InProgress(p) == p.args # <<>> /\ ~p.error
-----------------------------------------------------------------------------
\* A text that stands for a number, or one of the words a flag knows.
NumberIn(values, value) ==
  Len(value.text) = 1 /\ Head(value.text) \in DOMAIN Number /\ Number[Head(value.text)] \in values
IsTrueWord(value) == value.form = "word" /\ Len(value.text) = 1 /\ Head(value.text) \in TrueWords
IsFalseWord(value) == value.form = "word" /\ Len(value.text) = 1 /\ Head(value.text) \in FalseWords

\* to_flag_value
FlagValue(value) == IsTrueWord(value) \/ NumberIn(Nat \ {0}, value)
IsFlagValue(value) == IsTrueWord(value) \/ IsFalseWord(value) \/ NumberIn(Int, value)

\* The signed integers take "true" for 1.
ConvertsToUnsigned(values, value) == NumberIn(values, value)
ConvertsToSigned(values, value) == NumberIn(values, value) \/ value = TrueString
IntegerOf(value) == IF value = TrueString THEN 1 ELSE Number[Head(value.text)]

\* lexical_cast, by the type of main's variable; -h has none.
Converts(o, value) ==
  /\ o \in Flags \ {"h"} => IsFlagValue(value)
  /\ o = "V"            => ConvertsToUnsigned(Uint16, value)
  /\ o \in {"a", "p"}   => ConvertsToSigned(Int32, value)
  /\ o = "m"            => ConvertsToSigned(Int, value)

\* lexical_conversion: every value of a list must convert.
AllConvert(o, values) == \A i \in DOMAIN values : Converts(o, values[i])

Given(p, o) == p.results[o] # <<>>
FlagSet(p, o) == Given(p, o) /\ FlagValue(Last(p.results[o]))

\* _reduce_results: of a flag the last value counts, and what is neither flag nor list
\* must not be given twice.
Reduced(p, o) == IF o \in Flags THEN <<Last(p.results[o])>> ELSE p.results[o]
TooMany(p, o) == o \notin Lists /\ Len(Reduced(p, o)) > 1

\* Option::run_callback, and what it throws.  The version is an exception, too.
Callback(p, o) ==
  IF TooMany(p, o) THEN "ArgumentMismatch"
  ELSE IF ~AllConvert(o, Reduced(p, o)) THEN "ConversionError"
  ELSE IF o = "v" /\ FlagSet(p, "v") THEN "CallForVersion"
  ELSE "none"

\* _process_callbacks: the options that were given and whose callbacks throw, in order.
Throwing(p) ==
  Selected(OptionOrder, {o \in OptionNames : Given(p, o) /\ Callback(p, o) # "none"})

\* _process_help_flags: -h counts whatever its value, even --help=false.
HelpAsked(p) == Given(p, "h")

\* Mutant: the needs of a flag are not looked at.
NeedsMetByOptions(p) ==
  \A o \in DOMAIN Needs \ Flags : Given(p, o) => Given(p, Needs[o])

\* _process_requirements: what an option needs was given, with whatever value.
NeedsMet(p) == \A o \in DOMAIN Needs : Given(p, o) => Given(p, Needs[o])

\* _process_extras
ExtrasLeft(p) == p.missing # <<>>

\* What there is to be thrown, in the order of App::_parse and App::_process; only the
\* first is.
Thrown(p) ==
  LET Where(condition, exception) == IF condition THEN <<exception>> ELSE <<>>
  IN Where(p.error, "ArgumentMismatch")
     \o [i \in DOMAIN Throwing(p) |-> Callback(p, Throwing(p)[i])]
     \o Where(HelpAsked(p), "CallForHelp")
     \o Where(~NeedsMet(p), "RequiresError")
     \o Where(ExtrasLeft(p), "ExtrasError")

\* Nothing is thrown.
Accepted(p) ==
  /\ ~p.error /\ Throwing(p) = <<>>
  /\ ~HelpAsked(p) /\ NeedsMet(p) /\ ~ExtrasLeft(p)
Exception(p) == IF Accepted(p) THEN "none" ELSE Head(Thrown(p))

\* The exceptions that are no errors: the program ends with status 0.
Successes == {"CallForHelp", "CallForVersion"}
-----------------------------------------------------------------------------
\* A value that is no option and no mark is spelled apart from its option, and so
\* are the flags of one argument.
Apart(arg) ==
  LET named == Named(arg)
      o == CHOOSE n \in named : TRUE
      name == [form |-> arg.form, text |-> <<Head(arg.text)>>]
  IN IF named = {} \/ Tail(arg.text) = <<>> THEN <<arg>>
     ELSE IF o \notin Flags THEN <<name, Word(Tail(arg.text))>>
     ELSE IF arg.form = "short" THEN <<name, [form |-> "short", text |-> Tail(arg.text)]>>
     ELSE <<arg>>

\* The whole rest of a line: no more steps than its arguments have parts, and one
\* for each mark.
ParseAll(p) == FoldLeft(LAMBDA q, i : IF InProgress(q) THEN ParseSingle(q) ELSE q,
                        p, p.args \o FlattenSeq([i \in DOMAIN p.args |-> p.args[i].text]))

\* An argument that ends with an option without a value, behind any number of flags:
\* the option takes what comes next.
TakesNext(arg) ==
  IF arg.form = "short"
  THEN /\ Last(arg.text) \in OptionNames \ Flags
       /\ \A i \in 1 .. Len(arg.text) - 1 : arg.text[i] \in Flags
  ELSE Named(arg) \ Flags # {} /\ Tail(arg.text) = <<>>

\* No option takes an argument that looks like an option, or the mark, as its value:
\* neither at once nor after a list of empty parts, which is no value.
TakesNoOption(p) ==
  \A i \in 1 .. Len(p.args) - 1 :
    TakesNext(p.args[i]) => IsWord(p.args[i + 1]) /\ p.args[i + 1].text # <<>>

\* Whether the value is attached to its option or follows it, and whether flags are
\* given in one argument or in several, the line means the same (CLI11.hpp:9578-9799),
\* and what is wrong with it is the same, at every point of the parse: unless an option
\* takes for its value what looks like another one, which it does when nothing is
\* attached (CLI11.hpp:9738).
SpellingsAgree ==
  (TakesNoOption(parse) /\ ~parse.error) =>
    LET spelled == [parse EXCEPT !.args = FlattenSeq([i \in DOMAIN @ |-> Apart(@[i])])]
        given == ParseAll(parse)
        other == ParseAll(spelled)
    IN /\ Exception(given) = Exception(other)
       /\ Accepted(given) => given.results = other.results
=============================================================================
