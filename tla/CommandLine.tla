------------------------------ MODULE CommandLine ------------------------------
(***************************************************************************)
(* The command line of the server: UdpServer/argparse.c, of which part09   *)
(* and part12 hold copies, and main of UdpServer/main.c.                   *)
(*                                                                         *)
(* An argument is a record, of one kind:                                   *)
(*   [kind |-> "word", text]        a word without dash, or a single dash  *)
(*   [kind |-> "short", letters]    -abc                                   *)
(*   [kind |-> "long", neg, name, own]  --name, --no-name, --name=value,   *)
(*                                  own being <<>> or <<value>>            *)
(*   [kind |-> "end"]               --                                     *)
(* An option is [type, short_name, long_name, noneg].  Texts are sequences *)
(* of strings; usage texts are counted, not laid out.                      *)
(***************************************************************************)
EXTENDS Integers, Sequences

Option(type, short, long, noneg) ==
  [type |-> type, short_name |-> short, long_name |-> long, noneg |-> noneg]

OPT_HELP == Option("help", "h", "help", TRUE)

LinuxOptions ==
  <<OPT_HELP, Option("boolean", "s", "start", FALSE), Option("boolean", "r", "run", FALSE)>>

WindowsOptions ==
  <<OPT_HELP,
    Option("boolean", "i", "install", FALSE), Option("string", "d", "depend", FALSE),
    Option("string", "e", "description", FALSE),
    Option("boolean", "u", "uninstall", FALSE), Option("boolean", "s", "start", FALSE),
    Option("boolean", "k", "stop", FALSE), Option("boolean", "r", "run", FALSE)>>

Arg ==
  [kind : {"word"}, text : STRING]
    \cup [kind : {"short"}, letters : Seq(STRING) \ {<<>>}]
    \cup [kind : {"long"}, neg : BOOLEAN, name : STRING, own : {s \in Seq(STRING) : Len(s) <= 1}]
    \cup [kind : {"end"}]

\* An argument as text.
Text(arg) ==
  CASE arg.kind = "word" -> <<arg.text>>
    [] arg.kind = "short" -> <<"-">> \o arg.letters
    [] arg.kind = "long" -> <<"--", IF arg.neg THEN "no-" ELSE "", arg.name>>
                              \o (IF arg.own = <<>> THEN <<>> ELSE <<"=">> \o arg.own)
    [] arg.kind = "end" -> <<"--">>

-----------------------------------------------------------------------------
(***************************************************************************)
(* struct argparse: argv is what is left of the arguments, the present one *)
(* first; optvalue is NULL, here <<>>, or a text; exit is "" while the     *)
(* program runs, or its status; usages counts the calls of argparse_usage. *)
(***************************************************************************)
argparse_init(options, args) ==
  [options |-> options, argv |-> args, out |-> <<>>, optvalue |-> <<>>,
   value |-> [o \in {options[k].long_name : k \in DOMAIN options} |->
                IF \E k \in DOMAIN options :
                     options[k].long_name = o /\ options[k].type = "string"
                THEN <<>> ELSE 0],
   usages |-> 0, exit |-> ""]

\* Each call moves self->usages on; USAGE has one text, so the second call
\* prints a null pointer and reads behind the array: what becomes of the program
\* then is not known, and only the case that it goes on is followed here.
argparse_usage(self) == [self EXCEPT !.usages = @ + 1]

argparse_help_cb(self) == [argparse_usage(self) EXCEPT !.exit = "success"]

\* Mutant: the error is written, and parsing goes on.
argparse_error_Returns(self) == self

argparse_error(self) == [self EXCEPT !.exit = "failure"]

\* Mutant: a negated option may fall below zero.
Counted_Negative(count, unset) == IF unset THEN count - 1 ELSE count + 1

\* A boolean option counts and stops at zero.
Counted(count, unset) ==
  CASE ~unset -> count + 1
    [] unset /\ count > 0 -> count - 1
    [] OTHER -> 0

\* A string takes optvalue, or else the next argument, whatever it looks like;
\* OPT_HELP has no value and calls its callback.
argparse_getvalue(self, opt, unset) ==
  CASE opt.type = "help" -> argparse_help_cb(self)
    [] opt.type = "boolean" ->
         [self EXCEPT !.value[opt.long_name] = Counted(@, unset)]
    [] opt.type = "string" /\ self.optvalue # <<>> ->
         [self EXCEPT !.value[opt.long_name] = self.optvalue, !.optvalue = <<>>]
    [] opt.type = "string" /\ self.optvalue = <<>> /\ Len(self.argv) > 1 ->
         [self EXCEPT !.value[opt.long_name] = Text(self.argv[2]), !.argv = Tail(@)]
    [] OTHER -> argparse_error(self)

\* The loop over the options stops at the first that matches; 0 when none does.
FirstOption(matching) ==
  IF matching = {} THEN 0 ELSE CHOOSE k \in matching : \A l \in matching : k <= l

\* "unknown option": the usage, and on.  exit(EXIT_FAILURE) is meant to follow, but
\* !self->flags & 2 is always zero; optvalue keeps what it was.
Unknown(self) == argparse_usage(self)

\* argparse_short_opt, for the first letter of optvalue.
argparse_short_opt(self) ==
  LET k == FirstOption({l \in DOMAIN self.options :
                          self.options[l].short_name = Head(self.optvalue)})
  IN IF k = 0 THEN Unknown(self)
     ELSE argparse_getvalue([self EXCEPT !.optvalue = Tail(@)], self.options[k], FALSE)

\* A turn of the loop over a cluster whose letters from this one on are rest: an
\* unknown letter has stopped the loop with more than these in optvalue, and a
\* string option that has taken them for its text has left none.
LetterTurn(self, rest) ==
  IF self.optvalue = rest /\ self.exit = "" THEN argparse_short_opt(self) ELSE self

LetterTurns(self, letters) ==
  LET turn[k \in 0 .. Len(letters)] ==
        IF k = 0 THEN [self EXCEPT !.optvalue = letters]
        ELSE LetterTurn(turn[k - 1], SubSeq(letters, k, Len(letters)))
  IN turn

ShortOptions(self, letters) == LetterTurns(self, letters)[Len(letters)]

\* Only options that may be negated are compared with a text that begins "no-".
argparse_long_opt(self, arg) ==
  LET Takes(o) == /\ o.long_name = arg.name
                  /\ arg.neg => o.type = "boolean" /\ ~o.noneg
      k == FirstOption({l \in DOMAIN self.options : Takes(self.options[l])})
  IN IF k = 0 THEN Unknown(self)
     ELSE argparse_getvalue([self EXCEPT !.optvalue = IF arg.own = <<>> THEN @ ELSE arg.own],
                            self.options[k], arg.neg)

\* memmove: what is left of argv follows the words.
Rest(self) ==
  [self EXCEPT !.argv = <<>>, !.out = @ \o [k \in DOMAIN self.argv |-> Text(self.argv[k])]]

\* A turn of the loop over the arguments, for the first that is left.
NextArgument(self) == [self EXCEPT !.argv = Tail(@)]

ArgumentTurn(self) ==
  LET arg == Head(self.argv)
  IN IF self.argv = <<>> \/ self.exit # "" THEN self
     ELSE CASE arg.kind = "word" -> NextArgument([self EXCEPT !.out = Append(@, Text(arg))])
            [] arg.kind = "short" -> NextArgument(ShortOptions(self, arg.letters))
            [] arg.kind = "long" -> NextArgument(argparse_long_opt(self, arg))
            [] arg.kind = "end" -> Rest(NextArgument(self))

\* The state after each turn; a turn takes one argument or two.
ArgumentTurns(self) ==
  LET turn[k \in 0 .. Len(self.argv)] ==
        IF k = 0 THEN self ELSE ArgumentTurn(turn[k - 1])
  IN turn

argparse_parse(self) == ArgumentTurns(self)[Len(self.argv)]

-----------------------------------------------------------------------------
(***************************************************************************)
(* main: the options in the order in which it asks for them.               *)
(***************************************************************************)
LinuxOrder == <<"run", "start">>

WindowsOrder == <<"install", "uninstall", "start", "stop", "run">>

\* The option main goes on with: "run" is the console, and the rest service mode,
\* whose calls are empty on Unix and disabled on Windows.  "usage" when none is
\* on, and "exit" when argparse has ended the program.
Mode(self, order) ==
  LET on == {k \in DOMAIN order : self.value[order[k]] # 0}
  IN CASE self.exit # "" -> "exit"
       [] self.exit = "" /\ on = {} -> "usage"
       [] OTHER -> order[FirstOption(on)]

main(options, order, args) ==
  LET self == argparse_parse(argparse_init(options, args))
  IN [self |-> IF Mode(self, order) = "usage" THEN argparse_usage(self) ELSE self,
      mode |-> Mode(self, order)]
=============================================================================
