----------------------------- MODULE CommandLine -----------------------------
(***************************************************************************)
(* How an argument of a child process is quoted (QuoteWindowsArgument) and *)
(* how the child's run-time library takes the command line apart again.    *)
(* Characters are abstracted to the four the two algorithms tell apart.    *)
(***************************************************************************)
EXTENDS Sequences, Naturals, SequencesExt

CONSTANT MaxArgument    \* longest argument enumerated by QuotingRoundTrips

Character == {"a", "space", "quote", "slash"}

\* std::wstring::append(n, L'\\')
Slashes(n) == [i \in 1 .. n |-> "slash"]

NeedsQuotes(argument) == argument = <<>> \/ \E i \in DOMAIN argument : argument[i] \in {"space", "quote"}

\* Mutant: the slashes before a quote are not doubled.
QuoteCharacterUndoubled(text, c) ==
    CASE c = "slash" -> [text EXCEPT !.held = @ + 1]
      [] OTHER -> [out |-> text.out \o Slashes(text.held) \o (IF c = "quote" THEN <<"slash", c>> ELSE <<c>>),
                   held |-> 0]

\* One turn of the loop: slashes are held back until what follows them is known.
QuoteCharacter(text, c) ==
    CASE c = "slash" -> [text EXCEPT !.held = @ + 1]
      [] c = "quote" -> [out |-> text.out \o Slashes(2 * text.held + 1) \o <<c>>, held |-> 0]
      [] OTHER       -> [out |-> text.out \o Slashes(text.held) \o <<c>>, held |-> 0]

\* QuoteWindowsArgument
Quoted(argument) ==
    IF ~NeedsQuotes(argument) THEN argument
    ELSE LET text == FoldLeft(QuoteCharacter, [out |-> <<>>, held |-> 0], argument)
         IN  <<"quote">> \o text.out \o Slashes(2 * text.held) \o <<"quote">>

\* BuildWindowsCommandLine
AddArgument(line, argument) ==
    (IF line = <<>> THEN <<>> ELSE Append(line, "space")) \o Quoted(argument)

CommandLineOf(arguments) == FoldLeft(AddArgument, <<>>, arguments)

\* A reader between two arguments.
Between(done) == [now |-> <<>>, held |-> 0, inside |-> FALSE, started |-> FALSE, done |-> done]

\* The C run-time's reading of a command line: before a quote every two slashes
\* are one, and an odd one makes the quote a character; elsewhere a slash is a
\* slash; spaces outside of quotes separate arguments.
ReadCharacter(reading, c) ==
    LET literal == reading.now \o Slashes(reading.held)
        halved  == reading.now \o Slashes(reading.held \div 2)
    IN  CASE c = "slash" -> [reading EXCEPT !.held = @ + 1, !.started = TRUE]
          [] c = "quote" /\ reading.held % 2 = 1 ->
                [reading EXCEPT !.now = Append(halved, c), !.held = 0]
          [] c = "quote" /\ reading.held % 2 = 0 ->
                [reading EXCEPT !.now = halved, !.held = 0, !.inside = ~@, !.started = TRUE]
          [] c = "space" /\ ~reading.inside ->
                Between(IF reading.started THEN Append(reading.done, literal) ELSE reading.done)
          [] OTHER -> [reading EXCEPT !.now = Append(literal, c), !.held = 0, !.started = TRUE]

ArgumentsIn(line) == FoldLeft(ReadCharacter, Between(<<>>), Append(line, "space")).done

SomeArguments == BoundedSeq(Character, MaxArgument)
RoundTrips ==
    \A a, b \in SomeArguments : ArgumentsIn(CommandLineOf(<<<<"a">>, a, b>>)) = <<<<"a">>, a, b>>
=============================================================================
