--------------------------- MODULE PureFunctions ---------------------------
(***************************************************************************)
(* The pure functions of the federation, against reference definitions:    *)
(* names (Names), configuration (Config) and the timestamps of a custom    *)
(* resource's status (Timestamp).  A state is one input; a clock advances, *)
(* and a text is read.                                                     *)
(***************************************************************************)
EXTENDS Config, Timestamp

CONSTANTS
  NameStrings,    \* names a leaf may give its tools, resources and prompts
  Configurations, \* lists of servers of a configuration file
  Texts,          \* texts of a configuration file
  Env,            \* the environment: the values of the variables that are set
  FullDays,       \* days that pass second by second, the others at a stroke
  LastDay         \* bound: days the clock runs; an era has 146097

ASSUME PureAssumption ==
  /\ NameStrings \subseteq Seq(STRING)
  /\ Configurations \subseteq Seq([alias : Seq(STRING), url : Seq(STRING)])
  /\ Texts \subseteq Seq(STRING)
  /\ \A name \in DOMAIN Env : Env[name] \in Seq(STRING)
  /\ FullDays \subseteq Nat
  /\ LastDay \in Nat

VARIABLE input

Clock(days, sod, date, time) ==
  [kind |-> "clock", days |-> days, sod |-> sod, date |-> date, time |-> time]

Epoch == [year |-> 1970, month |-> 1, day |-> 1]
Midnight == [hour |-> 0, minute |-> 0, second |-> 0]

-----------------------------------------------------------------------------
\* The reference for interpolate_env_vars: one pass over the text, a character at
\* a time, that never looks ahead and never sees the values.  It is in plain text,
\* after a dollar sign, or in the name of a variable.
Scanner(mode, out, name) == [mode |-> mode, out |-> out, name |-> name]

Scan(scan, c) ==
  CASE scan.mode = "text" /\ c = "$"   -> Scanner("dollar", scan.out, <<>>)
    [] scan.mode = "text" /\ c # "$"   -> Scanner("text", Append(scan.out, c), <<>>)
    [] scan.mode = "dollar" /\ c = "{" -> Scanner("name", scan.out, <<>>)
    [] scan.mode = "dollar" /\ c = "$" -> Scanner("dollar", Append(scan.out, "$"), <<>>)
    [] scan.mode = "dollar" /\ c \notin {"{", "$"} ->
         Scanner("text", Append(Append(scan.out, "$"), c), <<>>)
    [] scan.mode = "name" /\ c = "}" ->
         Scanner("text", scan.out \o value_of(Env, scan.name), <<>>)
    [] scan.mode = "name" /\ c # "}"   -> Scanner("name", scan.out, Append(scan.name, c))

\* What the last character leaves open is text.
Scanned(scan) ==
  CASE scan.mode = "text"   -> scan.out
    [] scan.mode = "dollar" -> Append(scan.out, "$")
    [] scan.mode = "name"   -> scan.out \o (MarkOpen \o scan.name)

\* A text of which the scanner has read the first characters, and the loop as far
\* as it has come.
Reading(text, at, scan, loop) ==
  [kind |-> "text", text |-> text, at |-> at, scan |-> scan, loop |-> loop]

Unread(text) == Reading(text, 0, Scanner("text", <<>>, <<>>), Loop(<<>>, text, FALSE))

-----------------------------------------------------------------------------
PureInit ==
  \/ \E servers \in Configurations : input = [kind |-> "config", servers |-> servers]
  \/ \E text \in Texts : input = Unread(text)
  \/ input = Clock(0, 0, Epoch, Midnight)

NextSecond ==
  /\ input.kind = "clock"
  /\ input.days \in FullDays
  /\ input.sod < 86399
  /\ input' = Clock(input.days, input.sod + 1, input.date, SecondAfter(input.time))

\* The last second of a day that passes second by second, or a whole day.
NextDay ==
  /\ input.kind = "clock"
  /\ input.days < LastDay
  /\ \/ /\ input.days \notin FullDays
        /\ input' = Clock(input.days + 1, input.sod, DayAfter(input.date), input.time)
     \/ /\ input.days \in FullDays
        /\ input.sod = 86399
        /\ input' = Clock(input.days + 1, 0, DayAfter(input.date), SecondAfter(input.time))

\* The two programs share nothing, so their steps may be put side by side: the
\* loop takes a turn where the scanner closes a reference, and the turns that it
\* still needs once the scanner is through.
ReadCharacter ==
  /\ input.kind = "text"
  /\ input.at < Len(input.text)
  /\ LET c == input.text[input.at + 1]
         closed == input.scan.mode = "name" /\ c = "}"
     IN input' = Reading(input.text, input.at + 1, Scan(input.scan, c),
                         IF closed /\ ~input.loop.done
                         THEN interpolate_env_vars(Env, input.loop) ELSE input.loop)

FinishLoop ==
  /\ input.kind = "text"
  /\ input.at = Len(input.text)
  /\ ~input.loop.done
  /\ input' = Reading(input.text, input.at, input.scan, interpolate_env_vars(Env, input.loop))

PureNext == NextSecond \/ NextDay \/ ReadCharacter \/ FinishLoop

PureSpec == PureInit /\ [][PureNext]_input

-----------------------------------------------------------------------------
\* aggregator.rs:218, README.md:38 (tools are published under their leaf's alias
\* and calls are routed back): in every configuration validate accepts, whatever
\* names the leaves choose, a published name leads back to its leaf unless the
\* alias ends in an underscore.
AcceptedNamesRoute ==
  input.kind = "config" /\ validate(input.servers) => NamesRoute(input.servers, NameStrings)

\* config.rs:305 "An unclosed `${` leaves the remainder of the string untouched":
\* replacing references by searching ahead gives what one pass over the text
\* gives: values are never scanned, an unset variable is empty, stray and
\* unclosed marks stay.
InterpolationIsOnePass ==
  input.kind = "text" /\ input.at = Len(input.text) /\ input.loop.done =>
    input.loop.result = Scanned(input.scan)

\* crd_discovery.rs:164: the arithmetic agrees with the Gregorian calendar,
\* however long the clock runs.
TimestampIsCalendar ==
  input.kind = "clock" =>
    rfc3339_from_unix(input.days, input.sod) = [date |-> input.date, time |-> input.time]
=============================================================================
