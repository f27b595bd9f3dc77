----------------------------- MODULE CommandLine -----------------------------
(***************************************************************************)
(* How a program is told what to do: the options of its command line       *)
(* (src/src/common/getopt.c), and the URL of an image source               *)
(* (src/src/common/url_parser.c) whose parameters set up the camera it     *)
(* names (src/src/imagesource/image_source.c).                             *)
(*                                                                         *)
(* A token is its dashes and its text, a sequence of letters for a block   *)
(* of short options and of one name otherwise; a URL is a sequence of      *)
(* names and delimiters.                                                   *)
(***************************************************************************)
EXTENDS Integers, Sequences, FiniteSets, SequencesExt

CONSTANTS
  Options,     \* [short, long, type, default] that a program may declare
  Digits,      \* letters that are digits
  Items,       \* [form, long, value]: what a user may mean to say
  MaxItems,    \* bound on what is said on one line
  Drivers,     \* protocols of image sources
  Urls,        \* [protocol, host, port, path, params]: URLs by their parts
  Features,    \* names of the camera's features
  Number,      \* text -> number: the text that strtod takes whole
  MaxValue     \* the camera takes values up to it

VARIABLES
  tool,        \* "getopt" or "open"
  pc,
  options,     \* the options declared
  said,        \* sequence of items: what the line was meant to say
  toks, next, letter,   \* toks, i, pos
  okay, values, extras, \* okay, svalue by long name, extraargs
  url, parts,           \* the string, and what url_parser_create makes of it
  param, camera         \* param_idx, isrc: [format, features], or none

vars == <<tool, pc, options, said, toks, next, letter, okay, values, extras, url, parts,
          param, camera>>
lineVars == <<options, said, toks, next, letter, okay, values, extras>>
urlVars == <<url, parts, param, camera>>

-----------------------------------------------------------------------------
(* The command line.                                                       *)

Word(text) == [dashes |-> 0, text |-> <<text>>, quoted |-> FALSE]

\* An argument of the line: a token, and what is behind its "=", if there is one.
Arg(dashes, text, val) == [token |-> [dashes |-> dashes, text |-> text, quoted |-> FALSE],
                           val |-> val]

Long(name) == {o \in options : o.long = name}
Short(name) == {o \in options : o.short = name}

\* The names must be new, else the program exits.
Declare ==
  /\ pc = "declare"
  /\ \E o \in Options :
       IF Long(o.long) # {} \/ Short(o.short) # {}
       THEN pc' = "exited" /\ UNCHANGED <<options, values>>
       ELSE /\ options' = options \union {o}
            /\ values' = [l \in DOMAIN values \union {o.long} |->
                            IF l = o.long THEN Word(o.default) ELSE values[l]]
            /\ UNCHANGED pc
  /\ UNCHANGED <<tool, said, toks, next, letter, okay, extras, urlVars>>

\* The arguments that say an item.
Spelling(item) ==
  LET short == {o.short : o \in Long(item.long)}
      s == CHOOSE x \in short : TRUE IN
  CASE item.form = "--long" -> <<Arg(2, <<item.long>>, <<>>)>>
    [] item.form = "--long=value" -> <<Arg(2, <<item.long>>, <<item.value>>)>>
    [] item.form = "--long value" ->
         <<Arg(2, <<item.long>>, <<>>), [token |-> item.value, val |-> <<>>]>>
    [] item.form = "-s" -> <<Arg(1, <<s>>, <<>>)>>
    [] item.form = "-s value" -> <<Arg(1, <<s>>, <<>>), [token |-> item.value, val |-> <<>>]>>
    [] item.form = "-bs value" ->
         LET b == CHOOSE o \in options : o.type = "bool" IN
         <<Arg(1, <<b.short, s>>, <<>>), [token |-> item.value, val |-> <<>>]>>
    [] item.form = "token" -> << [token |-> item.value, val |-> <<>>] >>

\* Mutant of Chop: quotation marks stay.
Chop_KeepingQuotes(arg) == <<arg.token>> \o arg.val

\* What is behind an equal sign is a token of its own, without its quotation marks.
Chop(arg) ==
  IF arg.token.dashes = 0 \/ arg.val = <<>> THEN <<arg.token>>
  ELSE <<arg.token, [arg.val[1] EXCEPT !.quoted = FALSE]>>

\* What can be said: of declared options, a block only behind a boolean one.
Sayable(item) ==
  /\ item.form # "token" /\ item.long # "unknown" => Long(item.long) # {}
  /\ item.form = "-bs value" => \E o \in options : o.type = "bool"

\* An option that wants a value and has none, which is only said at the end of a line.
Incomplete(item) ==
  item.form \in {"--long", "-s"} /\ \E o \in Long(item.long) : o.type = "string"

Start ==
  /\ pc = "declare"
  /\ \E n \in 0 .. MaxItems : \E s \in [1 .. n -> {i \in Items : Sayable(i)}] :
       /\ \A a \in 1 .. n - 1 : ~Incomplete(s[a])
       /\ said' = s
       /\ toks' = FlattenSeq([a \in 1 .. n |->
                    FlattenSeq([b \in 1 .. Len(Spelling(s[a])) |-> Chop(Spelling(s[a])[b])])])
  /\ pc' = "parse"
  /\ UNCHANGED <<tool, options, next, letter, okay, values, extras, urlVars>>

HasNext == next < Len(toks)

Store(o, val) == values' = [values EXCEPT ![o.long] = val]

\* Mutant of LongOption: the value of a string is read again as an argument.
LongOption_Reread(o) ==
  IF HasNext /\ (o.type = "bool" => toks[next + 1] \in {Word("true"), Word("false")})
  THEN Store(o, toks[next + 1]) /\ next' = next + 1 /\ UNCHANGED <<okay, extras>>
  ELSE Store(o, Word("true")) /\ next' = next + 1 /\ UNCHANGED <<okay, extras>>

\* A boolean takes the next token if it is true or false, a string takes any; without
\* one the option itself ends among the arguments.
LongOption(o) ==
  IF HasNext /\ (o.type = "bool" => toks[next + 1] \in {Word("true"), Word("false")})
  THEN Store(o, toks[next + 1]) /\ next' = next + 2 /\ UNCHANGED <<okay, extras>>
  ELSE /\ next' = next + 1
       /\ IF o.type = "bool" THEN Store(o, Word("true")) /\ UNCHANGED <<okay, extras>>
          ELSE okay' = FALSE /\ extras' = Append(extras, toks[next]) /\ UNCHANGED values

ParseLong ==
  /\ pc = "parse" /\ next <= Len(toks) /\ toks[next].dashes = 2
  /\ LET found == Long(toks[next].text[1]) IN
     IF found = {} THEN okay' = FALSE /\ next' = next + 1 /\ UNCHANGED <<values, extras>>
     ELSE \E o \in found : LongOption(o)
  /\ UNCHANGED <<tool, pc, options, said, toks, letter, urlVars>>

ParseArgument ==
  /\ pc = "parse" /\ next <= Len(toks) /\ toks[next].dashes = 0
  /\ extras' = Append(extras, toks[next])
  /\ next' = next + 1
  /\ UNCHANGED <<tool, pc, options, said, toks, letter, okay, values, urlVars>>

\* A block of short options is read letter by letter.
OpenBlock ==
  /\ pc = "parse" /\ next <= Len(toks) /\ toks[next].dashes = 1
  /\ letter' = <<next, 1>>
  /\ pc' = "block"
  /\ UNCHANGED <<tool, options, said, toks, next, okay, values, extras, urlVars>>

InBlock == pc = "block" /\ letter[2] <= Len(toks[letter[1]].text)
Letter == toks[letter[1]].text[letter[2]]
Advance == letter' = <<letter[1], letter[2] + 1>>

\* A first letter that is a digit and no option: a negative number.
NegativeNumber ==
  /\ InBlock /\ Short(Letter) = {} /\ letter[2] = 1 /\ Letter \in Digits
  /\ extras' = Append(extras, toks[letter[1]])
  /\ pc' = "parse" /\ next' = next + 1
  /\ UNCHANGED <<tool, options, said, toks, letter, okay, values, urlVars>>

\* Mutant of UnknownLetter: not reported.
UnknownLetter_Silent ==
  /\ InBlock /\ Short(Letter) = {} /\ ~(letter[2] = 1 /\ Letter \in Digits)
  /\ next' = next + 1
  /\ Advance
  /\ UNCHANGED <<tool, pc, options, said, toks, okay, values, extras, urlVars>>

\* An unknown letter also skips an argument.
UnknownLetter ==
  /\ InBlock /\ Short(Letter) = {} /\ ~(letter[2] = 1 /\ Letter \in Digits)
  /\ okay' = FALSE
  /\ next' = next + 1
  /\ Advance
  /\ UNCHANGED <<tool, pc, options, said, toks, values, extras, urlVars>>

\* A string takes the next token, and reports one that looks like an option.
ShortOption ==
  /\ InBlock
  /\ \E o \in Short(Letter) :
       IF o.type = "bool" THEN Store(o, Word("true")) /\ UNCHANGED <<next, okay>>
       ELSE IF HasNext
       THEN /\ Store(o, toks[next + 1])
            /\ next' = next + 1
            /\ okay' = (okay /\ toks[next + 1].dashes = 0)
       ELSE okay' = FALSE /\ UNCHANGED <<next, values>>
  /\ Advance
  /\ UNCHANGED <<tool, pc, options, said, toks, extras, urlVars>>

CloseBlock ==
  /\ pc = "block" /\ ~InBlock
  /\ pc' = "parse" /\ next' = next + 1
  /\ UNCHANGED <<tool, options, said, toks, letter, okay, values, extras, urlVars>>

Finish ==
  /\ pc = "parse" /\ next > Len(toks)
  /\ pc' = "parsed"
  /\ UNCHANGED <<tool, lineVars, urlVars>>

-----------------------------------------------------------------------------
(* The URL, and the image source it opens.                                 *)

\* strposat: where the needle is found next; 0 if nowhere.
Find(s, needle, from) ==
  LET at == {i \in from .. Len(s) : s[i] = needle} IN
  IF at = {} THEN 0 ELSE CHOOSE i \in at : \A j \in at : i <= j

\* The string of a URL's parts.
Joined(u) ==
  <<u.protocol, "://">> \o u.host \o (IF u.port = "" THEN <<>> ELSE <<":", u.port>>)
  \o u.path
  \o FlattenSeq([i \in 1 .. Len(u.params) |->
       <<IF i = 1 THEN "?" ELSE "&", u.params[i][1]>>
       \o (IF u.params[i][2] = "" THEN <<>> ELSE <<"=", u.params[i][2]>>)])

\* strndup: a negative length is a huge one.
Slice(s, from, length) ==
  SubSeq(s, from, IF length < 0 THEN Len(s) ELSE from + length - 1)

\* Mutant of ParamsFrom: a value runs up to the end of the string.
ParamsFrom_ToTheEnd(s, first) ==
  LET f[at \in 0 .. Len(s)] ==
        IF at = 0 THEN <<>>
        ELSE LET eq == Find(s, "=", at + 1) IN
             << <<Slice(s, at + 1, eq - at - 1), Slice(s, eq + 1, Len(s) - eq)>> >>
             \o f[Find(s, "&", at + 1)]
  IN f[first]

\* The keys and values from a "?" or "&" on.
ParamsFrom(s, first) ==
  LET f[at \in 0 .. Len(s)] ==
        IF at = 0 THEN <<>>
        ELSE LET end == Find(s, "&", at + 1)
                 eq == Find(s, "=", at + 1)
                 length == IF end = 0 THEN Len(s) - eq ELSE end - eq - 1 IN
             << <<Slice(s, at + 1, eq - at - 1), Slice(s, eq + 1, length)>> >> \o f[end]
  IN f[first]

\* A slash ends host and port, else a question mark does; the path is from that slash
\* to the question mark behind it.
Parsed(s) ==
  LET start == Find(s, "://", 1) + 1
      slash == Find(s, "/", start)
      mark == Find(s, "?", start)
      end == IF slash # 0 THEN slash ELSE IF mark # 0 THEN mark ELSE Len(s) + 1
      hostport == SubSeq(s, start, end - 1)
      colon == Find(hostport, ":", 1)
      endPath == IF Find(s, "?", slash) = 0 THEN Len(s) + 1 ELSE Find(s, "?", slash) IN
  [protocol |-> SubSeq(s, 1, start - 1),
   host |-> IF colon = 0 THEN hostport ELSE SubSeq(hostport, 1, colon - 1),
   port |-> IF colon = 0 THEN <<>> ELSE SubSeq(hostport, colon + 1, Len(hostport)),
   path |-> IF slash = 0 THEN <<"/">> ELSE SubSeq(s, slash, endPath - 1),
   params |-> ParamsFrom(s, Find(s, "?", 1))]

\* The driver of the protocol opens its device, if it finds it.
Open ==
  /\ pc = "closed"
  /\ \E u \in Urls :
       /\ url' = u
       /\ parts' = Parsed(Joined(u))
       /\ IF u.protocol \in Drivers
          THEN \/ /\ camera' = [format |-> <<>>, features |-> [f \in Features |-> 0]]
                  /\ pc' = "params"
               \/ UNCHANGED camera /\ pc' = "failed"
          ELSE UNCHANGED camera /\ pc' = "failed"
  /\ UNCHANGED <<tool, lineVars, param>>

Key == parts.params[param][1]
Value == parts.params[param][2]
\* url_parser_get_parameter: the first of the name.
First(key) == parts.params[CHOOSE i \in 1 .. Len(parts.params) :
                /\ parts.params[i][1] = key
                /\ \A j \in 1 .. i - 1 : parts.params[j][1] # key][2]

Handling == pc = "params" /\ param <= Len(parts.params)

SetFormat ==
  /\ Handling
  /\ Key \in {<<"fidx">>, <<"format">>}
  /\ camera' = [camera EXCEPT !.format =
                  IF Key = <<"fidx">> THEN First(<<"fidx">>) ELSE Value]
  /\ param' = param + 1
  /\ UNCHANGED <<tool, pc, lineVars, url, parts>>

\* Mutant of SetFeature: a value that is no number is passed over.
SetFeature_Lenient ==
  /\ Handling
  /\ Key \notin {<<"fidx">>, <<"format">>}
  /\ \E f \in Features :
       /\ Key = <<f>>
       /\ IF Len(Value) = 1 /\ Value[1] \in DOMAIN Number /\ Number[Value[1]] <= MaxValue
          THEN camera' = [camera EXCEPT !.features[f] = Number[Value[1]]]
          ELSE UNCHANGED camera
       /\ param' = param + 1
  /\ UNCHANGED <<tool, pc, lineVars, url, parts>>

\* A value that is no number ends the handling of parameters; one the camera refuses
\* does not.
SetFeature ==
  /\ Handling
  /\ Key \notin {<<"fidx">>, <<"format">>}
  /\ \E f \in Features :
       /\ Key = <<f>>
       /\ IF Len(Value) = 1 /\ Value[1] \in DOMAIN Number
          THEN /\ camera' = IF Number[Value[1]] <= MaxValue
                            THEN [camera EXCEPT !.features[f] = Number[Value[1]]]
                            ELSE camera
               /\ param' = param + 1
               /\ UNCHANGED pc
          ELSE pc' = "open" /\ UNCHANGED <<param, camera>>
  /\ UNCHANGED <<tool, lineVars, url, parts>>

\* "print" and names of nothing change nothing.
PassOver ==
  /\ Handling
  /\ Key \notin {<<"fidx">>, <<"format">>} \union {<<f>> : f \in Features}
  /\ param' = param + 1
  /\ UNCHANGED <<tool, pc, lineVars, url, parts, camera>>

Opened ==
  /\ pc = "params" /\ ~Handling
  /\ pc' = "open"
  /\ UNCHANGED <<tool, lineVars, urlVars>>

Init ==
  /\ tool \in {"getopt", "open"}
  /\ pc = IF tool = "getopt" THEN "declare" ELSE "closed"
  /\ options = {} /\ said = <<>> /\ toks = <<>> /\ next = 1 /\ letter = <<0, 0>>
  /\ okay = TRUE /\ values = <<>> /\ extras = <<>>
  /\ url = <<>> /\ parts = <<>> /\ param = 1 /\ camera = <<>>

Next ==
  \/ Declare \/ Start
  \/ ParseLong \/ ParseArgument \/ OpenBlock
  \/ NegativeNumber \/ UnknownLetter \/ ShortOption \/ CloseBlock \/ Finish
  \/ Open \/ SetFormat \/ SetFeature \/ PassOver \/ Opened

Spec == Init /\ [][Next]_vars

-----------------------------------------------------------------------------
\* What is wrong with an item: no such option, no value, or one that looks like an option.
Wrong(item) ==
  \/ Incomplete(item)
  \/ item.form = "--long" /\ Long(item.long) = {}
  \/ item.form \in {"-s value", "-bs value"} /\ item.value.dashes > 0
  \/ /\ item.form = "token" /\ item.value.dashes = 1
     /\ item.value.text[1] \notin Digits \union {o.short : o \in options}

\* The value an option was last given, by name, by letter or in a block.
MeantFor(o) ==
  LET sets == {i \in DOMAIN said : said[i].form # "token"
                 /\ (said[i].long = o.long \/ (said[i].form = "-bs value" /\ o.type = "bool"))} IN
  IF sets = {} THEN Word(o.default)
  ELSE LET item == said[Max(sets)] IN
       IF item.form \in {"--long", "-s"} \/ item.long # o.long THEN Word("true")
       ELSE [item.value EXCEPT !.quoted = FALSE]

\* A line is reported wrong exactly if it is; a right one sets each option to what it was
\* last given, in whatever form, and leaves the other arguments in their order
\* (getopt_parse).
LineParsedAsMeant ==
  pc = "parsed" =>
    /\ okay = \A i \in DOMAIN said : ~Wrong(said[i])
    /\ okay =>
         /\ \A o \in options : values[o.long] = MeantFor(o)
         /\ extras = LET words == SelectSeq(said, LAMBDA item : item.form = "token")
                     IN [i \in DOMAIN words |-> words[i].value]

\* A URL comes apart into the parts it was made of, if every parameter has a value
\* (url_parser_create).
UrlComesApart ==
  pc \in {"params", "open"} /\ (\A i \in DOMAIN url.params : url.params[i][2] # "") =>
    parts = [protocol |-> <<url.protocol, "://">>,
             host |-> url.host,
             port |-> IF url.port = "" THEN <<>> ELSE <<url.port>>,
             path |-> IF url.path = <<>> THEN <<"/">> ELSE url.path,
             params |-> [i \in DOMAIN url.params |->
                           <<<<url.params[i][1]>>, <<url.params[i][2]>>>>]]

\* An open camera has the format and each feature as last asked for by the parameters up
\* to the first that is no number, of those it takes (image_source_open).
CameraSetAsAsked ==
  pc = "open" =>
    LET asked == url.params
        Broken(i) == asked[i][1] \in Features /\ asked[i][2] \notin DOMAIN Number
        handled == {i \in DOMAIN asked : \A j \in 1 .. i : ~Broken(j)}
        formats == {i \in handled : asked[i][1] \in {"fidx", "format"}}
        Sets(f) == {i \in handled : asked[i][1] = f /\ Number[asked[i][2]] <= MaxValue} IN
    /\ \A f \in Features :
         camera.features[f] = IF Sets(f) = {} THEN 0 ELSE Number[asked[Max(Sets(f))][2]]
    /\ camera.format = IF formats = {} THEN <<>> ELSE <<asked[Max(formats)][2]>>
=============================================================================
