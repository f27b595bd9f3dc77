----------------------------- MODULE ConfigFile -----------------------------
(***************************************************************************)
(* The configuration of src/src/common/config.c: a file's tokens parsed    *)
(* into a tree of containers and arrays of values, keys looked up in it    *)
(* with what containers inherit, and values set; and, on its own, how the text  *)
(* is split into tokens.                                                   *)
(***************************************************************************)
EXTENDS Integers, Sequences, FiniteSets, SequencesExt

CONSTANTS
  Names,        \* identifiers, which may be keys and values
  Quoted,       \* the texts of quoted strings, which may only be values
  None,
  MaxTokens,    \* bound on the length of a file
  BufferSize,   \* of the buffer for a token; the code demands at least 4
  MaxSets       \* bound on the calls that set a value

VARIABLES
  elements,     \* the elements made so far, in the order they were made: 1 is the root
  stack,        \* the calls of parse_container: the element each fills
  child,        \* the child the innermost call has read the name of, or 0
  pc,           \* what the parser expects
  consumed,     \* history: the tokens read
  sets          \* history: the calls that set a value: key, value and result

VARIABLES
  extra,        \* p->extra_ch: the character put back, or None
  tokenPc,      \* "skip" white space, "text" of a token, "done" or "error"
  tokType,      \* *tok
  str,          \* what is in the caller's buffer
  prev,         \* prev_ch
  raw           \* history: the characters this token was made of, from the first on

vars == <<elements, stack, child, pc, consumed, sets>>
tokenVars == <<extra, tokenPc, tokType, str, prev, raw>>

Punctuation == {"=", "{", "}", "[", "]", ",", ";"}
Values == Names \cup Quoted
Tokens == Values \cup Punctuation \cup {"cast", "eof"}

NewElement(name) == [name |-> name, type |-> "container", parent |-> 0, values |-> <<>>]

AddChild(es, e, p) == [es EXCEPT ![e].parent = p]

Reads(tok) ==
  /\ Len(consumed) < MaxTokens
  /\ consumed' = IF pc' = "failed" THEN <<>> ELSE Append(consumed, tok)

\* Any error gives the whole file up.
Fails ==
  /\ pc' = "failed"
  /\ elements' = <<NewElement(None)>> /\ stack' = <<1>> /\ child' = 0

\* Mutant of EndOf: a closing brace ends the file.
EndOf_Brace(depth) == "}"
EndOf(depth) == IF depth = 1 THEN "eof" ELSE "}"

\* One turn of parse_container's loop.
ParseContainer(tok) ==
  /\ pc = "container"
  /\ \/ /\ child = 0 /\ tok \in Names
        /\ elements' = Append(elements, NewElement(tok))
        /\ child' = Len(elements) + 1
        /\ UNCHANGED <<stack, pc>>
     \/ /\ child # 0 /\ tok = "="
        /\ elements' = [elements EXCEPT ![child].type = "array"]
        /\ pc' = "right side"
        /\ UNCHANGED <<stack, child>>
     \/ /\ child # 0 /\ tok = "{"
        /\ stack' = Append(stack, child)
        /\ child' = 0
        /\ UNCHANGED <<elements, pc>>
     \/ /\ child = 0 /\ tok = EndOf(Len(stack))
        /\ IF Len(stack) = 1
           THEN pc' = "done" /\ UNCHANGED <<elements, stack>>
           ELSE /\ elements' = AddChild(elements, Last(stack), stack[Len(stack) - 1])
                /\ stack' = Front(stack)
                /\ UNCHANGED pc
        /\ UNCHANGED child
     \/ /\ tok \notin (IF child = 0 THEN Names \cup {EndOf(Len(stack))} ELSE {"=", "{"})
        /\ Fails
  /\ Reads(tok)

AddValue(tok) == elements' = [elements EXCEPT ![child].values = Append(@, tok)]

\* parse_right_side; a cast is passed over once.
ParseRightSide(tok) ==
  /\ pc \in {"right side", "after cast"}
  /\ \/ /\ tok = "cast" /\ pc = "right side"
        /\ pc' = "after cast"
        /\ UNCHANGED <<elements, stack, child>>
     \/ /\ tok \in Values
        /\ AddValue(tok)
        /\ pc' = "semicolon"
        /\ UNCHANGED <<stack, child>>
     \/ /\ tok = "["
        /\ pc' = "array value"
        /\ UNCHANGED <<elements, stack, child>>
     \/ /\ tok \notin Values \cup {"[", IF pc = "right side" THEN "cast" ELSE "["}
        /\ Fails
  /\ Reads(tok)

\* parse_array; a comma may come before the closing bracket.
ParseArray(tok) ==
  /\ \/ /\ pc = "array value" /\ tok \in Values
        /\ AddValue(tok)
        /\ pc' = "comma"
        /\ UNCHANGED <<stack, child>>
     \/ /\ pc = "comma" /\ tok = ","
        /\ pc' = "array value"
        /\ UNCHANGED <<elements, stack, child>>
     \/ /\ pc \in {"array value", "comma"} /\ tok = "]"
        /\ pc' = "semicolon"
        /\ UNCHANGED <<elements, stack, child>>
     \/ /\ \/ pc = "array value" /\ tok \notin Values \cup {"]"}
           \/ pc = "comma" /\ tok \notin {",", "]"}
        /\ Fails
  /\ Reads(tok)

ParseSemicolon(tok) ==
  /\ pc = "semicolon"
  /\ IF tok = ";"
     THEN /\ elements' = AddChild(elements, child, Last(stack))
          /\ child' = 0
          /\ pc' = "container"
          /\ UNCHANGED stack
     ELSE Fails
  /\ Reads(tok)

\* config_alloc: an empty configuration without a file.
Alloc ==
  /\ consumed = <<>> /\ pc = "container"
  /\ consumed' = <<"eof">>
  /\ pc' = "done"
  /\ UNCHANGED <<elements, stack, child, sets>>

-----------------------------------------------------------------------------
\* The first child of that name, or 0.
Child(es, e, name) == SelectInSeq(es, LAMBDA c : c.parent = e /\ c.name = name)

\* The element a path of names leads to, each found in the one before it, or 0.
Walk(es, path) ==
  FoldLeft(LAMBDA e, name : IF e = 0 THEN 0 ELSE Child(es, e, name), 1, path)

\* find_key: the last name is also looked for in what contains the rest of the path,
\* from the inside out.
FindKey(es, path, inherit) ==
  LET Inherited[e \in 0 .. Len(es)] ==
        IF e = 0 THEN 0
        ELSE IF Child(es, e, Last(path)) # 0 THEN Child(es, e, Last(path))
        ELSE IF inherit THEN Inherited[es[e].parent] ELSE 0
  IN Inherited[Walk(es, Front(path))]

\* config_get_str and its like, with and without an array: the values a key stands
\* for, none if there is no such key.
Get(es, path) ==
  LET e == FindKey(es, path, TRUE)
  IN IF e = 0 \/ es[e].type # "array" \/ es[e].values = <<>> THEN <<>> ELSE es[e].values

\* create_key: what the path lacks is made, containers but for the last.
CreateKey(path) ==
  LET Make(t, n) ==
        LET c == Child(t.es, t.at, path[n])
        IN IF c # 0 THEN [es |-> t.es, at |-> c]
           ELSE [es |-> Append(t.es, [NewElement(path[n]) EXCEPT
                                        !.parent = t.at,
                                        !.type = IF n = Len(path) THEN "array" ELSE "container"]),
                 at |-> Len(t.es) + 1]
  IN FoldLeft(Make, [es |-> elements, at |-> 1], [n \in 1 .. Len(path) |-> n])

\* Mutant of Inherits: a value that is inherited is changed where it is.
Inherits_Found == TRUE
\* set_value looks for the key itself, not for what it inherits.
Inherits == FALSE

\* set_value; the first of an array's values is replaced.
Set(path, v) ==
  LET found == FindKey(elements, path, Inherits)
      made  == IF found # 0 THEN [es |-> elements, at |-> found] ELSE CreateKey(path)
      old   == made.es[made.at].values
      refused == found # 0 /\ elements[found].type # "array"
  IN /\ pc = "done" /\ Len(sets) < MaxSets
     /\ sets' = Append(sets, [key |-> path, value |-> v, done |-> ~refused])
     /\ IF refused
        THEN UNCHANGED elements
        ELSE elements' = [made.es EXCEPT ![made.at].values =
                            IF old = <<>> THEN <<v>> ELSE [old EXCEPT ![1] = v]]
     /\ UNCHANGED <<stack, child, pc, consumed>>

Init ==
  /\ elements = <<NewElement(None)>>
  /\ stack = <<1>>
  /\ child = 0
  /\ pc = "container"
  /\ consumed = <<>>
  /\ sets = <<>>

Paths == {<<n>> : n \in Names} \cup (Names \X Names)

Next ==
  \/ \E tok \in Tokens :
       /\ ParseContainer(tok) \/ ParseRightSide(tok) \/ ParseArray(tok) \/ ParseSemicolon(tok)
       /\ UNCHANGED sets
  \/ Alloc
  \/ \E path \in Paths, v \in Quoted : Set(path, v)

-----------------------------------------------------------------------------
\* What an element says in a file, brackets and commas left out.
Text(es) ==
  LET T[e \in 1 .. Len(es)] ==
        IF es[e].type = "array"
        THEN <<es[e].name, "=">> \o es[e].values \o <<";">>
        ELSE LET inside == FlattenSeq([c \in 1 .. Len(es) |->
                                         IF c > e /\ es[c].parent = e THEN T[c] ELSE <<>>])
             IN IF e = 1 THEN inside ELSE <<es[e].name, "{">> \o inside \o <<"}">>
  IN T[1]

\* The tree that was parsed says what the file says: every value of every key, in
\* the file's order, inside the containers that are open there and no other.
TreeIsText ==
  pc = "done" /\ sets = <<>> =>
    Text(elements) =
      SelectSeq(consumed, LAMBDA tok : tok \notin {"[", "]", ",", "cast", "eof"})

\* A value that was set is read back, whatever lies on the way to its key and whatever
\* it inherited before, and every other key that is there keeps its values; only a
\* container is not made a value.
SetIsSeen ==
  [][ sets' # sets =>
        LET set == Last(sets')
        IN /\ IF set.done
              THEN Get(elements', set.key)[1] = set.value
              ELSE /\ Walk(elements, set.key) # 0
                   /\ elements[Walk(elements, set.key)].type = "container"
                   /\ UNCHANGED elements
           /\ \A other \in Paths \ {set.key} :
                Walk(elements, other) # 0 => Get(elements', other) = Get(elements, other)
    ]_vars

-----------------------------------------------------------------------------
(* Tokens: get_ch_file, unget_ch and get_token.  Characters are            *)
(* represented by one of each kind the code tells apart; get_ch_file turns *)
(* every white space, and with it a comment up to the end of its line,     *)
(* into a space.                                                           *)

\* A letter stands for what may be in an identifier, a semicolon for the tokens of
\* one character, "?" for any other character that can be printed.
Chars == {"a", ";", "quote", "\\", "(", ")", " ", "?", "unprintable", "eof"}

GetCh(ch) ==
  IF extra # None THEN ch = extra ELSE ch \in Chars

\* Mutant of Ends: the escape is not looked at.
Ends_Unescaped(ch) ==
  CASE tokType = "identifier" -> ch # "a"
    [] tokType = "string"     -> ch = "quote"
    [] tokType = "cast"       -> ch = ")"
\* Whether ch ends the token that is being read.  A cast has no escape character, 0,
\* which is also what stands for the character before its first one.
Ends(ch) ==
  CASE tokType = "identifier" -> ch # "a"
    [] tokType = "string"     -> ch = "quote" /\ prev # "\\"
    [] tokType = "cast"       -> ch = ")" /\ prev # None

TokenFails(ch) ==
  /\ tokenPc' = "error"
  /\ raw' = Append(raw, ch)
  /\ UNCHANGED <<tokType, str, prev>>

Skip ==
  /\ tokenPc = "skip"
  /\ GetCh(" ")
  /\ extra' = None
  /\ UNCHANGED <<tokenPc, tokType, str, prev, raw>>

\* The first character of a token.
Begin(ch) ==
  /\ tokenPc = "skip"
  /\ ch # " " /\ GetCh(ch)
  /\ extra' = None
  /\ \/ /\ ch \in {"unprintable", "?", "\\", ")"}
        /\ TokenFails(ch)
     \/ /\ ch \in {"eof", ";"}
        /\ tokenPc' = "done"
        /\ tokType' = IF ch = "eof" THEN "end" ELSE "single"
        /\ str' = <<ch>>
        /\ raw' = <<ch>>
        /\ UNCHANGED prev
     \/ /\ ch \in {"a", "quote", "("}
        /\ tokenPc' = "text"
        /\ tokType' = CASE ch = "a" -> "identifier" [] ch = "quote" -> "string" [] ch = "(" -> "cast"
        /\ str' = IF ch = "a" THEN <<ch>> ELSE <<>>
        /\ prev' = None
        /\ raw' = <<ch>>

\* Mutant of PutBack: the character after an identifier is taken for white space.
PutBack_Not(ch) == None
\* What ended an identifier is read again, but for the end of the file.
PutBack(ch) == IF ch # "eof" THEN ch ELSE None

\* Mutant of Full: the terminating zero is forgotten.
Full_Late(s) == Len(s) > BufferSize
Full(s) == Len(s) >= BufferSize

\* Any further character.  One that cannot be printed ends an identifier and is an
\* error there; in a string or a cast it is stored.
Continue(ch) ==
  /\ tokenPc = "text"
  /\ GetCh(ch)
  /\ raw' = Append(raw, ch)
  /\ \/ /\ Ends(ch)
        /\ tokenPc' = "done"
        /\ extra' = IF tokType = "identifier" THEN PutBack(ch) ELSE None
        /\ UNCHANGED <<tokType, str, prev>>
     \/ /\ ~Ends(ch) /\ ch = "eof"
        /\ tokenPc' = "error"
        /\ extra' = None
        /\ UNCHANGED <<tokType, str, prev>>
     \/ /\ ~Ends(ch) /\ ch # "eof"
        /\ extra' = None
        /\ prev' = ch
        /\ str' = Append(str, ch)
        /\ tokenPc' = IF Full(str') THEN "error" ELSE "text"
        /\ UNCHANGED tokType

\* The parser asks for the next token unless the file or the parse is over.
NextToken ==
  /\ tokenPc = "done" /\ tokType # "end"
  /\ tokenPc' = "skip"
  /\ str' = <<>>
  /\ raw' = <<>>
  /\ tokType' = "none"
  /\ prev' = None
  /\ UNCHANGED extra

TokenInit ==
  /\ extra = None
  /\ tokenPc = "skip"
  /\ tokType = "none"
  /\ str = <<>>
  /\ prev = None
  /\ raw = <<>>

TokenNext == Skip \/ NextToken \/ \E ch \in Chars : Begin(ch) \/ Continue(ch)

-----------------------------------------------------------------------------
Escaped(s, i) == i > 1 /\ s[i - 1] = "\\"

\* A token is as long as it can be and no longer, whatever stands around it: an
\* identifier up to the first character that cannot be part of it, which is read
\* again; a string to the first quote that no backslash precedes; a cast to the first
\* closing parenthesis (after its first character).  With the zero at its end it fits
\* the buffer.
TokensAreWhole ==
  tokenPc = "done" =>
    /\ Len(str) < BufferSize
    /\ tokType = "identifier" =>
         /\ raw = Append(str, Last(raw)) /\ Last(raw) # "a"
         /\ \A i \in 1 .. Len(str) : str[i] = "a"
         /\ extra = (IF Last(raw) = "eof" THEN None ELSE Last(raw))
    /\ tokType = "string" =>
         /\ raw = <<"quote">> \o str \o <<"quote">> /\ extra = None
         /\ \A i \in 1 .. Len(str) : str[i] = "quote" => Escaped(str, i)
         /\ str # <<>> => Last(str) # "\\"
    /\ tokType = "cast" =>
         /\ raw = <<"(">> \o str \o <<")">> /\ extra = None
         /\ \A i \in 2 .. Len(str) : str[i] # ")"
=============================================================================
