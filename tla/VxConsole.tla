------------------------------ MODULE VxConsole ------------------------------
(***************************************************************************)
(* The console in a corner of a window (src/src/vx/vx_console.c): a line   *)
(* typed by the thread that dispatches events, the last lines printed by   *)
(* it or by the program's own thread, and the commands that UP and DOWN    *)
(* bring back.  What is shown is composed, appended to a buffer and        *)
(* swapped, by a program's print outside the console's mutex.              *)
(***************************************************************************)
EXTENDS Integers, Sequences, FiniteSets, SequencesExt

CONSTANTS
  Letters, Space, \* the keys that type
  NoCharacter,  \* the low byte of a key that is none, as SHIFT's
  MaxLength,    \* bound on the typed line
  MaxLines,     \* VX_CONSOLE_MAX_LINES
  HistorySize,  \* VX_CONSOLE_COMMAND_HISTORY_SIZE
  Entered,      \* commands that may have been entered before the first key
  MaxKeys,      \* bound on the keys pressed, before a print of the program meets one
  MaxPrints     \* bound on the program's prints

Keys == "keys"        \* the thread that dispatches events
Program == "program"
Threads == {Keys, Program}
Nobody == "nobody"

VARIABLES
  focus,     \* has_keyboard_focus
  command,   \* the line being typed
  history,   \* the lines shown
  commands,  \* command_history
  selected,  \* selected_cmd
  mutex,     \* who holds the mutex
  pc,        \* what each thread is at
  picture,   \* the picture each thread has composed
  back,      \* pictures appended to the buffer since the last swap
  shown,     \* the picture on the screen
  recalled,  \* history: the line typed is as it was recalled
  crashed,   \* "down" or "tab": an index was out of range, an assertion failed
  raced,     \* history: the program drew while a key was handled
  keys, prints  \* numbers of keys and of the program's prints

typed == <<focus, command, history, commands, selected, recalled, crashed>>
vars == <<typed, mutex, pc, picture, back, shown, raced, keys, prints>>

-----------------------------------------------------------------------------
(* What a key does to the line and the histories. *)

Added(list, max, line) == Append(IF Len(list) = max THEN Tail(list) ELSE list, line)

Shift == "shift and colon"
KeyCodes == {Shift, "escape", "tab", "enter", "backspace", "up", "down"} \cup Letters \cup {Space, NoCharacter}

Escape ==
  /\ command' = <<>> /\ focus' = FALSE /\ selected' = -1 /\ recalled' = FALSE
  /\ UNCHANGED <<history, commands, crashed>>

\* Mutant of Overlap: the shortest overlap.
Overlap_Shortest(hay, needle) ==
  LET max == IF Len(needle) > Len(hay) THEN Len(hay) ELSE Len(needle)
      ks  == {k \in 1 .. max : SubSeq(hay, Len(hay) - k + 1, Len(hay)) = SubSeq(needle, 1, k)}
  IN IF ks = {} THEN 0 ELSE CHOOSE k \in ks : \A j \in ks : k <= j
\* str_tail_overlap_indexof: how much of the completion has been typed.  Without any
\* overlap it finds the empty one only if the completion is longer than the line.
Overlap(hay, needle) ==
  LET max == IF Len(needle) > Len(hay) THEN Len(hay) ELSE Len(needle)
      ks  == {k \in 0 .. max :
                /\ max - k < Len(needle)
                /\ SubSeq(hay, Len(hay) - k + 1, Len(hay)) = SubSeq(needle, 1, k)}
  IN IF ks = {} THEN -1 ELSE CHOOSE k \in ks : \A j \in ks : k >= j

\* Where the last token begins.
TokenAt(line) ==
  LET spaces == {i \in 1 .. Len(line) : line[i] = Space}
  IN IF spaces = {} THEN 1 ELSE 1 + CHOOSE i \in spaces : \A j \in spaces : j <= i

\* console_tab completes the last token.
Completions(line) ==
  {c \in UNION {[1 .. n -> Letters] : n \in 1 .. 2} :
     IsPrefix(SubSeq(line, TokenAt(line), Len(line)), c)}

\* handle_tab_completions: an assertion fails where no overlap is found.  Several
\* completions, or none, are one line, printed under the mutex, which is recursive.
Complete(c) ==
  LET n == Overlap(command, c)
  IN IF n < 0
     THEN crashed' = "tab" /\ UNCHANGED <<command, recalled>>
     ELSE /\ Len(command) + Len(c) - n <= MaxLength
          /\ command' = SubSeq(command, 1, Len(command) - n) \o c
          /\ recalled' = (recalled /\ command' = command)
          /\ UNCHANGED crashed

Tab ==
  /\ \/ \E c \in Completions(command) : Complete(c) /\ UNCHANGED history
     \/ /\ history' = Added(history, MaxLines, <<"completions">>)
        /\ UNCHANGED <<command, recalled, crashed>>
  /\ UNCHANGED <<focus, commands, selected>>

\* add_command_to_history; the command may print before the focus is gone.
Enter ==
  /\ \E says \in {<<>>, << <<"answer">> >>} :
       history' = LET echoed == Added(history, MaxLines, command)
                  IN IF says = <<>> THEN echoed ELSE Added(echoed, MaxLines, says[1])
  /\ commands' = Added(commands, HistorySize, command)
  /\ focus' = FALSE /\ selected' = -1 /\ command' = <<>> /\ recalled' = FALSE
  /\ UNCHANGED crashed

Backspace ==
  /\ command' = IF command = <<>> THEN <<>> ELSE Front(command)
  /\ recalled' = FALSE
  /\ UNCHANGED <<focus, history, commands, selected, crashed>>

\* Mutant of Recall: from the oldest on.
Recall_Oldest(n) == commands[n + 1]
Recall(n) == commands[Len(commands) - n]

Up ==
  /\ selected' = selected + 1
  /\ IF selected + 1 < Len(commands)
     THEN command' = Recall(selected + 1) /\ recalled' = TRUE
     ELSE UNCHANGED <<command, recalled>>
  /\ UNCHANGED <<focus, history, commands, crashed>>

\* Mutant of Below: DOWN goes on below the newest command.
Below_Counts == selected - 1
\* The selection after DOWN at the newest command.
Below == -1

\* Beyond the oldest command UP goes on counting, and DOWN then reads before the first.
Down ==
  /\ CASE selected - 1 < 0 ->
            selected' = Below /\ command' = <<>> /\ recalled' = FALSE /\ UNCHANGED crashed
       [] selected - 1 >= Len(commands) ->
            /\ selected' = selected - 1 /\ crashed' = "down"
            /\ UNCHANGED <<command, recalled>>
       [] OTHER ->
            /\ selected' = selected - 1 /\ command' = Recall(selected - 1)
            /\ recalled' = TRUE /\ UNCHANGED crashed
  /\ UNCHANGED <<focus, history, commands>>

\* Keys that are no characters are appended like any other.
Type(letter) ==
  /\ Len(command) < MaxLength
  /\ command' = Append(command, letter) /\ recalled' = FALSE
  /\ UNCHANGED <<focus, history, commands, selected, crashed>>

Handled(key) ==
  IF ~focus
  THEN /\ key = Shift
       /\ focus' = TRUE
       /\ UNCHANGED <<command, history, commands, selected, recalled, crashed>>
  ELSE \/ key = "escape" /\ Escape
       \/ key = "tab" /\ Tab
       \/ key = "enter" /\ Enter
       \/ key = "backspace" /\ Backspace
       \/ key = "up" /\ Up
       \/ key = "down" /\ Down
       \/ key \in Letters \cup {Space, NoCharacter} /\ Type(key)

-----------------------------------------------------------------------------
(* The two threads. *)

\* draw_console: the lines, and what is being typed.
Picture == [lines |-> history, line |-> IF focus THEN <<command>> ELSE <<>>]

\* Other keys pass through to the other handlers: nothing happens here.
\* What is drawn is composed under the same mutex.
PressKey(key) ==
  /\ pc[Keys] = "idle" /\ mutex = Nobody /\ crashed = "no" /\ ~raced
  /\ keys < MaxKeys /\ keys' = keys + 1
  /\ Handled(key)
  /\ picture' = [picture EXCEPT ![Keys] = Picture']
  /\ mutex' = Keys
  /\ pc' = [pc EXCEPT ![Keys] = "add"]
  /\ raced' = (pc[Program] # "idle")
  /\ UNCHANGED <<back, shown, prints>>

\* vx_console_print on the program's thread: the line under the mutex ...
ConsolePrint ==
  /\ pc[Program] = "idle" /\ mutex = Nobody /\ crashed = "no"
  /\ prints < MaxPrints /\ prints' = prints + 1
  /\ history' = Added(history, MaxLines, <<"print">>)
  /\ pc' = [pc EXCEPT ![Program] = "draw"]
  /\ UNCHANGED <<focus, command, commands, selected, recalled, crashed, mutex, picture, back,
                 shown, raced, keys>>

\* ... what is drawn after it ...
Compose ==
  /\ pc[Program] = "draw" /\ crashed = "no"
  /\ picture' = [picture EXCEPT ![Program] = Picture]
  /\ pc' = [pc EXCEPT ![Program] = "add"]
  /\ raced' = (raced \/ pc[Keys] # "idle")
  /\ UNCHANGED <<typed, mutex, back, shown, keys, prints>>

\* ... to the buffer, which its mutex guards ...
AddBack(t) ==
  /\ pc[t] = "add"
  /\ back' = Append(back, picture[t])
  /\ pc' = [pc EXCEPT ![t] = "swap"]
  /\ UNCHANGED <<typed, mutex, picture, shown, raced, keys, prints>>

\* Mutant of Left: the back stays what it was.
Left_Behind == back
\* What a swap leaves of the back.
Left == <<>>

\* ... and on to the screen.
Swap(t) ==
  /\ pc[t] = "swap"
  /\ shown' = back
  /\ back' = Left
  /\ pc' = [pc EXCEPT ![t] = "idle"]
  /\ mutex' = IF t = Keys THEN Nobody ELSE mutex
  /\ UNCHANGED <<typed, picture, raced, keys, prints>>

Init ==
  /\ focus = FALSE /\ command = <<>> /\ selected = -1
  /\ commands \in Entered
  /\ history = FoldLeft(LAMBDA list, line : Added(list, MaxLines, line), <<>>, commands)
  /\ mutex = Nobody /\ pc = [t \in Threads |-> "idle"]
  /\ picture = [t \in Threads |-> [lines |-> <<>>, line |-> <<>>]]
  /\ back = <<>> /\ shown = << [lines |-> history, line |-> <<>>] >>
  /\ recalled = FALSE /\ crashed = "no" /\ raced = FALSE /\ keys = 0 /\ prints = 0

Next ==
  \/ \E key \in KeyCodes : PressKey(key)
  \/ ConsolePrint
  \/ Compose
  \/ \E t \in Threads : crashed = "no" /\ (AddBack(t) \/ Swap(t))

Spec == Init /\ [][Next]_vars

-----------------------------------------------------------------------------
\* When nothing is being drawn the screen shows one picture, of the console as it is,
\* unless a print of the program's own thread met a key.
ShowsConsole ==
  (~raced /\ \A t \in Threads : pc[t] = "idle") => shown = <<Picture>>

\* UP and DOWN bring back the command that was entered so many commands ago, for as long
\* as the line is not edited.
RecallsEntered ==
  /\ selected >= -1
  /\ recalled /\ selected < Len(commands) =>
       selected >= 0 /\ command = commands[Len(commands) - selected]

\* The console aborts only on DOWN after UP was pressed beyond the oldest command, and on
\* TAB after a space where the completion has nothing in common with the line.
AbortsOnlyThere ==
  /\ crashed = "down" => selected >= Len(commands)
  /\ crashed = "tab" => Last(command) = Space

\* A completion takes the place of the last token, whatever else is on the line.
CompletesToken ==
  [][PressKey("tab") /\ command' # command =>
       \E c \in Completions(command) :
         command' = SubSeq(command, 1, TokenAt(command) - 1) \o c]_vars
=============================================================================
