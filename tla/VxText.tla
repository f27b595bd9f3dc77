------------------------------- MODULE VxText -------------------------------
(***************************************************************************)
(* A text with markup in <<double brackets>> becomes an object of vx:      *)
(* src/src/vx/vxo_text.c.  The text is a sequence of characters, line ends *)
(* "nl", brackets, and the options between them.                           *)
(*                                                                         *)
(* Lengths are counted in halves of NativePoints, so that a text of any    *)
(* size and the middle between two places have whole ones.                 *)
(***************************************************************************)
EXTENDS Integers, Sequences, FiniteSets, SequencesExt

CONSTANTS
  Texts,        \* that are given
  Anchors,      \* [h, v, round]
  Effect,       \* option -> what it sets, of [font, size, colour, justification]
  Code,         \* character -> its number in the fonts' images; " " has one
  LastCharacter, \* the one of ascii_max
  Advance, Width,   \* font -> number -> advances, widths
  TileHeight,   \* font -> tile_height
  TileWidth, TileDim,   \* of an image: a tile's width, tiles in a row
  NativePoints  \* the size the fonts' images have

VARIABLES
  text, anchor,
  style,        \* font, font_size, rgba, justification
  lines,        \* sequence of [justification, fragments]
  pc, lineNo, pos,   \* the loops over lines and over a line
  fragNo, x, y,      \* fragidx, and where the next fragment goes
  drawn         \* the chain: sequence of [at, scale, fragment, vertices]

vars == <<text, anchor, style, lines, pc, lineNo, pos, fragNo, x, y, drawn>>

First == [font |-> "monospaced", size |-> 18, colour |-> "black", justification |-> "left"]

\* str_split: what is between the line ends, but for what is empty.
Split(s) ==
  LET ends == SetToSortSeq({i \in 1 .. Len(s) : s[i] = "nl"}, <)
      from(k) == IF k = 1 THEN 1 ELSE ends[k - 1] + 1
      upto(k) == IF k > Len(ends) THEN Len(s) ELSE ends[k] - 1
      parts == [k \in 1 .. Len(ends) + 1 |-> SubSeq(s, from(k), upto(k))] IN
  SelectSeq(parts, LAMBDA part : part # <<>>)

\* str_indexof, from pos on; 0 if nowhere.
IndexOf(s, from, needle) ==
  LET at == {i \in from .. Len(s) : s[i] = needle} IN
  IF at = {} THEN 0 ELSE CHOOSE i \in at : \A j \in at : i <= j

Current == Split(text)[lineNo]

StartLine ==
  /\ pc = "parse" /\ lineNo <= Len(Split(text)) /\ Len(lines) < lineNo
  /\ lines' = Append(lines, [justification |-> style.justification, fragments |-> <<>>])
  /\ pos' = 1
  /\ UNCHANGED <<text, anchor, style, pc, lineNo, fragNo, x, y, drawn>>

InLine == pc = "parse" /\ Len(lines) = lineNo /\ pos <= Len(Current) /\ pos > 0

\* A format begins here and has an end.
AtFormat == IndexOf(Current, pos, "<<") = pos /\ IndexOf(Current, pos, ">>") # 0

\* Text up to where a format begins, or to the end of the line.
AddFragment ==
  /\ InLine /\ ~AtFormat
  /\ LET next == IndexOf(Current, pos, "<<")
         s == SubSeq(Current, pos, IF next = 0 THEN Len(Current) ELSE next - 1) IN
     /\ lines' = [lines EXCEPT ![lineNo].fragments =
                    Append(@, [s |-> s, font |-> style.font, size |-> style.size,
                               colour |-> style.colour])]
     /\ pos' = next
  /\ UNCHANGED <<text, anchor, style, pc, lineNo, fragNo, x, y, drawn>>

Overlaid(old, new) == [f \in DOMAIN old |-> IF f \in DOMAIN new THEN new[f] ELSE old[f]]

\* Mutant of After: an option undoes those before it.
After_FromFirst(options) ==
  IF options = <<>> THEN style
  ELSE IF Last(options) \in DOMAIN Effect THEN Overlaid(First, Effect[Last(options)]) ELSE First

\* The style after a format's options; an unknown one changes nothing.
After(options) ==
  LET f[k \in 0 .. Len(options)] ==
        IF k = 0 THEN style
        ELSE IF options[k] \in DOMAIN Effect THEN Overlaid(f[k - 1], Effect[options[k]])
        ELSE f[k - 1]
  IN f[Len(options)]

\* Mutant of Realign: justification counts from the next line on.
Realign_Next(options) == lines[lineNo].justification

\* A format that justifies also justifies the line it is in.
Realign(options) ==
  IF \E i \in DOMAIN options : options[i] \in DOMAIN Effect
                               /\ "justification" \in DOMAIN Effect[options[i]]
  THEN After(options).justification ELSE lines[lineNo].justification

ReadFormat ==
  /\ InLine /\ AtFormat
  /\ LET end == IndexOf(Current, pos, ">>")
         options == SubSeq(Current, pos + 1, end - 1) IN
     /\ style' = After(options)
     /\ lines' = [lines EXCEPT ![lineNo].justification = Realign(options)]
     /\ pos' = end + 1
  /\ UNCHANGED <<text, anchor, pc, lineNo, fragNo, x, y, drawn>>

EndLine ==
  /\ pc = "parse" /\ Len(lines) = lineNo /\ ~InLine
  /\ lineNo' = lineNo + 1
  /\ UNCHANGED <<text, anchor, style, lines, pc, pos, fragNo, x, y, drawn>>

-----------------------------------------------------------------------------
(* Lengths.                                                                *)

Number(c) == IF c \in DOMAIN Code THEN Code[c] ELSE Code[" "]
\* Measuring takes the last character for a blank, though it is drawn.
Measured(c) == IF c = LastCharacter THEN Code[" "] ELSE Number(c)

SumTo(f, n) == FoldFunctionOnSet(+, 0, f, 1 .. n)
Greatest(f) == IF f = <<>> THEN 0 ELSE Max(Range(f))

\* Mutant of TextWidth: the last character counts with its advance.
TextWidth_Advances(font, s) ==
  SumTo([i \in 1 .. Len(s) |-> Advance[font][Measured(s[i])]], Len(s))

\* vxo_text_font_get_width: the last character counts with its own width.
TextWidth(font, s) ==
  SumTo([i \in 1 .. Len(s) |-> IF i < Len(s) THEN Advance[font][Measured(s[i])]
                               ELSE Width[font][Measured(s[i])]], Len(s))

FragmentWidth(fragment) == 2 * TextWidth(fragment.font, fragment.s) * fragment.size
FragmentHeight(fragment) == 2 * TileHeight[fragment.font] * fragment.size

LineWidth(line) ==
  SumTo([i \in DOMAIN line.fragments |-> FragmentWidth(line.fragments[i])],
        Len(line.fragments))
LineHeight(line) ==
  Greatest([i \in DOMAIN line.fragments |-> FragmentHeight(line.fragments[i])])

TotalWidth == Greatest([i \in DOMAIN lines |-> LineWidth(lines[i])])
TotalHeight == SumTo([i \in DOMAIN lines |-> LineHeight(lines[i])], Len(lines))

\* round, of a length that is not positive.
Whole(v) ==
  LET pixel == 2 * NativePoints IN
  IF anchor.round THEN -(((-2 * v + pixel) \div (2 * pixel)) * pixel) ELSE v

AnchorX == CASE anchor.h = "left" -> 0
             [] anchor.h = "right" -> Whole(-TotalWidth)
             [] anchor.h = "center" -> Whole(-(TotalWidth \div 2))

AnchorY == CASE anchor.v = "top" -> Whole(-TotalHeight)
             [] anchor.v = "bottom" -> 0
             [] anchor.v = "center" -> Whole(-(TotalHeight \div 2))

-----------------------------------------------------------------------------
(* Drawing.                                                                *)

StartDrawing ==
  /\ pc = "parse" /\ lineNo > Len(Split(text))
  /\ pc' = "draw"
  /\ lineNo' = 0 /\ fragNo' = 1
  /\ y' = TotalHeight
  /\ UNCHANGED <<text, anchor, style, lines, pos, x, drawn>>

OnLine == lineNo > 0 /\ fragNo <= Len(lines[lineNo].fragments)

NextLine ==
  /\ pc = "draw" /\ ~OnLine
  /\ IF lineNo = Len(lines) THEN pc' = "done" /\ UNCHANGED <<lineNo, fragNo, x, y>>
     ELSE LET line == lines[lineNo + 1]
              free == TotalWidth - LineWidth(line) IN
          /\ lineNo' = lineNo + 1 /\ fragNo' = 1
          /\ x' = CASE line.justification = "left" -> 0
                    [] line.justification = "right" -> free
                    [] line.justification = "center" -> free \div 2
          /\ y' = y - LineHeight(line)
          /\ UNCHANGED pc
  /\ UNCHANGED <<text, anchor, style, lines, pos, drawn>>

\* Two triangles per character: where on the line, and where in the font's image.
Vertices(fragment) ==
  LET s == fragment.s
      font == fragment.font
      height == TileHeight[font]
      Quad(i) ==
        LET n == Number(s[i])
            left == SumTo([j \in 1 .. i - 1 |-> Advance[font][Number(s[j])]], i - 1)
            width == Width[font][n]
            tileX == (n % TileDim) * TileWidth
            tileY == (n \div TileDim) * height
            Corner(dx, dy) == [at |-> <<left + dx * width, dy * height>>,
                               tex |-> <<tileX + dx * width, tileY + (1 - dy) * height>>] IN
        <<Corner(0, 0), Corner(1, 0), Corner(0, 1), Corner(0, 1), Corner(1, 1), Corner(1, 0)>>
  IN FlattenSeq([i \in 1 .. Len(s) |-> Quad(i)])

DrawFragment ==
  /\ pc = "draw" /\ OnLine
  /\ LET fragment == lines[lineNo].fragments[fragNo] IN
     /\ drawn' = Append(drawn, [at |-> <<AnchorX + x, AnchorY + y>>, scale |-> fragment.size,
                                fragment |-> fragment, vertices |-> Vertices(fragment)])
     /\ x' = x + FragmentWidth(fragment)
  /\ fragNo' = fragNo + 1
  /\ UNCHANGED <<text, anchor, style, lines, pc, lineNo, pos, y>>

Init ==
  /\ text \in Texts /\ anchor \in Anchors
  /\ style = First
  /\ lines = <<>> /\ pc = "parse" /\ lineNo = 1 /\ pos = 1
  /\ fragNo = 1 /\ x = 0 /\ y = 0
  /\ drawn = <<>>

Next ==
  \/ StartLine \/ AddFragment \/ ReadFormat \/ EndLine
  \/ StartDrawing \/ NextLine \/ DrawFragment

Spec == Init /\ [][Next]_vars

-----------------------------------------------------------------------------
(* What the text says, read from its start.                                *)

InFormat(i) ==
  \E j \in 1 .. i : text[j] = "<<" /\ \A k \in j .. i - 1 : text[k] # ">>"
Options(i) == {j \in 1 .. i : InFormat(j) /\ text[j] \in DOMAIN Effect}

\* What a property of the style is at a place of the text.
Asked(f, i) ==
  LET sets == {j \in Options(i) : f \in DOMAIN Effect[text[j]]} IN
  IF sets = {} THEN First[f] ELSE Effect[text[Max(sets)]][f]

Characters == SetToSortSeq({i \in 1 .. Len(text) : ~InFormat(i) /\ text[i] # "nl"}, <)

\* The characters drawn, in their order.
Shown ==
  FlattenSeq([k \in DOMAIN drawn |->
    [i \in DOMAIN drawn[k].fragment.s |->
       [c |-> drawn[k].fragment.s[i], font |-> drawn[k].fragment.font,
        colour |-> drawn[k].fragment.colour, size |-> drawn[k].scale, y |-> drawn[k].at[2]]]])

\* Every character comes out, in its order and as the options before it say, and on the
\* line of its neighbour unless the text ends a line between them (vxo_text_create).
ReadsAsWritten ==
  pc = "done" =>
    /\ Len(Shown) = Len(Characters)
    /\ \A k \in DOMAIN Characters :
         /\ Shown[k].c = text[Characters[k]]
         /\ \A f \in {"font", "size", "colour"} : Shown[k][f] = Asked(f, Characters[k])
         /\ k > 1 => (Shown[k].y = Shown[k - 1].y)
                       = (\A i \in Characters[k - 1] .. Characters[k] : text[i] # "nl")

Left(d) == d.at[1]
Right(d) == d.at[1] + FragmentWidth(d.fragment)
\* The place after a line of the text.
LineEnd(i) == Min({j \in i .. Len(text) + 1 : j = Len(text) + 1 \/ text[j] = "nl"})

\* Fragments of a line follow each other without gap or overlap, lines lie on top of each
\* other and are justified as they last ask, and the box of all of them touches its
\* anchor, to the pixel if it is rounded (vxo_text_create).
LaidOut ==
  pc = "done" /\ drawn # <<>> =>
    LET Row(k) == {j \in DOMAIN drawn : drawn[j].at[2] = drawn[k].at[2]}
        high(k) == Max({FragmentHeight(drawn[j].fragment) : j \in Row(k)})
        left == Min({Left(drawn[j]) : j \in DOMAIN drawn})
        right == Max({Right(drawn[j]) : j \in DOMAIN drawn})
        bottom == Min({drawn[j].at[2] : j \in DOMAIN drawn})
        top == Max({drawn[j].at[2] + high(j) : j \in DOMAIN drawn})
        slack == IF anchor.round THEN NativePoints ELSE 0
        Before(k) == SumTo([j \in 1 .. k |-> Len(drawn[j].fragment.s)], k)
        justified(k) == Asked("justification", LineEnd(Characters[Before(k)]) - 1) IN
    /\ \A k \in 2 .. Len(drawn) :
         IF k - 1 \in Row(k) THEN Left(drawn[k]) = Right(drawn[k - 1])
         ELSE drawn[k].at[2] + high(k) = drawn[k - 1].at[2]
    /\ \A k \in DOMAIN drawn :
         LET rowLeft == Min({Left(drawn[j]) : j \in Row(k)})
             rowRight == Max({Right(drawn[j]) : j \in Row(k)}) IN
         CASE justified(k) = "left" -> rowLeft = left
           [] justified(k) = "right" -> rowRight = right
           [] justified(k) = "center" -> rowLeft - left = right - rowRight
    /\ CASE anchor.h = "left" -> left = 0
         [] anchor.h = "right" -> right \in -slack .. slack
         [] anchor.h = "center" -> left + right \in -2 * slack .. 2 * slack
    /\ CASE anchor.v = "bottom" -> bottom = 0
         [] anchor.v = "top" -> top \in -slack .. slack
         [] anchor.v = "center" -> bottom + top \in -2 * slack .. 2 * slack

\* The triangles of a fragment reach as far as its width says, and each corner is cut from
\* its character's own tile (vxo_text_fragment_make_program).
GlyphsFill ==
  pc = "done" => \A k \in DOMAIN drawn :
    LET d == drawn[k]
        f == d.fragment IN
    f.s # <<>> =>
      /\ 2 * d.scale * Max({d.vertices[i].at[1] : i \in DOMAIN d.vertices})
           = FragmentWidth(f)
      /\ \A i \in DOMAIN d.vertices :
           LET n == Number(f.s[(i - 1) \div 6 + 1]) IN
           /\ d.vertices[i].tex[1] \div TileWidth = n % TileDim
           /\ d.vertices[i].tex[2] = (n \div TileDim) * TileHeight[f.font]
                                      + TileHeight[f.font] - d.vertices[i].at[2]
=============================================================================
